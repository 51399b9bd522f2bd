# A TLA+ model of issueq

issueq turns GitHub issues into jobs: it polls a repository, matches issues against configured routes,
queues one job per match in SQLite, and runs the job's command in a wrapper process that outlives the
daemon. Several daemons and one-shot waves may work on one queue; daemons crash and restart, hosts are
suspended, and the queue must still run every job's command at most once and settle every job.

This directory holds a formal model of that system: TLA+ modules translated from the Go source, the
configurations TLC checks them with, and proofs for TLAPS. Paths below are relative to the repository.

## 1. Inventory

| part | source | state it keeps | operations |
|---|---|---|---|
| job store | `internal/store/sqlite`, `internal/model` | tables `jobs`, `runner_heartbeats`, `route_attempts`, `issues`, `issue_states`, `handoffs`, `gate_blocks`, `job_events` | enqueue, claim, launch protocol, renew, finalize, release, adopt, mark unknown, attempts, transitions, heartbeats, handoffs, gate blocks |
| daemon loop | `internal/daemon` | tickers, at most one poll and one reconcile goroutine and the channels between them | start, heartbeat, poll, reconcile, stop, shutdown |
| reconcile and recovery | `internal/daemon`, `internal/workflow/{adopt,observe,finalize}.go` | the local variables of one pass | observe, renew, finalize, adopt, requeue, prune, refill |
| launch workflow | `internal/workflow/{lifecycle,launch}.go` | local variables of one launch | prepare, persist spec, mark launching, launch, persist record, compensate |
| supervisor | `internal/supervisor`, `.../wrapper` | none: `/proc` and `run.json` | Launch, Inspect, Cancel |
| job wrapper | `internal/jobwrapper` | its child process, `run.json` | run the command, write metadata atomically |
| dispatcher | `internal/dispatcher` | the frontier and the active set of a wave | preflight, refill, reap/renew, cancel |
| router, poller | `internal/router`, `internal/poller` | gate blocks (in the store) | match, evaluate gates, block, enqueue |
| handoffs | `internal/handoff`, store | `handoffs` | parse, upsert, latest match |
| actions | `internal/actions`, `internal/github` | the issue on GitHub | merge and apply label/comment/close actions |
| event bridge | `actions/issue-event-bridge/bridge.mjs` | a bridged issue on GitHub | search, create or patch |
| migrations | `internal/store/sqlite/sqlite.go` | the schema | migrate, rebuild `route_attempts` |
| configuration, CLI, runner, logging | `internal/config`, `cmd/issueq`, `internal/runner`, `internal/logging` | none | pure or I/O |

How they interact. All runners share the store: one SQLite file, one connection per process, each operation
one statement or one `BEGIN IMMEDIATE` transaction. Runners never talk to each other; what they know of each
other is in the rows: the owner, the lease, the owner's heartbeat, the launch state and token. The daemon talks
to a wrapper only through its spec file, its process id with the start time as fingerprint, and its `run.json`.
The router and the final actions write to GitHub, whose `updated_at` the next poll reads back.

What is hard, and what makes each part correct:

* **job store** - callers sample the clock before their statement runs, so every operation works with a time of
  the past. Correct: a job's wrapper may start once; a row that is running is always reachable by exactly one of
  its owner, requeueing, adoption or the operator; a live owner keeps its job; limits hold under concurrent
  claims; a refund never takes another job's attempt.
* **daemons** - a pass is a long sequence of calls and reads, and everything may change between two of them:
  the owner comes back, a lease runs out, the wrapper reports and exits, the daemon dies, a call fails.
  Correct: no wrapper without a row that names it; no status that contradicts the wrapper's report; no two
  daemons starting one job; jobs of dead daemons are taken over; reported jobs are settled.
* **shutdown** - it interrupts a pass at any call, then settles jobs that other daemons adopt meanwhile; correct: a
  clean stop leaves no lease without a daemon, and no wrapper outlives its row.
* **main loop** - channels between three goroutines; correct: no request is lost, stop returns.
* **dispatcher** - a wave works through its frontier beside daemons that may take its jobs; correct: it returns, and
  leaves no lease behind.
* **router, lifecycle, actions** - GitHub is read, judged and changed in separate calls while people and other
  goroutines change it too; `updated_at` is an input and, through actions, an output; counters bound loops that run
  through labels. Correct: no command beyond `max_attempts` or past the transition limit, none without the handoff its
  gate asks for, one command per issue, no repeated comments, every match answered, and an end to it all.
* **bridge, migrations** - check-then-act without a lock; a crash between steps.

The hazards these lead to are listed, each at its line, in `PROJECT.json` ("hazards").

## 2. Modules

| module | models |
|---|---|
| `JobStore` | the queue tables; one action per store operation; `Next` is the most general client: any instance calls any operation on any row at any time |
| `JobLifecycle` | abstract specification: what the queue promises of a job, without leases, heartbeats, tokens or time |
| `JobStoreRefinement` | the refinement mapping of `JobStore` to `JobLifecycle` |
| `Supervision` | the reconcile goroutines of all daemons, the wrappers and their metadata, over `JobStore`'s operations |
| `SupervisionTime` | `Supervision` with the timing the tickers give and fairness, for liveness |
| `Shutdown` | `Supervision` with daemons that are told to stop: the interrupted pass, the rounds of shutdown, the heartbeat |
| `Wave` | `Supervision` with bounded waves (`dispatch`, `once`) beside the daemons |
| `IssueActions` | one GitHub issue and the label/comment actions on it, one step per HTTP call and renewal |
| `Routing` | the poll/route goroutine, over `IssueActions`: snapshots, handoffs, gates, blocks, dedupe keys |
| `IssueWorkflow` | the life of an issue: `Routing` with the preparation and the final actions of its jobs, and people who edit it |
| `GateHistory` | `IssueWorkflow`, unchanged, with history variables: the handoffs a worker could know at its claim, and the states of the issue since |
| `MCJobStore`, `MCSupervision`, `MCSupervisionTime`, `MCShutdown`, `MCWave`, `MCIssueWorkflow`, `MCGateHistory` | small instances for TLC |
| `JobStoreProofs` | theorems about the tables, and that they implement the abstract lifecycle |
| `SupervisionProofs`, `LaunchProofs` | theorems about the daemons: that they are clients of the store; wrappers, launches and settlements |
| `ShutdownProofs`, `WaveProofs` | the same for daemons that stop, and for waves |
| `IssueProofs`, `CommentProofs`, `CommandProofs` | theorems about the life of an issue, about its comments, and about how many commands work on it |

A definition marked "Fault" in a comment is a plausible mistake in the definition after it. No action uses
it; it is there to show that the properties can tell the two apart (`PROJECT.json`, "mutants").

### JobStore and the code

A row of `jobs` is a record with the columns the queries test: `status` ("absent" before the insert),
`runner_instance_id` (`owner`), `lease_until`, `launch_state`, `launch_token` (`token`), `pid` standing for pid,
pgid and process start time, which are written and cleared together, `attempts` and the attempt scope. The
guard of an action is the WHERE clause of its UPDATE, or the checks its transaction makes before the UPDATE.

* Times. `t` is the time the caller sampled, at most `MaxDelay` old: Go code reads `time.Now()` or is handed a
  `now`, and may then be held up before SQLite runs the statement. Textual comparison of times is chronological
  because `formatTime` has a fixed width. A heartbeat is stale after one lease, as all callers in the
  repository have it.
* Tokens. `launchToken` draws at random; a counter per job (`issued`) stands for "never drawn before".
  `launches` is a history variable: the tokens whose wrapper the store allowed to start.
* Order. `created_at`, `id` order is the order of the numbers in `Jobs`; rows are enqueued in this order. A
  dedupe key that exists already is ignored by the insert, so a row is enqueued once.
* Failing calls (`ErrNotOwner`, `ErrLostLease`, nothing to claim) change nothing and are disabled actions here;
  the callers' reaction is in `Supervision`.
* Attempts. `route_attempts` is keyed by (issue, generation, route, scope hash), a member of `Budgets`.
  `IncrementAttemptsForJob` charges, `FinalizeJobOwned` without work started refunds as `reverseAttemptTx` does.

### Supervision and the code

`daemon[i]` holds the program counter (`stage`) and the local variables of the reconcile goroutine of instance
`i`. A stage is a place between two store calls, file reads or process checks, so that anything may happen
there. One instance is one process start; a restarted daemon has a new instance id (`newRunnerIdentity`).

A pass: `BeginReconcile` (ListOwnedRunningJobs) - for each row `ReadMetadata`, then `CheckProcess`, the two
reads of `Inspect` - for each observation `ActOnObservation` (renew; for an outcome also the final actions,
then `FinalizeObservation`) - `ListStaleDurableRunningJobs` - for each row inspect, then `AdoptStale` or
`MarkStaleUnknown`, inspect again - act on the adopted - `RecoverExpiredLeases` - `PruneStaleHeartbeats` - refill:
`Claim`, `Prepare`, `PersistSpec`, `MarkLaunching`, `Launch`, `PersistRecord`, with `CancelWrapper` and `FailLaunch`
as compensation - until `NothingToClaim`.

* Losing a job (`ErrNotOwner`, `ErrLostLease`) drops it from the loop; any other error (`StoreFault`) ends the pass,
  except after a launch, which is first compensated. `MaxFaults` bounds such errors. `Inspect` itself fails only under a
  cancelled context (`wrapper.go:92`), which `Shutdown` has.
* Rows are inspected as the list query returned them, not as they are now; the inspection of adopted rows and the
  decision to adopt use the `now` sampled by the list query, as `adopt.go` does.
* Loops over jobs choose the next job freely: the code's order is by creation, so the model allows more.
* `RenewBeforeSideEffect` is the renewal before every call of `ApplyWithHooks`, during preparation and during
  the final actions; what is done to the issue is left to `IssueWorkflow`; here it takes time, may fail, may settle the
  job (`failed`, `skipped`, `dead`) and may use up the issue's transitions.
* A wrapper is a (job, token) pair in `processes`; its `run.json` is `metadata[job][token]`, written by an atomic
  rename before it exits. It may end without a report (killed, host reboot). `CancelWrapper` has two outcomes:
  SIGTERM lets the wrapper write "cancelled", SIGKILL leaves nothing.
* `timed_out` is "failed" here: `StatusForObservation` treats both alike.

### SupervisionTime and the code

The daemon heartbeats and reconciles at least four times per lease. One unit of time is one such round: it passes
when every running daemon has written a heartbeat and made a pass; nothing is assumed about the order inside a
round. Suspension of the host (`SuspendHost`) lets more than a lease pass at any moment; only `SuspendedSpec` has it.
So that time can go on for ever in finitely many states, the clock stands still and all recorded times move into
the past, down to 0. Only differences of times are compared; the assumption `TimeWindow` puts `MaxTime` above
every difference that matters.

Fairness: weak fairness of a daemon's start, heartbeat and pass steps (the Go scheduler runs goroutines of a live
process, and no call blocks for ever: SQLite has a 5 s busy timeout, the GitHub client a 30 s one, the supervisor
reads files and `/proc`), and of time. There is no fairness for wrappers, for `Enqueue`, for crashes, suspensions or faults.
At least one instance does not crash (`Mortal`): a service manager restarts a daemon, as a new instance.

A claim need not be launched or given back if a call for it fails: its owner drops it, nobody renews it, and the owner's
heartbeat, which goes on, keeps `ReleaseExpiredLeases` away. `ClaimsAreNotStuck` excepts exactly this (`GivenUp`), and
`DeadOwnersAreRelieved` says that it is over when that daemon ends; both are checked with such a failure. The same
happens to a claim whose owner is held up for longer than its lease, which `TimedSpec` excludes by its timing
(compare finding 2).

### Shutdown and the code

`stop[i]` is the main goroutine of instance `i` from the signal on, `daemon[i]` its reconcile goroutine. `Signal` cancels
the context of the pass; at the next call under that context the pass ends (`Interrupted`), except inside of a launch:
what was started is compensated under a context of its own (`FinishLaunch`, `CancelLaunch`). When the pass has ended
(`PassEnded`) the main goroutine goes through rounds: heartbeat, list the owned jobs, and for each renew, then settle it
as cancelled (never launched), or cancel its wrapper, inspect it in two reads, finalize it. A job whose renewal is
refused is not waited for; one in state `unknown`, or not over yet, makes another round necessary. A round without
such a job leads to the deletion of the heartbeat (`DeleteHeartbeatAfterCleanShutdown`). `Abandon` is the cleanup
timeout or any error: shutdown returns where it is and the heartbeat stays. The second daemon, the wrappers and the
clock go on all the while.

### Wave and the code

`wave[i]` is the loop of `RunFrontier`; the calls made for one job are the actions of `Supervision` on `daemon[i]`, whose
stage is "refill" between two jobs and "idle" after a call that failed. A round is `WaveHeartbeat`, reap (`ListActive`,
then per job `WaveInspect` and `KeepActive` or `FinalizeActive`/`EndActive`), refill (`ClaimInFrontier`,
`LaunchInFrontier`), `WakeUp`. A job leaves the active set when it is finalized, lost, or no longer listed as owned.
`CallFails` is both an error of a call and the cancelled context after a signal, which end a round alike and are not
bounded in number; `WaveError` then cancels the active jobs (`CancelActive`), without a time limit unless the signal came
while the wave slept (`GiveUpCancelling`). The daemons around have no faults of their own: those are in `Supervision`.
Time begins with the first wave and ends with the last one.

### IssueActions, Routing, IssueWorkflow and the code

There is one issue. `github` and `comments` are GitHub's side, `snapshot` the row of `issues`, `handoffs`, `blocks` and
`applied` the tables of handoffs and gate blocks, `attempts` and `transitions` the two counters, `jobs` the issue's
jobs. `thread[t]` is what one goroutine is doing: poll/route (`Routers`) or reconcile (`Workers`).

* `updated_at` is a counter that every change moves; a label request without effect does not. (GitHub's has a
  resolution of one second, so that two changes within one may go unnoticed; `MatchesAreAnswered` supposes they do not.) The text of the issue is
  one of `Bodies`, a comment a member of `Handoffs` or another text.
* `Apply` is a sequence of calls (`ActionRead`, `ActionRemove` per label, `ActionAdd`, `ActionComment`, `ActionReread`,
  `ActionStore`), with the renewals of `ApplyWithHooks` as guards: a job lost to another runner ends the action where it
  is (`ActionRefused`). `ActionFails` is an error of GitHub; the comment may have been posted all the same. `Merge` adds
  what a result file asks for; where both have a comment the code joins them, and here the result's stands for the two, as
  a route's own comment holds no handoff.
* The router walks the routes with the issue in hand, as the store had it when the walk began or as the last on_block
  action left it. `EvaluateGate` gives the first objection in the order of the code; a handoff is fresh if it
  quotes the issue's text or `updated_at`, and is about this issue (`SourceFresh`). A handoff's id is a hash of its content, so a block posted again moves only its time.
* A job is keyed by its dedupe key: route, labels, `updated_at`. It is owned by a thread, or by `Gone` when the lease of
  its owner has run out; `Requeue` and `Adopt` are what `Supervision` does in detail.
* Attempts are counted per route, or per handoff, state of the issue, pull request or check run (`AttemptScope`); the
  runs have the first two, `AttemptsAreBounded` is about all.
* Preparation: `Claim`, `RefreshClaimed`, `RouteStillMatches`, `AttemptScopeHash`, `IncrementAttemptsForJob`, on_start,
  `IncrementTransitionsForJob`, `Launch`; afterwards `FinalizeOwnedObservation` applies the merged final action, counts
  the transition and settles the job (`FinalizeJobOwned`, which refunds). `ActionDone` counts a transition only if the
  set of labels differs from the one before the action.
* Every comment carries its cause, a ghost of the model: the block, or the job and kind of action, it was posted for.
* Fairness: the routers' and workers' steps (goroutines of live daemons), the end of commands (the wrapper enforces the
  timeout) and requeueing. None for failures, losses, crashes and edits; these share the bound `MaxTroubles`.
* `troubles` counts failed calls, lost jobs and crashes, `edits` what people did. The properties that grant a job or a
  comment more for each trouble grant nothing for edits.

## 3. Runs

| run | question | bounds | result |
|---|---|---|---|
| launch | can a row be launched twice, orphaned, or taken from a live owner, with old times? does it live the abstract life? | 1 job, 2 instances, lease 1, clock to 4, times up to 1 old, 2 tokens | holds |
| capacity | do concurrent claims keep the limits, and refunds the budget, while recovery requeues? | 3 jobs with one budget, 2 of them on a route limited to 1, global limit 2, 2 instances, clock to 2, 2 attempts, no launch | holds |
| supervision | do wrappers and rows stay together when passes interleave call by call and calls fail? | 1 job, 2 daemons, lease 1, clock to 2, any delay, 2 tokens, both reports, 2 faults | holds |
| live | is a reported job settled, a claim released, a dead daemon relieved? | 1 job, 2 daemons, one mortal, lease 3, 1 failing store call | holds |
| stop | is a clean stop clean, wherever the signal comes? | 1 job, 2 daemons, one of them stopped or crashing, lease 1, clock to 2, 1 token | holds |
| wave | does a wave return, and leave nothing with a lease? | 1 job, 1 wave and 1 daemon, lease 1, clock to 2, 1 token, failing calls and a crash | holds |
| issue | do attempts bound the commands, and do gates hold, also of what was posted and edited since? | a gated route scoped to handoffs, 1 attempt, 2 texts of the issue, 2 transitions, 2 troubles (crash, lost job, failed call, comment, edit) | holds |
| loop | is every match answered, once, does a retry by label come to rest, and does one command work at a time? | a route that puts its label back, commands that succeed or give their attempt back, 2 attempts, 5 transitions, 3 jobs at a time, 1 trouble or edit | holds |
| unknown | is a job marked unknown only if its wrapper left no report? | 1 job, 2 daemons, clock to 3, both reports, no faults | violated: finding 1 |
| suspend | is a reported job settled if the host is suspended longer than a lease? | 1 job, 1 daemon, lease 3, 1 suspension | violated: finding 2 |
| labels | does an action remove the labels it is to remove? | two routes, 1 transition, no trouble | violated: finding 3 |
| comments | is a route that stays blocked commented on once? | a gated route whose on_block only comments, no trouble | violated: finding 4 |

Why the bounds are enough. Properties of a single row (launch, the supervision runs) cannot depend on other rows
except through the limits, because every statement selects by id or row by row; hence one job there and three in
`capacity`, which share a budget. There the limited route fills up; the global limit is never the tighter one, and
`CapacityHolds` covers it for all values. A launch changes no row's status, so `capacity` draws no tokens. Two instances
give an owner and a rival, and one of them may be replaced by the other as "new". A clock to 2 with lease 1 lets a lease
and a heartbeat expire and be taken over while the first owner still acts on what it read; `launch` goes to 4, because
times may be 1 old and a job that was taken over should expire again. Two tokens let a job be prepared, requeued and
prepared again; `stop` and `wave` are about one launch and what is left of it. What these bounds leave open for the
store is proved for all values (section 4).

In `issue` and `loop` a trouble is a crash, a lost job, a failed call or an edit, at any step of any thread. Two of them
let a handoff arrive and a crash follow, or two handoffs contradict each other; two transitions let a command start and
finish, or one on_start follow another. `loop` has five transitions and room for three jobs, so that after a crash between
the last call of a final action and its settlement, the next command can be at work when that action is applied again
and takes its label away: then two are at work, as `OneCommandPerIssue` allows after one trouble. With fewer the second
one never comes. `WorkFollowsLatestHandoff` needs two edits: a
handoff that is accepted and one that rejects, or a change of the text, between the enqueue and the claim. Its hypothesis
that no block is posted twice is needed: with three comments (reject, accept, reject) TLC finds a worker that computes its
scope while the next poll, which upserts all handoffs again from the first comment on, has just moved the rejecting one
back before the accepting one. One poll/route thread and one worker stand for one daemon; a second runner
appears as the loss of a job at any step, and several daemons in full are in `Supervision`.

The configurations set `CHECK_DEADLOCK FALSE` where the system may stop: the clock is bounded and nothing may be left to
do (`MCSupervision`, `MCShutdown`, `MCWave`), all jobs may be settled and daemons down (`MCSupervisionTime`), the limits end
all work (`MCIssueWorkflow`). Symmetry of instances is used only for invariants and step properties, never for liveness.
`WaveReturns` assumes fairness of the wave's own steps and that wrappers report (they enforce the timeout of their
command); it excuses a wave that owns a job of which nothing can be proved, for that is what the code waits for.

Findings.

1. `internal/supervisor/wrapper/wrapper.go:101`. `Inspect` reads `run.json`, then checks the process. If the wrapper
   writes its report and exits in between, and the job's owner is stale, recovery marks the job `unknown` for good
   although the report is on disk.
2. `internal/daemon/daemon.go:221`. If an owner's lease expires while its process is alive (the host was suspended)
   and its heartbeat ticker fires before its reconcile ticker, it can no longer renew or finalize its jobs, and no
   daemon may adopt them because its heartbeat is fresh. They stay running until the daemon is restarted.
3. `internal/github/github.go:133`. `RemoveLabels` stops at the first label that is absent (404), and `ApplyWithHooks` takes
   that for success: the labels after it stay on the issue.
4. `internal/router/router.go:232`. A gate block without a handoff is identified by the issue's `updated_at`, which the
   comment of its own on_block action changes: the next poll finds a new block and comments again, at every poll.

## 4. Proofs

All theorems hold for every value of the constants that satisfies the named assumptions, and are checked by `tlapm` with
Z3, Zenon and LS4. What is assumed:

* `ConstantsAssumption`: `Jobs` is a finite set of naturals, a lease is positive, `None` is neither an instance nor a
  budget; `SupervisionAssumption`, `ShutdownAssumption`, `WaveAssumption`: which instances are of which kind.
* `RoutingAssumption`, `WorkflowAssumption`: the shapes of routes, issues and results, that route names are unique
  (`config.go:394`), that a required handoff names the route it comes from (`config.go:509`), limits are naturals.
* "late passes" in the table: `MaxTime <= MaxDelay`. A pass of `Supervision` uses the time it sampled however late it
  is (a stopped process, a slow disk), so its calls are calls of the most general client only if the store allows any
  delay; the store's own theorems hold for every `MaxDelay`.

| theorem | says | late passes |
|---|---|---|
| `TypeCorrect` | `Spec => []TypeOK` of `JobStore` | |
| `RowsWellFormed` | `Spec => []RowInvariant`, the inductive invariant of the rows | |
| `RowsHaveShape` | `Spec => []RowShape` | |
| `LaunchesAreUnique` | `Spec => []LaunchedOnce` | |
| `NothingIsOrphaned` | `Spec => []NoOrphan` | |
| `OwnersAreSafe` | `Spec => OwnerKeepsJob` | |
| `CapacityHolds` | `Spec => []CapacityRespected` | |
| `ChargesStayCovered` | `Spec => []ChargesCovered` | |
| `StoreImplementsLifecycle` | `Spec => ImplementsLifecycle` | |
| `DaemonsImplementStore` | `SupSpec => DaemonsAreStoreClients`; proved only, no run repeats it | yes |
| `SupTypeCorrect` | `SupSpec => []SupTypeOK` | yes |
| `DaemonsAreSafe` | `SupSpec => [](LaunchedOnce /\ CapacityRespected /\ NoOrphan)` | yes |
| `NoWrapperStrays` | `SupSpec => []NoStrayWrapper` | yes |
| `LaunchersAreApart` | `SupSpec => []OneLauncher` | yes |
| `JobsEndAsReported` | `SupSpec => []SettledAsReported` | yes |
| `ShutdownImplementsStore` | `ShutdownSpec => DaemonsAreStoreClients` | yes |
| `StopTypeCorrect` | `ShutdownSpec => []StopTypeOK` | yes |
| `CleanStopsAreClean` | `ShutdownSpec => []CleanStopLeavesNoLease` | yes |
| `ShutdownIsSafe` | `ShutdownSpec => [](LaunchedOnce /\ CapacityRespected /\ NoOrphan)` | yes |
| `NoWrapperStraysInShutdown` | `ShutdownSpec => []NoStrayWrapper` | yes |
| `WavesImplementStore` | `WaveSpec => DaemonsAreStoreClients` | yes |
| `WaveTypeCorrect` | `WaveSpec => []WaveTypeOK` | yes |
| `WavesLeaveNoLease` | `WaveSpec => []WaveLeavesNoLease` | yes |
| `NoWrapperStraysInWaves` | `WaveSpec => []NoStrayWrapper` | yes |
| `WavesAreSafe` | `WaveSpec => [](LaunchedOnce /\ CapacityRespected /\ NoOrphan)` | yes |
| `WorkflowTypeCorrect` | `Spec => []TypeOK` of `IssueWorkflow` | |
| `AttemptsAreBounded` | `Spec => []AttemptsBoundCommands` | |
| `GatesAreKept` | `Spec => []WorkIsGated` | |
| `JobsAreCommentedOnce` | `Spec => []JobCommentedOnce`: `CommentedOnce` of the comments of jobs; proved only | |
| `CommentsAreOnce` | `OneRouter => (Spec => []CommentedOnce)` | |
| `OneDaemonRunsOneCommand` | `OneWorker /\ Separates(label) => (Spec => []OneCommandPerIssue)` | |
| `TransitionsCutLoops` | `OneWorker /\ Separates(label) /\ Private(label) => (Spec => []TransitionsBoundCommands)` | |

**The tables.** `LaunchedOnce` is not inductive: that a requeued row was never launched depends on which columns a
row carries in which status. `RowInvariant` is `RowShape /\ LaunchedOnce`, stated row by row: a step is shown to
change each row in one of a few ways (`RowStep`), each of which keeps the row's invariant. `NoOrphan` then
follows from `RowInvariant` without induction: the three recovery conditions divide the launch states. The owner
is safe because a sampled time is never in the future: what is expired and stale at an old `t` is so now.
`CapacityRespected` needs that only `ClaimJob` adds to the running rows, and counts them; `ChargesCovered` that a
charge is recorded on the row and in the budget in one transaction and leaves both together.

**Daemons are clients.** `SupInvariant` adds to the store's invariant that the local state of a pass is well formed
(`DaemonsOK`: a stage that works on a job names one, a listed row is a row of the table's type with an owner, the
sampled `now` is not in the future) and that the wrappers' tokens are in range. With it each action of `Supervision`
is a step of `JobStore!Next` or leaves the tables alone, so the theorems about the store carry over.

**Wrappers.** `NoStrayWrapper`, `OneLauncher` and `SettledAsReported` relate what the tables say to what the processes
do, and none is inductive: they fail if a goroutine acts on something that has ceased to be true. `LaunchInvariant` says
what each goroutine may rely on, however late it is:

* `Traced`: only launched wrappers run or report, and what is at work belongs to a running row;
* `HandOK`: a claim in hand that is still one's own is still `preparing`; a job whose wrapper is about to be started is
  running and has had none; a job whose launch is about to be failed has nothing at work;
* `SeenOK`: an outcome in hand is one the metadata shows, which is never overwritten;
* `Apart`: two goroutines are not both launching one job.

The step that needs all of it is `Launch`: between `MarkLaunching` and `Launch` the lease may run out and the row
change hands, but what others may do to a row in `launching` is to adopt it or give up on it, not to requeue it; so
the row is running still. The others' steps are summed up once (`Untouched`: what a runner holds after a step of
others it held before, unchanged unless recovery gave up on it; `StandsStill`), and the lemmas about them serve daemons,
shutdowns and waves alike. `SettledInvariant` on top of it says of each status that it is borne out (`BorneOut`) by
a report or by the absence of a launch.

**Shutdown.** `StopInvariant` adds that the main goroutine's record is well formed (`StopOK`) and what a round
knows (`RoundOK`): as long as no job makes another round necessary, each job that is not listed any more has no lease
of this daemon that still runs. The daemon's own steps keep it job by job: a settled row is nobody's, a refused call means
that the lease is over. The steps of the others keep it because a client writes its own id only (`OthersLeaveRows`) and
extends no lease but its own. When the list is empty and nothing remains, no lease is left, which is the theorem.
`StopLaunchInvariant` adds `LaunchInvariant` and `StopHandOK`: the pass is over when the rounds begin, so the main
goroutine is the only one to launch or settle; a row listed as never launched is still so if it is still its own.

**Waves.** `WaveInvariant` adds that every lease a wave holds is accounted for (`Accounted`: it is of an active job, of
the one in hand, or over), as long as no error and no signal has ended its rounds; that the row in hand is as the launch
left it (`HandKept`); that the active jobs have been launched; and that a row in `unknown` has an expired lease
(`UnknownIsExpired`). The last is what makes the code's cancellation safe: `CancelActive` finalizes a listed row that is
not durable without looking for its wrapper, but such a row is one that recovery gave up on (`ListedOK`), and there the
finalization is refused, because its lease is over and nobody renews it.

**The life of an issue.** `WorkInvariant` is `ThreadsOK /\ IssueOK /\ RowsOK /\ BudgetsOK`. `AttemptsBoundCommands`
bounds the commands launched; the code checks the limit before it launches, on a counter that jobs lost in between leave
charged and refunds put back. So `BudgetsOK` counts, for each budget, the jobs that charged it last (`ChargedBy`, at most
the counter) and those of them that are launched or past the check (`Passed`, at most `max_attempts`). A charge moves a
job into both counts, and into the second only if the counter has not passed the limit; a refund takes the job from both;
a job that is lost and prepared again is charged again and counted once. That a job is never charged, and so moved to
another budget, once it is launched rests on `RowsOK`: whoever holds a job before its charge finds it `claimed`.
`WorkIsGated` holds when a job is enqueued or charged, and stays: a handoff once stored is
never deleted (`WorldGrows`), and `GateOpen` and `Gated` ask for no more than a stored handoff the gate accepts.

**Comments.** `CommentInvariant` adds to `WorkInvariant` a count per cause (`PostsOK`): the comments posted for it are at
most the troubles so far (`Fewer`), and one more (`Few`) once no other is to come unless there is trouble (`JobDone`,
`BlockDone`). Done is what cannot be undone without trouble: a job is settled; it is launched, for the comments before
the launch; or whoever holds it is past the comment (`Past`) - and for a block, it is applied, or somebody who has
commented is about to mark it (`Marked`). A step without trouble keeps done what is done, and a comment is posted only
for a cause that is not done and makes it so; a step with trouble raises the allowance of every cause by one, also where
the goroutine that knew is gone. That a cause is not done when its comment comes needs that a job held before its launch
is `claimed` (`EarlyOK`), that a job which waits was not launched (`PendingOK`), and that a goroutine's cause is the job or
the block it works for (`Apt`). Nobody holds a job but its owner, so this is true for any number of goroutines; nobody
owns a block, so for blocks there must be one router (`OneRouter`, one daemon). The hypothesis is needed: with two routers
TLC finds both commenting one block before either marks it (`router.go:73`).

**Commands on one issue.** `OneCommandPerIssue` and `TransitionsBoundCommands` depend on how routes are configured, so
their theorems say on what, for some label (in the runs: "running"):

* `OneWorker`: one daemon. With two, TLC finds both checking the route before either has added the label, and two
  commands at work without any trouble (the hazard listed at `lifecycle.go:67` names both cases).
* `Separates(label)`: every route excludes the label, its on_start adds it, its on_block does not remove it. Final actions,
  result files and the actions of exceeded limits may remove it, and people may add it. (They take no label away in the
  model: whoever removes this one by hand asks for the next command.)
* `Private(label)`, for the second theorem: neither people nor on_block actions add the label. If they do, an on_start
  may change nothing, and a launch is not counted as a transition.

`CommandInvariant` is about the jobs launched and not settled (`Out`), which are at least those at work, and whether there
may be one more (`Spare`: they are at most `troubles`). Its core is that while the label is off the issue there is room to
spare, or the worker is about to settle a job that is `Out` (`Finishing`), which makes room. A worker that found its route
to match saw the issue without the label, so it has room from there to the launch, for it is the only one that
launches; and when it launches, the label is on (`Raised`), because only it could have taken it away again. A crash, a lost
job or a failed call makes room by itself, for `Spare` counts them: this is what the allowance in the property pays
for, and it cannot be less. If a daemon dies after a final action has removed the label and before the job is settled,
the next job is launched beside the unsettled one; its adopter applies the final action once more, which removes the
label of the command now at work; and a third job finds its route matching.

For the transitions `LabelOK` adds the other half: a worker that prepares a job saw the issue without the label before
its on_start action (nobody else adds it) and sees it with the label after it, so the two sets differ, `ActionDone` counts, and
the launch comes with a transition of its own within the limit. A final action need not change anything.

**Only model-checked.** Every safety invariant of the passing runs but `WorkFollowsLatestHandoff` is stated by a theorem, while `BlocksDoNotSpam`,
`RemovalsTakeEffect`, `UnknownIsUnproven` and, with a suspended host, `CompletedJobsAreSettled` are violated (findings). All liveness stays with TLC
(`CompletedJobsAreSettled`, `ClaimsAreNotStuck`, `DeadOwnersAreRelieved`, `WaveReturns`, `MatchesAreAnswered`,
`WorkComesToRest`): fairness and `ENABLED` are outside of what the proof system handles.

## 5. Not modelled

* A pid without a fingerprint (a failed read of `/proc`), and reuse of a pid within one clock tick; other
  operating systems than Linux.
* The child of the wrapper: outcome from exit code, signal and timeout; a child that survives its wrapper.
* Several issues at once: an error of one ends the pass for those after it (`router.go:58`), which one issue cannot show.
* In the workflow: labels taken away by people, handoffs from pull requests, `updated_at` values of one second, a job that ends
  `unknown` or cancelled (`WorkComesToRest` supposes there is none; how jobs become so is in `Supervision`), the parsing of blocks and result files, paging.
* The select loop of the daemon (tickers, request and done channels), the event bridge, the store's migrations: planned.
* Configuration, GitHub REST client, environment of commands, command line and event log: pure or I/O.

## 6. Plan

Done, in this order: `JobStore`, `JobLifecycle`, `Supervision`, `SupervisionTime`, proofs about the first three; then
`IssueActions`, `Routing`, `IssueWorkflow`, `Shutdown` with its proofs, `Wave`; then the proofs about wrappers, waves and
the life of an issue, its comments and its commands. Next:

1. `DaemonLoop` - the select loop with its tickers, channels and two goroutines. Questions: no request is lost; stop
   returns.
2. `Wrapper` - the wrapper and its child: outcome from exit code, signal and timeout, a child that survives.
3. `Bridge` and `Migration` - check-then-act and crash windows.
