----------------------------- MODULE Supervision -----------------------------
(***************************************************************************)
(* issueq daemons at work on one queue: the reconcile goroutine of every    *)
(* runner instance (internal/daemon, internal/workflow), the job-wrapper    *)
(* processes it starts and inspects (internal/supervisor/wrapper,           *)
(* internal/jobwrapper), and the store they share.                          *)
(*                                                                          *)
(* A reconcile pass is a sequence of store calls and of reads of files and  *)
(* of /proc.  Each of them is one action, so everything may happen between  *)
(* two of them: time passing, a crash, another daemon, the wrapper itself.  *)
(* A wrapper outlives the daemon that started it (Setpgid).                 *)
(*                                                                          *)
(* One instance is one process start: a crashed instance never comes back,  *)
(* a restarted daemon is a new instance.                                    *)
(***************************************************************************)
EXTENDS JobStore

CONSTANTS
  Reports,      \* outcomes that the metadata of an undisturbed wrapper may name
  StartGrace,   \* how long Inspect believes a missing wrapper is starting
  Mortal,       \* instances that may crash
  MaxSuspends,  \* bound on suspensions of the host
  MaxFaults     \* bound on store calls that fail for another reason than
                \* ownership, and on cancellations that fail

ASSUME SupervisionAssumption ==
  /\ 0 \notin Jobs
  /\ Reports \subseteq {"succeeded", "failed"}
  /\ StartGrace \in Nat
  /\ Mortal \subseteq Instances
  /\ MaxSuspends \in Nat
  /\ MaxFaults \in Nat

VARIABLES
  daemon,     \* the reconcile goroutine of each instance
  processes,  \* tokens of the live wrapper processes of each job
  metadata,   \* the run.json of each job and token
  startedAt,  \* jobs.started_at
  suspends,   \* suspensions of the host so far
  faults      \* such failures so far

wrapperVars == <<processes, metadata>>
boundVars   == <<suspends, faults>>
supVars     == <<storeVars, daemon, wrapperVars, startedAt, boundVars>>

Tokens   == 1..MaxTokens
NoJob    == 0
Outcomes == {"succeeded", "failed", "cancelled"}
Observations == Outcomes \cup {"starting", "running", "unknown"}

Stages ==
  {"new", "down", "idle",
   "observe", "observeProbe",                      \* ObserveOwnedRunningJobs
   "verify", "verifyProbe", "adopt", "giveUp",     \* RecoverStaleDurableRunningJobs
   "reinspect", "reinspectProbe",
   "finalActions",                                 \* of FinalizeOwnedObservationWithLifecycle
   "prune", "refill",
   "prepare", "persistSpec", "markLaunching",      \* of refill, for one claimed job
   "launch", "persistRecord", "cleanup", "compensate", "launchFailed"}

\* rows: listed jobs still to be inspected, as the list query returned them;
\* seen: observations still to be acted on; back: stage to resume after one;
\* round: whether the pass of this round is made (see SupervisionTime).
Reconcile ==
  [stage: Stages, back: {"observe", "verify"}, rows: [Jobs -> Row],
   seen: [Jobs -> Observations \cup {"none"}], job: Jobs \cup {NoJob},
   active: SUBSET Jobs, now: Nat, token: Nat, round: {"due", "made"}]

Resting ==
  [stage |-> "idle", back |-> "observe", rows |-> [j \in Jobs |-> AbsentRow],
   seen |-> [j \in Jobs |-> "none"], job |-> NoJob, active |-> {}, now |-> 0,
   token |-> NoToken, round |-> "made"]

At(i, stage) == daemon[i].stage = stage
Up(i)        == daemon[i].stage \notin {"new", "down"}
Become(i, d) == daemon' = [daemon EXCEPT ![i] = d]
GoTo(i, stage) == daemon' = [daemon EXCEPT ![i].stage = stage]

Listed(i)    == {j \in Jobs : daemon[i].rows[j] # AbsentRow}
Observed(i)  == {j \in Jobs : daemon[i].seen[j] # "none"}

StoreIdle == UNCHANGED <<storeVars, startedAt>>

-----------------------------------------------------------------------------
(* Inspect, in its two reads: the metadata file, then the process *)

\* DurableLaunchRecord: rows in another launch state are not inspected at all.
Durable(row) == row.launchState \in {"launching", "running"} /\ row.token # NoToken

Reported(row, j) ==
  IF row.token \in Tokens THEN metadata[j][row.token] ELSE "none"

FromProcess(row, j) ==
  IF row.pid = "set" /\ row.token \in processes[j] THEN "running"
  ELSE IF startedAt[j] # NoTime /\ clock - startedAt[j] < StartGrace THEN "starting"
  ELSE "unknown"

\* Where a goroutine goes with the observation of job j made at some stage.
WithObservation(d, j, obs) ==
  LET handled == [d EXCEPT !.rows[j] = AbsentRow, !.job = NoJob]
  IN  CASE d.stage \in {"observe", "observeProbe"} ->
             [handled EXCEPT !.stage = "observe", !.seen[j] = obs,
                             !.active = @ \cup {j}]
        [] d.stage \in {"verify", "verifyProbe"} ->
             [d EXCEPT !.stage = IF obs = "unknown" THEN "giveUp" ELSE "adopt",
                       !.job = j]
        [] d.stage \in {"reinspect", "reinspectProbe"} ->
             [handled EXCEPT !.stage = "verify", !.seen[j] = obs,
                             !.active = @ \cup {j}]

Probing(stage) ==
  CASE stage = "observe"   -> "observeProbe"
    [] stage = "verify"    -> "verifyProbe"
    [] stage = "reinspect" -> "reinspectProbe"

ReadMetadata(i, j) ==
  LET d == daemon[i]  row == d.rows[j] IN
  /\ d.stage \in {"observe", "verify", "reinspect"}
  /\ j \in Listed(i)
  /\ d.stage = "reinspect" => j = d.job
  /\ Become(i, IF ~Durable(row) THEN WithObservation(d, j, "unknown")
               ELSE IF Reported(row, j) # "none"
                    THEN WithObservation(d, j, Reported(row, j))
               ELSE [d EXCEPT !.stage = Probing(d.stage), !.job = j])
  /\ StoreIdle /\ UNCHANGED <<wrapperVars, boundVars>>

CheckProcess(i) ==
  LET d == daemon[i]  j == d.job IN
  /\ d.stage \in {"observeProbe", "verifyProbe", "reinspectProbe"}
  /\ Become(i, WithObservation(d, j, FromProcess(d.rows[j], j)))
  /\ StoreIdle /\ UNCHANGED <<wrapperVars, boundVars>>

-----------------------------------------------------------------------------
(* A reconcile pass *)

\* ListOwnedRunningJobs takes the rows of this instance, lease or no lease.
BeginReconcile(i) ==
  /\ At(i, "idle")
  /\ Become(i, [Resting EXCEPT
       !.stage = "observe", !.round = daemon[i].round,
       !.rows = [j \in Jobs |-> IF IsRunning(j) /\ jobs[j].owner = i
                                THEN jobs[j] ELSE AbsentRow]])
  /\ StoreIdle /\ UNCHANGED <<wrapperVars, boundVars>>

\* The loops over the observations of owned and of adopted jobs.  Losing the
\* job (renewal or finalization refused) only drops it from the loop.  A
\* malformed result file makes a failure of any outcome.
ActOnObservation(i, j) ==
  LET d == daemon[i]  obs == d.seen[j]
      done == [d EXCEPT !.seen[j] = "none"]
      finalize(outcome) == [done EXCEPT !.stage = "finalActions", !.back = d.stage,
                                        !.job = j, !.seen[j] = outcome]
  IN
  /\ d.stage \in {"observe", "verify"} /\ Listed(i) = {} /\ j \in Observed(i)
  /\ \/ /\ obs = "unknown"
        /\ Become(i, done) /\ UNCHANGED storeVars
     \/ /\ obs \in {"starting", "running"} /\ RenewJobLease(i, j, clock)
        /\ Become(i, done)
     \/ /\ obs \in Outcomes /\ RenewJobLease(i, j, clock)
        /\ Become(i, finalize(IF obs = "succeeded" THEN obs ELSE "failed"))
     \/ /\ obs # "unknown" /\ ~Owned(i, j, clock)
        /\ Become(i, done) /\ UNCHANGED storeVars
     \/ /\ obs = "cancelled"
        /\ Become(i, finalize(obs)) /\ UNCHANGED storeVars
  /\ UNCHANGED <<startedAt, wrapperVars, boundVars>>

\* Fault: a cancelled command that exited with 0 passes for a success.
FinalStatusByExitCode(obs) ==
  IF obs = "failed" THEN {"failed", "dead"} ELSE {"succeeded", "failed", "dead"}

\* The final actions on the issue are over.  They may have failed, or spent the
\* last transition the issue had.
FinalStatus(obs) ==
  CASE obs = "succeeded" -> {"succeeded", "failed", "dead"}
    [] obs = "failed"    -> {"failed", "dead"}
    [] obs = "cancelled" -> {"cancelled"}

FinalizeObservation(i) ==
  LET d == daemon[i]  j == d.job IN
  /\ At(i, "finalActions")
  /\ IF Owned(i, j, clock)
     THEN \E status \in FinalStatus(d.seen[j]), workStarted \in BOOLEAN :
            FinalizeJobOwned(i, j, status, workStarted, clock)
     ELSE UNCHANGED storeVars
  /\ Become(i, [d EXCEPT !.stage = d.back, !.seen[j] = "none", !.job = NoJob])
  /\ UNCHANGED <<startedAt, wrapperVars, boundVars>>

\* beforeSideEffect, which precedes every call that changes the issue.  A
\* renewal that is refused ends the actions as a refused finalization does.
RenewBeforeSideEffect(i) ==
  LET d == daemon[i] IN
  /\ \/ At(i, "prepare")
     \/ At(i, "finalActions") /\ d.seen[d.job] # "cancelled"
  /\ RenewJobLease(i, d.job, clock)
  /\ UNCHANGED <<daemon, startedAt, wrapperVars, boundVars>>

ListStaleDurableRunningJobs(i) ==
  LET d == daemon[i] IN
  /\ At(i, "observe") /\ Listed(i) = {} /\ Observed(i) = {}
  /\ Become(i, [d EXCEPT !.stage = "verify", !.back = "verify", !.now = clock,
       !.rows = [j \in Jobs |-> IF Recoverable(j, clock) THEN jobs[j] ELSE AbsentRow]])
  /\ StoreIdle /\ UNCHANGED <<wrapperVars, boundVars>>

\* Both decide by the `now` of the list query, and drop a job that was lost.
AdoptStale(i) ==
  LET d == daemon[i]  j == d.job  old == d.rows[j].owner IN
  /\ At(i, "adopt")
  /\ \/ /\ AdoptStaleRunningJob(i, j, old, d.now)
        /\ Become(i, [d EXCEPT !.stage = "reinspect"])
     \/ /\ ~(jobs[j].owner = old /\ Recoverable(j, d.now)) /\ UNCHANGED storeVars
        /\ Become(i, [d EXCEPT !.stage = "verify", !.rows[j] = AbsentRow, !.job = NoJob])
  /\ UNCHANGED <<startedAt, wrapperVars, boundVars>>

MarkStaleUnknown(i) ==
  LET d == daemon[i]  j == d.job  old == d.rows[j].owner IN
  /\ At(i, "giveUp")
  /\ \/ MarkStaleRunningJobUnknown(j, old, d.now)
     \/ ~(jobs[j].owner = old /\ Recoverable(j, d.now)) /\ UNCHANGED storeVars
  /\ Become(i, [d EXCEPT !.stage = "verify", !.rows[j] = AbsentRow, !.job = NoJob])
  /\ UNCHANGED <<startedAt, wrapperVars, boundVars>>

\* The time sampled here is also that of PruneStaleHeartbeats.
RecoverExpiredLeases(i) ==
  LET active == daemon[i].active IN
  /\ At(i, "verify") /\ Listed(i) = {} /\ Observed(i) = {}
  /\ \/ ReleaseExpiredLeases(i, active, clock)
     \/ /\ {j \in Jobs : Releasable(j, i, active, clock)} = {}
        /\ UNCHANGED storeVars
  /\ Become(i, [daemon[i] EXCEPT !.stage = "prune", !.now = clock])
  /\ UNCHANGED <<startedAt, wrapperVars, boundVars>>

PruneStaleHeartbeats(i) ==
  /\ At(i, "prune")
  /\ PruneStaleRunnerHeartbeats(daemon[i].now)
  /\ GoTo(i, "refill")
  /\ UNCHANGED <<startedAt, wrapperVars, boundVars>>

-----------------------------------------------------------------------------
(* Refill: claim, prepare and launch while there is capacity *)

Claim(i) ==
  /\ At(i, "refill")
  /\ \E j \in Jobs :
       /\ ClaimJob(i, j, Jobs, clock)
       /\ startedAt' = [startedAt EXCEPT ![j] = IF @ = NoTime THEN clock ELSE @]
       /\ Become(i, [daemon[i] EXCEPT !.stage = "prepare", !.job = j])
  /\ UNCHANGED <<wrapperVars, boundVars>>

NothingToClaim(i) ==
  /\ At(i, "refill")
  /\ Cardinality(Running) >= MaxGlobal \/ Claimable(i, Jobs) = {}
  /\ Become(i, Resting)
  /\ StoreIdle /\ UNCHANGED <<wrapperVars, boundVars>>

\* Between claim and launch the issue is refreshed and on_start is applied
\* (RenewBeforeSideEffect); policy may settle the job instead.
Prepare(i) ==
  LET j == daemon[i].job IN
  /\ At(i, "prepare")
  /\ \/ GoTo(i, "persistSpec") /\ UNCHANGED storeVars
     \/ /\ \E status \in {"failed", "skipped", "dead"} :
             FinalizeJobOwned(i, j, status, TRUE, clock)
        /\ GoTo(i, "refill")
     \/ ~Owned(i, j, clock) /\ GoTo(i, "refill") /\ UNCHANGED storeVars
  /\ UNCHANGED <<startedAt, wrapperVars, boundVars>>

PersistSpec(i) ==
  LET d == daemon[i]  j == d.job IN
  /\ At(i, "persistSpec")
  /\ \/ /\ PersistLaunchSpecOwned(i, j, clock)
        /\ Become(i, [d EXCEPT !.stage = "markLaunching", !.token = issued[j] + 1])
     \/ /\ ~(Owned(i, j, clock) /\ jobs[j].launchState = "preparing")
        /\ GoTo(i, "refill") /\ UNCHANGED storeVars
     \/ GoTo(i, "launchFailed") /\ UNCHANGED storeVars      \* WriteContext failed
  /\ UNCHANGED <<startedAt, wrapperVars, boundVars>>

MarkLaunching(i) ==
  LET j == daemon[i].job  token == daemon[i].token IN
  /\ At(i, "markLaunching")
  /\ \/ MarkJobLaunchingOwned(i, j, token, clock) /\ GoTo(i, "launch")
     \/ /\ ~(/\ Owned(i, j, clock) /\ jobs[j].launchState = "preparing"
             /\ jobs[j].token = token)
        /\ GoTo(i, "refill") /\ UNCHANGED storeVars
  /\ UNCHANGED <<startedAt, wrapperVars, boundVars>>

\* Supervisor.Launch starts the wrapper without looking at the store.
Launch(i) ==
  LET j == daemon[i].job IN
  /\ At(i, "launch")
  /\ \/ /\ processes' = [processes EXCEPT ![j] = @ \cup {daemon[i].token}]
        /\ GoTo(i, "persistRecord")
     \/ GoTo(i, "launchFailed") /\ UNCHANGED processes
  /\ StoreIdle /\ UNCHANGED <<metadata, boundVars>>

PersistRecord(i) ==
  LET j == daemon[i].job  token == daemon[i].token IN
  /\ At(i, "persistRecord")
  /\ \/ PersistLaunchRecordOwned(i, j, token, clock) /\ GoTo(i, "refill")
     \/ /\ ~(/\ Owned(i, j, clock) /\ jobs[j].launchState = "launching"
             /\ jobs[j].token = token)
        /\ GoTo(i, "cleanup") /\ UNCHANGED storeVars
  /\ UNCHANGED <<startedAt, wrapperVars, boundVars>>

\* SIGTERM lets the wrapper report the cancellation, SIGKILL does not.
CancelWrapper(i) ==
  LET j == daemon[i].job  token == daemon[i].token IN
  /\ daemon[i].stage \in {"cleanup", "compensate"}
  /\ processes' = [processes EXCEPT ![j] = @ \ {token}]
  /\ IF token \in processes[j] /\ metadata[j][token] = "none"
     THEN \E outcome \in {"cancelled", "none"} :
            metadata' = [metadata EXCEPT ![j][token] = outcome]
     ELSE UNCHANGED metadata
  /\ GoTo(i, IF At(i, "cleanup") THEN "refill" ELSE "launchFailed")
  /\ StoreIdle /\ UNCHANGED boundVars

\* The process has no fingerprint or cannot be signalled: it is left alone, and
\* so is the row.
CancelFails(i) ==
  /\ daemon[i].stage \in {"cleanup", "compensate"}
  /\ faults < MaxFaults
  /\ faults' = faults + 1
  /\ IF At(i, "cleanup") THEN GoTo(i, "refill") ELSE Become(i, Resting)
  /\ StoreIdle /\ UNCHANGED <<wrapperVars, suspends>>

\* A failed launch ends the pass.
FailLaunch(i) ==
  LET j == daemon[i].job IN
  /\ At(i, "launchFailed")
  /\ \/ FinalizeJobOwned(i, j, "failed", TRUE, clock)
     \/ ~Owned(i, j, clock) /\ UNCHANGED storeVars
  /\ Become(i, Resting)
  /\ UNCHANGED <<startedAt, wrapperVars, boundVars>>

\* Fault: a launch that could not be recorded is failed without a cancel.
StoreFaultWithoutCancel(i) ==
  /\ At(i, "persistRecord")
  /\ faults < MaxFaults
  /\ faults' = faults + 1
  /\ GoTo(i, "launchFailed")
  /\ StoreIdle /\ UNCHANGED <<wrapperVars, suspends>>

\* Any other error of a store call ends the pass, except after the launch.  The
\* reads of Inspect fail only under a cancelled context (see Shutdown).
StoreFault(i) ==
  /\ daemon[i].stage \in {"observe", "verify", "adopt", "giveUp", "finalActions",
                          "prune", "refill", "prepare", "persistSpec",
                          "markLaunching", "persistRecord", "launchFailed"}
  /\ faults < MaxFaults
  /\ faults' = faults + 1
  /\ IF At(i, "persistRecord") THEN GoTo(i, "compensate") ELSE Become(i, Resting)
  /\ StoreIdle /\ UNCHANGED <<wrapperVars, suspends>>

-----------------------------------------------------------------------------
(* Around the goroutine: start, heartbeat ticker, crash; the wrappers; time *)

Run(i) ==
  /\ At(i, "new")
  /\ HeartbeatRunner(i, clock)
  /\ Become(i, [Resting EXCEPT !.round = "due"])
  /\ UNCHANGED <<startedAt, wrapperVars, boundVars>>

Heartbeat(i) ==
  /\ Up(i) /\ heartbeats[i] # clock
  /\ HeartbeatRunner(i, clock)
  /\ UNCHANGED <<daemon, startedAt, wrapperVars, boundVars>>

Crash(i) ==
  /\ i \in Mortal /\ Up(i)
  /\ Become(i, [Resting EXCEPT !.stage = "down"])
  /\ StoreIdle /\ UNCHANGED <<wrapperVars, boundVars>>

Enqueue(j) == EnqueueJob(j) /\ UNCHANGED <<daemon, startedAt, wrapperVars, boundVars>>

\* The wrapper renames its metadata into place, then exits; it may also be
\* killed, with the host for instance, and leave nothing.
WriteMetadata(j, token) ==
  /\ token \in processes[j] /\ metadata[j][token] = "none"
  /\ \E outcome \in Reports :
       metadata' = [metadata EXCEPT ![j][token] = outcome]
  /\ StoreIdle /\ UNCHANGED <<daemon, processes, boundVars>>

WrapperEnds(j, token) ==
  /\ token \in processes[j]
  /\ processes' = [processes EXCEPT ![j] = @ \ {token}]
  /\ StoreIdle /\ UNCHANGED <<daemon, metadata, boundVars>>

ReconcileStep(i) ==
  \/ BeginReconcile(i) \/ (\E j \in Jobs : ReadMetadata(i, j)) \/ CheckProcess(i)
  \/ (\E j \in Jobs : ActOnObservation(i, j)) \/ FinalizeObservation(i)
  \/ RenewBeforeSideEffect(i)
  \/ ListStaleDurableRunningJobs(i) \/ AdoptStale(i) \/ MarkStaleUnknown(i)
  \/ RecoverExpiredLeases(i) \/ PruneStaleHeartbeats(i)
  \/ Claim(i) \/ NothingToClaim(i) \/ Prepare(i)
  \/ PersistSpec(i) \/ MarkLaunching(i) \/ Launch(i) \/ PersistRecord(i)
  \/ CancelWrapper(i) \/ FailLaunch(i)

\* All that happens around the reconcile goroutines.
Surroundings ==
  \/ \E i \in Instances :
       \/ Run(i) \/ StoreFault(i) \/ CancelFails(i)
       \/ Heartbeat(i) \/ Crash(i)
  \/ \E j \in Jobs : Enqueue(j)
  \/ \E j \in Jobs, token \in Tokens :
       WriteMetadata(j, token) \/ WrapperEnds(j, token)

DaemonsInit ==
  /\ daemon = [i \in Instances |-> [Resting EXCEPT !.stage = "new"]]
  /\ processes = [j \in Jobs |-> {}]
  /\ metadata = [j \in Jobs |-> [token \in Tokens |-> "none"]]
  /\ startedAt = [j \in Jobs |-> NoTime]
  /\ suspends = 0
  /\ faults = 0

SupInit == Init /\ DaemonsInit

\* Without any assumption on speed: a step may take any time.
SlowTick == Tick /\ UNCHANGED <<daemon, startedAt, wrapperVars, boundVars>>
SupNext  == Surroundings \/ (\E i \in Instances : ReconcileStep(i)) \/ SlowTick
SupSpec  == SupInit /\ [][SupNext]_supVars

-----------------------------------------------------------------------------
(* Properties *)

SupTypeOK ==
  /\ TypeOK
  /\ daemon \in [Instances -> Reconcile]
  /\ processes \in [Jobs -> SUBSET Tokens]
  /\ metadata \in [Jobs -> [Tokens -> Outcomes \cup {"none"}]]
  /\ startedAt \in [Jobs -> Nat \cup {NoTime}]
  /\ suspends \in 0..MaxSuspends
  /\ faults \in 0..MaxFaults

\* A wrapper at work always belongs to a running job whose row names its token:
\* no daemon, however late, requeues or finalizes a job whose wrapper has not
\* reported, nor starts a wrapper that recovery could not recognise.
NoStrayWrapper ==
  \A j \in Jobs : \A token \in processes[j] :
    metadata[j][token] = "none" => IsRunning(j) /\ jobs[j].token = token

\* The status a job ends with never contradicts its wrapper, whichever daemon
\* finalized it: success and cancellation are what the metadata of the launched
\* token says, and a job that was skipped never ran.
SettledAsReported ==
  \A j \in Jobs :
    LET reports == {metadata[j][token] : token \in Tokens} IN
    /\ jobs[j].status = "succeeded" => "succeeded" \in reports /\ "cancelled" \notin reports
    /\ jobs[j].status = "cancelled" => "cancelled" \in reports
    /\ jobs[j].status = "skipped"   => launches[j] = {} /\ reports \subseteq {"none"}

\* Two daemons are never both in the middle of starting the same job.
OneLauncher ==
  \A i, k \in Instances :
    /\ i # k
    /\ daemon[i].stage \in {"launch", "persistRecord"}
    /\ daemon[k].stage \in {"launch", "persistRecord"}
    => daemon[i].job # daemon[k].job

\* What the daemons do to the tables is what JobStore allows its most general
\* client, so everything proved of JobStore holds of the daemons.
DaemonsAreStoreClients == Init /\ [][Next]_storeVars

\* docs/operator-runbook.md:382: "`launch_state='unknown'` means issueq cannot
\* safely prove whether a previously launched subprocess is still running or what
\* result it produced."  A wrapper whose process is on record and which reports
\* before it ends can be proved to run or to have finished at any moment; its job
\* is not marked unknown with the report of its own token on disk.
UnknownIsUnproven ==
  [][\A j \in Jobs :
       /\ jobs[j].pid = "set"
       /\ jobs[j].launchState # "unknown" /\ jobs'[j].launchState = "unknown"
       => metadata[j][jobs[j].token] = "none"]_supVars

=============================================================================
