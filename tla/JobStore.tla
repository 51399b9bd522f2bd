------------------------------ MODULE JobStore ------------------------------
(***************************************************************************)
(* The SQLite queue of issueq (internal/store/sqlite/sqlite.go): the jobs   *)
(* table, the runner_heartbeats table and the route_attempts counters.      *)
(* Every operation of the Go store is one action: the store opens a single  *)
(* connection and runs each operation as one statement or as one            *)
(* BEGIN IMMEDIATE transaction, so operations of different daemons are      *)
(* atomic and only their order is open.                                     *)
(*                                                                          *)
(* What is NOT atomic with the statement is the clock: an operation reads   *)
(* time.Now() (or is handed a `now`) before its SQL runs, and a process may *)
(* be held up in between.  Each operation therefore takes the time t its    *)
(* caller sampled, which may lie up to MaxDelay in the past.                *)
(*                                                                          *)
(* The operations only say what happens when they take effect; one that     *)
(* fails (ErrNotOwner, ErrLostLease, nothing to claim) leaves the tables    *)
(* alone, and the modules that model its caller test the guard.             *)
(*                                                                          *)
(* A definition marked "Fault" is a plausible mistake in the one that        *)
(* follows it; no action uses it.                                           *)
(***************************************************************************)
EXTENDS Integers, FiniteSets

CONSTANTS
  Jobs,         \* rows the jobs table may ever hold, numbered in creation order;
                \* one per dedupe key
  Instances,    \* runner instances (one per process start)
  Routes,       \* configured routes
  RouteOf,      \* [Jobs -> Routes]
  Priority,     \* [Jobs -> Int]
  Accepts,      \* [Instances -> SUBSET Jobs]: jobs of a kind in runner.capabilities
  Budgets,      \* keys of route_attempts: (issue, generation, route, scope hash)
  None,         \* SQL NULL
  MaxGlobal,    \* queue.max_global_concurrency
  RouteLimit,   \* [Routes -> Nat], 0 is unlimited
  Lease,        \* lease duration; a heartbeat is stale after the same time
  MaxTime,      \* bound of the clock
  MaxDelay,     \* bound on the age of a sampled time
  MaxTokens,    \* bound on the launch tokens drawn for one job
  MaxAttempts   \* bound of a route_attempts counter

ASSUME ConstantsAssumption ==
  /\ Jobs \subseteq Nat
  /\ IsFiniteSet(Jobs)
  /\ RouteOf \in [Jobs -> Routes]
  /\ Priority \in [Jobs -> Int]
  /\ Accepts \in [Instances -> SUBSET Jobs]
  /\ None \notin Instances
  /\ None \notin Budgets
  /\ MaxGlobal \in Nat
  /\ RouteLimit \in [Routes -> Nat]
  /\ Lease \in Nat \ {0}
  /\ MaxTime \in Nat
  /\ MaxDelay \in Nat
  /\ MaxTokens \in Nat
  /\ MaxAttempts \in Nat

VARIABLES
  jobs,           \* the jobs table
  heartbeats,     \* runner_heartbeats.heartbeat_at, NoTime without a row
  routeAttempts,  \* route_attempts.attempts, 0 without a row
  clock,          \* wall-clock time
  issued,         \* launch tokens drawn so far for each job
  launches        \* history: tokens whose wrapper the store allowed to start

storeVars == <<jobs, heartbeats, routeAttempts, clock, issued, launches>>

-----------------------------------------------------------------------------
(* Rows *)

NoTime  == -1
NoToken == 0

Terminal     == {"succeeded", "failed", "skipped", "dead", "cancelled"}
LaunchStates == {"preparing", "launching", "running", "unknown"}

Row ==
  [status: {"absent", "pending", "running"} \cup Terminal,
   owner: Instances \cup {None},
   leaseUntil: Nat \cup {NoTime},
   launchState: LaunchStates \cup {"null"},
   token: Nat,
   pid: {"null", "set"},              \* pid, pgid and process_started_at
   attempts: Nat,
   scope: Budgets \cup {None}]        \* attempt_generation, attempt_scope_hash

AbsentRow ==
  [status |-> "absent", owner |-> None, leaseUntil |-> NoTime,
   launchState |-> "null", token |-> NoToken, pid |-> "null",
   attempts |-> 0, scope |-> None]

\* The SET clauses of the updates that write several columns.
ClaimedBy(row, i, until) ==
  [row EXCEPT !.status = "running", !.owner = i, !.leaseUntil = until,
              !.launchState = "preparing", !.token = NoToken]

WithProcess(row) == [row EXCEPT !.launchState = "running", !.pid = "set"]

Charged(row, budget, attempts) == [row EXCEPT !.attempts = attempts, !.scope = budget]

AdoptedBy(row, i, until) == [row EXCEPT !.owner = i, !.leaseUntil = until]

\* Fault: the launch columns survive.
DisownedKeepingLaunch(row, status) ==
  [row EXCEPT !.status = status, !.owner = None, !.leaseUntil = NoTime]

\* Ownership and every launch column are dropped.
Disowned(row, status) ==
  [row EXCEPT !.status = status, !.owner = None, !.leaseUntil = NoTime,
              !.launchState = "null", !.token = NoToken, !.pid = "null"]

Sampled == {t \in 0..clock : clock - t <= MaxDelay}

IsRunning(j)  == jobs[j].status = "running"
Running       == {j \in Jobs : IsRunning(j)}
RunningOn(r)  == {j \in Running : RouteOf[j] = r}

\* The owner's clause shared by every *Owned statement and by assertJobOwnedTx.
Owned(i, j, t) ==
  /\ IsRunning(j)
  /\ jobs[j].owner = i
  /\ jobs[j].leaseUntil # NoTime => jobs[j].leaseUntil >= t

LeaseExpired(j, t) == jobs[j].leaseUntil # NoTime /\ jobs[j].leaseUntil < t

\* A heartbeat row of i exists and is not older than `before`.
Fresh(i, before) == heartbeats[i] # NoTime /\ heartbeats[i] >= before

OwnerStale(j, before) == jobs[j].owner = None \/ ~Fresh(jobs[j].owner, before)

-----------------------------------------------------------------------------
(* Queue operations *)

\* INSERT OR IGNORE under a unique dedupe key: a key already there is ignored.
EnqueueJob(j) ==
  /\ jobs[j].status = "absent"
  /\ \A k \in Jobs : k < j => jobs[k].status # "absent"
  /\ jobs' = [jobs EXCEPT ![j].status = "pending"]
  /\ UNCHANGED <<heartbeats, routeAttempts, clock, issued, launches>>

\* Fault: one job of a route too many.
ClaimableOneOver(i, frontier) ==
  {j \in frontier \cap Accepts[i] :
     /\ jobs[j].status = "pending"
     /\ \/ RouteLimit[RouteOf[j]] = 0
        \/ Cardinality(RunningOn(RouteOf[j])) <= RouteLimit[RouteOf[j]]}

Claimable(i, frontier) ==
  {j \in frontier \cap Accepts[i] :
     /\ jobs[j].status = "pending"
     /\ \/ RouteLimit[RouteOf[j]] = 0
        \/ Cardinality(RunningOn(RouteOf[j])) < RouteLimit[RouteOf[j]]}

\* ORDER BY priority DESC, created_at ASC, id ASC
Precedes(j, k) ==
  Priority[j] > Priority[k] \/ (Priority[j] = Priority[k] /\ j < k)

\* ClaimNextJob is the case frontier = Jobs, ClaimNextJobInFrontier the others.
ClaimJob(i, j, frontier, t) ==
  /\ Cardinality(Running) < MaxGlobal
  /\ j \in Claimable(i, frontier)
  /\ \A k \in Claimable(i, frontier) \ {j} : Precedes(j, k)
  /\ jobs' = [jobs EXCEPT ![j] = ClaimedBy(@, i, t + Lease)]
  /\ UNCHANGED <<heartbeats, routeAttempts, clock, issued, launches>>

\* Fault: a claim with a launch spec already counts as launched.
NotLaunchedWithoutPreparing(j) == jobs[j].token = NoToken

\* Claims whose wrapper was never allowed to start: no kind and token, or
\* still "preparing".
NotLaunched(j) ==
  jobs[j].token = NoToken \/ jobs[j].launchState = "preparing"

\* Fault: expired and stale is taken to be enough.
ReleasableLaunched(j, i, active, t) ==
  /\ IsRunning(j) /\ LeaseExpired(j, t) /\ OwnerStale(j, t - Lease)
  /\ ~(j \in active /\ jobs[j].owner = i)

Releasable(j, i, active, t) ==
  /\ IsRunning(j)
  /\ LeaseExpired(j, t)
  /\ OwnerStale(j, t - Lease)
  /\ NotLaunched(j)
  /\ ~(j \in active /\ jobs[j].owner = i)

\* Fault: requeueing gives the attempt back, and so does finalizing later.
ReleaseExpiredLeasesRefunding(i, active, t) ==
  LET released == {j \in Jobs : Releasable(j, i, active, t)} IN
  /\ released # {}
  /\ jobs' = [j \in Jobs |-> IF j \in released THEN Disowned(jobs[j], "pending")
                                               ELSE jobs[j]]
  /\ routeAttempts' = [b \in Budgets |->
       routeAttempts[b] - Cardinality({j \in released : jobs[j].scope = b})]
  /\ UNCHANGED <<heartbeats, clock, issued, launches>>

ReleaseExpiredLeases(i, active, t) ==
  LET released == {j \in Jobs : Releasable(j, i, active, t)} IN
  /\ released # {}
  /\ jobs' = [j \in Jobs |-> IF j \in released THEN Disowned(jobs[j], "pending")
                                               ELSE jobs[j]]
  /\ UNCHANGED <<heartbeats, routeAttempts, clock, issued, launches>>

-----------------------------------------------------------------------------
(* The owner's launch protocol *)

\* The launch token is drawn at random for the call; a counter keeps it fresh.
PersistLaunchSpecOwned(i, j, t) ==
  /\ Owned(i, j, t)
  /\ jobs[j].launchState = "preparing"
  /\ issued[j] < MaxTokens
  /\ issued' = [issued EXCEPT ![j] = @ + 1]
  /\ jobs' = [jobs EXCEPT ![j].token = issued[j] + 1]
  /\ UNCHANGED <<heartbeats, routeAttempts, clock, launches>>

\* Fault: the update is not restricted to the owner and its token.
MarkJobLaunchingUnowned(i, j, token, t) ==
  /\ IsRunning(j) /\ jobs[j].launchState \in {"preparing", "launching"}
  /\ jobs' = [jobs EXCEPT ![j].launchState = "launching"]
  /\ launches' = [launches EXCEPT ![j] = @ \cup {token}]
  /\ UNCHANGED <<heartbeats, routeAttempts, clock, issued>>

MarkJobLaunchingOwned(i, j, token, t) ==
  /\ Owned(i, j, t)
  /\ jobs[j].launchState = "preparing"
  /\ jobs[j].token = token
  /\ jobs' = [jobs EXCEPT ![j].launchState = "launching"]
  /\ launches' = [launches EXCEPT ![j] = @ \cup {token}]
  /\ UNCHANGED <<heartbeats, routeAttempts, clock, issued>>

PersistLaunchRecordOwned(i, j, token, t) ==
  /\ Owned(i, j, t)
  /\ jobs[j].launchState = "launching"
  /\ jobs[j].token = token
  /\ jobs' = [jobs EXCEPT ![j] = WithProcess(@)]
  /\ UNCHANGED <<heartbeats, routeAttempts, clock, issued, launches>>

\* Fault: the lease ends now instead of a lease from now.
RenewJobLeaseNotExtended(i, j, t) ==
  /\ Owned(i, j, t)
  /\ jobs' = [jobs EXCEPT ![j].leaseUntil = t]
  /\ UNCHANGED <<heartbeats, routeAttempts, clock, issued, launches>>

RenewJobLease(i, j, t) ==
  /\ Owned(i, j, t)
  /\ jobs' = [jobs EXCEPT ![j].leaseUntil = t + Lease]
  /\ UNCHANGED <<heartbeats, routeAttempts, clock, issued, launches>>

IncrementAttemptsForJob(i, j, budget, t) ==
  /\ Owned(i, j, t)
  /\ routeAttempts[budget] < MaxAttempts
  /\ routeAttempts' = [routeAttempts EXCEPT ![budget] = @ + 1]
  /\ jobs' = [jobs EXCEPT ![j] = Charged(@, budget, routeAttempts[budget] + 1)]
  /\ UNCHANGED <<heartbeats, clock, issued, launches>>

\* reverseAttemptTx acts only on a charge that is recorded on both sides.
Refundable(j) ==
  /\ jobs[j].attempts > 0
  /\ jobs[j].scope # None
  /\ routeAttempts[jobs[j].scope] > 0

FinalizeJobOwned(i, j, status, workStarted, t) ==
  /\ Owned(i, j, t)
  /\ IF ~workStarted /\ Refundable(j)
     THEN /\ routeAttempts' = [routeAttempts EXCEPT ![jobs[j].scope] = @ - 1]
          /\ jobs' = [jobs EXCEPT
               ![j] = [Disowned(@, status) EXCEPT !.attempts = jobs[j].attempts - 1]]
     ELSE /\ jobs' = [jobs EXCEPT ![j] = Disowned(@, status)]
          /\ UNCHANGED routeAttempts
  /\ UNCHANGED <<heartbeats, clock, issued, launches>>

-----------------------------------------------------------------------------
(* Recovery of launched jobs whose owner is gone *)

\* Faults: a live owner is not asked; a launch in progress is not recovered; a
\* claim that never launched is adopted too.
RecoverableFromLiveOwner(j, t) ==
  /\ IsRunning(j) /\ LeaseExpired(j, t)
  /\ jobs[j].launchState \in {"launching", "running"} /\ jobs[j].token # NoToken

RecoverableOnceRecorded(j, t) ==
  /\ IsRunning(j) /\ LeaseExpired(j, t) /\ OwnerStale(j, t - Lease)
  /\ jobs[j].launchState = "running" /\ jobs[j].token # NoToken

RecoverablePreparing(j, t) ==
  /\ IsRunning(j) /\ LeaseExpired(j, t) /\ OwnerStale(j, t - Lease)
  /\ jobs[j].token # NoToken

Recoverable(j, t) ==
  /\ IsRunning(j)
  /\ LeaseExpired(j, t)
  /\ jobs[j].launchState \in {"launching", "running"}
  /\ jobs[j].token # NoToken
  /\ OwnerStale(j, t - Lease)

\* ListStaleDurableRunningJobs returned j with owner `old` some time ago.
AdoptStaleRunningJob(i, j, old, t) ==
  /\ jobs[j].owner = old
  /\ Recoverable(j, t)
  /\ jobs' = [jobs EXCEPT ![j] = AdoptedBy(@, i, t + Lease)]
  /\ UNCHANGED <<heartbeats, routeAttempts, clock, issued, launches>>

\* Fault: the wrong column is set.
MarkStaleRunningJobStatus(j, old, t) ==
  /\ jobs[j].owner = old
  /\ Recoverable(j, t)
  /\ jobs' = [jobs EXCEPT ![j].status = "unknown"]
  /\ UNCHANGED <<heartbeats, routeAttempts, clock, issued, launches>>

MarkStaleRunningJobUnknown(j, old, t) ==
  /\ jobs[j].owner = old
  /\ Recoverable(j, t)
  /\ jobs' = [jobs EXCEPT ![j].launchState = "unknown"]
  /\ UNCHANGED <<heartbeats, routeAttempts, clock, issued, launches>>

-----------------------------------------------------------------------------
(* Heartbeats and time *)

HeartbeatRunner(i, t) ==
  /\ heartbeats' = [heartbeats EXCEPT ![i] = t]
  /\ UNCHANGED <<jobs, routeAttempts, clock, issued, launches>>

DeleteRunnerHeartbeat(i) ==
  /\ heartbeats' = [heartbeats EXCEPT ![i] = NoTime]
  /\ UNCHANGED <<jobs, routeAttempts, clock, issued, launches>>

PruneStaleRunnerHeartbeats(t) ==
  /\ heartbeats' = [i \in Instances |-> IF heartbeats[i] < t - Lease
                                        THEN NoTime ELSE heartbeats[i]]
  /\ UNCHANGED <<jobs, routeAttempts, clock, issued, launches>>

Tick ==
  /\ clock < MaxTime
  /\ clock' = clock + 1
  /\ UNCHANGED <<jobs, heartbeats, routeAttempts, issued, launches>>

-----------------------------------------------------------------------------
(* The most general client: any instance calls any operation on any row at  *)
(* any moment, which is more than the daemons of this program do.           *)

Init ==
  /\ jobs = [j \in Jobs |-> AbsentRow]
  /\ heartbeats = [i \in Instances |-> NoTime]
  /\ routeAttempts = [b \in Budgets |-> 0]
  /\ clock = 0
  /\ issued = [j \in Jobs |-> 0]
  /\ launches = [j \in Jobs |-> {}]

OwnerStep(i, j, t) ==
  \/ PersistLaunchSpecOwned(i, j, t)
  \/ \E token \in 1..issued[j] : MarkJobLaunchingOwned(i, j, token, t)
  \/ \E token \in 1..issued[j] : PersistLaunchRecordOwned(i, j, token, t)
  \/ RenewJobLease(i, j, t)
  \/ \E budget \in Budgets : IncrementAttemptsForJob(i, j, budget, t)
  \/ \E status \in Terminal, workStarted \in BOOLEAN :
       FinalizeJobOwned(i, j, status, workStarted, t)

RecoveryStep(i, t) ==
  \/ \E active \in SUBSET Jobs : ReleaseExpiredLeases(i, active, t)
  \/ \E j \in Jobs, old \in Instances : AdoptStaleRunningJob(i, j, old, t)
  \/ \E j \in Jobs, old \in Instances : MarkStaleRunningJobUnknown(j, old, t)
  \/ PruneStaleRunnerHeartbeats(t)

Next ==
  \/ \E j \in Jobs : EnqueueJob(j)
  \/ \E i \in Instances, t \in Sampled :
       \/ \E frontier \in SUBSET Jobs : \E j \in frontier : ClaimJob(i, j, frontier, t)
       \/ \E j \in Jobs : OwnerStep(i, j, t)
       \/ RecoveryStep(i, t)
       \/ HeartbeatRunner(i, t)
  \/ \E i \in Instances : DeleteRunnerHeartbeat(i)
  \/ Tick

Spec == Init /\ [][Next]_storeVars

-----------------------------------------------------------------------------
(* Properties *)

TypeOK ==
  /\ jobs \in [Jobs -> Row]
  /\ heartbeats \in [Instances -> Nat \cup {NoTime}]
  /\ routeAttempts \in [Budgets -> Nat]
  /\ clock \in Nat
  /\ issued \in [Jobs -> Nat]
  /\ launches \in [Jobs -> SUBSET Nat]

\* Which columns a row may carry in which status.  Recovery selects rows by
\* these columns, so a row of another shape would be beyond its reach.
RowShape ==
  \A j \in Jobs :
    /\ ~IsRunning(j) => /\ jobs[j].owner = None
                        /\ jobs[j].leaseUntil = NoTime
                        /\ jobs[j].launchState = "null"
                        /\ jobs[j].token = NoToken
                        /\ jobs[j].pid = "null"
    /\ IsRunning(j) => /\ jobs[j].owner \in Instances
                       /\ jobs[j].leaseUntil # NoTime
                       /\ jobs[j].launchState # "null"
    /\ jobs[j].launchState \in {"launching", "running", "unknown"} =>
         jobs[j].token # NoToken
    /\ jobs[j].token <= issued[j]

\* ClaimJob and the recovery operations never let a wrapper be started twice
\* for one job: requeueing ends with the first permission to launch, and from
\* then on the row names the one token that was launched, which is what
\* recovery later compares with the wrapper's metadata.
LaunchedOnce ==
  \A j \in Jobs :
    /\ jobs[j].status \in {"absent", "pending"} => launches[j] = {}
    /\ jobs[j].launchState = "preparing" => launches[j] = {}
    /\ jobs[j].launchState \in {"launching", "running", "unknown"} =>
         launches[j] = {jobs[j].token}
    /\ \A t1, t2 \in launches[j] : t1 = t2

\* Concurrent claims of several daemons together respect queue.max_global_concurrency
\* and the route limits, whatever recovery does to the running rows.
CapacityRespected ==
  /\ Cardinality(Running) <= MaxGlobal
  /\ \A r \in Routes :
       RouteLimit[r] > 0 => Cardinality(RunningOn(r)) <= RouteLimit[r]

\* A running job whose lease ran out under a dead owner is always in the hands
\* of exactly one recovery path: requeue, adoption, or the operator (unknown).
NoOrphan ==
  \A j \in Jobs, i \in Instances :
    IsRunning(j) /\ LeaseExpired(j, clock) /\ OwnerStale(j, clock - Lease) =>
      LET requeue == Releasable(j, i, {}, clock)
          adopt   == Recoverable(j, clock)
          unknown == jobs[j].launchState = "unknown"
      IN  /\ requeue \/ adopt \/ unknown
          /\ ~(requeue /\ adopt) /\ ~(requeue /\ unknown) /\ ~(adopt /\ unknown)

\* No operation of another runner takes a job from an owner that holds a valid
\* lease or has a fresh heartbeat, however stale the taker's sampled time is:
\* such a job stays with its owner, and is not written off as unknown, until
\* the owner finalizes it.
OwnerKeepsJob ==
  [][\A j \in Jobs :
       /\ IsRunning(j)
       /\ ~LeaseExpired(j, clock) \/ ~OwnerStale(j, clock - Lease)
       => \/ jobs'[j].status \in Terminal
          \/ /\ jobs'[j].status = "running"
             /\ jobs'[j].owner = jobs[j].owner
             /\ jobs'[j].launchState = "unknown" => jobs[j].launchState = "unknown"
    ]_storeVars

\* Jobs in progress with an attempt charged to budget b.
Charging(b) ==
  {j \in Jobs : /\ jobs[j].status \in {"pending", "running"}
                /\ jobs[j].scope = b
                /\ jobs[j].attempts > 0}

\* The jobs in progress that charged an attempt to a budget are all still
\* counted there: a refund (work_started = false) of one job never eats the
\* charge of another, and requeueing a job never refunds it.
ChargesCovered == \A b \in Budgets : Cardinality(Charging(b)) <= routeAttempts[b]

=============================================================================
