---------------------------- MODULE LaunchProofs ----------------------------
(***************************************************************************)
(* What TLAPS proves of the wrappers in Supervision, for any number of      *)
(* jobs and daemons and any interleaving, crash and store failure: no       *)
(* wrapper at work is without its running row, no two daemons are in the    *)
(* middle of launching the same job, and no job ends with a status that     *)
(* contradicts its wrapper.                                                 *)
(*                                                                          *)
(* The first part states what the others do to the rows of one runner, and  *)
(* what a step of one runner must be like to keep the invariant; Shutdown   *)
(* and Wave have steps of their own and use the same lemmas.                *)
(***************************************************************************)
EXTENDS SupervisionProofs

-----------------------------------------------------------------------------
(* What others do to the rows of a runner *)

\* Row j is one that i holds.
Mine(i, j) == IsRunning(j) /\ jobs[j].owner = i

\* Recovery gave up on row j.
WrittenOff(j) ==
  /\ \E t \in Sampled : Recoverable(j, t)
  /\ jobs'[j] = [jobs[j] EXCEPT !.launchState = "unknown"]

\* A row that i holds after the step is one it held before, and is as it was
\* unless recovery has just given up on it.
Untouched(i, j) ==
  Mine(i, j)' => Mine(i, j) /\ (jobs'[j] = jobs[j] \/ WrittenOff(j))

\* A write of one row that does not give it to i leaves i's rows alone.
LEMMA OthersRow ==
  ASSUME SupInvariant, NEW i \in Instances, NEW l \in Jobs, NEW row, row.owner # i,
         jobs' = [jobs EXCEPT ![l] = row], NEW j \in Jobs
  PROVE  Untouched(i, j)
<1>1. jobs \in [Jobs -> Row]
  BY DEF SupInvariant, TypeOK
<1>2. CASE j = l
  BY <1>1, <1>2 DEF Untouched, Mine
<1>3. CASE j # l
  BY <1>1, <1>3 DEF Untouched, Mine, IsRunning
<1>4. QED BY <1>2, <1>3

(* A client writes its own id only into rows it has claimed or adopted, and     *)
(* extends no lease but its own.                                                *)
LEMMA OthersLeaveRows ==
  ASSUME SupInvariant, NEW i \in Instances, NEW k \in Instances \ {i},
         [ClientStep(k)]_storeVars, NEW j \in Jobs
  PROVE  Untouched(i, j)
<1>g. jobs \in [Jobs -> Row]
  BY DEF SupInvariant, TypeOK
<1>n. None # i /\ k # i
  BY ConstantsAssumption
<1>1. ASSUME NEW t, NEW l \in Jobs, NEW frontier, ClaimJob(k, l, frontier, t)
      PROVE  Untouched(i, j)
  <2> DEFINE row == ClaimedBy(jobs[l], k, t + Lease)
  <2>1. jobs' = [jobs EXCEPT ![l] = row]
    BY <1>1, <1>g DEF ClaimJob
  <2>2. row.owner # i
    BY <1>g, <1>n DEF ClaimedBy, Row
  <2> HIDE DEF row
  <2>3. QED BY <2>1, <2>2, OthersRow
<1>2. ASSUME NEW t, NEW l \in Jobs, OwnerStep(k, l, t)
      PROVE  Untouched(i, j)
  <2>o. jobs[l] \in Row /\ jobs[l].owner = k
    BY <1>2, <1>g DEF OwnerStep, PersistLaunchSpecOwned, MarkJobLaunchingOwned,
       PersistLaunchRecordOwned, RenewJobLease, IncrementAttemptsForJob, FinalizeJobOwned,
       Owned
  <2>1. PICK row : /\ jobs' = [jobs EXCEPT ![l] = row]
                   /\ row.owner \in {k, None}
    <3>1. CASE PersistLaunchSpecOwned(k, l, t)
      <4> DEFINE row == [jobs[l] EXCEPT !.token = issued[l] + 1]
      <4>1. jobs' = [jobs EXCEPT ![l] = row]
        BY <3>1 DEF PersistLaunchSpecOwned
      <4>2. row.owner = k
        BY <2>o DEF Row
      <4>3. QED BY <4>1, <4>2
    <3>2. ASSUME NEW token, MarkJobLaunchingOwned(k, l, token, t)
          PROVE  \E row : /\ jobs' = [jobs EXCEPT ![l] = row]
                          /\ row.owner \in {k, None}
      <4> DEFINE row == [jobs[l] EXCEPT !.launchState = "launching"]
      <4>1. jobs' = [jobs EXCEPT ![l] = row]
        BY <3>2 DEF MarkJobLaunchingOwned
      <4>2. row.owner = k
        BY <2>o DEF Row
      <4>3. QED BY <4>1, <4>2
    <3>3. ASSUME NEW token, PersistLaunchRecordOwned(k, l, token, t)
          PROVE  \E row : /\ jobs' = [jobs EXCEPT ![l] = row]
                          /\ row.owner \in {k, None}
      <4> DEFINE row == WithProcess(jobs[l])
      <4>1. jobs' = [jobs EXCEPT ![l] = row]
        BY <3>3 DEF PersistLaunchRecordOwned
      <4>2. row.owner = k
        BY <2>o DEF Row, WithProcess
      <4> HIDE DEF row
      <4>3. QED BY <4>1, <4>2
    <3>4. CASE RenewJobLease(k, l, t)
      <4> DEFINE row == [jobs[l] EXCEPT !.leaseUntil = t + Lease]
      <4>1. jobs' = [jobs EXCEPT ![l] = row]
        BY <3>4 DEF RenewJobLease
      <4>2. row.owner = k
        BY <2>o DEF Row
      <4>3. QED BY <4>1, <4>2
    <3>5. ASSUME NEW budget, IncrementAttemptsForJob(k, l, budget, t)
          PROVE  \E row : /\ jobs' = [jobs EXCEPT ![l] = row]
                          /\ row.owner \in {k, None}
      <4> DEFINE row == Charged(jobs[l], budget, routeAttempts[budget] + 1)
      <4>1. jobs' = [jobs EXCEPT ![l] = row]
        BY <3>5 DEF IncrementAttemptsForJob
      <4>2. row.owner = k
        BY <2>o DEF Row, Charged
      <4> HIDE DEF row
      <4>3. QED BY <4>1, <4>2
    <3>6. ASSUME NEW status, NEW workStarted, FinalizeJobOwned(k, l, status, workStarted, t)
          PROVE  \E row : /\ jobs' = [jobs EXCEPT ![l] = row]
                          /\ row.owner \in {k, None}
      <4>1. PICK row : /\ jobs' = [jobs EXCEPT ![l] = row]
                       /\ row \in {Disowned(jobs[l], status),
                                  [Disowned(jobs[l], status) EXCEPT
                                     !.attempts = jobs[l].attempts - 1]}
        BY <3>6 DEF FinalizeJobOwned
      <4>2. row.owner = None
        BY <4>1, <2>o DEF Row, Disowned
      <4>3. QED BY <4>1, <4>2
    <3>7. QED BY <1>2, <3>1, <3>2, <3>3, <3>4, <3>5, <3>6 DEF OwnerStep
  <2>2. QED BY <2>1, <1>n, OthersRow
<1>3. ASSUME NEW t \in Sampled, RecoveryStep(k, t) PROVE Untouched(i, j)
  <2>1. ASSUME NEW active, ReleaseExpiredLeases(k, active, t)
        PROVE  Untouched(i, j)
    <3>1.
          /\ jobs'[j] = Disowned(jobs[j], "pending") \/ jobs'[j] = jobs[j]
      BY <2>1 DEF ReleaseExpiredLeases
    <3>2. Disowned(jobs[j], "pending").status = "pending"
      BY <1>g DEF Disowned, Row
    <3>3. QED BY <3>1, <3>2 DEF Untouched, Mine, IsRunning
  <2>2. ASSUME NEW l \in Jobs, NEW old, AdoptStaleRunningJob(k, l, old, t)
        PROVE  Untouched(i, j)
    <3> DEFINE row == AdoptedBy(jobs[l], k, t + Lease)
    <3>1. jobs' = [jobs EXCEPT ![l] = row]
      BY <2>2 DEF AdoptStaleRunningJob
    <3>2. row.owner # i
      BY <1>g, <1>n DEF AdoptedBy, Row
    <3> HIDE DEF row
    <3>3. QED BY <3>1, <3>2, OthersRow
  <2>3. ASSUME NEW l \in Jobs, NEW old, MarkStaleRunningJobUnknown(l, old, t)
        PROVE  Untouched(i, j)
    <3>1. jobs' = [jobs EXCEPT ![l].launchState = "unknown"] /\ Recoverable(l, t)
      BY <2>3 DEF MarkStaleRunningJobUnknown
    <3>2. CASE j = l
      <4>1. jobs'[j] = [jobs[j] EXCEPT !.launchState = "unknown"]
        BY <3>1, <3>2, <1>g
      <4>2. /\ jobs'[j].status = jobs[j].status /\ jobs'[j].owner = jobs[j].owner
        BY <4>1, <1>g DEF Row
      <4>3. WrittenOff(j)
        BY <3>1, <3>2, <4>1 DEF WrittenOff
      <4>4. QED BY <4>2, <4>3 DEF Untouched, Mine, IsRunning
    <3>3. CASE j # l
      <4>1. jobs'[j] = jobs[j]
        BY <3>1, <3>3, <1>g
      <4>2. QED BY <4>1 DEF Untouched, Mine, IsRunning
    <3>4. QED BY <3>2, <3>3
  <2>4. PruneStaleRunnerHeartbeats(t) => Untouched(i, j)
    BY DEF PruneStaleRunnerHeartbeats, Untouched, Mine, IsRunning
  <2>5. QED BY <1>3, <2>1, <2>2, <2>3, <2>4 DEF RecoveryStep
<1>4. CASE \/ HeartbeatRunner(k, clock)
           \/ DeleteRunnerHeartbeat(k) \/ UNCHANGED storeVars
  BY <1>4 DEF HeartbeatRunner, DeleteRunnerHeartbeat, storeVars, Untouched, Mine, IsRunning
<1>5. QED BY <1>1, <1>2, <1>3, <1>4 DEF ClientStep

\* No call of a client moves the clock.
LEMMA ClientStepKeepsClock ==
  ASSUME NEW k \in Instances, [ClientStep(k)]_storeVars
  PROVE  clock' = clock
BY DEF ClientStep, OwnerStep, RecoveryStep, ClaimJob, PersistLaunchSpecOwned,
   MarkJobLaunchingOwned, PersistLaunchRecordOwned, RenewJobLease, IncrementAttemptsForJob,
   FinalizeJobOwned, ReleaseExpiredLeases, AdoptStaleRunningJob, MarkStaleRunningJobUnknown,
   PruneStaleRunnerHeartbeats, HeartbeatRunner, DeleteRunnerHeartbeat, storeVars

\* The steps that belong to no instance.
Elsewhere ==
  \/ \E j \in Jobs : Enqueue(j)
  \/ \E j \in Jobs, token \in Tokens : WriteMetadata(j, token) \/ WrapperEnds(j, token)
  \/ SlowTick
  \/ UNCHANGED supVars

LEMMA ElsewhereIsSupStep ==
  ASSUME Elsewhere
  PROVE  [SupNext]_supVars
BY DEF Elsewhere, SupNext, Surroundings

\* The steps of no instance write no owner and no lease, and time only advances.
LEMMA ElsewhereLeavesRows ==
  ASSUME SupInvariant, NEW i \in Instances, Elsewhere
  PROVE  /\ \A j \in Jobs : Untouched(i, j)
         /\ clock <= clock'
<1>g. jobs \in [Jobs -> Row] /\ clock \in Nat
  BY DEF SupInvariant, TypeOK
<1>1. ASSUME NEW l \in Jobs, Enqueue(l)
      PROVE  (\A j \in Jobs : Untouched(i, j)) /\ clock <= clock'
  <2>1. jobs' = [jobs EXCEPT ![l].status = "pending"] /\ clock' = clock
    BY <1>1 DEF Enqueue, EnqueueJob
  <2>2. \A j \in Jobs : jobs'[j] = jobs[j] \/ jobs'[j].status = "pending"
    BY <2>1, <1>g DEF Row
  <2>3. QED BY <2>1, <2>2, <1>g DEF Untouched, Mine, IsRunning
<1>2. CASE jobs' = jobs /\ clock' = clock
  BY <1>2, <1>g DEF Untouched, Mine, IsRunning
<1>3. CASE SlowTick
  BY <1>3, <1>g DEF SlowTick, Tick, Untouched, Mine, IsRunning
<1>4. QED
  BY <1>1, <1>2, <1>3 DEF Elsewhere, WriteMetadata, WrapperEnds, StoreIdle, storeVars, supVars

(* So i knows what became of a row that it holds. *)
LEMMA UntouchedRow ==
  ASSUME SupInvariant, NEW i \in Instances, NEW j \in Jobs, Untouched(i, j), Mine(i, j)'
  PROVE  /\ Mine(i, j)
         /\ jobs'[j].leaseUntil = jobs[j].leaseUntil
         /\ jobs'[j].token = jobs[j].token
         /\ jobs[j].launchState = "preparing" => jobs'[j].launchState = "preparing"
<1>1. jobs[j] \in Row
  BY DEF SupInvariant, TypeOK
<1>2. Mine(i, j)
  BY DEF Untouched
<1>3. CASE jobs'[j] = jobs[j]
  BY <1>2, <1>3
<1>4. CASE WrittenOff(j)
  <2>1. jobs'[j].leaseUntil = jobs[j].leaseUntil /\ jobs'[j].token = jobs[j].token
    BY <1>1, <1>4 DEF WrittenOff, Row
  <2>2. jobs[j].launchState # "preparing"
    BY <1>4 DEF WrittenOff, Recoverable
  <2>3. QED BY <1>2, <2>1, <2>2
<1>5. QED BY <1>3, <1>4 DEF Untouched

\* What i still holds of job j has run out.
LeaseGone(i, j) == IsRunning(j) /\ jobs[j].owner = i => LeaseExpired(j, clock)

(* A row left alone stays without a lease. *)
LEMMA LeaseStaysGone ==
  ASSUME SupInvariant, NEW i \in Instances, NEW j \in Jobs, LeaseGone(i, j),
         Untouched(i, j), clock' \in Nat, clock <= clock'
  PROVE  LeaseGone(i, j)'
<1>1. jobs[j].leaseUntil \in Nat \cup {NoTime} /\ clock \in Nat
  BY DEF SupInvariant, TypeOK, Row
<1>2. CASE Mine(i, j)'
  BY <1>1, <1>2, UntouchedRow DEF LeaseGone, Mine, LeaseExpired, NoTime
<1>3. CASE ~Mine(i, j)'
  BY <1>3 DEF LeaseGone, Mine, IsRunning
<1>4. QED BY <1>2, <1>3

\* A refused call: the lease is not i's any more.
LEMMA RefusedIsGone ==
  ASSUME NEW i \in Instances, NEW j \in Jobs, ~Owned(i, j, clock), SupInvariant
  PROVE  LeaseGone(i, j)
<1>1. jobs[j].leaseUntil \in Nat \cup {NoTime} /\ clock \in Nat
  BY DEF SupInvariant, TypeOK, Row
<1>2. QED BY <1>1 DEF Owned, LeaseGone, LeaseExpired, NoTime

\* A settled job is not i's any more, and no other row is written.
LEMMA SettledIsGone ==
  ASSUME SupInvariant, NEW i \in Instances, NEW j \in Jobs, NEW status \in Terminal,
         NEW workStarted, FinalizeJobOwned(i, j, status, workStarted, clock)
  PROVE  /\ LeaseGone(i, j)'
         /\ \A l \in Jobs \ {j} : LeaseGone(i, l) => LeaseGone(i, l)'
<1>1. PICK row : /\ jobs' = [jobs EXCEPT ![j] = row] /\ clock' = clock
                 /\ row \in {Disowned(jobs[j], status),
                            [Disowned(jobs[j], status) EXCEPT
                               !.attempts = jobs[j].attempts - 1]}
  BY DEF FinalizeJobOwned
<1>2. jobs \in [Jobs -> Row]
  BY DEF SupInvariant, TypeOK
<1>3. row.status # "running"
  BY <1>1, <1>2 DEF Disowned, Row, Terminal
<1>4. jobs'[j] = row /\ \A l \in Jobs \ {j} : jobs'[l] = jobs[l]
  BY <1>1, <1>2
<1>5. QED BY <1>1, <1>3, <1>4 DEF LeaseGone, IsRunning, LeaseExpired

\* What Inspect returns is an observation, or that nothing was reported.
LEMMA InspectionType ==
  ASSUME WrappersOK, NEW row, NEW j \in Jobs
  PROVE  /\ Reported(row, j) \in Outcomes \cup {"none"}
         /\ FromProcess(row, j) \in Observations
BY DEF WrappersOK, Reported, FromProcess, Observations

\* A permission to launch is never taken back.
LEMMA LaunchesStay ==
  ASSUME SupInvariant, [Next]_storeVars, NEW j \in Jobs
  PROVE  launches[j] \subseteq launches'[j]
BY EveryStepIsARowStep
DEF RowStep, RowEnqueued, RowClaimed, RowReleased, RowSpecified, RowLaunching, RowRecorded,
    RowRenewed, RowCharged, RowFinalized, RowAdopted, RowUnknown, SameHistory, SupInvariant

-----------------------------------------------------------------------------
(* The invariant of the wrappers and their launchers *)

\* Wrappers of j that run and have not reported; the goroutines that are about to
\* start one; and whether there are neither.
AtWork(j)   == {t \in processes[j] : metadata[j][t] = "none"}
AtLaunch(j) == \E k \in Instances : At(k, "launch") /\ daemon[k].job = j
Free(j)     == AtWork(j) = {} /\ ~AtLaunch(j)

\* From the permission to launch to its record or its compensation, and before.
LaunchingStages == {"launch", "persistRecord", "cleanup", "compensate"}
ClaimStages     == {"prepare", "persistSpec", "markLaunching"}

\* A launched wrapper of j has reported obs; a malformed result file makes a
\* failure of any report.
Witnessed(j, obs) ==
  \E t \in launches[j] \cap Tokens :
    metadata[j][t] = obs \/ (obs = "failed" /\ metadata[j][t] # "none")

\* Only launched wrappers run and report, and what is at work is running.
Traced(j) ==
  /\ processes[j] \subseteq launches[j]
  /\ \A t \in Tokens : metadata[j][t] # "none" => t \in launches[j]
  /\ AtWork(j) # {} => IsRunning(j)

\* What goroutine i, with j in hand, may rely on: a claim of its own is still
\* preparing; the job it may launch has had no wrapper yet; nothing is at work in
\* the job whose launch it is about to fail.
HandOK(i, j) ==
  daemon[i].job = j =>
    /\ daemon[i].stage \in LaunchingStages => daemon[i].token \in launches[j]
    /\ daemon[i].stage \in ClaimStages /\ Mine(i, j) => jobs[j].launchState = "preparing"
    /\ daemon[i].stage = "launch" =>
         /\ IsRunning(j) /\ processes[j] = {}
         /\ \A t \in Tokens : metadata[j][t] = "none"
    /\ daemon[i].stage = "launchFailed" /\ Mine(i, j) => Free(j)

\* What it has seen and not yet acted on has been reported.
SeenOK(i, j) == daemon[i].seen[j] \in Outcomes => Witnessed(j, daemon[i].seen[j])

\* Two goroutines are not both launching the same job.
Apart(i, k) ==
  /\ daemon[i].stage \in LaunchingStages
  /\ daemon[k].stage \in LaunchingStages
  => daemon[i].job # daemon[k].job

LaunchInvariant ==
  /\ \A j \in Jobs : Traced(j)
  /\ \A i \in Instances, j \in Jobs : HandOK(i, j) /\ SeenOK(i, j)
  /\ \A i, k \in Instances : i # k => Apart(i, k)

-----------------------------------------------------------------------------
(* Steps that launch nothing *)

\* Wrappers may end or report, and no other is started.
WrappersEndOrReport ==
  \A j \in Jobs :
    /\ processes'[j] \subseteq processes[j]
    /\ \A t \in Tokens : \/ metadata'[j][t] = metadata[j][t]
                         \/ metadata[j][t] = "none" /\ t \in processes[j]

\* A job that stops running has nothing at work and nobody about to launch it.
OnlyFreeJobsStop == \A j \in Jobs : IsRunning(j) => IsRunning(j)' \/ Free(j)

\* Goroutine i goes no further with a launch than to give it up.
GoesOn(i) ==
  /\ daemon'[i].stage \in LaunchingStages =>
       daemon[i].stage \in LaunchingStages /\ daemon'[i].job = daemon[i].job
  /\ daemon'[i].stage = "launch" => daemon[i].stage = "launch"
  /\ \A j \in Jobs : HandOK(i, j)' /\ SeenOK(i, j)'

\* Goroutine k does nothing, and nobody else touches its rows.
StandsStill(k) == daemon'[k] = daemon[k] /\ \A j \in Jobs : Untouched(k, j)

(* What a launched wrapper has reported stays reported. *)
LEMMA WitnessStays ==
  ASSUME WrappersEndOrReport, launches' = launches, NEW j \in Jobs, NEW obs \in Outcomes,
         Witnessed(j, obs)
  PROVE  Witnessed(j, obs)'
<1>1. PICK t \in launches[j] \cap Tokens :
        metadata[j][t] = obs \/ (obs = "failed" /\ metadata[j][t] # "none")
  BY DEF Witnessed
<1>2. metadata[j][t] # "none"
  BY <1>1 DEF Outcomes
<1>3. metadata'[j][t] = metadata[j][t]
  BY <1>1, <1>2 DEF WrappersEndOrReport
<1>4. QED BY <1>1, <1>3 DEF Witnessed

(* The general step: the goroutines of M move without launching anything, the  *)
(* others stand still.                                                          *)
LEMMA QuietStep ==
  ASSUME SupInvariant, LaunchInvariant, launches' = launches, WrappersEndOrReport,
         OnlyFreeJobsStop, NEW M \in SUBSET Instances,
         \A i \in M : GoesOn(i), \A k \in Instances \ M : StandsStill(k)
  PROVE  LaunchInvariant'
<1>w. \A j \in Jobs : AtWork(j)' \subseteq AtWork(j)
  <2> SUFFICES ASSUME NEW j \in Jobs, NEW t \in processes'[j], metadata'[j][t] = "none"
               PROVE  t \in processes[j] /\ metadata[j][t] = "none"
    BY DEF AtWork
  <2>1. t \in processes[j]
    BY DEF WrappersEndOrReport
  <2>2. t \in Tokens
    BY <2>1 DEF SupInvariant, WrappersOK
  <2>3. QED BY <2>1, <2>2 DEF WrappersEndOrReport
<1>l. \A j \in Jobs : AtLaunch(j)' => AtLaunch(j)
  <2> SUFFICES ASSUME NEW j \in Jobs, NEW k \in Instances,
                      daemon'[k].stage = "launch", daemon'[k].job = j
               PROVE  daemon[k].stage = "launch" /\ daemon[k].job = j
    BY DEF AtLaunch, At
  <2>1. CASE k \in M
    BY <2>1 DEF GoesOn, LaunchingStages
  <2>2. CASE k \notin M
    BY <2>2 DEF StandsStill
  <2>3. QED BY <2>1, <2>2
<1>f. \A j \in Jobs : Free(j) => Free(j)'
  BY <1>w, <1>l DEF Free
<1>1. ASSUME NEW j \in Jobs PROVE Traced(j)'
  <2>1. Traced(j)
    BY DEF LaunchInvariant
  <2>2. processes'[j] \subseteq launches'[j]
    BY <2>1 DEF Traced, WrappersEndOrReport
  <2>3. \A t \in Tokens : metadata'[j][t] # "none" => t \in launches'[j]
    BY <2>1 DEF Traced, WrappersEndOrReport
  <2>4. AtWork(j)' # {} => IsRunning(j)'
    BY <1>w, <2>1 DEF Traced, OnlyFreeJobsStop, Free
  <2>5. QED BY <2>2, <2>3, <2>4 DEF Traced
<1>2. ASSUME NEW i \in Instances, NEW j \in Jobs PROVE HandOK(i, j)' /\ SeenOK(i, j)'
  <2>1. CASE i \in M
    BY <2>1 DEF GoesOn
  <2>2. CASE i \notin M
    <3>1. daemon'[i] = daemon[i] /\ Untouched(i, j)
      BY <2>2 DEF StandsStill
    <3>2. HandOK(i, j) /\ SeenOK(i, j)
      BY DEF LaunchInvariant
    <3>3. SeenOK(i, j)'
      BY <3>1, <3>2, WitnessStays DEF SeenOK
    <3>4. ASSUME daemon[i].job = j, daemon[i].stage = "launch"
          PROVE  /\ IsRunning(j)' /\ processes'[j] = {}
                 /\ \A t \in Tokens : metadata'[j][t] = "none"
      <4>1. /\ IsRunning(j) /\ processes[j] = {}
            /\ \A t \in Tokens : metadata[j][t] = "none"
        BY <3>2, <3>4 DEF HandOK
      <4>2. ~Free(j)
        BY <3>4 DEF Free, AtLaunch, At
      <4>3. QED BY <4>1, <4>2 DEF OnlyFreeJobsStop, WrappersEndOrReport
    <3>5. ASSUME Mine(i, j)'
          PROVE  /\ Mine(i, j)
                 /\ jobs[j].launchState = "preparing" => jobs'[j].launchState = "preparing"
      BY <3>1, <3>5, UntouchedRow
    <3>6. HandOK(i, j)'
      BY <1>f, <3>1, <3>2, <3>4, <3>5 DEF HandOK
    <3>7. QED BY <3>3, <3>6
  <2>3. QED BY <2>1, <2>2
<1>3. ASSUME NEW i \in Instances, NEW k \in Instances, i # k PROVE Apart(i, k)'
  <2>1. Apart(i, k)
    BY <1>3 DEF LaunchInvariant
  <2>2. ASSUME NEW l \in Instances, daemon'[l].stage \in LaunchingStages
        PROVE  daemon[l].stage \in LaunchingStages /\ daemon'[l].job = daemon[l].job
    BY <2>2 DEF GoesOn, StandsStill
  <2>3. QED BY <2>1, <2>2 DEF Apart
<1>4. QED BY <1>1, <1>2, <1>3 DEF LaunchInvariant

-----------------------------------------------------------------------------
(* The two steps that launch *)

(* Nothing is at work in a job that was never launched. *)
LEMMA NotLaunchedIsFree ==
  ASSUME LaunchInvariant, WrappersOK, NEW j \in Jobs, launches[j] = {}
  PROVE  /\ Free(j) /\ processes[j] = {}
         /\ \A t \in Tokens : metadata[j][t] = "none"
         /\ \A k \in Instances : daemon[k].job = j => daemon[k].stage \notin LaunchingStages
<1>1. Traced(j) /\ \A k \in Instances : HandOK(k, j)
  BY DEF LaunchInvariant
<1>2. \A k \in Instances : daemon[k].job = j => daemon[k].stage \notin LaunchingStages
  BY <1>1 DEF HandOK
<1>3. processes[j] = {} /\ \A t \in Tokens : metadata[j][t] = "none"
  BY <1>1 DEF Traced
<1>4. Free(j)
  BY <1>2, <1>3 DEF Free, AtWork, AtLaunch, At, LaunchingStages
<1>5. QED BY <1>2, <1>3, <1>4

(* Nothing is at work in a job whose wrapper has reported. *)
LEMMA WitnessedIsFree ==
  ASSUME SupInvariant, LaunchInvariant, NEW j \in Jobs, NEW obs \in Outcomes,
         Witnessed(j, obs)
  PROVE  Free(j)
<1>1. PICK t \in launches[j] \cap Tokens : metadata[j][t] # "none"
  BY DEF Witnessed, Outcomes
<1>2. launches[j] = {t}
  BY <1>1 DEF SupInvariant, RowInvariant, LaunchedOnce
<1>3. AtWork(j) = {}
  BY <1>1, <1>2 DEF LaunchInvariant, Traced, AtWork
<1>4. ~AtLaunch(j)
  BY <1>1 DEF LaunchInvariant, HandOK, AtLaunch, At
<1>5. QED BY <1>3, <1>4 DEF Free

(* The permission to launch: the first and only one of the job. *)
LEMMA PermissionStep ==
  ASSUME SupInvariant, LaunchInvariant, NEW i \in Instances, MarkLaunching(i),
         GoTo(i, "launch"),
         MarkJobLaunchingOwned(i, daemon[i].job, daemon[i].token, clock),
         \A k \in Instances \ {i} : StandsStill(k)
  PROVE  LaunchInvariant'
<1>1. PICK j \in Jobs : daemon[i].job = j
  BY DEF SupInvariant, DaemonsOK, GoroutineOK, MarkLaunching, At, JobStages, TokenStages
<1>2. PICK token \in Tokens : daemon[i].token = token
  BY DEF SupInvariant, DaemonsOK, GoroutineOK, MarkLaunching, At, TokenStages
<1>3. /\ Mine(i, j) /\ jobs[j].launchState = "preparing"
      /\ jobs' = [jobs EXCEPT ![j].launchState = "launching"]
      /\ launches' = [launches EXCEPT ![j] = @ \cup {token}]
  BY <1>1, <1>2 DEF MarkJobLaunchingOwned, Owned, Mine
<1>4. UNCHANGED <<processes, metadata>>
  BY DEF MarkLaunching, wrapperVars
<1>5. launches[j] = {}
  BY <1>3 DEF SupInvariant, RowInvariant, LaunchedOnce
<1>6. /\ processes[j] = {} /\ \A t \in Tokens : metadata[j][t] = "none"
      /\ \A k \in Instances : daemon[k].job = j => daemon[k].stage \notin LaunchingStages
  BY <1>5, NotLaunchedIsFree DEF SupInvariant
<1>7. /\ launches'[j] = {token}
      /\ \A l \in Jobs \ {j} : launches'[l] = launches[l] /\ jobs'[l] = jobs[l]
  BY <1>3, <1>5 DEF SupInvariant, TypeOK
<1>8. IsRunning(j)' /\ jobs'[j].owner = i
  <2>1. jobs[j] \in Row /\ jobs'[j] = [jobs[j] EXCEPT !.launchState = "launching"]
    BY <1>3 DEF SupInvariant, TypeOK
  <2>2. jobs'[j].status = jobs[j].status /\ jobs'[j].owner = jobs[j].owner
    BY <2>1 DEF Row
  <2>3. QED BY <1>3, <2>2 DEF Mine, IsRunning
<1>9. /\ daemon'[i].stage = "launch" /\ daemon'[i].job = j /\ daemon'[i].token = token
      /\ daemon'[i].seen = daemon[i].seen
      /\ \A k \in Instances \ {i} : daemon'[k] = daemon[k]
  BY <1>1, <1>2 DEF GoTo, StandsStill, SupInvariant, DaemonsOK, Reconcile
<1>10. ASSUME NEW l \in Jobs, NEW obs, Witnessed(l, obs) PROVE Witnessed(l, obs)'
  BY <1>4, <1>5, <1>7, <1>10 DEF Witnessed
<1>11. ASSUME NEW l \in Jobs PROVE Traced(l)'
  <2>1. CASE l = j
    BY <1>4, <1>6, <1>7, <1>8, <2>1 DEF Traced
  <2>2. CASE l # j
    BY <1>4, <1>7, <2>2 DEF LaunchInvariant, Traced, AtWork, IsRunning
  <2>3. QED BY <2>1, <2>2
<1>12. ASSUME NEW k \in Instances, NEW l \in Jobs PROVE SeenOK(k, l)'
  <2>1. daemon'[k].seen = daemon[k].seen
    BY <1>9
  <2>2. SeenOK(k, l)
    BY DEF LaunchInvariant
  <2>3. QED BY <1>10, <2>1, <2>2 DEF SeenOK
<1>13. ASSUME NEW k \in Instances, NEW l \in Jobs PROVE HandOK(k, l)'
  <2>1. CASE k = i
    BY <1>4, <1>6, <1>7, <1>8, <1>9, <2>1 DEF HandOK, ClaimStages
  <2>2. CASE k # i /\ l = j
    <3>1. ~Mine(k, j)'
      BY <1>8, <2>2 DEF Mine
    <3>2. QED BY <1>6, <1>9, <2>2, <3>1 DEF HandOK, LaunchingStages
  <2>3. CASE k # i /\ l # j
    <3>1. HandOK(k, l)
      BY DEF LaunchInvariant
    <3>2. Free(l) => Free(l)'
      BY <1>4, <1>9, <2>3 DEF Free, AtWork, AtLaunch, At
    <3>3. Mine(k, l)' = Mine(k, l) /\ IsRunning(l)' = IsRunning(l)
      BY <1>7, <2>3 DEF Mine, IsRunning
    <3>4. QED BY <1>4, <1>7, <1>9, <2>3, <3>1, <3>2, <3>3 DEF HandOK
  <2>4. QED BY <2>1, <2>2, <2>3
<1>14. ASSUME NEW k \in Instances, NEW l \in Instances, k # l PROVE Apart(k, l)'
  BY <1>6, <1>9, <1>14 DEF LaunchInvariant, Apart
<1>15. QED BY <1>11, <1>12, <1>13, <1>14 DEF LaunchInvariant

(* The start of the wrapper. *)
LEMMA WrapperStep ==
  ASSUME SupInvariant, LaunchInvariant, NEW i \in Instances, Launch(i),
         GoTo(i, "persistRecord"),
         processes' = [processes EXCEPT ![daemon[i].job] = @ \cup {daemon[i].token}],
         \A k \in Instances \ {i} : StandsStill(k)
  PROVE  LaunchInvariant'
<1>1. PICK j \in Jobs : daemon[i].job = j
  BY DEF SupInvariant, DaemonsOK, GoroutineOK, Launch, At, JobStages, TokenStages
<1>2. PICK token \in Tokens : daemon[i].token = token
  BY DEF SupInvariant, DaemonsOK, GoroutineOK, Launch, At, TokenStages
<1>3. UNCHANGED <<jobs, launches, metadata>> /\ daemon[i].stage = "launch"
  BY DEF Launch, StoreIdle, storeVars, At
<1>4. /\ token \in launches[j] /\ IsRunning(j)
  BY <1>1, <1>2, <1>3 DEF LaunchInvariant, HandOK, LaunchingStages
<1>5. AtLaunch(j)
  BY <1>1, <1>3 DEF AtLaunch, At
<1>6. /\ processes'[j] = processes[j] \cup {token}
      /\ \A l \in Jobs \ {j} : processes'[l] = processes[l]
  BY <1>1, <1>2 DEF SupInvariant, WrappersOK
<1>7. /\ daemon'[i].stage = "persistRecord" /\ daemon'[i].job = j
      /\ daemon'[i].token = token /\ daemon'[i].seen = daemon[i].seen
      /\ \A k \in Instances \ {i} : daemon'[k] = daemon[k]
  BY <1>1, <1>2 DEF GoTo, StandsStill, SupInvariant, DaemonsOK, Reconcile
<1>8. \A k \in Instances \ {i} : daemon[k].job = j => daemon[k].stage # "launch"
  BY <1>1, <1>3 DEF LaunchInvariant, Apart, LaunchingStages
<1>9. ASSUME NEW l \in Jobs PROVE Traced(l)'
  <2>1. Traced(l)
    BY DEF LaunchInvariant
  <2>2. CASE l = j
    BY <1>3, <1>4, <1>6, <2>1, <2>2 DEF Traced, IsRunning
  <2>3. CASE l # j
    BY <1>3, <1>6, <2>1, <2>3 DEF Traced, AtWork, IsRunning
  <2>4. QED BY <2>2, <2>3
<1>10. ASSUME NEW k \in Instances, NEW l \in Jobs PROVE SeenOK(k, l)'
  <2>1. daemon'[k].seen = daemon[k].seen
    BY <1>7
  <2>2. SeenOK(k, l)
    BY DEF LaunchInvariant
  <2>3. QED BY <1>3, <2>1, <2>2 DEF SeenOK, Witnessed
<1>11. ASSUME NEW k \in Instances, NEW l \in Jobs PROVE HandOK(k, l)'
  <2>1. CASE k = i
    BY <1>3, <1>4, <1>7, <2>1 DEF HandOK, ClaimStages
  <2>2. HandOK(k, l)
    BY DEF LaunchInvariant
  <2>3. Mine(k, l)' = Mine(k, l) /\ IsRunning(l)' = IsRunning(l)
    BY <1>3 DEF Mine, IsRunning
  <2>4. CASE k # i /\ l = j
    BY <1>3, <1>5, <1>7, <1>8, <2>2, <2>3, <2>4 DEF HandOK, Free
  <2>5. CASE k # i /\ l # j
    <3>1. Free(l) => Free(l)'
      BY <1>3, <1>6, <1>7, <2>5 DEF Free, AtWork, AtLaunch, At
    <3>2. QED BY <1>3, <1>6, <1>7, <2>2, <2>3, <2>5, <3>1 DEF HandOK
  <2>6. QED BY <2>1, <2>4, <2>5
<1>12. ASSUME NEW k \in Instances, NEW l \in Instances, k # l PROVE Apart(k, l)'
  <2>1. \A h \in Instances :
          daemon'[h].stage \in LaunchingStages =>
            daemon[h].stage \in LaunchingStages /\ daemon'[h].job = daemon[h].job
    BY <1>1, <1>3, <1>7 DEF LaunchingStages
  <2>2. QED BY <1>12, <2>1 DEF LaunchInvariant, Apart
<1>13. QED BY <1>9, <1>10, <1>11, <1>12 DEF LaunchInvariant

-----------------------------------------------------------------------------
(* Which jobs stop running *)

\* No job ends; one that is requeued was never launched.
NothingSettled ==
  \A j \in Jobs :
    IsRunning(j) => IsRunning(j)' \/ (jobs'[j].status = "pending" /\ launches[j] = {})

\* Job l ends with this status, and no other job changes.
Settled(l, status) ==
  jobs'[l].status = status /\ \A j \in Jobs \ {l} : jobs'[j] = jobs[j]

(* Every operation but FinalizeJobOwned. *)
LEMMA WritesSettleNothing ==
  ASSUME SupInvariant, NEW i \in Instances, NEW l \in Jobs, NEW t,
         \/ \E frontier : ClaimJob(i, l, frontier, t)
         \/ PersistLaunchSpecOwned(i, l, t)
         \/ \E token : MarkJobLaunchingOwned(i, l, token, t)
         \/ \E token : PersistLaunchRecordOwned(i, l, token, t)
         \/ RenewJobLease(i, l, t)
         \/ \E old : AdoptStaleRunningJob(i, l, old, t)
         \/ \E old : MarkStaleRunningJobUnknown(l, old, t)
  PROVE  NothingSettled
<1>1. jobs \in [Jobs -> Row]
  BY DEF SupInvariant, TypeOK
<1>2. PICK row : jobs' = [jobs EXCEPT ![l] = row] /\ row.status = "running"
  <2>1. ASSUME NEW frontier, ClaimJob(i, l, frontier, t)
        PROVE  \E row : jobs' = [jobs EXCEPT ![l] = row] /\ row.status = "running"
    <3> DEFINE row == ClaimedBy(jobs[l], i, t + Lease)
    <3>1. jobs' = [jobs EXCEPT ![l] = row]
      BY <2>1 DEF ClaimJob
    <3>2. row.status = "running"
      BY <1>1 DEF ClaimedBy, Row
    <3> HIDE DEF row
    <3>3. QED BY <3>1, <3>2
  <2>2. CASE PersistLaunchSpecOwned(i, l, t)
    <3> DEFINE row == [jobs[l] EXCEPT !.token = issued[l] + 1]
    <3>1. jobs' = [jobs EXCEPT ![l] = row] /\ row.status = "running"
      BY <1>1, <2>2 DEF PersistLaunchSpecOwned, Owned, IsRunning, Row
    <3> HIDE DEF row
    <3>2. QED BY <3>1
  <2>3. ASSUME NEW token, MarkJobLaunchingOwned(i, l, token, t)
        PROVE  \E row : jobs' = [jobs EXCEPT ![l] = row] /\ row.status = "running"
    <3> DEFINE row == [jobs[l] EXCEPT !.launchState = "launching"]
    <3>1. jobs' = [jobs EXCEPT ![l] = row] /\ row.status = "running"
      BY <1>1, <2>3 DEF MarkJobLaunchingOwned, Owned, IsRunning, Row
    <3> HIDE DEF row
    <3>2. QED BY <3>1
  <2>4. ASSUME NEW token, PersistLaunchRecordOwned(i, l, token, t)
        PROVE  \E row : jobs' = [jobs EXCEPT ![l] = row] /\ row.status = "running"
    <3> DEFINE row == WithProcess(jobs[l])
    <3>1. jobs' = [jobs EXCEPT ![l] = row] /\ row.status = "running"
      BY <1>1, <2>4 DEF PersistLaunchRecordOwned, Owned, IsRunning, WithProcess, Row
    <3> HIDE DEF row
    <3>2. QED BY <3>1
  <2>5. CASE RenewJobLease(i, l, t)
    <3> DEFINE row == [jobs[l] EXCEPT !.leaseUntil = t + Lease]
    <3>1. jobs' = [jobs EXCEPT ![l] = row] /\ row.status = "running"
      BY <1>1, <2>5 DEF RenewJobLease, Owned, IsRunning, Row
    <3> HIDE DEF row
    <3>2. QED BY <3>1
  <2>6. ASSUME NEW old, AdoptStaleRunningJob(i, l, old, t)
        PROVE  \E row : jobs' = [jobs EXCEPT ![l] = row] /\ row.status = "running"
    <3> DEFINE row == AdoptedBy(jobs[l], i, t + Lease)
    <3>1. jobs' = [jobs EXCEPT ![l] = row] /\ row.status = "running"
      BY <1>1, <2>6 DEF AdoptStaleRunningJob, Recoverable, IsRunning, AdoptedBy, Row
    <3> HIDE DEF row
    <3>2. QED BY <3>1
  <2>7. ASSUME NEW old, MarkStaleRunningJobUnknown(l, old, t)
        PROVE  \E row : jobs' = [jobs EXCEPT ![l] = row] /\ row.status = "running"
    <3> DEFINE row == [jobs[l] EXCEPT !.launchState = "unknown"]
    <3>1. jobs' = [jobs EXCEPT ![l] = row] /\ row.status = "running"
      BY <1>1, <2>7 DEF MarkStaleRunningJobUnknown, Recoverable, IsRunning, Row
    <3> HIDE DEF row
    <3>2. QED BY <3>1
  <2>8. QED BY <2>1, <2>2, <2>3, <2>4, <2>5, <2>6, <2>7
<1>3. \A j \in Jobs : jobs'[j] = jobs[j] \/ jobs'[j].status = "running"
  BY <1>1, <1>2
<1>4. QED BY <1>3 DEF NothingSettled, IsRunning

(* A release: an expired row that was not launched, so says its shape. *)
LEMMA ReleaseSettlesNothing ==
  ASSUME SupInvariant, NEW i \in Instances, NEW active, NEW t,
         ReleaseExpiredLeases(i, active, t)
  PROVE  NothingSettled
<1> SUFFICES ASSUME NEW j \in Jobs, IsRunning(j)
             PROVE  IsRunning(j)' \/ (jobs'[j].status = "pending" /\ launches[j] = {})
  BY DEF NothingSettled
<1>1. jobs[j] \in Row
  BY DEF SupInvariant, TypeOK
<1>2. CASE Releasable(j, i, active, t)
  <2>1. jobs'[j] = Disowned(jobs[j], "pending")
    BY <1>2 DEF ReleaseExpiredLeases
  <2>2. jobs'[j].status = "pending"
    BY <1>1, <2>1 DEF Disowned, Row
  <2>3. jobs[j].launchState = "preparing"
    BY <1>1, <1>2 DEF Releasable, NotLaunched, SupInvariant, RowInvariant, RowShape, Row,
       LaunchStates
  <2>4. QED BY <2>2, <2>3 DEF SupInvariant, RowInvariant, LaunchedOnce
<1>3. CASE ~Releasable(j, i, active, t)
  BY <1>3 DEF ReleaseExpiredLeases, IsRunning
<1>4. QED BY <1>2, <1>3

(* Its opposite. *)
LEMMA FinalizeSettles ==
  ASSUME SupInvariant, NEW i \in Instances, NEW l \in Jobs, NEW status, NEW workStarted,
         NEW t, FinalizeJobOwned(i, l, status, workStarted, t)
  PROVE  Settled(l, status)
<1>1. PICK row : /\ jobs' = [jobs EXCEPT ![l] = row]
                 /\ row \in {Disowned(jobs[l], status),
                            [Disowned(jobs[l], status) EXCEPT
                               !.attempts = jobs[l].attempts - 1]}
  BY DEF FinalizeJobOwned
<1>2. jobs \in [Jobs -> Row]
  BY DEF SupInvariant, TypeOK
<1>3. row.status = status
  BY <1>1, <1>2 DEF Disowned, Row
<1>4. QED BY <1>1, <1>2, <1>3 DEF Settled

(* Either way only what is free stops running. *)
LEMMA OnlyFreeStop ==
  ASSUME SupInvariant, LaunchInvariant,
         NothingSettled \/ \E l \in Jobs : \E status : Settled(l, status) /\ Free(l)
  PROVE  OnlyFreeJobsStop
<1>1. \A j \in Jobs : launches[j] = {} => Free(j)
  BY NotLaunchedIsFree DEF SupInvariant
<1>2. QED BY <1>1 DEF NothingSettled, Settled, OnlyFreeJobsStop, IsRunning

\* The status with which a job ends is borne out by its wrapper.
BorneOut(l, status) ==
  /\ status \in {"succeeded", "cancelled"} => Witnessed(l, status)
  /\ status = "skipped" => launches[l] = {}

(* A claim in hand that is still owned was not launched. *)
LEMMA ClaimNotLaunched ==
  ASSUME SupInvariant, LaunchInvariant, NEW i \in Instances, NEW j \in Jobs,
         daemon[i].job = j, daemon[i].stage \in ClaimStages, Mine(i, j)
  PROVE  jobs[j].launchState = "preparing" /\ launches[j] = {} /\ Free(j)
<1>1. jobs[j].launchState = "preparing"
  BY DEF LaunchInvariant, HandOK
<1>2. launches[j] = {}
  BY <1>1 DEF SupInvariant, RowInvariant, LaunchedOnce
<1>3. QED BY <1>1, <1>2, NotLaunchedIsFree DEF SupInvariant

(* In a step of a goroutine at most one job ends: one that is free, and with a  *)
(* status that its wrapper bears out.                                           *)
LEMMA ReconcileSettles ==
  ASSUME SupInvariant, LaunchInvariant, NEW i \in Instances, ReconcileStep(i)
  PROVE  \/ NothingSettled
         \/ \E l \in Jobs, status \in Terminal :
              Settled(l, status) /\ Free(l) /\ BorneOut(l, status)
<1>g. GoroutineOK(daemon[i], clock)
  BY DEF SupInvariant, DaemonsOK
<1>s. jobs' = jobs => NothingSettled
  BY DEF NothingSettled, IsRunning
<1>1. CASE \/ BeginReconcile(i) \/ (\E j \in Jobs : ReadMetadata(i, j))
           \/ CheckProcess(i) \/ ListStaleDurableRunningJobs(i) \/ PruneStaleHeartbeats(i)
           \/ NothingToClaim(i) \/ Launch(i) \/ CancelWrapper(i)
  BY <1>1, <1>s DEF BeginReconcile, ReadMetadata, CheckProcess, ListStaleDurableRunningJobs,
     PruneStaleHeartbeats, PruneStaleRunnerHeartbeats, NothingToClaim, Launch, CancelWrapper,
     StoreIdle, storeVars
<1>2. ASSUME NEW j \in Jobs, ActOnObservation(i, j) PROVE NothingSettled
  BY <1>2, <1>s, WritesSettleNothing DEF ActOnObservation, storeVars
<1>3. CASE FinalizeObservation(i)
  <2>1. PICK j \in Jobs : daemon[i].job = j /\ daemon[i].seen[j] \in Outcomes
    BY <1>g, <1>3 DEF GoroutineOK, FinalizeObservation, At, JobStages
  <2>2. Witnessed(j, daemon[i].seen[j])
    BY <2>1 DEF LaunchInvariant, SeenOK
  <2>3. Free(j)
    BY <2>1, <2>2, WitnessedIsFree
  <2>4. \A status \in FinalStatus(daemon[i].seen[j]) :
          status \in Terminal /\ BorneOut(j, status)
    BY <2>1, <2>2 DEF FinalStatus, Outcomes, BorneOut, Terminal
  <2>5. \A status \in FinalStatus(daemon[i].seen[j]), workStarted \in BOOLEAN :
          FinalizeJobOwned(i, j, status, workStarted, clock) => Settled(j, status)
    BY FinalizeSettles
  <2>6. QED BY <1>3, <1>s, <2>1, <2>3, <2>4, <2>5 DEF FinalizeObservation, storeVars
<1>4. CASE RenewBeforeSideEffect(i) \/ AdoptStale(i) \/ MarkStaleUnknown(i)
           \/ MarkLaunching(i) \/ PersistRecord(i)
  <2>1. PICK j \in Jobs : daemon[i].job = j
    BY <1>g, <1>4 DEF GoroutineOK, RenewBeforeSideEffect, AdoptStale, MarkStaleUnknown,
       MarkLaunching, PersistRecord, At, JobStages, TokenStages
  <2>2. QED BY <1>4, <1>s, <2>1, WritesSettleNothing
    DEF RenewBeforeSideEffect, AdoptStale, MarkStaleUnknown, MarkLaunching, PersistRecord,
        storeVars
<1>5. CASE RecoverExpiredLeases(i)
  BY <1>5, <1>s, ReleaseSettlesNothing DEF RecoverExpiredLeases, storeVars
<1>6. CASE Claim(i)
  BY <1>6, WritesSettleNothing DEF Claim
<1>7. CASE Prepare(i)
  <2>1. PICK j \in Jobs : daemon[i].job = j
    BY <1>g, <1>7 DEF GoroutineOK, Prepare, At, JobStages
  <2>2. ASSUME NEW status \in {"failed", "skipped", "dead"},
               FinalizeJobOwned(i, j, status, TRUE, clock)
        PROVE  \E l \in Jobs, st \in Terminal : Settled(l, st) /\ Free(l) /\ BorneOut(l, st)
    <3>1. launches[j] = {} /\ Free(j)
      BY <1>7, <2>1, <2>2, ClaimNotLaunched
      DEF Prepare, At, FinalizeJobOwned, Owned, Mine, ClaimStages
    <3>2. Settled(j, status)
      BY <2>2, FinalizeSettles
    <3>3. BorneOut(j, status) /\ status \in Terminal
      BY <3>1 DEF BorneOut, Terminal
    <3>4. QED BY <3>1, <3>2, <3>3
  <2>3. QED BY <1>7, <1>s, <2>1, <2>2 DEF Prepare, storeVars
<1>8. CASE PersistSpec(i)
  <2>1. PICK j \in Jobs : daemon[i].job = j
    BY <1>g, <1>8 DEF GoroutineOK, PersistSpec, At, JobStages
  <2>2. QED BY <1>8, <1>s, <2>1, WritesSettleNothing DEF PersistSpec, storeVars
<1>9. CASE FailLaunch(i)
  <2>1. PICK j \in Jobs : daemon[i].job = j
    BY <1>g, <1>9 DEF GoroutineOK, FailLaunch, At, JobStages
  <2>2. ASSUME FinalizeJobOwned(i, j, "failed", TRUE, clock)
        PROVE  Settled(j, "failed") /\ Free(j) /\ BorneOut(j, "failed")
    <3>1. Free(j)
      BY <1>9, <2>1, <2>2
      DEF FailLaunch, At, FinalizeJobOwned, Owned, Mine, LaunchInvariant, HandOK
    <3>2. Settled(j, "failed")
      BY <2>2, FinalizeSettles
    <3>3. QED BY <3>1, <3>2 DEF BorneOut
  <2>3. "failed" \in Terminal
    BY DEF Terminal
  <2>4. QED BY <1>9, <1>s, <2>1, <2>2, <2>3 DEF FailLaunch, storeVars
<1>10. QED
  BY <1>1, <1>2, <1>3, <1>4, <1>5, <1>6, <1>7, <1>8, <1>9 DEF ReconcileStep

-----------------------------------------------------------------------------
(* What the goroutine of the step may rely on afterwards *)

\* The stages in which more is relied on than what has been seen.
RelyingStages == LaunchingStages \cup ClaimStages \cup {"launchFailed"}

\* No wrapper is started and no permission given.
StartsNothing == launches' = launches /\ WrappersEndOrReport

(* A goroutine that is not about to launch. *)
LEMMA EmptyHanded ==
  ASSUME SupInvariant, LaunchInvariant, StartsNothing, NEW i \in Instances, NEW d,
         Become(i, d), d.stage \notin RelyingStages,
         \A j \in Jobs : d.seen[j] \in Outcomes => Witnessed(j, d.seen[j])
  PROVE  GoesOn(i)
<1>1. daemon'[i] = d
  BY DEF Become, SupInvariant, DaemonsOK
<1>2. \A j \in Jobs : HandOK(i, j)'
  BY <1>1 DEF HandOK, RelyingStages, LaunchingStages
<1>3. \A j \in Jobs : SeenOK(i, j)'
  BY <1>1, WitnessStays DEF SeenOK, StartsNothing
<1>4. QED BY <1>1, <1>2, <1>3 DEF GoesOn, RelyingStages, LaunchingStages

(* One that goes to another stage with what it has. *)
LEMMA SameHands ==
  ASSUME SupInvariant, LaunchInvariant, StartsNothing, NEW i \in Instances,
         NEW stage, GoTo(i, stage),
         stage \in RelyingStages =>
           /\ stage # "launch"
           /\ stage \in LaunchingStages => daemon[i].stage \in LaunchingStages
           /\ stage \in ClaimStages =>
                daemon[i].stage \in ClaimStages /\ \A j \in Jobs : Untouched(i, j)
           /\ stage = "launchFailed" =>
                \A j \in Jobs : daemon[i].job = j /\ Mine(i, j)' => Free(j)'
  PROVE  GoesOn(i)
<1>1. /\ daemon'[i].stage = stage /\ daemon'[i].job = daemon[i].job
      /\ daemon'[i].token = daemon[i].token /\ daemon'[i].seen = daemon[i].seen
  BY DEF GoTo, SupInvariant, DaemonsOK, Reconcile
<1>2. ASSUME NEW j \in Jobs PROVE HandOK(i, j)'
  <2>1. HandOK(i, j)
    BY DEF LaunchInvariant
  <2>2. stage \in ClaimStages /\ Mine(i, j)' /\ daemon[i].job = j =>
          jobs'[j].launchState = "preparing"
    BY <2>1, UntouchedRow DEF HandOK, RelyingStages
  <2>3. stage \in LaunchingStages /\ daemon[i].job = j => daemon[i].token \in launches'[j]
    BY <2>1 DEF HandOK, RelyingStages, StartsNothing
  <2>4. stage = "launchFailed" /\ daemon[i].job = j /\ Mine(i, j)' => Free(j)'
    BY DEF RelyingStages
  <2>5. stage # "launch"
    BY DEF RelyingStages, LaunchingStages
  <2>6. QED BY <1>1, <2>2, <2>3, <2>4, <2>5 DEF HandOK
<1>3. ASSUME NEW j \in Jobs PROVE SeenOK(i, j)'
  <2>1. SeenOK(i, j)
    BY DEF LaunchInvariant
  <2>2. QED BY <1>1, <2>1, WitnessStays DEF SeenOK, StartsNothing
<1>4. QED BY <1>1, <1>2, <1>3 DEF GoesOn, RelyingStages, LaunchingStages

(* An observation of the metadata is a report of a launched wrapper. *)
LEMMA ReportIsWitnessed ==
  ASSUME SupInvariant, LaunchInvariant, NEW j \in Jobs, NEW row, Reported(row, j) # "none"
  PROVE  Reported(row, j) \in Outcomes /\ Witnessed(j, Reported(row, j))
<1>1. row.token \in Tokens /\ Reported(row, j) = metadata[j][row.token]
  BY DEF Reported
<1>2. row.token \in launches[j]
  BY <1>1 DEF LaunchInvariant, Traced
<1>3. QED BY <1>1, <1>2 DEF Witnessed, SupInvariant, WrappersOK

(* What Inspect returns is taken down, an outcome only if it was reported. *)
LEMMA ObservationSeen ==
  ASSUME NEW d \in Reconcile, NEW j \in Jobs, NEW obs \in Observations,
         d.stage \in {"observe", "verify", "reinspect",
                      "observeProbe", "verifyProbe", "reinspectProbe"},
         obs \in Outcomes => Witnessed(j, obs),
         \A l \in Jobs : d.seen[l] \in Outcomes => Witnessed(l, d.seen[l]),
         NEW e, e = WithObservation(d, j, obs)
  PROVE  /\ e.stage \notin RelyingStages
         /\ \A l \in Jobs : e.seen[l] \in Outcomes => Witnessed(l, e.seen[l])
<1> DEFINE handled == [d EXCEPT !.rows[j] = AbsentRow, !.job = NoJob]
           seen == [d.seen EXCEPT ![j] = obs]
<1>1. \A l \in Jobs : seen[l] \in Outcomes => Witnessed(l, seen[l])
  BY DEF Reconcile
<1>2. ASSUME NEW stage, e = [handled EXCEPT !.stage = stage, !.seen[j] = obs,
                                            !.active = @ \cup {j}]
      PROVE  e.stage = stage /\ e.seen = seen
  BY <1>2 DEF Reconcile
<1>3. ASSUME NEW stage, e = [d EXCEPT !.stage = stage, !.job = j]
      PROVE  e.stage = stage /\ e.seen = d.seen
  BY <1>3 DEF Reconcile
<1>4. \/ \E stage \in {"observe", "verify"} : e.stage = stage /\ e.seen = seen
      \/ \E stage \in {"adopt", "giveUp"} : e.stage = stage /\ e.seen = d.seen
  BY <1>2, <1>3 DEF WithObservation
<1> HIDE DEF seen
<1>5. QED BY <1>1, <1>4 DEF RelyingStages, LaunchingStages, ClaimStages

(* A goroutine at rest has seen nothing. *)
LEMMA RestingGoesOn ==
  ASSUME SupInvariant, LaunchInvariant, StartsNothing, NEW i \in Instances,
         NEW stage \in {"idle", "down", "observe", "verify", "refill"},
         NEW rows, NEW round,
         \/ Become(i, Resting)
         \/ Become(i, [Resting EXCEPT !.stage = stage])
         \/ Become(i, [Resting EXCEPT !.round = round])
         \/ Become(i, [Resting EXCEPT !.stage = stage, !.rows = rows])
         \/ Become(i, [Resting EXCEPT !.stage = stage, !.round = round, !.rows = rows])
  PROVE  GoesOn(i)
<1>0. PICK d \in {Resting, [Resting EXCEPT !.stage = stage], [Resting EXCEPT !.round = round],
                  [Resting EXCEPT !.stage = stage, !.rows = rows],
                  [Resting EXCEPT !.stage = stage, !.round = round, !.rows = rows]} :
         Become(i, d)
  OBVIOUS
<1> DEFINE unseen == [j \in Jobs |-> "none"]
<1>1. /\ d.stage \in {stage, "idle"}
      /\ d.seen = unseen
  <2> DEFINE noRows == [j \in Jobs |-> AbsentRow]
  <2>1. Resting =
          [stage |-> "idle", back |-> "observe", rows |-> noRows, seen |-> unseen,
           job |-> NoJob, active |-> {}, now |-> 0, token |-> NoToken, round |-> "made"]
    BY DEF Resting
  <2> HIDE DEF noRows, unseen
  <2>2. CASE d = Resting \/ d = [Resting EXCEPT !.stage = stage]
    BY <2>1, <2>2
  <2>3. CASE d = [Resting EXCEPT !.round = round]
    BY <2>1, <2>3
  <2>4. CASE d = [Resting EXCEPT !.stage = stage, !.rows = rows]
    BY <2>1, <2>4
  <2>5. CASE d = [Resting EXCEPT !.stage = stage, !.round = round, !.rows = rows]
    BY <2>1, <2>5
  <2>6. QED BY <2>2, <2>3, <2>4, <2>5
<1>2. \A j \in Jobs : d.seen[j] \notin Outcomes
  BY <1>1 DEF Outcomes
<1>3. d.stage \notin RelyingStages
  BY <1>1 DEF RelyingStages, LaunchingStages, ClaimStages
<1>4. QED BY <1>0, <1>2, <1>3, EmptyHanded

(* Goroutine i alone moves in its step. *)
LEMMA OthersStandStill ==
  ASSUME SupInvariant, MaxTime <= MaxDelay, NEW i \in Instances, [ClientStep(i)]_storeVars,
         NEW d, Become(i, d) \/ (\E stage : GoTo(i, stage)) \/ UNCHANGED daemon
  PROVE  \A k \in Instances \ {i} : StandsStill(k)
<1>1. \A k \in Instances \ {i} : daemon'[k] = daemon[k]
  BY DEF Become, GoTo, SupInvariant, DaemonsOK
<1>2. ASSUME NEW k \in Instances \ {i}, NEW j \in Jobs PROVE Untouched(k, j)
  BY <1>2, OthersLeaveRows
<1>3. QED BY <1>1, <1>2 DEF StandsStill

(* A client whose own step launches nothing. *)
LEMMA OneGoesOn ==
  ASSUME SupInvariant, LaunchInvariant, NEW i \in Instances, StartsNothing,
         OnlyFreeJobsStop, GoesOn(i), \A k \in Instances \ {i} : StandsStill(k)
  PROVE  LaunchInvariant'
<1>1. {i} \in SUBSET Instances /\ \A k \in {i} : GoesOn(k)
  OBVIOUS
<1>2. QED BY <1>1, QuietStep DEF StartsNothing

(* Nobody else is about to launch the job that i is launching. *)
LEMMA LaunchedAlone ==
  ASSUME LaunchInvariant, NEW i \in Instances, NEW j \in Jobs, daemon[i].job = j,
         daemon[i].stage \in LaunchingStages, daemon'[i].stage # "launch",
         \A k \in Instances \ {i} : daemon'[k] = daemon[k]
  PROVE  ~AtLaunch(j)'
BY DEF LaunchInvariant, Apart, AtLaunch, At, LaunchingStages

(* The steps up to the claim of a job. *)
LEMMA PassGoesOn ==
  ASSUME SupInvariant, LaunchInvariant, StartsNothing, NEW i \in Instances,
         \/ BeginReconcile(i) \/ (\E j \in Jobs : ReadMetadata(i, j)) \/ CheckProcess(i)
         \/ (\E j \in Jobs : ActOnObservation(i, j)) \/ FinalizeObservation(i)
         \/ ListStaleDurableRunningJobs(i) \/ AdoptStale(i) \/ MarkStaleUnknown(i)
         \/ RecoverExpiredLeases(i) \/ PruneStaleHeartbeats(i)
  PROVE  GoesOn(i)
<1> DEFINE d == daemon[i]
<1>g. d \in Reconcile /\ GoroutineOK(d, clock)
  BY DEF SupInvariant, DaemonsOK
<1>s. \A l \in Jobs : d.seen[l] \in Outcomes => Witnessed(l, d.seen[l])
  BY DEF LaunchInvariant, SeenOK
<1>n. "none" \notin Outcomes
  BY DEF Outcomes
<1>h. {"observe", "verify", "observeProbe", "verifyProbe", "reinspectProbe", "finalActions",
       "reinspect", "prune", "refill"} \cap RelyingStages = {}
  BY DEF RelyingStages, LaunchingStages, ClaimStages
<1>e. ASSUME NEW e, Become(i, e), e.stage \notin RelyingStages, e.seen = d.seen
      PROVE  GoesOn(i)
  BY <1>e, <1>s, EmptyHanded
<1>f. ASSUME NEW j \in Jobs, NEW obs, NEW e, Become(i, e), e.stage \notin RelyingStages,
             e.seen = [d.seen EXCEPT ![j] = obs], obs \in Outcomes => Witnessed(j, obs)
      PROVE  GoesOn(i)
  <2>1. \A l \in Jobs : e.seen[l] \in Outcomes => Witnessed(l, e.seen[l])
    BY <1>f, <1>g, <1>s DEF Reconcile
  <2>2. QED BY <1>f, <2>1, EmptyHanded
<1>1. CASE BeginReconcile(i)
  BY <1>1, RestingGoesOn DEF BeginReconcile
<1>2. ASSUME NEW j \in Jobs, ReadMetadata(i, j) PROVE GoesOn(i)
  <2>1. d.stage \in {"observe", "verify", "reinspect"}
    BY <1>2 DEF ReadMetadata, d
  <2>2. ASSUME NEW obs \in Observations, Become(i, WithObservation(d, j, obs)),
               obs \in Outcomes => Witnessed(j, obs)
        PROVE  GoesOn(i)
    <3>1. PICK e : e = WithObservation(d, j, obs)
      OBVIOUS
    <3>2. /\ e.stage \notin RelyingStages
          /\ \A l \in Jobs : e.seen[l] \in Outcomes => Witnessed(l, e.seen[l])
      BY <1>g, <1>s, <2>1, <2>2, <3>1, ObservationSeen
    <3>3. QED BY <2>2, <3>1, <3>2, EmptyHanded
  <2>3. CASE Become(i, WithObservation(d, j, "unknown"))
    BY <2>2, <2>3 DEF Observations, Outcomes
  <2>4. CASE /\ Reported(d.rows[j], j) # "none"
             /\ Become(i, WithObservation(d, j, Reported(d.rows[j], j)))
    BY <2>2, <2>4, ReportIsWitnessed DEF Observations
  <2>5. CASE Become(i, [d EXCEPT !.stage = Probing(d.stage), !.job = j])
    <3>1. Probing(d.stage) \in {"observeProbe", "verifyProbe", "reinspectProbe"}
      BY <2>1 DEF Probing
    <3>2. PICK e : e = [d EXCEPT !.stage = Probing(d.stage), !.job = j]
      OBVIOUS
    <3>3. e.stage = Probing(d.stage) /\ e.seen = d.seen
      BY <1>g, <3>2 DEF Reconcile
    <3>4. QED BY <1>e, <1>h, <2>5, <3>1, <3>2, <3>3
  <2>6. QED BY <1>2, <2>3, <2>4, <2>5 DEF ReadMetadata, d
<1>3. CASE CheckProcess(i)
  <2>1. /\ d.stage \in {"observeProbe", "verifyProbe", "reinspectProbe"}
        /\ Become(i, WithObservation(d, d.job, FromProcess(d.rows[d.job], d.job)))
    BY <1>3 DEF CheckProcess, d
  <2>2. d.job \in Jobs
    BY <1>g, <2>1 DEF GoroutineOK, JobStages
  <2>3. PICK obs \in {"running", "starting", "unknown"} :
          obs = FromProcess(d.rows[d.job], d.job)
    BY DEF FromProcess
  <2>4. obs \in Observations \ Outcomes
    BY DEF Observations, Outcomes
  <2>5. PICK e : e = WithObservation(d, d.job, obs)
    OBVIOUS
  <2>6. /\ e.stage \notin RelyingStages
        /\ \A l \in Jobs : e.seen[l] \in Outcomes => Witnessed(l, e.seen[l])
    BY <1>g, <1>s, <2>1, <2>2, <2>4, <2>5, ObservationSeen
  <2>7. QED BY <2>1, <2>3, <2>5, <2>6, EmptyHanded
<1>4. ASSUME NEW j \in Jobs, ActOnObservation(i, j) PROVE GoesOn(i)
  <2>1. d.stage \in {"observe", "verify"} /\ d.seen[j] = daemon[i].seen[j]
    BY <1>4 DEF ActOnObservation, d
  <2>2. CASE Become(i, [d EXCEPT !.seen[j] = "none"])
    <3>1. PICK e : e = [d EXCEPT !.seen[j] = "none"]
      OBVIOUS
    <3>2. e.stage = d.stage /\ e.seen = [d.seen EXCEPT ![j] = "none"]
      BY <1>g, <3>1 DEF Reconcile
    <3>3. QED BY <1>f, <1>h, <1>n, <2>1, <2>2, <3>1, <3>2
  <2>3. ASSUME NEW obs \in Outcomes, d.seen[j] \in Outcomes,
               obs = d.seen[j] \/ obs = "failed",
               Become(i, [[d EXCEPT !.seen[j] = "none"] EXCEPT !.stage = "finalActions",
                          !.back = d.stage, !.job = j, !.seen[j] = obs])
        PROVE  GoesOn(i)
    <3>1. PICK e : e = [[d EXCEPT !.seen[j] = "none"] EXCEPT !.stage = "finalActions",
                          !.back = d.stage, !.job = j, !.seen[j] = obs]
      OBVIOUS
    <3>2. e.stage = "finalActions" /\ e.seen = [d.seen EXCEPT ![j] = obs]
      <4>1. [[d.seen EXCEPT ![j] = "none"] EXCEPT ![j] = obs] = [d.seen EXCEPT ![j] = obs]
        BY <1>g DEF Reconcile
      <4>2. QED BY <1>g, <3>1, <4>1 DEF Reconcile
    <3>3. Witnessed(j, obs)
      BY <1>n, <1>s, <2>3 DEF Witnessed
    <3>4. QED BY <1>f, <1>h, <2>3, <3>1, <3>2, <3>3
  <2>4. \/ Become(i, [d EXCEPT !.seen[j] = "none"])
        \/ \E obs \in Outcomes :
             /\ d.seen[j] \in Outcomes
             /\ obs = d.seen[j] \/ obs = "failed"
             /\ Become(i, [[d EXCEPT !.seen[j] = "none"] EXCEPT !.stage = "finalActions",
                          !.back = d.stage, !.job = j, !.seen[j] = obs])
    BY <1>4 DEF ActOnObservation, d, Outcomes
  <2>5. QED BY <2>2, <2>3, <2>4
<1>5. CASE FinalizeObservation(i)
  <2>1. d.stage = "finalActions" /\ d.job \in Jobs /\ d.back \in {"observe", "verify"}
    BY <1>g, <1>5 DEF FinalizeObservation, At, GoroutineOK, JobStages, Reconcile
  <2>2. PICK e : e = [d EXCEPT !.stage = d.back, !.seen[d.job] = "none", !.job = NoJob]
    OBVIOUS
  <2>3. e.stage = d.back /\ e.seen = [d.seen EXCEPT ![d.job] = "none"]
    BY <1>g, <2>2 DEF Reconcile
  <2>4. Become(i, e)
    BY <1>5, <2>2 DEF FinalizeObservation, d
  <2>5. QED BY <1>f, <1>h, <1>n, <2>1, <2>3, <2>4
<1>6. CASE ListStaleDurableRunningJobs(i)
  <2>1. PICK rows : Become(i, [d EXCEPT !.stage = "verify", !.back = "verify", !.now = clock,
                                        !.rows = rows])
    BY <1>6 DEF ListStaleDurableRunningJobs, d
  <2>2. PICK e : e = [d EXCEPT !.stage = "verify", !.back = "verify", !.now = clock,
                               !.rows = rows]
    OBVIOUS
  <2>3. e.stage = "verify" /\ e.seen = d.seen
    BY <1>g, <2>2 DEF Reconcile
  <2>4. QED BY <1>e, <1>h, <2>1, <2>2, <2>3
<1>7. CASE AdoptStale(i) \/ MarkStaleUnknown(i)
  <2>1. PICK e \in {[d EXCEPT !.stage = "reinspect"],
                    [d EXCEPT !.stage = "verify", !.rows[d.job] = AbsentRow, !.job = NoJob]} :
          Become(i, e)
    BY <1>7 DEF AdoptStale, MarkStaleUnknown, d
  <2>2. e.stage \in {"reinspect", "verify"} /\ e.seen = d.seen
    BY <1>g, <2>1 DEF Reconcile
  <2>3. QED BY <1>e, <1>h, <2>1, <2>2
<1>8. CASE RecoverExpiredLeases(i)
  <2>1. PICK e : e = [d EXCEPT !.stage = "prune", !.now = clock]
    OBVIOUS
  <2>2. e.stage = "prune" /\ e.seen = d.seen
    BY <1>g, <2>1 DEF Reconcile
  <2>3. Become(i, e)
    BY <1>8, <2>1 DEF RecoverExpiredLeases, d
  <2>4. QED BY <1>e, <1>h, <2>2, <2>3
<1>9. CASE PruneStaleHeartbeats(i)
  BY <1>9, <1>h, SameHands DEF PruneStaleHeartbeats
<1>10. QED BY <1>1, <1>2, <1>3, <1>4, <1>5, <1>6, <1>7, <1>8, <1>9

(* A claim in hand, and only that, is what i may rely on after the claim. *)
LEMMA ClaimGoesOn ==
  ASSUME SupInvariant, LaunchInvariant, StartsNothing, NEW i \in Instances,
         NEW j \in Jobs, NEW frontier, NEW t \in Nat, ClaimJob(i, j, frontier, t),
         NEW d, Become(i, d), d.stage = "prepare", d.job = j, d.seen = daemon[i].seen
  PROVE  GoesOn(i)
<1>1. daemon'[i] = d
  BY DEF Become, SupInvariant, DaemonsOK
<1>2. jobs'[j].launchState = "preparing"
  <2>1. jobs[j] \in Row /\ jobs'[j] = ClaimedBy(jobs[j], i, t + Lease)
    BY DEF ClaimJob, SupInvariant, TypeOK
  <2>2. QED BY <2>1 DEF ClaimedBy, Row
<1>3. \A l \in Jobs : HandOK(i, l)'
  BY <1>1, <1>2 DEF HandOK, LaunchingStages
<1>4. ASSUME NEW l \in Jobs PROVE SeenOK(i, l)'
  <2>1. SeenOK(i, l)
    BY DEF LaunchInvariant
  <2>2. QED BY <1>1, <2>1, WitnessStays DEF SeenOK, StartsNothing
<1>5. QED BY <1>1, <1>3, <1>4 DEF GoesOn, LaunchingStages

(* A renewal of the claim in hand, or another write that keeps its state. *)
LEMMA ClaimKept ==
  ASSUME SupInvariant, LaunchInvariant, StartsNothing, NEW i \in Instances,
         NEW d, Become(i, d), d.job = daemon[i].job, d.seen = daemon[i].seen,
         d.stage \in ClaimStages, daemon[i].stage \in ClaimStages,
         \A j \in Jobs : daemon[i].job = j /\ Mine(i, j)' =>
           Mine(i, j) /\ jobs'[j].launchState = jobs[j].launchState
  PROVE  GoesOn(i)
<1>1. daemon'[i] = d
  BY DEF Become, SupInvariant, DaemonsOK
<1>2. ASSUME NEW j \in Jobs PROVE HandOK(i, j)'
  <2>1. HandOK(i, j)
    BY DEF LaunchInvariant
  <2>2. QED BY <1>1, <2>1 DEF HandOK, LaunchingStages, ClaimStages
<1>3. ASSUME NEW l \in Jobs PROVE SeenOK(i, l)'
  <2>1. SeenOK(i, l)
    BY DEF LaunchInvariant
  <2>2. QED BY <1>1, <2>1, WitnessStays DEF SeenOK, StartsNothing
<1>4. QED BY <1>1, <1>2, <1>3 DEF GoesOn, LaunchingStages, ClaimStages

(* The wrapper of the launch in hand is the only one its job can have. *)
LEMMA CancelledIsFree ==
  ASSUME SupInvariant, LaunchInvariant, NEW i \in Instances, NEW j \in Jobs,
         daemon[i].job = j, daemon[i].stage \in LaunchingStages,
         processes'[j] = processes[j] \ {daemon[i].token}, daemon'[i].stage # "launch",
         \A k \in Instances \ {i} : daemon'[k] = daemon[k]
  PROVE  Free(j)'
<1>1. daemon[i].token \in launches[j] /\ processes[j] \subseteq launches[j]
  BY DEF LaunchInvariant, HandOK, Traced
<1>2. \A t1, t2 \in launches[j] : t1 = t2
  BY DEF SupInvariant, RowInvariant, LaunchedOnce
<1>3. processes'[j] = {}
  BY <1>1, <1>2
<1>4. QED BY <1>3, LaunchedAlone DEF Free, AtWork

(* Ending a wrapper ends no other, and only by a report of its own. *)
LEMMA CancelEndsOrReports ==
  ASSUME SupInvariant, NEW j \in Jobs, NEW token,
         processes' = [processes EXCEPT ![j] = @ \ {token}],
         IF token \in processes[j] /\ metadata[j][token] = "none"
         THEN \E outcome \in {"cancelled", "none"} :
                metadata' = [metadata EXCEPT ![j][token] = outcome]
         ELSE UNCHANGED metadata
  PROVE  WrappersEndOrReport
<1>1. \A l \in Jobs : processes'[l] \subseteq processes[l]
  BY DEF SupInvariant, WrappersOK
<1>2. \A l \in Jobs, t \in Tokens :
        metadata'[l][t] = metadata[l][t] \/ (metadata[l][t] = "none" /\ t \in processes[l])
  BY DEF SupInvariant, WrappersOK
<1>3. QED BY <1>1, <1>2 DEF WrappersEndOrReport

(* The steps from the claim of a job to the end of its launch, but the two that *)
(* launch.                                                                      *)
LEMMA RefillGoesOn ==
  ASSUME SupInvariant, LaunchInvariant, StartsNothing, NEW i \in Instances,
         \A k \in Instances \ {i} : StandsStill(k),
         \/ RenewBeforeSideEffect(i)
         \/ Claim(i) \/ NothingToClaim(i) \/ Prepare(i) \/ PersistSpec(i)
         \/ MarkLaunching(i) /\ ~GoTo(i, "launch")
         \/ Launch(i) /\ ~GoTo(i, "persistRecord")
         \/ PersistRecord(i) \/ CancelWrapper(i) \/ FailLaunch(i)
  PROVE  GoesOn(i)
<1> DEFINE d == daemon[i]
<1>g. d \in Reconcile /\ GoroutineOK(d, clock) /\ clock \in Nat /\ jobs \in [Jobs -> Row]
      /\ daemon \in [Instances -> Reconcile]
  BY DEF SupInvariant, DaemonsOK, TypeOK
<1>refill. GoTo(i, "refill") => GoesOn(i)
  BY SameHands DEF RelyingStages, LaunchingStages, ClaimStages
<1>o. \A k \in Instances \ {i} : daemon'[k] = daemon[k]
  BY DEF StandsStill
<1>1. CASE RenewBeforeSideEffect(i)
  <2>1. PICK j \in Jobs : d.job = j
    BY <1>g, <1>1 DEF RenewBeforeSideEffect, At, GoroutineOK, JobStages
  <2>2. RenewJobLease(i, j, clock) /\ daemon' = daemon
    BY <1>1, <2>1 DEF RenewBeforeSideEffect
  <2>3. Mine(i, j) /\ jobs'[j].launchState = jobs[j].launchState
    BY <1>g, <2>2 DEF RenewJobLease, Owned, Mine, Row
  <2>4. Become(i, d)
    BY <1>g, <2>2 DEF Become
  <2>5. CASE d.stage = "prepare"
    BY <2>1, <2>3, <2>4, <2>5, ClaimKept DEF ClaimStages
  <2>6. CASE d.stage = "finalActions"
    BY <2>4, <2>6, EmptyHanded
    DEF LaunchInvariant, SeenOK, RelyingStages, LaunchingStages, ClaimStages
  <2>7. QED BY <1>1, <2>5, <2>6 DEF RenewBeforeSideEffect, At
<1>2. CASE Claim(i)
  <2>1. PICK j \in Jobs : /\ ClaimJob(i, j, Jobs, clock)
                          /\ Become(i, [d EXCEPT !.stage = "prepare", !.job = j])
    BY <1>2 DEF Claim, d
  <2>2. PICK e : e = [d EXCEPT !.stage = "prepare", !.job = j]
    OBVIOUS
  <2>3. e.stage = "prepare" /\ e.job = j /\ e.seen = d.seen
    BY <1>g, <2>2 DEF Reconcile
  <2>4. QED BY <1>g, <2>1, <2>2, <2>3, ClaimGoesOn
<1>3. CASE NothingToClaim(i) \/ FailLaunch(i)
  BY <1>3, RestingGoesOn DEF NothingToClaim, FailLaunch
<1>4. CASE Prepare(i)
  <2>1. CASE GoTo(i, "persistSpec") /\ UNCHANGED storeVars
    <3>1. d.stage \in ClaimStages /\ \A j \in Jobs : Untouched(i, j)
      BY <1>4, <2>1 DEF Prepare, At, ClaimStages, storeVars, Untouched, Mine, IsRunning
    <3>2. QED BY <2>1, <3>1, SameHands DEF LaunchingStages
  <2>2. QED BY <1>4, <1>refill, <2>1 DEF Prepare
<1>5. CASE PersistSpec(i)
  <2>1. PICK j \in Jobs : d.job = j
    BY <1>g, <1>5 DEF PersistSpec, At, GoroutineOK, JobStages
  <2>2. CASE /\ PersistLaunchSpecOwned(i, j, clock)
             /\ Become(i, [d EXCEPT !.stage = "markLaunching", !.token = issued[j] + 1])
    <3>1. PICK e : e = [d EXCEPT !.stage = "markLaunching", !.token = issued[j] + 1]
      OBVIOUS
    <3>2. e.stage = "markLaunching" /\ e.job = j /\ e.seen = d.seen
      BY <1>g, <2>1, <3>1 DEF Reconcile
    <3>3. Mine(i, j) /\ jobs'[j].launchState = jobs[j].launchState
      BY <1>g, <2>2 DEF PersistLaunchSpecOwned, Owned, Mine, Row
    <3>4. d.stage \in ClaimStages /\ e.stage \in ClaimStages
      BY <1>5, <3>2 DEF PersistSpec, At, ClaimStages
    <3>5. QED BY <2>1, <2>2, <3>1, <3>2, <3>3, <3>4, ClaimKept
  <2>3. CASE GoTo(i, "launchFailed") /\ UNCHANGED storeVars
    <3>1. ASSUME Mine(i, j)' PROVE Free(j)'
      <4>1. Mine(i, j)
        BY <2>3, <3>1 DEF storeVars, Mine, IsRunning
      <4>2. Free(j)
        BY <1>5, <2>1, <4>1, ClaimNotLaunched DEF PersistSpec, At, ClaimStages
      <4>3. daemon'[i].stage = "launchFailed"
        BY <1>g, <2>3 DEF GoTo, Reconcile
      <4>4. UNCHANGED <<processes, metadata>>
        BY <1>5 DEF PersistSpec, wrapperVars
      <4>5. QED BY <1>o, <4>2, <4>3, <4>4 DEF Free, AtWork, AtLaunch, At
    <3>2. QED BY <2>1, <2>3, <3>1, SameHands DEF LaunchingStages, ClaimStages
  <2>4. QED BY <1>5, <1>refill, <2>1, <2>2, <2>3 DEF PersistSpec, d
<1>6. CASE MarkLaunching(i) /\ ~GoTo(i, "launch")
  BY <1>6, <1>refill DEF MarkLaunching
<1>7. CASE Launch(i) /\ ~GoTo(i, "persistRecord")
  <2>1. PICK j \in Jobs : d.job = j
    BY <1>g, <1>7 DEF Launch, At, GoroutineOK, JobStages, TokenStages
  <2>2. GoTo(i, "launchFailed") /\ UNCHANGED processes /\ d.stage = "launch"
    BY <1>7 DEF Launch, At, d
  <2>3. processes[j] = {} /\ daemon'[i].stage = "launchFailed"
    BY <1>g, <2>1, <2>2 DEF LaunchInvariant, HandOK, GoTo, Reconcile
  <2>4. Free(j)'
    BY <1>o, <2>1, <2>2, <2>3, LaunchedAlone DEF Free, AtWork, LaunchingStages
  <2>5. QED BY <2>1, <2>2, <2>4, SameHands DEF LaunchingStages, ClaimStages
<1>8. CASE PersistRecord(i)
  <2>1. GoTo(i, "cleanup") => GoesOn(i)
    BY <1>8, SameHands DEF PersistRecord, At, LaunchingStages, ClaimStages
  <2>2. QED BY <1>8, <1>refill, <2>1 DEF PersistRecord
<1>9. CASE CancelWrapper(i)
  <2>1. PICK j \in Jobs : d.job = j
    BY <1>g, <1>9 DEF CancelWrapper, GoroutineOK, JobStages, TokenStages
  <2>2. CASE GoTo(i, "launchFailed")
    <3>1. daemon'[i].stage = "launchFailed"
      BY <1>g, <2>2 DEF GoTo, Reconcile
    <3>2. processes'[j] = processes[j] \ {d.token}
      BY <1>9, <2>1 DEF CancelWrapper, SupInvariant, WrappersOK
    <3>3. Free(j)'
      BY <1>9, <1>o, <2>1, <3>1, <3>2, CancelledIsFree DEF CancelWrapper, LaunchingStages
    <3>4. QED BY <2>1, <2>2, <3>3, SameHands DEF LaunchingStages, ClaimStages
  <2>3. QED BY <1>9, <1>refill, <2>2 DEF CancelWrapper
<1>10. QED BY <1>1, <1>2, <1>3, <1>4, <1>5, <1>6, <1>7, <1>8, <1>9

-----------------------------------------------------------------------------
(* Every step keeps the invariant *)

(* All other steps of a goroutine give no permission and start no wrapper. *)
LEMMA ReconcileStartsNothing ==
  ASSUME SupInvariant, NEW i \in Instances, ReconcileStep(i),
         ~(MarkLaunching(i) /\ GoTo(i, "launch")),
         ~(Launch(i) /\ GoTo(i, "persistRecord"))
  PROVE  StartsNothing
<1>u. UNCHANGED wrapperVars => WrappersEndOrReport
  BY DEF wrapperVars, WrappersEndOrReport
<1>1. CASE \/ BeginReconcile(i) \/ (\E j \in Jobs : ReadMetadata(i, j))
           \/ CheckProcess(i) \/ ListStaleDurableRunningJobs(i) \/ NothingToClaim(i)
  BY <1>1, <1>u DEF BeginReconcile, ReadMetadata, CheckProcess, ListStaleDurableRunningJobs,
     NothingToClaim, StoreIdle, storeVars, StartsNothing
<1>2. CASE \/ (\E j \in Jobs : ActOnObservation(i, j)) \/ FinalizeObservation(i)
           \/ RenewBeforeSideEffect(i) \/ AdoptStale(i) \/ MarkStaleUnknown(i)
           \/ RecoverExpiredLeases(i) \/ PruneStaleHeartbeats(i) \/ Claim(i) \/ Prepare(i)
           \/ PersistSpec(i) \/ PersistRecord(i) \/ FailLaunch(i)
  <2>1. launches' = launches /\ UNCHANGED wrapperVars
    BY <1>2 DEF ActOnObservation, FinalizeObservation, RenewBeforeSideEffect, AdoptStale,
       MarkStaleUnknown, RecoverExpiredLeases, PruneStaleHeartbeats, Claim, Prepare,
       PersistSpec, PersistRecord, FailLaunch, storeVars, RenewJobLease, FinalizeJobOwned,
       AdoptStaleRunningJob, MarkStaleRunningJobUnknown, ReleaseExpiredLeases,
       PruneStaleRunnerHeartbeats, ClaimJob, PersistLaunchSpecOwned, PersistLaunchRecordOwned
  <2>2. QED BY <1>u, <2>1 DEF StartsNothing
<1>3. CASE MarkLaunching(i) /\ ~GoTo(i, "launch")
  BY <1>3, <1>u DEF MarkLaunching, storeVars, StartsNothing
<1>4. CASE Launch(i) /\ ~GoTo(i, "persistRecord")
  BY <1>4 DEF Launch, StoreIdle, storeVars, StartsNothing, WrappersEndOrReport
<1>5. CASE CancelWrapper(i)
  <2>1. daemon[i].job \in Jobs
    BY <1>5 DEF SupInvariant, DaemonsOK, GoroutineOK, CancelWrapper, JobStages, TokenStages
  <2>2. WrappersEndOrReport
    BY <1>5, <2>1, CancelEndsOrReports DEF CancelWrapper
  <2>3. QED BY <1>5, <2>2 DEF CancelWrapper, StoreIdle, storeVars, StartsNothing
<1>6. QED BY <1>1, <1>2, <1>3, <1>4, <1>5 DEF ReconcileStep

(* Goroutine i alone moves. *)
LEMMA ReconcileMovesOne ==
  ASSUME SupInvariant, MaxTime <= MaxDelay, NEW i \in Instances,
         \/ ReconcileStep(i) \/ Run(i) \/ StoreFault(i) \/ CancelFails(i) \/ Heartbeat(i)
         \/ Crash(i)
  PROVE  \A k \in Instances \ {i} : StandsStill(k)
<1>1. [ClientStep(i)]_storeVars
  BY ReconcileIsClientStep, AroundIsClientStep
<1>2. (\E d : Become(i, d)) \/ (\E stage : GoTo(i, stage)) \/ UNCHANGED daemon
  BY DEF ReconcileStep, BeginReconcile, ReadMetadata, CheckProcess, ActOnObservation,
     FinalizeObservation, RenewBeforeSideEffect, ListStaleDurableRunningJobs, AdoptStale,
     MarkStaleUnknown, RecoverExpiredLeases, PruneStaleHeartbeats, Claim, NothingToClaim,
     Prepare, PersistSpec, MarkLaunching, Launch, PersistRecord, CancelWrapper, FailLaunch,
     Run, StoreFault, CancelFails, Heartbeat, Crash
<1>3. QED BY <1>1, <1>2, OthersStandStill

(* A step of a goroutine. *)
LEMMA ReconcileKeepsLaunch ==
  ASSUME SupInvariant, LaunchInvariant, MaxTime <= MaxDelay, NEW i \in Instances,
         ReconcileStep(i)
  PROVE  LaunchInvariant'
<1>o. \A k \in Instances \ {i} : StandsStill(k)
  BY ReconcileMovesOne
<1>s. \A stage : GoTo(i, stage) => daemon'[i].stage = stage
  BY DEF GoTo, SupInvariant, DaemonsOK, Reconcile
<1>1. CASE MarkLaunching(i) /\ GoTo(i, "launch")
  <2>1. MarkJobLaunchingOwned(i, daemon[i].job, daemon[i].token, clock)
    <3>1. ~GoTo(i, "refill")
      BY <1>1, <1>s
    <3>2. QED BY <1>1, <3>1 DEF MarkLaunching
  <2>2. QED BY <1>1, <1>o, <2>1, PermissionStep
<1>2. CASE Launch(i) /\ GoTo(i, "persistRecord")
  <2>1. processes' = [processes EXCEPT ![daemon[i].job] = @ \cup {daemon[i].token}]
    <3>1. ~GoTo(i, "launchFailed")
      BY <1>2, <1>s
    <3>2. QED BY <1>2, <3>1 DEF Launch
  <2>2. QED BY <1>2, <1>o, <2>1, WrapperStep
<1>3. CASE ~(MarkLaunching(i) /\ GoTo(i, "launch")) /\ ~(Launch(i) /\ GoTo(i, "persistRecord"))
  <2>1. StartsNothing
    BY <1>3, ReconcileStartsNothing
  <2>2. OnlyFreeJobsStop
    BY ReconcileSettles, OnlyFreeStop
  <2>3. GoesOn(i)
    BY <1>3, <1>o, <2>1, PassGoesOn, RefillGoesOn DEF ReconcileStep
  <2>4. QED BY <1>o, <2>1, <2>2, <2>3, OneGoesOn
<1>4. QED BY <1>1, <1>2, <1>3

(* The start, the faults and the end of a goroutine. *)
LEMMA AroundKeepsLaunch ==
  ASSUME SupInvariant, LaunchInvariant, MaxTime <= MaxDelay, NEW i \in Instances,
         Run(i) \/ StoreFault(i) \/ CancelFails(i) \/ Heartbeat(i) \/ Crash(i)
  PROVE  LaunchInvariant'
<1>o. \A k \in Instances \ {i} : StandsStill(k)
  BY ReconcileMovesOne
<1>1. StartsNothing /\ jobs' = jobs
  BY DEF Run, StoreFault, CancelFails, Heartbeat, Crash, HeartbeatRunner, StoreIdle,
     storeVars, wrapperVars, StartsNothing, WrappersEndOrReport
<1>2. OnlyFreeJobsStop
  BY <1>1 DEF OnlyFreeJobsStop, IsRunning
<1>3. GoesOn(i)
  <2>1. CASE Run(i) \/ Crash(i) \/ Become(i, Resting)
    BY <1>1, <2>1, RestingGoesOn DEF Run, Crash
  <2>2. CASE At(i, "persistRecord") /\ GoTo(i, "compensate")
    BY <1>1, <2>2, SameHands DEF At, LaunchingStages, ClaimStages
  <2>3. CASE GoTo(i, "refill")
    BY <1>1, <2>3, SameHands DEF RelyingStages, LaunchingStages, ClaimStages
  <2>4. CASE Heartbeat(i)
    <3>1. UNCHANGED <<daemon, processes, metadata, launches, jobs>>
      BY <2>4, <1>1 DEF Heartbeat, wrapperVars, StartsNothing
    <3>2. \A j \in Jobs : HandOK(i, j) /\ SeenOK(i, j)
      BY DEF LaunchInvariant
    <3>3. \A j \in Jobs : HandOK(i, j)' /\ SeenOK(i, j)'
      BY <3>1, <3>2 DEF HandOK, SeenOK, Mine, IsRunning, Free, AtWork, AtLaunch, At, Witnessed
    <3>4. QED BY <3>1, <3>3 DEF GoesOn
  <2>5. QED BY <2>1, <2>2, <2>3, <2>4 DEF StoreFault, CancelFails
<1>4. QED BY <1>o, <1>1, <1>2, <1>3, OneGoesOn

(* What happens to no instance: a job comes, a wrapper reports or ends, time   *)
(* passes.                                                                      *)
LEMMA ElsewhereKeepsLaunch ==
  ASSUME SupInvariant, LaunchInvariant, Elsewhere
  PROVE  LaunchInvariant'
<1>g. jobs \in [Jobs -> Row] /\ WrappersOK
  BY DEF SupInvariant, TypeOK
<1>1. daemon' = daemon /\ launches' = launches
  BY DEF Elsewhere, Enqueue, EnqueueJob, WriteMetadata, WrapperEnds, SlowTick, Tick,
     StoreIdle, storeVars, supVars
<1>2. WrappersEndOrReport
  <2>1. ASSUME NEW j \in Jobs, NEW token \in Tokens, WriteMetadata(j, token)
        PROVE  WrappersEndOrReport
    BY <2>1, <1>g DEF WriteMetadata, WrappersEndOrReport, WrappersOK
  <2>2. ASSUME NEW j \in Jobs, NEW token \in Tokens, WrapperEnds(j, token)
        PROVE  WrappersEndOrReport
    BY <2>2, <1>g DEF WrapperEnds, WrappersEndOrReport, WrappersOK
  <2>3. UNCHANGED wrapperVars => WrappersEndOrReport
    BY DEF wrapperVars, WrappersEndOrReport
  <2>4. QED BY <2>1, <2>2, <2>3 DEF Elsewhere, Enqueue, SlowTick, supVars, wrapperVars
<1>3. OnlyFreeJobsStop
  <2>1. ASSUME NEW l \in Jobs, EnqueueJob(l) PROVE OnlyFreeJobsStop
    BY <2>1, <1>g DEF EnqueueJob, OnlyFreeJobsStop, IsRunning
  <2>2. jobs' = jobs => OnlyFreeJobsStop
    BY DEF OnlyFreeJobsStop, IsRunning
  <2>3. QED BY <2>1, <2>2 DEF Elsewhere, Enqueue, WriteMetadata, WrapperEnds, SlowTick, Tick,
       StoreIdle, storeVars, supVars
<1>4. \A k \in Instances : StandsStill(k)
  BY <1>1, ElsewhereLeavesRows DEF StandsStill
<1>5. {} \in SUBSET Instances
  OBVIOUS
<1>6. QED BY <1>1, <1>2, <1>3, <1>4, <1>5, QuietStep

(* Every step of the daemons keeps the invariant. *)
LEMMA SupKeepsLaunch ==
  ASSUME SupInvariant, LaunchInvariant, MaxTime <= MaxDelay, [SupNext]_supVars
  PROVE  LaunchInvariant'
BY ReconcileKeepsLaunch, AroundKeepsLaunch, ElsewhereKeepsLaunch
DEF SupNext, Surroundings, Elsewhere

(* The invariant holds at the start: nothing has been launched. *)
LEMMA LaunchInit == SupInit => LaunchInvariant
<1> SUFFICES ASSUME SupInit PROVE LaunchInvariant
  OBVIOUS
<1>1. /\ \A j \in Jobs : launches[j] = {} /\ processes[j] = {}
      /\ \A j \in Jobs, t \in Tokens : metadata[j][t] = "none"
  BY DEF SupInit, Init, DaemonsInit
<1>2. \A i \in Instances : daemon[i].stage = "new" /\ daemon[i].seen = [j \in Jobs |-> "none"]
  <2>1. Resting \in Reconcile
    BY RestingType
  <2>2. Resting.seen = [j \in Jobs |-> "none"]
    BY DEF Resting
  <2>3. \A i \in Instances : daemon[i] = [Resting EXCEPT !.stage = "new"]
    BY DEF SupInit, DaemonsInit
  <2>4. [Resting EXCEPT !.stage = "new"].stage = "new"
        /\ [Resting EXCEPT !.stage = "new"].seen = Resting.seen
    BY <2>1 DEF Reconcile
  <2>5. QED BY <2>2, <2>3, <2>4
<1>3. \A j \in Jobs : Traced(j)
  BY <1>1 DEF Traced, AtWork
<1>4. \A i \in Instances, j \in Jobs : HandOK(i, j) /\ SeenOK(i, j)
  BY <1>2 DEF HandOK, SeenOK, LaunchingStages, ClaimStages, Outcomes
<1>5. \A i, k \in Instances : Apart(i, k)
  BY <1>2 DEF Apart, LaunchingStages
<1>6. QED BY <1>3, <1>4, <1>5 DEF LaunchInvariant

-----------------------------------------------------------------------------
(* What a job ends as *)

\* The status of a job that is over is borne out by its wrapper.
SettledInvariant ==
  \A j \in Jobs, status \in Terminal : jobs[j].status = status => BorneOut(j, status)

(* Reports are never overwritten and permissions never withdrawn. *)
LEMMA ReportsStay ==
  ASSUME SupInvariant, [SupNext]_supVars, NEW j \in Jobs
  PROVE  \A t \in Tokens : metadata[j][t] # "none" => metadata'[j][t] = metadata[j][t]
<1>1. ASSUME WrappersEndOrReport
      PROVE  \A t \in Tokens : metadata[j][t] # "none" => metadata'[j][t] = metadata[j][t]
  BY <1>1 DEF WrappersEndOrReport
<1>2. CASE metadata' = metadata
  BY <1>2
<1>3. ASSUME NEW i \in Instances, ReconcileStep(i)
      PROVE  WrappersEndOrReport \/ metadata' = metadata
  <2>1. CASE MarkLaunching(i) \/ Launch(i)
    BY <2>1 DEF MarkLaunching, Launch, wrapperVars
  <2>2. CASE ~(MarkLaunching(i) \/ Launch(i))
    BY <1>3, <2>2, ReconcileStartsNothing DEF StartsNothing
  <2>3. QED BY <2>1, <2>2
<1>4. ASSUME NEW l \in Jobs, NEW token \in Tokens, WriteMetadata(l, token)
      PROVE  WrappersEndOrReport
  BY <1>4 DEF WriteMetadata, WrappersEndOrReport, SupInvariant, WrappersOK
<1>5. QED
  BY <1>1, <1>2, <1>3, <1>4
  DEF SupNext, Surroundings, Run, StoreFault, CancelFails, Heartbeat, Crash, Enqueue,
      WrapperEnds, SlowTick, wrapperVars, supVars

(* No other step ends a job. *)
LEMMA SupSettles ==
  ASSUME SupInvariant, LaunchInvariant, [SupNext]_supVars
  PROVE  \/ NothingSettled
         \/ \E l \in Jobs, status \in Terminal : Settled(l, status) /\ BorneOut(l, status)
<1>1. jobs' = jobs => NothingSettled
  BY DEF NothingSettled, IsRunning
<1>2. ASSUME NEW l \in Jobs, Enqueue(l) PROVE NothingSettled
  BY <1>2 DEF Enqueue, EnqueueJob, NothingSettled, IsRunning, SupInvariant, TypeOK
<1>3. QED
  BY <1>1, <1>2, ReconcileSettles
  DEF SupNext, Surroundings, Run, StoreFault, CancelFails, Heartbeat, Crash,
      HeartbeatRunner, WriteMetadata, WrapperEnds, SlowTick, Tick, StoreIdle, storeVars,
      supVars

(* A row that is not running is enqueued, claimed or left alone, and its launches *)
(* stay as they are; so do those of a row that ends.                              *)
LEMMA RowAtRest ==
  ASSUME SupInvariant, [Next]_storeVars, NEW j \in Jobs, jobs'[j].status \in Terminal
  PROVE  launches'[j] = launches[j] /\ (IsRunning(j) \/ jobs'[j] = jobs[j])
<1>1. RowStep(j) /\ jobs[j] \in Row
  BY EveryStepIsARowStep DEF SupInvariant, TypeOK
<1>2. ASSUME RowLaunching(j) \/ RowSpecified(j) PROVE FALSE
  BY <1>1, <1>2 DEF RowLaunching, RowSpecified, IsRunning, Row, Terminal
<1>3. ASSUME RowEnqueued(j) \/ RowClaimed(j) PROVE FALSE
  BY <1>1, <1>3 DEF RowEnqueued, RowClaimed, ClaimedBy, Row, Terminal
<1>4. QED
  BY <1>1, <1>2, <1>3 DEF RowStep, RowReleased, RowRecorded, RowRenewed, RowCharged,
     RowFinalized, RowAdopted, RowUnknown, Releasable, Recoverable, SameHistory

LEMMA SupKeepsSettled ==
  ASSUME SupInvariant, LaunchInvariant, SettledInvariant, MaxTime <= MaxDelay,
         [SupNext]_supVars
  PROVE  SettledInvariant'
<1> SUFFICES ASSUME NEW j \in Jobs, NEW status \in Terminal, jobs'[j].status = status
             PROVE  BorneOut(j, status)'
  BY DEF SettledInvariant
<1>1. [Next]_storeVars
  BY SupStepIsStoreStep
<1>2. launches'[j] = launches[j] /\ (IsRunning(j) \/ jobs'[j] = jobs[j])
  BY <1>1, RowAtRest
<1>3. ASSUME BorneOut(j, status) PROVE BorneOut(j, status)'
  <2>1. ASSUME NEW obs \in Outcomes, Witnessed(j, obs) PROVE Witnessed(j, obs)'
    BY <1>2, <2>1, ReportsStay DEF Witnessed, Outcomes
  <2>2. QED BY <1>2, <1>3, <2>1 DEF BorneOut, Outcomes
<1>4. CASE IsRunning(j)
  <2>1. ~IsRunning(j)' /\ jobs'[j].status # "pending" /\ jobs'[j] # jobs[j]
    BY <1>4 DEF IsRunning, Terminal
  <2>2. BorneOut(j, status)
    BY <1>4, <2>1, SupSettles DEF NothingSettled, Settled
  <2>3. QED BY <1>3, <2>2
<1>5. CASE ~IsRunning(j)
  BY <1>2, <1>3, <1>5 DEF SettledInvariant
<1>6. QED BY <1>4, <1>5

-----------------------------------------------------------------------------
(* The theorems *)

(* A wrapper that has not reported keeps its row running under its own token. *)
LEMMA AtWorkIsRecognised ==
  ASSUME TypeOK, RowInvariant, LaunchInvariant
  PROVE  NoStrayWrapper
<1> SUFFICES ASSUME NEW j \in Jobs, NEW token \in processes[j], metadata[j][token] = "none"
             PROVE  IsRunning(j) /\ jobs[j].token = token
  BY DEF NoStrayWrapper
<1>1. token \in AtWork(j)
  BY DEF AtWork
<1>2. IsRunning(j) /\ token \in launches[j]
  BY <1>1 DEF LaunchInvariant, Traced
<1>3. jobs[j].launchState \in {"launching", "running", "unknown"}
  BY <1>2 DEF RowInvariant, RowShape, LaunchedOnce, TypeOK, Row, LaunchStates
<1>4. launches[j] = {jobs[j].token}
  BY <1>3 DEF RowInvariant, LaunchedOnce
<1>5. QED BY <1>2, <1>4

LEMMA SupLaunchHolds ==
  ASSUME MaxTime <= MaxDelay
  PROVE  SupSpec => [](SupInvariant /\ LaunchInvariant /\ SettledInvariant)
<1> DEFINE Inv == SupInvariant /\ LaunchInvariant /\ SettledInvariant
<1>1. SupInit => Inv
  <2>1. SupInit => \A j \in Jobs : jobs[j].status = "absent"
    BY DEF SupInit, Init, AbsentRow
  <2>2. SupInit => SettledInvariant
    BY <2>1 DEF SettledInvariant, Terminal
  <2>3. QED BY <2>2, SupInitOK, LaunchInit
<1>2. Inv /\ [SupNext]_supVars => Inv'
  <2> SUFFICES ASSUME Inv, [SupNext]_supVars PROVE Inv'
    OBVIOUS
  <2>1. SupInvariant'
    BY SupStepIsStoreStep, TypeStep, RowsStep, SupKeepsDaemons, SupKeepsWrappers
    DEF SupInvariant
  <2>2. QED BY <2>1, SupKeepsLaunch, SupKeepsSettled
<1>3. QED BY <1>1, <1>2, PTL DEF SupSpec

(* A wrapper at work always belongs to a running job whose row names its token: *)
(* no daemon, however late its call, requeues or finalizes a job whose wrapper  *)
(* has not reported.                                                            *)
THEOREM NoWrapperStrays ==
  ASSUME MaxTime <= MaxDelay
  PROVE  SupSpec => []NoStrayWrapper
<1>1. SupInvariant /\ LaunchInvariant => NoStrayWrapper
  BY AtWorkIsRecognised DEF SupInvariant
<1>2. QED BY <1>1, SupLaunchHolds, PTL

(* Two daemons are never both in the middle of starting the same job. *)
THEOREM LaunchersAreApart ==
  ASSUME MaxTime <= MaxDelay
  PROVE  SupSpec => []OneLauncher
<1>1. LaunchInvariant => OneLauncher
  BY DEF LaunchInvariant, Apart, LaunchingStages, OneLauncher
<1>2. QED BY <1>1, SupLaunchHolds, PTL

(* Whichever daemon settles a job, success and cancellation are what the        *)
(* metadata of its one launched wrapper says, and a skipped job never ran.      *)
THEOREM JobsEndAsReported ==
  ASSUME MaxTime <= MaxDelay
  PROVE  SupSpec => []SettledAsReported
<1>1. ASSUME SupInvariant, LaunchInvariant, SettledInvariant PROVE SettledAsReported
  <2> SUFFICES ASSUME NEW j \in Jobs
               PROVE LET reports == {metadata[j][token] : token \in Tokens} IN
                     /\ jobs[j].status = "succeeded" =>
                          "succeeded" \in reports /\ "cancelled" \notin reports
                     /\ jobs[j].status = "cancelled" => "cancelled" \in reports
                     /\ jobs[j].status = "skipped" =>
                          launches[j] = {} /\ reports \subseteq {"none"}
    BY DEF SettledAsReported
  <2>1. \A t1, t2 \in launches[j] : t1 = t2
    BY <1>1 DEF SupInvariant, RowInvariant, LaunchedOnce
  <2>2. \A t \in Tokens : metadata[j][t] # "none" => t \in launches[j]
    BY <1>1 DEF LaunchInvariant, Traced
  <2>3. CASE jobs[j].status \in {"succeeded", "cancelled"}
    <3>1. PICK t \in launches[j] \cap Tokens : metadata[j][t] = jobs[j].status
      BY <1>1, <2>3 DEF SettledInvariant, BorneOut, Terminal, Witnessed
    <3>2. QED BY <2>1, <2>2, <2>3, <3>1
  <2>4. CASE jobs[j].status = "skipped"
    <3>1. launches[j] = {}
      BY <1>1, <2>4 DEF SettledInvariant, BorneOut, Terminal
    <3>2. QED BY <2>2, <2>4, <3>1
  <2>5. QED BY <2>3, <2>4
<1>2. QED BY <1>1, SupLaunchHolds, PTL

=============================================================================
