--------------------------- MODULE JobStoreProofs ---------------------------
(***************************************************************************)
(* What TLAPS proves of JobStore, for any number of jobs, runner instances  *)
(* and routes, any lease duration and any delay of a sampled time; and that *)
(* the store implements the life of a job.                                  *)
(***************************************************************************)
EXTENDS JobStoreRefinement, FiniteSetTheorems, TLAPS

(* A claim writes a row of the declared type. *)
LEMMA ClaimedType ==
  ASSUME NEW row \in Row, NEW i \in Instances, NEW until \in Nat
  PROVE  ClaimedBy(row, i, until) \in Row
BY DEF ClaimedBy, Row, LaunchStates, NoToken

(* So does an adoption. *)
LEMMA AdoptedType ==
  ASSUME NEW row \in Row, NEW i \in Instances, NEW until \in Nat
  PROVE  AdoptedBy(row, i, until) \in Row
BY DEF AdoptedBy, Row

(* So does a charge. *)
LEMMA ChargedType ==
  ASSUME NEW row \in Row, NEW budget \in Budgets, NEW attempts \in Nat
  PROVE  Charged(row, budget, attempts) \in Row
BY DEF Charged, Row

(* So does the end of an ownership. *)
LEMMA DisownedType ==
  ASSUME NEW row \in Row, NEW status \in Terminal \cup {"pending"}
  PROVE  Disowned(row, status) \in Row
BY DEF Disowned, Row, Terminal, NoTime, NoToken

(* Every operation keeps the tables well typed. *)
LEMMA TypeStep ==
  ASSUME TypeOK, [Next]_storeVars
  PROVE  TypeOK'
<1>t. Sampled \subseteq Nat
  BY DEF Sampled, TypeOK
<1>r. \A j \in Jobs : jobs[j] \in Row
  BY DEF TypeOK
<1>1. ASSUME NEW j \in Jobs, EnqueueJob(j) PROVE TypeOK'
  <2>1. [jobs[j] EXCEPT !.status = "pending"] \in Row
    BY DEF TypeOK, Row
  <2>2. QED BY <1>1, <2>1 DEF EnqueueJob, TypeOK
<1>2. ASSUME NEW i \in Instances, NEW t \in Sampled, NEW j \in Jobs,
             NEW frontier \in SUBSET Jobs, ClaimJob(i, j, frontier, t)
      PROVE TypeOK'
  <2>1. ClaimedBy(jobs[j], i, t + Lease) \in Row
    BY <1>t, <1>r, ClaimedType, ConstantsAssumption
  <2>2. QED BY <1>2, <2>1 DEF ClaimJob, TypeOK
<1>3. ASSUME NEW i \in Instances, NEW t \in Sampled, NEW j \in Jobs,
             OwnerStep(i, j, t)
      PROVE TypeOK'
  <2>1. ASSUME PersistLaunchSpecOwned(i, j, t) PROVE TypeOK'
    <3>1. [jobs[j] EXCEPT !.token = issued[j] + 1] \in Row
      BY DEF TypeOK, Row
    <3>2. QED BY <2>1, <3>1 DEF PersistLaunchSpecOwned, TypeOK
  <2>2. ASSUME NEW token \in 1..issued[j], MarkJobLaunchingOwned(i, j, token, t)
        PROVE TypeOK'
    <3>1. [jobs[j] EXCEPT !.launchState = "launching"] \in Row
      BY DEF TypeOK, Row, LaunchStates
    <3>2. token \in Nat
      BY DEF TypeOK
    <3>3. QED BY <2>2, <3>1, <3>2 DEF MarkJobLaunchingOwned, TypeOK
  <2>3. ASSUME NEW token \in 1..issued[j], PersistLaunchRecordOwned(i, j, token, t)
        PROVE TypeOK'
    <3>1. WithProcess(jobs[j]) \in Row
      BY DEF WithProcess, TypeOK, Row, LaunchStates
    <3>2. QED BY <2>3, <3>1 DEF PersistLaunchRecordOwned, TypeOK
  <2>4. ASSUME RenewJobLease(i, j, t) PROVE TypeOK'
    <3>1. t + Lease \in Nat
      BY <1>t, ConstantsAssumption
    <3>2. [jobs[j] EXCEPT !.leaseUntil = t + Lease] \in Row
      BY <1>r, <3>1 DEF Row
    <3>3. QED BY <2>4, <3>2 DEF RenewJobLease, TypeOK
  <2>5. ASSUME NEW budget \in Budgets, IncrementAttemptsForJob(i, j, budget, t)
        PROVE TypeOK'
    <3>1. routeAttempts[budget] \in Nat
      BY DEF TypeOK
    <3>2. Charged(jobs[j], budget, routeAttempts[budget] + 1) \in Row
      BY <3>1, <1>r, ChargedType
    <3>3. QED BY <2>5, <3>1, <3>2 DEF IncrementAttemptsForJob, TypeOK
  <2>6. ASSUME NEW status \in Terminal, NEW workStarted \in BOOLEAN,
               FinalizeJobOwned(i, j, status, workStarted, t)
        PROVE TypeOK'
    <3>1. Disowned(jobs[j], status) \in Row
      BY <1>r, DisownedType
    <3>2. CASE ~workStarted /\ Refundable(j)
      <4>1. jobs[j].attempts - 1 \in Nat /\ jobs[j].scope \in Budgets
        BY <3>2 DEF TypeOK, Row, Refundable
      <4>2. [Disowned(jobs[j], status) EXCEPT !.attempts = jobs[j].attempts - 1] \in Row
        BY <3>1, <4>1 DEF Row
      <4>3. routeAttempts[jobs[j].scope] - 1 \in Nat
        BY <3>2, <4>1 DEF TypeOK, Refundable
      <4>4. QED
        BY <2>6, <3>2, <4>1, <4>2, <4>3 DEF FinalizeJobOwned, TypeOK
    <3>3. CASE ~(~workStarted /\ Refundable(j))
      BY <2>6, <3>1, <3>3 DEF FinalizeJobOwned, TypeOK
    <3>4. QED BY <3>2, <3>3
  <2>7. QED BY <1>3, <2>1, <2>2, <2>3, <2>4, <2>5, <2>6 DEF OwnerStep
<1>4. ASSUME NEW i \in Instances, NEW t \in Sampled, RecoveryStep(i, t)
      PROVE TypeOK'
  <2>1. ASSUME NEW active \in SUBSET Jobs, ReleaseExpiredLeases(i, active, t)
        PROVE TypeOK'
    <3>1. \A j \in Jobs : Disowned(jobs[j], "pending") \in Row
      BY <1>r, DisownedType
    <3>2. QED BY <2>1, <3>1 DEF ReleaseExpiredLeases, TypeOK
  <2>2. ASSUME NEW j \in Jobs, NEW old \in Instances,
               AdoptStaleRunningJob(i, j, old, t)
        PROVE TypeOK'
    <3>1. AdoptedBy(jobs[j], i, t + Lease) \in Row
      BY <1>t, <1>r, AdoptedType, ConstantsAssumption
    <3>2. QED BY <2>2, <3>1 DEF AdoptStaleRunningJob, TypeOK
  <2>3. ASSUME NEW j \in Jobs, NEW old \in Instances,
               MarkStaleRunningJobUnknown(j, old, t)
        PROVE TypeOK'
    <3>1. [jobs[j] EXCEPT !.launchState = "unknown"] \in Row
      BY DEF TypeOK, Row, LaunchStates
    <3>2. QED BY <2>3, <3>1 DEF MarkStaleRunningJobUnknown, TypeOK
  <2>4. ASSUME PruneStaleRunnerHeartbeats(t) PROVE TypeOK'
    BY <2>4 DEF PruneStaleRunnerHeartbeats, TypeOK
  <2>5. QED BY <1>4, <2>1, <2>2, <2>3, <2>4 DEF RecoveryStep
<1>5. ASSUME NEW i \in Instances, NEW t \in Sampled, HeartbeatRunner(i, t)
      PROVE TypeOK'
  BY <1>5, <1>t DEF HeartbeatRunner, TypeOK
<1>6. ASSUME NEW i \in Instances, DeleteRunnerHeartbeat(i) PROVE TypeOK'
  BY <1>6 DEF DeleteRunnerHeartbeat, TypeOK
<1>7. CASE Tick
  BY <1>7 DEF Tick, TypeOK
<1>8. CASE UNCHANGED storeVars
  BY <1>8 DEF storeVars, TypeOK
<1>9. QED
  BY <1>1, <1>2, <1>3, <1>4, <1>5, <1>6, <1>7, <1>8 DEF Next

(* The tables hold rows of the declared types after every operation. *)
THEOREM TypeCorrect == Spec => []TypeOK
<1>1. Init => TypeOK
  BY DEF Init, AbsentRow, TypeOK, Row, Terminal, LaunchStates, NoTime, NoToken
<1>2. TypeOK /\ [Next]_storeVars => TypeOK'
  BY TypeStep
<1>3. QED BY <1>1, <1>2, PTL DEF Spec

-----------------------------------------------------------------------------
(* One row under one step *)

SameHistory(j) == issued'[j] = issued[j] /\ launches'[j] = launches[j]

RowEnqueued(j) ==
  /\ jobs[j].status = "absent"
  /\ jobs'[j] = [jobs[j] EXCEPT !.status = "pending"]
  /\ SameHistory(j)

RowClaimed(j) ==
  /\ jobs[j].status = "pending"
  /\ \E i \in Instances, until \in Nat : jobs'[j] = ClaimedBy(jobs[j], i, until)
  /\ SameHistory(j)

RowReleased(j) ==
  /\ \E i \in Instances, active \in SUBSET Jobs, t \in Sampled :
       Releasable(j, i, active, t)
  /\ jobs'[j] = Disowned(jobs[j], "pending")
  /\ SameHistory(j)

RowSpecified(j) ==
  /\ IsRunning(j) /\ jobs[j].launchState = "preparing"
  /\ jobs'[j] = [jobs[j] EXCEPT !.token = issued[j] + 1]
  /\ issued'[j] = issued[j] + 1 /\ launches'[j] = launches[j]

RowLaunching(j) ==
  /\ IsRunning(j) /\ jobs[j].launchState = "preparing"
  /\ jobs[j].token \in 1..issued[j]
  /\ jobs'[j] = [jobs[j] EXCEPT !.launchState = "launching"]
  /\ issued'[j] = issued[j] /\ launches'[j] = launches[j] \cup {jobs[j].token}

RowRecorded(j) ==
  /\ IsRunning(j) /\ jobs[j].launchState = "launching"
  /\ jobs'[j] = WithProcess(jobs[j])
  /\ SameHistory(j)

RowRenewed(j) ==
  /\ IsRunning(j)
  /\ \E until \in Nat : jobs'[j] = [jobs[j] EXCEPT !.leaseUntil = until]
  /\ SameHistory(j)

RowCharged(j) ==
  /\ IsRunning(j)
  /\ \E b \in Budgets, n \in Nat : jobs'[j] = Charged(jobs[j], b, n)
  /\ SameHistory(j)

RowFinalized(j) ==
  /\ IsRunning(j)
  /\ \E status \in Terminal :
       \/ jobs'[j] = Disowned(jobs[j], status)
       \/ \E n \in Nat : jobs'[j] = [Disowned(jobs[j], status) EXCEPT !.attempts = n]
  /\ SameHistory(j)

RowAdopted(j) ==
  /\ \E t \in Sampled : Recoverable(j, t)
  /\ \E i \in Instances, until \in Nat : jobs'[j] = AdoptedBy(jobs[j], i, until)
  /\ SameHistory(j)

RowUnknown(j) ==
  /\ \E t \in Sampled : Recoverable(j, t)
  /\ jobs'[j] = [jobs[j] EXCEPT !.launchState = "unknown"]
  /\ SameHistory(j)

RowStep(j) ==
  \/ jobs'[j] = jobs[j] /\ SameHistory(j)
  \/ RowEnqueued(j) \/ RowClaimed(j) \/ RowReleased(j) \/ RowSpecified(j)
  \/ RowLaunching(j) \/ RowRecorded(j) \/ RowRenewed(j) \/ RowCharged(j)
  \/ RowFinalized(j) \/ RowAdopted(j) \/ RowUnknown(j)

(* Whatever operation any runner calls, a row of the jobs table changes in   *)
(* one of these eleven ways or not at all.                                    *)
LEMMA EveryStepIsARowStep ==
  ASSUME TypeOK, [Next]_storeVars, NEW j \in Jobs
  PROVE  RowStep(j)
<1>t. Sampled \subseteq Nat
  BY DEF Sampled, TypeOK
<1>r. jobs \in [Jobs -> Row] /\ issued \in [Jobs -> Nat] /\ launches \in [Jobs -> SUBSET Nat]
  BY DEF TypeOK
<1> DEFINE Same(k) == jobs'[k] = jobs[k] /\ SameHistory(k)
<1>s. ASSUME Same(j) PROVE RowStep(j)
  BY <1>s DEF RowStep
<1>1. ASSUME NEW k \in Jobs, EnqueueJob(k) PROVE RowStep(j)
  <2>1. CASE j = k
    BY <1>1, <1>r, <2>1 DEF EnqueueJob, RowEnqueued, SameHistory, RowStep
  <2>2. CASE j # k
    BY <1>1, <1>r, <1>s, <2>2 DEF EnqueueJob, SameHistory
  <2>3. QED BY <2>1, <2>2
<1>2. ASSUME NEW i \in Instances, NEW t \in Sampled, NEW k \in Jobs,
             NEW frontier \in SUBSET Jobs, ClaimJob(i, k, frontier, t)
      PROVE RowStep(j)
  <2>1. CASE j = k
    <3>1. t + Lease \in Nat
      BY <1>t, ConstantsAssumption
    <3>2. jobs[j].status = "pending" /\ jobs'[j] = ClaimedBy(jobs[j], i, t + Lease)
      BY <1>2, <1>r, <2>1 DEF ClaimJob, Claimable
    <3>3. SameHistory(j)
      BY <1>2 DEF ClaimJob, SameHistory
    <3>4. QED BY <3>1, <3>2, <3>3 DEF RowClaimed, RowStep
  <2>2. CASE j # k
    BY <1>2, <1>r, <1>s, <2>2 DEF ClaimJob, SameHistory
  <2>3. QED BY <2>1, <2>2
<1>3. ASSUME NEW i \in Instances, NEW t \in Sampled, NEW k \in Jobs,
             OwnerStep(i, k, t)
      PROVE RowStep(j)
  <2>1. CASE j # k
    <3>1. Same(j)
      BY <1>3, <1>r, <2>1 DEF OwnerStep, PersistLaunchSpecOwned, MarkJobLaunchingOwned,
         PersistLaunchRecordOwned, RenewJobLease, IncrementAttemptsForJob,
         FinalizeJobOwned, SameHistory
    <3>2. QED BY <3>1, <1>s
  <2>2. CASE j = k
    <3>1. ASSUME PersistLaunchSpecOwned(i, j, t) PROVE RowStep(j)
      BY <3>1, <1>r DEF PersistLaunchSpecOwned, Owned, RowSpecified, RowStep
    <3>2. ASSUME NEW token \in 1..issued[j], MarkJobLaunchingOwned(i, j, token, t)
          PROVE RowStep(j)
      BY <3>2, <1>r DEF MarkJobLaunchingOwned, Owned, RowLaunching, RowStep
    <3>3. ASSUME NEW token \in 1..issued[j], PersistLaunchRecordOwned(i, j, token, t)
          PROVE RowStep(j)
      BY <3>3, <1>r DEF PersistLaunchRecordOwned, Owned, RowRecorded, SameHistory, RowStep
    <3>4. ASSUME RenewJobLease(i, j, t) PROVE RowStep(j)
      <4>1. t + Lease \in Nat
        BY <1>t, ConstantsAssumption
      <4>2. jobs'[j] = [jobs[j] EXCEPT !.leaseUntil = t + Lease]
        BY <3>4, <1>r DEF RenewJobLease
      <4>3. IsRunning(j) /\ SameHistory(j)
        BY <3>4 DEF RenewJobLease, Owned, SameHistory
      <4>4. QED BY <4>1, <4>2, <4>3 DEF RowRenewed, RowStep
    <3>5. ASSUME NEW b \in Budgets, IncrementAttemptsForJob(i, j, b, t)
          PROVE RowStep(j)
      <4>1. routeAttempts[b] + 1 \in Nat
        BY DEF TypeOK
      <4>2. jobs'[j] = Charged(jobs[j], b, routeAttempts[b] + 1)
        BY <3>5, <1>r DEF IncrementAttemptsForJob
      <4>3. IsRunning(j) /\ SameHistory(j)
        BY <3>5 DEF IncrementAttemptsForJob, Owned, SameHistory
      <4>4. QED BY <4>1, <4>2, <4>3 DEF RowCharged, RowStep
    <3>6. ASSUME NEW status \in Terminal, NEW workStarted \in BOOLEAN,
                 FinalizeJobOwned(i, j, status, workStarted, t)
          PROVE RowStep(j)
      <4>1. IsRunning(j) /\ SameHistory(j)
        BY <3>6 DEF FinalizeJobOwned, Owned, SameHistory
      <4>2. CASE ~workStarted /\ Refundable(j)
        <5>1. jobs[j].attempts - 1 \in Nat
          BY <1>r, <4>2 DEF Row, Refundable
        <5>2. jobs'[j] = [Disowned(jobs[j], status) EXCEPT !.attempts = jobs[j].attempts - 1]
          BY <3>6, <1>r, <4>2 DEF FinalizeJobOwned
        <5>3. QED BY <4>1, <5>1, <5>2 DEF RowFinalized, RowStep
      <4>3. CASE ~(~workStarted /\ Refundable(j))
        <5>1. jobs'[j] = Disowned(jobs[j], status)
          BY <3>6, <1>r, <4>3 DEF FinalizeJobOwned
        <5>2. QED BY <4>1, <5>1 DEF RowFinalized, RowStep
      <4>4. QED BY <4>2, <4>3
    <3>7. QED BY <1>3, <2>2, <3>1, <3>2, <3>3, <3>4, <3>5, <3>6 DEF OwnerStep
  <2>3. QED BY <2>1, <2>2
<1>4. ASSUME NEW i \in Instances, NEW t \in Sampled, RecoveryStep(i, t)
      PROVE RowStep(j)
  <2>1. ASSUME NEW active \in SUBSET Jobs, ReleaseExpiredLeases(i, active, t)
        PROVE RowStep(j)
    <3>1. SameHistory(j)
      BY <2>1 DEF ReleaseExpiredLeases, SameHistory
    <3>2. CASE Releasable(j, i, active, t)
      <4>1. jobs'[j] = Disowned(jobs[j], "pending")
        BY <2>1, <3>2 DEF ReleaseExpiredLeases
      <4>2. QED BY <3>1, <3>2, <4>1 DEF RowReleased, RowStep
    <3>3. CASE ~Releasable(j, i, active, t)
      BY <1>s, <2>1, <3>1, <3>3 DEF ReleaseExpiredLeases
    <3>4. QED BY <3>2, <3>3
  <2>2. ASSUME NEW k \in Jobs, NEW old \in Instances, AdoptStaleRunningJob(i, k, old, t)
        PROVE RowStep(j)
    <3>1. SameHistory(j)
      BY <2>2 DEF AdoptStaleRunningJob, SameHistory
    <3>2. CASE j = k
      <4>1. t + Lease \in Nat
        BY <1>t, ConstantsAssumption
      <4>2. jobs'[j] = AdoptedBy(jobs[j], i, t + Lease) /\ Recoverable(j, t)
        BY <2>2, <1>r, <3>2 DEF AdoptStaleRunningJob
      <4>3. QED BY <3>1, <4>1, <4>2 DEF RowAdopted, RowStep
    <3>3. CASE j # k
      BY <1>r, <1>s, <2>2, <3>1, <3>3 DEF AdoptStaleRunningJob
    <3>4. QED BY <3>2, <3>3
  <2>3. ASSUME NEW k \in Jobs, NEW old \in Instances, MarkStaleRunningJobUnknown(k, old, t)
        PROVE RowStep(j)
    <3>1. SameHistory(j)
      BY <2>3 DEF MarkStaleRunningJobUnknown, SameHistory
    <3>2. CASE j = k
      BY <2>3, <1>r, <3>1, <3>2 DEF MarkStaleRunningJobUnknown, RowUnknown, RowStep
    <3>3. CASE j # k
      BY <1>r, <1>s, <2>3, <3>1, <3>3 DEF MarkStaleRunningJobUnknown
    <3>4. QED BY <3>2, <3>3
  <2>4. ASSUME PruneStaleRunnerHeartbeats(t) PROVE RowStep(j)
    BY <1>s, <2>4 DEF PruneStaleRunnerHeartbeats, SameHistory
  <2>5. QED BY <1>4, <2>1, <2>2, <2>3, <2>4 DEF RecoveryStep
<1>5. ASSUME NEW i \in Instances, NEW t \in Sampled, HeartbeatRunner(i, t)
      PROVE RowStep(j)
  BY <1>s, <1>5 DEF HeartbeatRunner, SameHistory
<1>6. ASSUME NEW i \in Instances, DeleteRunnerHeartbeat(i) PROVE RowStep(j)
  BY <1>s, <1>6 DEF DeleteRunnerHeartbeat, SameHistory
<1>7. CASE Tick
  BY <1>s, <1>7 DEF Tick, SameHistory
<1>8. CASE UNCHANGED storeVars
  BY <1>s, <1>8 DEF storeVars, SameHistory
<1>9. QED
  BY <1>1, <1>2, <1>3, <1>4, <1>5, <1>6, <1>7, <1>8 DEF Next

-----------------------------------------------------------------------------
(* Row shape and launches *)

\* RowShape and LaunchedOnce of one row.
ShapeOf(j) ==
  /\ ~IsRunning(j) => /\ jobs[j].owner = None
                      /\ jobs[j].leaseUntil = NoTime
                      /\ jobs[j].launchState = "null"
                      /\ jobs[j].token = NoToken
                      /\ jobs[j].pid = "null"
  /\ IsRunning(j) => /\ jobs[j].owner \in Instances
                     /\ jobs[j].leaseUntil # NoTime
                     /\ jobs[j].launchState # "null"
  /\ jobs[j].launchState \in {"launching", "running", "unknown"} =>
       jobs[j].token # NoToken
  /\ jobs[j].token <= issued[j]

LaunchesOf(j) ==
  /\ jobs[j].status \in {"absent", "pending"} => launches[j] = {}
  /\ jobs[j].launchState = "preparing" => launches[j] = {}
  /\ jobs[j].launchState \in {"launching", "running", "unknown"} =>
       launches[j] = {jobs[j].token}
  /\ \A t1, t2 \in launches[j] : t1 = t2

(* Each kind of row step keeps the shape and the launch of its row. *)
LEMMA RowInvariantStep ==
  ASSUME TypeOK, NEW j \in Jobs, ShapeOf(j), LaunchesOf(j), RowStep(j)
  PROVE  ShapeOf(j)' /\ LaunchesOf(j)'
<1>r. jobs[j] \in Row /\ issued[j] \in Nat /\ launches[j] \in SUBSET Nat
  BY DEF TypeOK
<1> USE DEF ShapeOf, LaunchesOf, IsRunning, SameHistory, Row, NoTime, NoToken
<1>0. CASE jobs'[j] = jobs[j] /\ SameHistory(j)
  BY <1>0
<1>1. CASE RowEnqueued(j)
  BY <1>r, <1>1 DEF RowEnqueued
<1>2. CASE RowClaimed(j)
  BY <1>r, <1>2 DEF RowClaimed, ClaimedBy
<1>3. CASE RowReleased(j)
  <2>1. IsRunning(j) /\ NotLaunched(j)
    BY <1>3 DEF RowReleased, Releasable
  <2>2. launches[j] = {}
    BY <1>r, <2>1 DEF NotLaunched, LaunchStates
  <2>3. QED BY <1>r, <1>3, <2>2 DEF RowReleased, Disowned
<1>4. CASE RowSpecified(j)
  BY <1>r, <1>4 DEF RowSpecified
<1>5. CASE RowLaunching(j)
  BY <1>r, <1>5 DEF RowLaunching
<1>6. CASE RowRecorded(j)
  BY <1>r, <1>6 DEF RowRecorded, WithProcess
<1>7. CASE RowRenewed(j)
  BY <1>r, <1>7 DEF RowRenewed
<1>8. CASE RowCharged(j)
  BY <1>r, <1>8 DEF RowCharged, Charged
<1>9. CASE RowFinalized(j)
  <2>1. PICK status \in Terminal :
          \/ jobs'[j] = Disowned(jobs[j], status)
          \/ \E n \in Nat : jobs'[j] = [Disowned(jobs[j], status) EXCEPT !.attempts = n]
    BY <1>9 DEF RowFinalized
  <2>2. /\ jobs'[j].status = status /\ jobs'[j].owner = None
        /\ jobs'[j].leaseUntil = NoTime /\ jobs'[j].launchState = "null"
        /\ jobs'[j].token = NoToken /\ jobs'[j].pid = "null"
    BY <1>r, <2>1 DEF Disowned
  <2>3. issued'[j] = issued[j] /\ launches'[j] = launches[j]
    BY <1>9 DEF RowFinalized
  <2>4. QED BY <1>r, <2>2, <2>3 DEF Terminal
<1>10. CASE RowAdopted(j)
  BY <1>r, <1>10 DEF RowAdopted, Recoverable, AdoptedBy
<1>11. CASE RowUnknown(j)
  BY <1>r, <1>11 DEF RowUnknown, Recoverable
<1>12. QED
  BY <1>0, <1>1, <1>2, <1>3, <1>4, <1>5, <1>6, <1>7, <1>8, <1>9, <1>10, <1>11
  DEF RowStep

(* The inductive invariant of the jobs table. *)
RowInvariant == RowShape /\ LaunchedOnce

(* Every operation keeps the inductive invariant. *)
LEMMA RowsStep ==
  ASSUME TypeOK, RowInvariant, [Next]_storeVars
  PROVE  RowInvariant'
<1> SUFFICES ASSUME NEW j \in Jobs PROVE ShapeOf(j)' /\ LaunchesOf(j)'
  BY DEF RowInvariant, RowShape, LaunchedOnce, ShapeOf, LaunchesOf
<1>1. ShapeOf(j) /\ LaunchesOf(j)
  BY DEF RowInvariant, RowShape, LaunchedOnce, ShapeOf, LaunchesOf
<1>2. RowStep(j)
  BY EveryStepIsARowStep
<1>3. QED BY <1>1, <1>2, RowInvariantStep

(* Rows keep their shape, and no row is launched twice. *)
THEOREM RowsWellFormed == Spec => []RowInvariant
<1>1. Init => RowInvariant
  BY DEF Init, AbsentRow, RowInvariant, RowShape, LaunchedOnce, IsRunning, NoTime, NoToken
<1>2. TypeOK /\ RowInvariant /\ [Next]_storeVars => RowInvariant'
  BY RowsStep
<1>3. QED BY <1>1, <1>2, TypeCorrect, PTL DEF Spec

(* A row is always one that recovery can make sense of: its status, owner,   *)
(* lease, launch state, token and process agree after every call.          *)
THEOREM RowsHaveShape == Spec => []RowShape
<1>1. RowInvariant => RowShape
  BY DEF RowInvariant
<1>2. QED BY <1>1, RowsWellFormed, PTL

(* No wrapper is ever allowed to start twice for one job. *)
THEOREM LaunchesAreUnique == Spec => []LaunchedOnce
<1>1. RowInvariant => LaunchedOnce
  BY DEF RowInvariant
<1>2. QED BY <1>1, RowsWellFormed, PTL

(* Every stale row is in the hands of exactly one recovery path. *)
THEOREM NothingIsOrphaned == Spec => []NoOrphan
<1>1. TypeOK /\ RowInvariant => NoOrphan
  <2> SUFFICES ASSUME TypeOK, RowInvariant, NEW j \in Jobs, NEW i \in Instances,
                      IsRunning(j), LeaseExpired(j, clock),
                      OwnerStale(j, clock - Lease)
               PROVE  LET requeue == Releasable(j, i, {}, clock)
                          adopt   == Recoverable(j, clock)
                          unknown == jobs[j].launchState = "unknown"
                      IN  /\ requeue \/ adopt \/ unknown
                          /\ ~(requeue /\ adopt)
                          /\ ~(requeue /\ unknown)
                          /\ ~(adopt /\ unknown)
    BY DEF NoOrphan
  <2>1. jobs[j].launchState \in LaunchStates
    BY DEF TypeOK, Row, RowInvariant, RowShape
  <2>2. jobs[j].launchState # "preparing" => jobs[j].token # NoToken
    BY <2>1 DEF RowInvariant, RowShape, LaunchStates
  <2>3. QED
    BY <2>1, <2>2 DEF Releasable, Recoverable, NotLaunched, LaunchStates
<1>2. QED BY <1>1, TypeCorrect, RowsWellFormed, PTL

(* A sampled time lies in the past, so what looks expired and stale to the   *)
(* caller of a recovery operation is expired and stale when it takes effect.  *)
LEMMA SamplesAreConservative ==
  ASSUME TypeOK, NEW j \in Jobs, NEW t \in Sampled
  PROVE  /\ LeaseExpired(j, t) => LeaseExpired(j, clock)
         /\ OwnerStale(j, t - Lease) => OwnerStale(j, clock - Lease)
<1>1. t \in Nat /\ clock \in Nat /\ t <= clock /\ Lease \in Nat
  BY ConstantsAssumption DEF Sampled, TypeOK
<1>2. jobs[j].leaseUntil \in Int
  BY DEF TypeOK, Row, NoTime
<1>3. jobs[j].owner # None =>
        jobs[j].owner \in Instances /\ heartbeats[jobs[j].owner] \in Int
  BY DEF TypeOK, Row, NoTime
<1>4. QED
  BY <1>1, <1>2, <1>3 DEF LeaseExpired, OwnerStale, Fresh

(* An owner with a valid lease or a fresh heartbeat keeps its job. *)
THEOREM OwnersAreSafe == Spec => OwnerKeepsJob
<1>1. ASSUME TypeOK, RowInvariant, [Next]_storeVars, NEW j \in Jobs, IsRunning(j),
             ~LeaseExpired(j, clock) \/ ~OwnerStale(j, clock - Lease)
      PROVE  \/ jobs'[j].status \in Terminal
             \/ /\ jobs'[j].status = "running"
                /\ jobs'[j].owner = jobs[j].owner
                /\ jobs'[j].launchState = "unknown" => jobs[j].launchState = "unknown"
  <2>1. \A t \in Sampled : ~(LeaseExpired(j, t) /\ OwnerStale(j, t - Lease))
    BY <1>1, SamplesAreConservative
  <2>2. ~RowReleased(j) /\ ~RowAdopted(j) /\ ~RowUnknown(j)
    BY <2>1 DEF RowReleased, RowAdopted, RowUnknown, Releasable, Recoverable
  <2>3. ~RowEnqueued(j) /\ ~RowClaimed(j)
    BY <1>1 DEF RowEnqueued, RowClaimed, IsRunning
  <2>r. jobs[j] \in Row /\ jobs[j].status = "running"
    BY <1>1 DEF TypeOK, IsRunning
  <2>4. CASE jobs'[j] = jobs[j] /\ SameHistory(j)
    BY <2>4, <2>r
  <2>5. CASE RowSpecified(j)
    BY <2>5, <2>r DEF RowSpecified, Row
  <2>6. CASE RowLaunching(j)
    BY <2>6, <2>r DEF RowLaunching, Row
  <2>7. CASE RowRecorded(j)
    BY <2>7, <2>r DEF RowRecorded, WithProcess, Row
  <2>8. CASE RowRenewed(j)
    BY <2>8, <2>r DEF RowRenewed, Row
  <2>9. CASE RowCharged(j)
    BY <2>9, <2>r DEF RowCharged, Charged, Row
  <2>10. CASE RowFinalized(j)
    <3>1. PICK status \in Terminal :
            \/ jobs'[j] = Disowned(jobs[j], status)
            \/ \E n \in Nat : jobs'[j] = [Disowned(jobs[j], status) EXCEPT !.attempts = n]
      BY <2>10 DEF RowFinalized
    <3>2. jobs'[j].status = status
      BY <2>r, <3>1 DEF Disowned, Row
    <3>3. QED BY <3>2
  <2>11. RowStep(j)
    BY <1>1, EveryStepIsARowStep
  <2>12. QED
    BY <2>2, <2>3, <2>4, <2>5, <2>6, <2>7, <2>8, <2>9, <2>10, <2>11 DEF RowStep
<1>2. TypeOK /\ RowInvariant /\ [Next]_storeVars =>
        [\A j \in Jobs :
           /\ IsRunning(j)
           /\ ~LeaseExpired(j, clock) \/ ~OwnerStale(j, clock - Lease)
           => \/ jobs'[j].status \in Terminal
              \/ /\ jobs'[j].status = "running"
                 /\ jobs'[j].owner = jobs[j].owner
                 /\ jobs'[j].launchState = "unknown" =>
                      jobs[j].launchState = "unknown"]_storeVars
  BY <1>1
<1>3. QED
  BY <1>2, TypeCorrect, RowsWellFormed, PTL DEF Spec, OwnerKeepsJob

-----------------------------------------------------------------------------
(* Capacity *)

(* Only ClaimJob makes a row running. *)
LEMMA OnlyClaimsAddRunning ==
  ASSUME TypeOK, [Next]_storeVars,
         ~\E i \in Instances, t \in Sampled, frontier \in SUBSET Jobs :
            \E j \in frontier : ClaimJob(i, j, frontier, t)
  PROVE  \A j \in Jobs : IsRunning(j)' => IsRunning(j)
<1>r. jobs \in [Jobs -> Row]
  BY DEF TypeOK
<1> USE DEF IsRunning
<1>1. ASSUME NEW k \in Jobs, EnqueueJob(k)
      PROVE  \A j \in Jobs : IsRunning(j)' => IsRunning(j)
  <2>1. [jobs[k] EXCEPT !.status = "pending"].status = "pending"
    BY <1>r DEF Row
  <2>2. QED BY <1>1, <1>r, <2>1 DEF EnqueueJob
<1>2. ASSUME NEW i \in Instances, NEW t \in Sampled, NEW k \in Jobs, OwnerStep(i, k, t)
      PROVE  \A j \in Jobs : IsRunning(j)' => IsRunning(j)
  <2>1. IsRunning(k)
    BY <1>2 DEF OwnerStep, PersistLaunchSpecOwned, MarkJobLaunchingOwned,
       PersistLaunchRecordOwned, RenewJobLease, IncrementAttemptsForJob,
       FinalizeJobOwned, Owned
  <2>2. \A j \in Jobs \ {k} : jobs'[j] = jobs[j]
    BY <1>2, <1>r DEF OwnerStep, PersistLaunchSpecOwned, MarkJobLaunchingOwned,
       PersistLaunchRecordOwned, RenewJobLease, IncrementAttemptsForJob,
       FinalizeJobOwned
  <2>3. QED BY <2>1, <2>2
<1>3. ASSUME NEW i \in Instances, NEW t \in Sampled, RecoveryStep(i, t)
      PROVE  \A j \in Jobs : IsRunning(j)' => IsRunning(j)
  <2>1. ASSUME NEW active \in SUBSET Jobs, ReleaseExpiredLeases(i, active, t)
        PROVE  \A j \in Jobs : IsRunning(j)' => IsRunning(j)
    BY <2>1 DEF ReleaseExpiredLeases, Releasable
  <2>2. ASSUME NEW k \in Jobs, NEW old \in Instances, AdoptStaleRunningJob(i, k, old, t)
        PROVE  \A j \in Jobs : IsRunning(j)' => IsRunning(j)
    BY <2>2, <1>r DEF AdoptStaleRunningJob, Recoverable
  <2>3. ASSUME NEW k \in Jobs, NEW old \in Instances, MarkStaleRunningJobUnknown(k, old, t)
        PROVE  \A j \in Jobs : IsRunning(j)' => IsRunning(j)
    BY <2>3, <1>r DEF MarkStaleRunningJobUnknown, Recoverable
  <2>4. ASSUME PruneStaleRunnerHeartbeats(t)
        PROVE  \A j \in Jobs : IsRunning(j)' => IsRunning(j)
    BY <2>4 DEF PruneStaleRunnerHeartbeats
  <2>5. QED BY <1>3, <2>1, <2>2, <2>3, <2>4 DEF RecoveryStep
<1>4. QED
  BY <1>1, <1>2, <1>3 DEF Next, HeartbeatRunner, DeleteRunnerHeartbeat, Tick, storeVars

(* A claim adds exactly the claimed row. *)
LEMMA ClaimAddsOne ==
  ASSUME TypeOK, NEW i \in Instances, NEW t \in Sampled,
         NEW frontier \in SUBSET Jobs, NEW j \in frontier, ClaimJob(i, j, frontier, t)
  PROVE  /\ Running' = Running \cup {j} /\ j \notin Running
         /\ \A r \in Routes : RunningOn(r)' =
              IF RouteOf[j] = r THEN RunningOn(r) \cup {j} ELSE RunningOn(r)
<1>1. jobs \in [Jobs -> Row]
  BY DEF TypeOK
<1>2. jobs' = [jobs EXCEPT ![j] = ClaimedBy(jobs[j], i, t + Lease)]
  BY DEF ClaimJob
<1>3. jobs[j].status = "pending"
  BY DEF ClaimJob, Claimable
<1>4. ClaimedBy(jobs[j], i, t + Lease).status = "running"
  BY <1>1 DEF ClaimedBy, Row
<1>5. \A k \in Jobs : IsRunning(k)' <=> (IsRunning(k) \/ k = j)
  BY <1>1, <1>2, <1>4 DEF IsRunning
<1>6. QED BY <1>3, <1>5 DEF Running, RunningOn, IsRunning

(* Claims respect the concurrency limit and the limits of the routes. *)
THEOREM CapacityHolds == Spec => []CapacityRespected
<1>f. \A S \in SUBSET Jobs : IsFiniteSet(S) /\ Cardinality(S) \in Nat
  BY FS_Subset, FS_CardinalityType, ConstantsAssumption
<1>l. MaxGlobal \in Nat /\ RouteLimit \in [Routes -> Nat] /\ RouteOf \in [Jobs -> Routes]
  BY ConstantsAssumption
<1>s. Running \in SUBSET Jobs /\ \A r \in Routes : RunningOn(r) \in SUBSET Jobs
  BY DEF Running, RunningOn
<1>1. Init => CapacityRespected
  <2>1. ASSUME Init PROVE Running = {} /\ \A r \in Routes : RunningOn(r) = {}
    BY <2>1 DEF Init, AbsentRow, Running, RunningOn, IsRunning
  <2>2. QED BY <2>1, <1>l, FS_EmptySet DEF CapacityRespected
<1>2. TypeOK /\ CapacityRespected /\ [Next]_storeVars => CapacityRespected'
  <2> SUFFICES ASSUME TypeOK, CapacityRespected, [Next]_storeVars
               PROVE  CapacityRespected'
    OBVIOUS
  <2>1. ASSUME NEW i \in Instances, NEW t \in Sampled, NEW frontier \in SUBSET Jobs,
               NEW j \in frontier, ClaimJob(i, j, frontier, t)
        PROVE  CapacityRespected'
    <3>1. Cardinality(Running) < MaxGlobal
      BY <2>1 DEF ClaimJob
    <3>2. Cardinality(Running') <= MaxGlobal
      <4>1. Cardinality(Running \cup {j}) = Cardinality(Running) + 1
        BY <1>f, <1>s, <2>1, ClaimAddsOne, FS_AddElement
      <4>2. Running' = Running \cup {j}
        BY <2>1, ClaimAddsOne
      <4>3. Cardinality(Running) \in Nat
        BY <1>f, <1>s
      <4>4. QED BY <1>l, <3>1, <4>1, <4>2, <4>3
    <3>3. ASSUME NEW r \in Routes, RouteLimit[r] > 0
          PROVE  Cardinality(RunningOn(r)') <= RouteLimit[r]
      <4>1. CASE RouteOf[j] # r
        BY <2>1, <3>3, <4>1, ClaimAddsOne DEF CapacityRespected
      <4>2. CASE RouteOf[j] = r
        <5>1. Cardinality(RunningOn(r)) < RouteLimit[r]
          BY <1>l, <2>1, <3>3, <4>2 DEF ClaimJob, Claimable
        <5>2. Cardinality(RunningOn(r) \cup {j}) <= Cardinality(RunningOn(r)) + 1
          BY <1>f, <1>s, FS_AddElement
        <5>3. RunningOn(r)' = RunningOn(r) \cup {j}
          BY <2>1, <4>2, ClaimAddsOne
        <5>4. QED
          <6>1. Cardinality(RunningOn(r)) \in Nat /\ RouteLimit[r] \in Nat
            BY <1>f, <1>l, <1>s
          <6>2. Cardinality(RunningOn(r) \cup {j}) \in Nat
            <7>1. RunningOn(r) \cup {j} \in SUBSET Jobs
              BY <1>s
            <7>2. QED BY <7>1, <1>f
          <6>3. QED BY <5>1, <5>2, <5>3, <6>1, <6>2
      <4>3. QED BY <4>1, <4>2
    <3>4. QED BY <3>2, <3>3 DEF CapacityRespected
  <2>2. CASE ~\E i \in Instances, t \in Sampled, frontier \in SUBSET Jobs :
               \E j \in frontier : ClaimJob(i, j, frontier, t)
    <3>1. \A j \in Jobs : IsRunning(j)' => IsRunning(j)
      BY <2>2, OnlyClaimsAddRunning
    <3>2. Running' \subseteq Running /\ \A r \in Routes : RunningOn(r)' \subseteq RunningOn(r)
      BY <3>1 DEF Running, RunningOn
    <3>3. Cardinality(Running') <= Cardinality(Running)
      BY <1>f, <1>s, <3>2, FS_Subset
    <3>4. \A r \in Routes : Cardinality(RunningOn(r)') <= Cardinality(RunningOn(r))
      BY <1>f, <1>s, <3>2, FS_Subset
    <3>5. /\ Cardinality(Running) \in Nat /\ Cardinality(Running') \in Nat
          /\ \A r \in Routes : /\ Cardinality(RunningOn(r)) \in Nat
                                /\ Cardinality(RunningOn(r)') \in Nat
      BY <1>f, <1>s, <3>2
    <3>6. QED BY <1>l, <3>3, <3>4, <3>5 DEF CapacityRespected
  <2>3. QED BY <2>1, <2>2
<1>3. QED BY <1>1, <1>2, TypeCorrect, PTL DEF Spec

-----------------------------------------------------------------------------
(* Attempts *)

\* A row that was never inserted charges nothing.
AbsentUncharged == \A j \in Jobs : jobs[j].status = "absent" => jobs[j].scope = None

\* Row j keeps its charge, and stays in progress only if it was.
ChargeKept(j) ==
  /\ jobs'[j].scope = jobs[j].scope
  /\ jobs'[j].attempts = jobs[j].attempts
  /\ jobs'[j].status = "absent" => jobs[j].status = "absent"
  /\ jobs'[j].status \in {"pending", "running"} =>
       jobs[j].status \in {"absent", "pending", "running"}

ChargeStep ==
  \E i \in Instances, t \in Sampled, j \in Jobs, b \in Budgets :
    IncrementAttemptsForJob(i, j, b, t)

FinalizeStep ==
  \E i \in Instances, t \in Sampled, j \in Jobs, status \in Terminal, ws \in BOOLEAN :
    FinalizeJobOwned(i, j, status, ws, t)

(* Every other operation leaves all charges and counters as they are. *)
LEMMA OthersKeepCharges ==
  ASSUME TypeOK, [Next]_storeVars, ~ChargeStep, ~FinalizeStep
  PROVE  routeAttempts' = routeAttempts /\ \A j \in Jobs : ChargeKept(j)
<1>r. jobs \in [Jobs -> Row] /\ \A j \in Jobs : jobs[j] \in Row
  BY DEF TypeOK
<1>s. \A j \in Jobs : jobs'[j] = jobs[j] => ChargeKept(j)
  BY DEF ChargeKept
<1>1. ASSUME NEW k \in Jobs, EnqueueJob(k)
      PROVE  routeAttempts' = routeAttempts /\ \A j \in Jobs : ChargeKept(j)
  <2>1. jobs'[k] = [jobs[k] EXCEPT !.status = "pending"] /\ jobs[k].status = "absent"
    BY <1>1, <1>r DEF EnqueueJob
  <2>2. ChargeKept(k)
    BY <2>1, <1>r DEF ChargeKept, Row
  <2>3. QED BY <1>1, <1>r, <1>s, <2>2 DEF EnqueueJob
<1>2. ASSUME NEW i \in Instances, NEW t \in Sampled, NEW frontier \in SUBSET Jobs,
             NEW k \in Jobs, ClaimJob(i, k, frontier, t)
      PROVE  routeAttempts' = routeAttempts /\ \A j \in Jobs : ChargeKept(j)
  <2>1. jobs'[k] = ClaimedBy(jobs[k], i, t + Lease) /\ jobs[k].status = "pending"
    BY <1>2, <1>r DEF ClaimJob, Claimable
  <2>2. ChargeKept(k)
    BY <2>1, <1>r DEF ChargeKept, ClaimedBy, Row
  <2>3. QED BY <1>2, <1>r, <1>s, <2>2 DEF ClaimJob
<1>3. ASSUME NEW i \in Instances, NEW t \in Sampled, NEW k \in Jobs, OwnerStep(i, k, t)
      PROVE  routeAttempts' = routeAttempts /\ \A j \in Jobs : ChargeKept(j)
  <2>1. ASSUME PersistLaunchSpecOwned(i, k, t) PROVE ChargeKept(k)
    <3>1. jobs'[k] = [jobs[k] EXCEPT !.token = issued[k] + 1]
      BY <2>1, <1>r DEF PersistLaunchSpecOwned
    <3>2. QED BY <3>1, <1>r DEF ChargeKept, Row
  <2>2. ASSUME NEW token \in 1..issued[k], MarkJobLaunchingOwned(i, k, token, t)
        PROVE  ChargeKept(k)
    <3>1. jobs'[k] = [jobs[k] EXCEPT !.launchState = "launching"]
      BY <2>2, <1>r DEF MarkJobLaunchingOwned
    <3>2. QED BY <3>1, <1>r DEF ChargeKept, Row
  <2>3. ASSUME NEW token \in 1..issued[k], PersistLaunchRecordOwned(i, k, token, t)
        PROVE  ChargeKept(k)
    <3>1. jobs'[k] = WithProcess(jobs[k])
      BY <2>3, <1>r DEF PersistLaunchRecordOwned
    <3>2. QED BY <3>1, <1>r DEF ChargeKept, WithProcess, Row
  <2>4. ASSUME RenewJobLease(i, k, t) PROVE ChargeKept(k)
    <3>1. jobs'[k] = [jobs[k] EXCEPT !.leaseUntil = t + Lease]
      BY <2>4, <1>r DEF RenewJobLease
    <3>2. QED BY <3>1, <1>r DEF ChargeKept, Row
  <2>5. /\ \/ PersistLaunchSpecOwned(i, k, t)
           \/ \E token \in 1..issued[k] : MarkJobLaunchingOwned(i, k, token, t)
           \/ \E token \in 1..issued[k] : PersistLaunchRecordOwned(i, k, token, t)
           \/ RenewJobLease(i, k, t)
    BY <1>3 DEF OwnerStep, ChargeStep, FinalizeStep
  <2>6. ChargeKept(k)
    BY <2>1, <2>2, <2>3, <2>4, <2>5
  <2>7. routeAttempts' = routeAttempts /\ \A j \in Jobs \ {k} : jobs'[j] = jobs[j]
    BY <2>5, <1>r DEF PersistLaunchSpecOwned, MarkJobLaunchingOwned,
       PersistLaunchRecordOwned, RenewJobLease
  <2>8. QED BY <1>s, <2>6, <2>7
<1>4. ASSUME NEW i \in Instances, NEW t \in Sampled, RecoveryStep(i, t)
      PROVE  routeAttempts' = routeAttempts /\ \A j \in Jobs : ChargeKept(j)
  <2>1. ASSUME NEW active \in SUBSET Jobs, ReleaseExpiredLeases(i, active, t)
        PROVE  \A j \in Jobs : ChargeKept(j)
    <3> TAKE j \in Jobs
    <3>1. CASE Releasable(j, i, active, t)
      <4>1. jobs'[j] = Disowned(jobs[j], "pending") /\ jobs[j].status = "running"
        BY <2>1, <3>1 DEF ReleaseExpiredLeases, Releasable, IsRunning
      <4>2. QED BY <4>1, <1>r DEF ChargeKept, Disowned, Row
    <3>2. CASE ~Releasable(j, i, active, t)
      BY <2>1, <3>2, <1>s DEF ReleaseExpiredLeases
    <3>3. QED BY <3>1, <3>2
  <2>2. ASSUME NEW k \in Jobs, NEW old \in Instances, AdoptStaleRunningJob(i, k, old, t)
        PROVE  \A j \in Jobs : ChargeKept(j)
    <3>1. jobs'[k] = AdoptedBy(jobs[k], i, t + Lease)
      BY <2>2, <1>r DEF AdoptStaleRunningJob
    <3>2. ChargeKept(k)
      BY <3>1, <1>r DEF ChargeKept, AdoptedBy, Row
    <3>3. QED BY <2>2, <1>r, <1>s, <3>2 DEF AdoptStaleRunningJob
  <2>3. ASSUME NEW k \in Jobs, NEW old \in Instances, MarkStaleRunningJobUnknown(k, old, t)
        PROVE  \A j \in Jobs : ChargeKept(j)
    <3>1. jobs'[k] = [jobs[k] EXCEPT !.launchState = "unknown"]
      BY <2>3, <1>r DEF MarkStaleRunningJobUnknown
    <3>2. ChargeKept(k)
      BY <3>1, <1>r DEF ChargeKept, Row
    <3>3. QED BY <2>3, <1>r, <1>s, <3>2 DEF MarkStaleRunningJobUnknown
  <2>4. ASSUME PruneStaleRunnerHeartbeats(t) PROVE \A j \in Jobs : ChargeKept(j)
    BY <2>4, <1>s DEF PruneStaleRunnerHeartbeats
  <2>5. routeAttempts' = routeAttempts
    BY <1>4 DEF RecoveryStep, ReleaseExpiredLeases, AdoptStaleRunningJob,
       MarkStaleRunningJobUnknown, PruneStaleRunnerHeartbeats
  <2>6. QED BY <1>4, <2>1, <2>2, <2>3, <2>4, <2>5 DEF RecoveryStep
<1>5. ASSUME UNCHANGED <<jobs, routeAttempts>>
      PROVE  routeAttempts' = routeAttempts /\ \A j \in Jobs : ChargeKept(j)
  BY <1>5, <1>s
<1>6. QED
  BY <1>1, <1>2, <1>3, <1>4, <1>5
  DEF Next, HeartbeatRunner, DeleteRunnerHeartbeat, Tick, storeVars

(* The charges of all jobs in progress stay on the books of their budget. *)
THEOREM ChargesStayCovered == Spec => []ChargesCovered
<1> DEFINE Inv == AbsentUncharged /\ ChargesCovered
<1>f. \A S \in SUBSET Jobs : IsFiniteSet(S) /\ Cardinality(S) \in Nat
  BY FS_Subset, FS_CardinalityType, ConstantsAssumption
<1>s. \A b \in Budgets : Charging(b) \in SUBSET Jobs /\ Charging(b)' \in SUBSET Jobs
  BY DEF Charging
<1>n. None \notin Budgets
  BY ConstantsAssumption
<1>1. Init => Inv
  <2> SUFFICES ASSUME Init PROVE Inv
    OBVIOUS
  <2>1. \A b \in Budgets : Charging(b) = {}
    BY DEF Init, AbsentRow, Charging
  <2>2. QED BY <2>1, FS_EmptySet DEF Init, AbsentRow, AbsentUncharged, ChargesCovered
<1>2. TypeOK /\ Inv /\ [Next]_storeVars => Inv'
  <2> SUFFICES ASSUME TypeOK, Inv, [Next]_storeVars PROVE Inv'
    OBVIOUS
  <2>r. jobs \in [Jobs -> Row] /\ (\A j \in Jobs : jobs[j] \in Row)
        /\ routeAttempts \in [Budgets -> Nat]
    BY DEF TypeOK
  <2>c. ASSUME NEW b \in Budgets
        PROVE  Cardinality(Charging(b)) \in Nat /\ Cardinality(Charging(b)) <= routeAttempts[b]
    BY <1>f, <1>s DEF ChargesCovered
  <2>1. CASE ~ChargeStep /\ ~FinalizeStep
    <3>1. routeAttempts' = routeAttempts /\ \A j \in Jobs : ChargeKept(j)
      BY <2>1, OthersKeepCharges
    <3>2. \A b \in Budgets : Charging(b)' \subseteq Charging(b)
      BY <1>n, <3>1 DEF Charging, ChargeKept, AbsentUncharged
    <3>3. \A b \in Budgets : Cardinality(Charging(b)') <= Cardinality(Charging(b))
                              /\ Cardinality(Charging(b)') \in Nat
      BY <1>f, <1>s, <3>2, FS_Subset
    <3>4. AbsentUncharged'
      BY <3>1 DEF ChargeKept, AbsentUncharged
    <3>5. ChargesCovered'
      BY <2>c, <2>r, <3>1, <3>3 DEF ChargesCovered
    <3>6. QED BY <3>4, <3>5
  <2>2. CASE ChargeStep
    <3>1. PICK i \in Instances, t \in Sampled, k \in Jobs, b \in Budgets :
            IncrementAttemptsForJob(i, k, b, t)
      BY <2>2 DEF ChargeStep
    <3>2. /\ jobs'[k] = Charged(jobs[k], b, routeAttempts[b] + 1)
          /\ \A j \in Jobs \ {k} : jobs'[j] = jobs[j]
          /\ routeAttempts' = [routeAttempts EXCEPT ![b] = @ + 1]
          /\ jobs[k].status = "running"
      BY <3>1, <2>r DEF IncrementAttemptsForJob, Owned, IsRunning
    <3>3. jobs'[k].status = "running" /\ jobs'[k].scope = b
      BY <3>2, <2>r DEF Charged, Row
    <3>4. AbsentUncharged'
      BY <3>2, <3>3 DEF AbsentUncharged
    <3>5. ASSUME NEW c \in Budgets PROVE Cardinality(Charging(c)') <= routeAttempts'[c]
      <4>1. CASE c # b
        <5>1. Charging(c)' \subseteq Charging(c)
          BY <3>2, <3>3, <4>1 DEF Charging
        <5>2. Cardinality(Charging(c)') <= Cardinality(Charging(c))
              /\ Cardinality(Charging(c)') \in Nat
          BY <1>f, <1>s, <5>1, FS_Subset
        <5>3. QED BY <2>c, <2>r, <3>2, <4>1, <5>2
      <4>2. CASE c = b
        <5>1. Charging(c)' \subseteq Charging(c) \cup {k}
          BY <3>2 DEF Charging
        <5>2. /\ IsFiniteSet(Charging(c) \cup {k})
              /\ Cardinality(Charging(c) \cup {k}) <= Cardinality(Charging(c)) + 1
              /\ Cardinality(Charging(c) \cup {k}) \in Nat
          <6>1. IsFiniteSet(Charging(c)) /\ Cardinality(Charging(c)) \in Nat
            BY <1>f, <1>s
          <6>2. /\ IsFiniteSet(Charging(c) \cup {k})
                /\ \/ Cardinality(Charging(c) \cup {k}) = Cardinality(Charging(c))
                   \/ Cardinality(Charging(c) \cup {k}) = Cardinality(Charging(c)) + 1
            BY <6>1, FS_AddElement
          <6> HIDE DEF Charging
          <6>3. QED BY <6>1, <6>2
        <5>3. Cardinality(Charging(c)') <= Cardinality(Charging(c) \cup {k})
              /\ Cardinality(Charging(c)') \in Nat
          BY <1>f, <1>s, <5>1, <5>2, FS_Subset
        <5>4. routeAttempts'[c] = routeAttempts[c] + 1 /\ routeAttempts[c] \in Nat
          BY <2>r, <3>2, <4>2
        <5>5. QED BY <2>c, <5>2, <5>3, <5>4
      <4>3. QED BY <4>1, <4>2
    <3>6. QED BY <3>4, <3>5 DEF ChargesCovered
  <2>3. CASE FinalizeStep
    <3>1. PICK i \in Instances, t \in Sampled, k \in Jobs, status \in Terminal,
               ws \in BOOLEAN : FinalizeJobOwned(i, k, status, ws, t)
      BY <2>3 DEF FinalizeStep
    <3>2. /\ jobs[k].status = "running"
          /\ \A j \in Jobs \ {k} : jobs'[j] = jobs[j]
      BY <3>1, <2>r DEF FinalizeJobOwned, Owned, IsRunning
    <3>3. jobs'[k].status = status
      <4>1. \/ jobs'[k] = Disowned(jobs[k], status)
            \/ jobs'[k] = [Disowned(jobs[k], status) EXCEPT !.attempts = jobs[k].attempts - 1]
        BY <3>1, <2>r DEF FinalizeJobOwned
      <4>2. QED BY <4>1, <2>r DEF Disowned, Row
    <3>4. k \notin Charging(jobs[k].scope)' /\ \A c \in Budgets : Charging(c)' = Charging(c) \ {k}
      BY <3>2, <3>3 DEF Charging, Terminal
    <3>5. AbsentUncharged'
      BY <3>2, <3>3 DEF AbsentUncharged, Terminal
    <3>6. ASSUME NEW c \in Budgets PROVE Cardinality(Charging(c)') <= routeAttempts'[c]
      <4>1. /\ Cardinality(Charging(c) \ {k}) = IF k \in Charging(c)
                 THEN Cardinality(Charging(c)) - 1 ELSE Cardinality(Charging(c))
            /\ Cardinality(Charging(c)) \in Nat
        BY <1>f, <1>s, FS_RemoveElement
      <4>5. Charging(c)' = Charging(c) \ {k}
        BY <3>4
      <4> DEFINE before == Cardinality(Charging(c))
                 after  == Cardinality(Charging(c)')
      <4>6. /\ before \in Nat /\ before <= routeAttempts[c]
            /\ routeAttempts[c] \in Nat
            /\ after = IF k \in Charging(c) THEN before - 1 ELSE before
        BY <2>c, <2>r, <4>1, <4>5
      <4> HIDE DEF before, after
      <4>7. after = Cardinality(Charging(c)')
        BY DEF after
      <4>2. CASE routeAttempts'[c] = routeAttempts[c]
        <5>1. after <= routeAttempts'[c]
          BY <4>2, <4>6
        <5>2. QED BY <4>7, <5>1
      <4>3. CASE routeAttempts'[c] # routeAttempts[c]
        <5>1. Refundable(k) /\ jobs[k].scope = c /\ routeAttempts'[c] = routeAttempts[c] - 1
          BY <3>1, <2>r, <4>3 DEF FinalizeJobOwned, Refundable
        <5>2. k \in Charging(c)
          BY <3>2, <5>1 DEF Charging, Refundable
        <5>3. after <= routeAttempts'[c]
          BY <4>6, <5>1, <5>2
        <5>4. QED BY <4>7, <5>3
      <4>4. QED BY <4>2, <4>3
    <3>7. QED BY <3>5, <3>6 DEF ChargesCovered
  <2>4. QED BY <2>1, <2>2, <2>3
<1>3. Inv => ChargesCovered
  OBVIOUS
<1>4. QED BY <1>1, <1>2, <1>3, TypeCorrect, PTL DEF Spec

-----------------------------------------------------------------------------
(* The store implements the life of a job.  Each operation of the store is   *)
(* one step of JobLifecycle on one job, GiveBack on several, or leaves every *)
(* phase and every holder as they are.                                       *)

(* What a disowned row looks like to the abstract queue. *)
LEMMA DisownedFields ==
  ASSUME NEW row \in Row, NEW status, NEW n \in Int
  PROVE  /\ Disowned(row, status).status = status
         /\ Disowned(row, status).owner = None
         /\ [Disowned(row, status) EXCEPT !.attempts = n].status = status
         /\ [Disowned(row, status) EXCEPT !.attempts = n].owner = None
BY DEF Disowned, Row

(* A step that writes one row changes phase and holder of that row only. *)
LEMMA OneRow ==
  ASSUME NEW k \in Jobs, \A j \in Jobs \ {k} : jobs'[j] = jobs[j]
  PROVE  /\ phaseBar' = [phaseBar EXCEPT ![k] = PhaseOf(jobs'[k])]
         /\ holderBar' = [holderBar EXCEPT ![k] = jobs'[k].owner]
BY DEF phaseBar, holderBar

(* A step that writes one row and leaves its phase and holder is a stutter. *)
LEMMA OneRowStutters ==
  ASSUME NEW k \in Jobs, \A j \in Jobs \ {k} : jobs'[j] = jobs[j],
         PhaseOf(jobs'[k]) = PhaseOf(jobs[k]), jobs'[k].owner = jobs[k].owner
  PROVE  UNCHANGED Lifecycle!lifecycleVars
<1>1. phaseBar' = phaseBar /\ holderBar' = holderBar
  BY DEF phaseBar, holderBar
<1>2. QED BY <1>1 DEF Lifecycle!lifecycleVars

(* The jobs in hand of the abstract queue are the running rows. *)
LEMMA InHandIsRunning ==
  ASSUME TypeOK PROVE Lifecycle!InHand = Running
<1>1. \A j \in Jobs : PhaseOf(jobs[j]) \in {"held", "launched"} <=> IsRunning(j)
  <2> TAKE j \in Jobs
  <2>1. jobs[j].status \in {"absent", "pending", "running"} \cup Terminal
    BY DEF TypeOK, Row
  <2>2. QED BY <2>1 DEF PhaseOf, IsRunning, Terminal
<1>2. QED BY <1>1 DEF Lifecycle!InHand, Running, phaseBar

(* The empty tables are an empty queue. *)
LEMMA StoreInitRefines == Init => Lifecycle!Init
BY DEF Init, AbsentRow, Lifecycle!Init, phaseBar, holderBar, PhaseOf

(* What an owner does is a launch, a settlement or invisible. *)
LEMMA OwnerStepRefines ==
  ASSUME TypeOK, RowInvariant, NEW i \in Instances, NEW k \in Jobs,
         NEW t \in Sampled, OwnerStep(i, k, t)
  PROVE  [Lifecycle!Next]_(Lifecycle!lifecycleVars)
<1>r. jobs \in [Jobs -> Row] /\ jobs[k] \in Row
  BY DEF TypeOK
<1>o. IsRunning(k) /\ \A j \in Jobs \ {k} : jobs'[j] = jobs[j]
  BY <1>r DEF OwnerStep, PersistLaunchSpecOwned, MarkJobLaunchingOwned,
     PersistLaunchRecordOwned, RenewJobLease, IncrementAttemptsForJob,
     FinalizeJobOwned, Owned
<1>1. ASSUME PersistLaunchSpecOwned(i, k, t) PROVE UNCHANGED Lifecycle!lifecycleVars
  <2>1. jobs'[k] = [jobs[k] EXCEPT !.token = issued[k] + 1]
    BY <1>1, <1>r DEF PersistLaunchSpecOwned
  <2>2. QED BY <2>1, <1>r, <1>o, OneRowStutters DEF PhaseOf, Row
<1>2. ASSUME NEW token \in 1..issued[k], MarkJobLaunchingOwned(i, k, token, t)
      PROVE  Lifecycle!Launch(k)
  <2>1. jobs'[k] = [jobs[k] EXCEPT !.launchState = "launching"]
    BY <1>2, <1>r DEF MarkJobLaunchingOwned
  <2>2. phaseBar[k] = "held"
    BY <1>2, <1>o DEF MarkJobLaunchingOwned, phaseBar, PhaseOf, IsRunning
  <2>3. PhaseOf(jobs'[k]) = "launched" /\ jobs'[k].owner = jobs[k].owner
    BY <2>1, <1>r, <1>o DEF PhaseOf, Row, IsRunning
  <2>4. phaseBar' = [phaseBar EXCEPT ![k] = "launched"] /\ holderBar' = holderBar
    BY <1>o, <2>3, OneRow DEF holderBar
  <2>5. QED BY <2>2, <2>4 DEF Lifecycle!Launch
<1>3. ASSUME NEW token \in 1..issued[k], PersistLaunchRecordOwned(i, k, token, t)
      PROVE  UNCHANGED Lifecycle!lifecycleVars
  <2>1. jobs'[k] = WithProcess(jobs[k]) /\ jobs[k].launchState = "launching"
    BY <1>3, <1>r DEF PersistLaunchRecordOwned
  <2>2. QED
    BY <2>1, <1>r, <1>o, OneRowStutters DEF PhaseOf, WithProcess, Row, IsRunning
<1>4. ASSUME RenewJobLease(i, k, t) PROVE UNCHANGED Lifecycle!lifecycleVars
  <2>1. jobs'[k] = [jobs[k] EXCEPT !.leaseUntil = t + Lease]
    BY <1>4, <1>r DEF RenewJobLease
  <2>2. QED BY <2>1, <1>r, <1>o, OneRowStutters DEF PhaseOf, Row
<1>5. ASSUME NEW b \in Budgets, IncrementAttemptsForJob(i, k, b, t)
      PROVE  UNCHANGED Lifecycle!lifecycleVars
  <2>1. jobs'[k] = Charged(jobs[k], b, routeAttempts[b] + 1)
    BY <1>5, <1>r DEF IncrementAttemptsForJob
  <2>2. QED BY <2>1, <1>r, <1>o, OneRowStutters DEF PhaseOf, Charged, Row
<1>6. ASSUME NEW status \in Terminal, NEW workStarted \in BOOLEAN,
             FinalizeJobOwned(i, k, status, workStarted, t)
      PROVE  Lifecycle!Settle(k)
  <2>1. jobs'[k].status = status /\ jobs'[k].owner = None
    <3>1. \/ jobs'[k] = Disowned(jobs[k], status)
          \/ jobs'[k] = [Disowned(jobs[k], status) EXCEPT !.attempts = jobs[k].attempts - 1]
      BY <1>6, <1>r DEF FinalizeJobOwned
    <3>2. jobs[k].attempts - 1 \in Int
      BY <1>r DEF Row
    <3>3. CASE jobs'[k] = Disowned(jobs[k], status)
      BY <3>3, <3>2, <1>r, DisownedFields
    <3>4. CASE jobs'[k] = [Disowned(jobs[k], status) EXCEPT !.attempts = jobs[k].attempts - 1]
      BY <3>4, <3>2, <1>r DEF Disowned, Row
    <3>5. QED BY <3>1, <3>3, <3>4
  <2>2. PhaseOf(jobs'[k]) = "settled"
    BY <2>1 DEF PhaseOf, Terminal
  <2>3. phaseBar[k] \in {"held", "launched"}
    BY <1>o DEF phaseBar, PhaseOf, IsRunning
  <2>4. QED BY <1>o, <2>1, <2>2, <2>3, OneRow DEF Lifecycle!Settle
<1>7. QED
  BY <1>1, <1>2, <1>3, <1>4, <1>5, <1>6 DEF OwnerStep, Lifecycle!Next

(* Recovery gives back, hands over, or is invisible. *)
LEMMA RecoveryStepRefines ==
  ASSUME TypeOK, RowInvariant, NEW i \in Instances, NEW t \in Sampled, RecoveryStep(i, t)
  PROVE  [Lifecycle!Next]_(Lifecycle!lifecycleVars)
<1>r. jobs \in [Jobs -> Row] /\ \A j \in Jobs : jobs[j] \in Row
  BY DEF TypeOK
<1>1. ASSUME NEW active \in SUBSET Jobs, ReleaseExpiredLeases(i, active, t)
      PROVE  \E S \in SUBSET Jobs : Lifecycle!GiveBack(S)
  <2> DEFINE S == {j \in Jobs : Releasable(j, i, active, t)}
  <2>1. \A j \in S : phaseBar[j] = "held"
    <3>1. \A j \in S : jobs[j].launchState = "preparing"
      BY <1>r DEF Releasable, NotLaunched, RowInvariant, RowShape, Row, LaunchStates
    <3>2. QED BY <3>1 DEF Releasable, phaseBar, PhaseOf, IsRunning
  <2>2. \A j \in Jobs : jobs'[j] = IF j \in S THEN Disowned(jobs[j], "pending")
                                              ELSE jobs[j]
    BY <1>1 DEF ReleaseExpiredLeases
  <2>3. \A j \in S : PhaseOf(jobs'[j]) = "queued" /\ jobs'[j].owner = None
    <3>1. \A j \in S : jobs'[j].status = "pending" /\ jobs'[j].owner = None
      BY <2>2, <1>r, DisownedFields
    <3>2. QED BY <3>1 DEF PhaseOf
  <2>4. /\ phaseBar' = [j \in Jobs |-> IF j \in S THEN "queued" ELSE phaseBar[j]]
        /\ holderBar' = [j \in Jobs |-> IF j \in S THEN None ELSE holderBar[j]]
    BY <2>2, <2>3 DEF phaseBar, holderBar
  <2>5. QED BY <2>1, <2>4 DEF Lifecycle!GiveBack
<1>2. ASSUME NEW k \in Jobs, NEW old \in Instances, AdoptStaleRunningJob(i, k, old, t)
      PROVE  Lifecycle!HandOver(i, k)
  <2>1. jobs'[k] = AdoptedBy(jobs[k], i, t + Lease) /\ \A j \in Jobs \ {k} : jobs'[j] = jobs[j]
    BY <1>2, <1>r DEF AdoptStaleRunningJob
  <2>2. phaseBar[k] = "launched"
    BY <1>2 DEF AdoptStaleRunningJob, Recoverable, phaseBar, PhaseOf, IsRunning
  <2>3. PhaseOf(jobs'[k]) = PhaseOf(jobs[k]) /\ jobs'[k].owner = i
    BY <2>1, <1>r DEF AdoptedBy, PhaseOf, Row
  <2>4. phaseBar' = phaseBar /\ holderBar' = [holderBar EXCEPT ![k] = i]
    BY <2>1, <2>3, OneRow DEF phaseBar
  <2>5. QED BY <2>2, <2>4 DEF Lifecycle!HandOver
<1>3. ASSUME NEW k \in Jobs, NEW old \in Instances, MarkStaleRunningJobUnknown(k, old, t)
      PROVE  UNCHANGED Lifecycle!lifecycleVars
  <2>1. /\ jobs'[k] = [jobs[k] EXCEPT !.launchState = "unknown"]
        /\ \A j \in Jobs \ {k} : jobs'[j] = jobs[j]
        /\ jobs[k].status = "running" /\ jobs[k].launchState # "preparing"
    BY <1>3, <1>r DEF MarkStaleRunningJobUnknown, Recoverable, IsRunning
  <2>2. QED BY <2>1, <1>r, OneRowStutters DEF PhaseOf, Row
<1>4. ASSUME PruneStaleRunnerHeartbeats(t) PROVE UNCHANGED Lifecycle!lifecycleVars
  BY <1>4 DEF PruneStaleRunnerHeartbeats, Lifecycle!lifecycleVars, phaseBar, holderBar
<1>5. QED BY <1>1, <1>2, <1>3, <1>4 DEF RecoveryStep, Lifecycle!Next

(* Every operation of the store is a step of the abstract queue. *)
LEMMA StoreStepRefines ==
  TypeOK /\ RowInvariant /\ [Next]_storeVars => [Lifecycle!Next]_(Lifecycle!lifecycleVars)
<1> SUFFICES ASSUME TypeOK, RowInvariant, [Next]_storeVars
             PROVE  [Lifecycle!Next]_(Lifecycle!lifecycleVars)
  OBVIOUS
<1>r. jobs \in [Jobs -> Row] /\ \A j \in Jobs : jobs[j] \in Row
  BY DEF TypeOK
<1>1. ASSUME NEW k \in Jobs, EnqueueJob(k) PROVE Lifecycle!Submit(k)
  <2>1. jobs'[k] = [jobs[k] EXCEPT !.status = "pending"] /\ \A j \in Jobs \ {k} : jobs'[j] = jobs[j]
    BY <1>1, <1>r DEF EnqueueJob
  <2>2. phaseBar[k] = "absent"
    BY <1>1 DEF EnqueueJob, phaseBar, PhaseOf
  <2>3. PhaseOf(jobs'[k]) = "queued" /\ jobs'[k].owner = jobs[k].owner
    BY <2>1, <1>r DEF PhaseOf, Row
  <2>4. phaseBar' = [phaseBar EXCEPT ![k] = "queued"] /\ holderBar' = holderBar
    BY <2>1, <2>3, OneRow DEF holderBar
  <2>5. QED BY <2>2, <2>4 DEF Lifecycle!Submit
<1>2. ASSUME NEW i \in Instances, NEW t \in Sampled, NEW frontier \in SUBSET Jobs,
             NEW k \in frontier, ClaimJob(i, k, frontier, t)
      PROVE  Lifecycle!Take(i, k)
  <2>1. jobs'[k] = ClaimedBy(jobs[k], i, t + Lease) /\ \A j \in Jobs \ {k} : jobs'[j] = jobs[j]
    BY <1>2, <1>r DEF ClaimJob
  <2>2. phaseBar[k] = "queued"
    BY <1>2 DEF ClaimJob, Claimable, phaseBar, PhaseOf
  <2>3. PhaseOf(jobs'[k]) = "held" /\ jobs'[k].owner = i
    BY <2>1, <1>r DEF ClaimedBy, PhaseOf, Row
  <2>4. Cardinality(Lifecycle!InHand) < MaxGlobal
    BY <1>2, InHandIsRunning DEF ClaimJob
  <2>5. k \in Jobs
    OBVIOUS
  <2>6. phaseBar' = [phaseBar EXCEPT ![k] = "held"] /\ holderBar' = [holderBar EXCEPT ![k] = i]
    BY <2>1, <2>3, <2>5, OneRow
  <2>7. QED BY ONLY <2>2, <2>4, <2>6 DEF Lifecycle!Take, Lifecycle!Cardinality, Cardinality
<1>3. ASSUME NEW i \in Instances, NEW t \in Sampled, NEW k \in Jobs, OwnerStep(i, k, t)
      PROVE  [Lifecycle!Next]_(Lifecycle!lifecycleVars)
  BY <1>3, OwnerStepRefines
<1>4. ASSUME NEW i \in Instances, NEW t \in Sampled, RecoveryStep(i, t)
      PROVE  [Lifecycle!Next]_(Lifecycle!lifecycleVars)
  BY <1>4, RecoveryStepRefines
<1>5. ASSUME UNCHANGED jobs PROVE UNCHANGED Lifecycle!lifecycleVars
  BY <1>5 DEF Lifecycle!lifecycleVars, phaseBar, holderBar
<1>6. QED
  BY <1>1, <1>2, <1>3, <1>4, <1>5
  DEF Next, HeartbeatRunner, DeleteRunnerHeartbeat, Tick, storeVars, Lifecycle!Next

(* The queue implements the life of a job: every behaviour of the tables,    *)
(* seen through phase and holder, is a behaviour of JobLifecycle.             *)
THEOREM StoreImplementsLifecycle == Spec => ImplementsLifecycle
BY StoreInitRefines, StoreStepRefines, TypeCorrect, RowsWellFormed, PTL
DEF Spec, ImplementsLifecycle, Lifecycle!Spec

=============================================================================
