--------------------------- MODULE ShutdownProofs ---------------------------
(***************************************************************************)
(* What TLAPS proves of Shutdown, for any number of jobs and daemons, any   *)
(* of which may be told to stop: the composed system is still a client of   *)
(* the store, a clean stop leaves no lease behind, and no shutdown leaves a *)
(* wrapper at work whose job is settled.                                    *)
(***************************************************************************)
EXTENDS Shutdown, LaunchProofs

\* The stages of a round, and those of them with a job in hand.
HandStages  == {"settle", "cancel", "inspect", "probe", "finalize"}
RoundStages == HandStages \cup {"renew"}

StoppingOK(s) ==
  /\ s \in Stopping
  /\ s.stage \in HandStages => s.job \in Jobs

StopOK ==
  /\ stop \in [Instances -> Stopping]
  /\ \A i \in Instances : StoppingOK(stop[i])

\* In a round, a job without an expired lease is still to be handled or makes
\* another round necessary; after the last round there is none.
RoundOK(i) ==
  LET s == stop[i] IN
  /\ s.stage \in RoundStages /\ s.remaining = "no" =>
       \A j \in Jobs : s.rows[j] = AbsentRow => LeaseGone(i, j)
  /\ s.stage \in {"clean", "stopped"} => \A j \in Jobs : LeaseGone(i, j)

(* The inductive invariant of daemons that may be told to stop. *)
StopInvariant ==
  /\ SupInvariant
  /\ StopOK
  /\ \A i \in Instances : RoundOK(i)

-----------------------------------------------------------------------------
(* The main goroutine's record *)

LEMMA NotStoppingOK ==
  /\ NotStopping \in Stopping
  /\ NotStopping.stage = "none"
  /\ \A stage \in StopStages \ HandStages :
       StoppingOK([NotStopping EXCEPT !.stage = stage])
  /\ \A stage \in StopStages \ HandStages, rows \in [Jobs -> Row] :
       StoppingOK([NotStopping EXCEPT !.stage = stage, !.rows = rows])
<1>1. AbsentRow \in Row /\ [j \in Jobs |-> AbsentRow] \in [Jobs -> Row]
  BY DEF AbsentRow, Row, LaunchStates, NoTime, NoToken
<1> DEFINE noRows == [j \in Jobs |-> AbsentRow]
<1>2. NotStopping = [stage |-> "none", rows |-> noRows, job |-> NoJob, seen |-> "none",
                     remaining |-> "no"]
  BY DEF NotStopping
<1>3. noRows \in [Jobs -> Row]
  BY <1>1
<1> HIDE DEF noRows
<1>4. NotStopping \in Stopping /\ NotStopping.stage = "none"
  BY <1>2, <1>3 DEF Stopping, StopStages
<1>5. QED BY <1>4 DEF StoppingOK, Stopping

(* What is left of a round when the job in hand is done with. *)
LEMMA HandledOK ==
  ASSUME NEW s \in Stopping, s.job \in Jobs, NEW remaining \in BOOLEAN
  PROVE  /\ StoppingOK(Handled(s, remaining))
         /\ Handled(s, remaining).stage = "renew"
         /\ Handled(s, remaining).rows = [s.rows EXCEPT ![s.job] = AbsentRow]
         /\ remaining => Handled(s, remaining).remaining = "yes"
         /\ ~remaining => Handled(s, remaining).remaining = s.remaining
<1>1. AbsentRow \in Row
  BY DEF AbsentRow, Row, LaunchStates, NoTime, NoToken
<1>2. [s.rows EXCEPT ![s.job] = AbsentRow] \in [Jobs -> Row]
  BY <1>1 DEF Stopping
<1>3. "renew" \in StopStages \ HandStages
  BY DEF StopStages, HandStages
<1>4. QED BY <1>2, <1>3 DEF Handled, StoppingOK, Stopping, NoJob

(* The stages that need no job, and those that keep it. *)
LEMMA StopStageOK ==
  ASSUME NEW s, StoppingOK(s), NEW stage \in StopStages,
         stage \in HandStages => s.job \in Jobs
  PROVE  StoppingOK([s EXCEPT !.stage = stage])
BY DEF StoppingOK, Stopping

LEMMA OneStopping ==
  ASSUME StopOK, NEW i \in Instances, NEW s, StoppingOK(s), StopBecome(i, s)
  PROVE  /\ StopOK'
         /\ stop'[i] = s
         /\ \A k \in Instances \ {i} : stop'[k] = stop[k]
BY DEF StopOK, StoppingOK, StopBecome

LEMMA StopGoToIsBecome ==
  ASSUME StopOK, NEW i \in Instances, NEW stage, StopGoTo(i, stage)
  PROVE  StopBecome(i, [stop[i] EXCEPT !.stage = stage])
BY DEF StopGoTo, StopBecome, StopOK

-----------------------------------------------------------------------------
(* Every step is a step of one client of the store *)

\* The steps of Shutdown that Supervision has as well.
LEMMA FinishLaunchIsSupStep ==
  ASSUME NEW i \in Instances, FinishLaunch(i)
  PROVE  SupNext /\ (ReconcileStep(i) \/ CancelFails(i))
BY DEF FinishLaunch, SupNext, Surroundings, ReconcileStep

\* A step of the main goroutine of i uses the store as i.
LEMMA StopStepIsClientStep ==
  ASSUME StopInvariant, MaxTime <= MaxDelay, NEW i \in Instances, StopStep(i)
  PROVE  [ClientStep(i)]_storeVars
<1>g. SupInvariant /\ GoroutineOK(daemon[i], clock) /\ StoppingOK(stop[i])
  BY DEF StopInvariant, SupInvariant, DaemonsOK, StopOK
<1>1. CASE Signal(i) \/ Interrupted(i) \/ PassEnded(i) \/ ListOwnedRunningJobs(i)
           \/ ShutdownCancel(i) \/ ShutdownInspect(i) \/ EndRound(i) \/ NextRound(i)
           \/ Abandon(i)
  BY <1>1 DEF Signal, Interrupted, PassEnded, ListOwnedRunningJobs, ShutdownCancel,
     ShutdownInspect, EndRound, NextRound, Abandon, StoreIdle
<1>2. CASE FinishLaunch(i)
  BY <1>g, <1>2, FinishLaunchIsSupStep, ReconcileIsClientStep, AroundIsClientStep
<1>3. CASE CancelLaunch(i)
  <2>1. daemon[i].job \in Jobs
    BY <1>g, <1>3 DEF GoroutineOK, CancelLaunch, At, JobStages
  <2>2. {"failed", "cancelled"} \subseteq Terminal
    BY DEF Terminal
  <2>3. QED BY <1>3, <1>g, <2>1, <2>2, OwnerCall DEF CancelLaunch, OwnerStep
<1>4. CASE ShutdownHeartbeat(i)
  BY <1>4, <1>g, Samples DEF ShutdownHeartbeat, ClientStep
<1>5. CASE ShutdownRenew(i)
  BY <1>5, <1>g, OwnerCall DEF ShutdownRenew, StopListed, OwnerStep
<1>6. CASE SettlePreparing(i)
  <2>1. stop[i].job \in Jobs
    BY <1>g, <1>6 DEF StoppingOK, SettlePreparing, StopAt, HandStages
  <2>2. "cancelled" \in Terminal
    BY DEF Terminal
  <2>3. QED BY <1>6, <1>g, <2>1, <2>2, OwnerCall DEF SettlePreparing, OwnerStep
<1>7. CASE ShutdownFinalize(i)
  <2>1. stop[i].job \in Jobs
    BY <1>g, <1>7 DEF StoppingOK, ShutdownFinalize, StopAt, HandStages
  <2>2. Outcomes \subseteq Terminal
    BY DEF Terminal, Outcomes
  <2>3. QED BY <1>7, <1>g, <2>1, <2>2, OwnerCall DEF ShutdownFinalize, OwnerStep
<1>8. CASE DeleteHeartbeatAfterCleanShutdown(i)
  BY <1>8 DEF DeleteHeartbeatAfterCleanShutdown, ClientStep
<1>9. QED
  BY <1>1, <1>2, <1>3, <1>4, <1>5, <1>6, <1>7, <1>8 DEF StopStep

\* So is a step of the goroutines of i that was not told to stop.
LEMMA WorkingIsClientStep ==
  ASSUME StopInvariant, MaxTime <= MaxDelay, NEW i \in Instances,
         WorkingStep(i) \/ Killed(i)
  PROVE  [ClientStep(i)]_storeVars
BY ReconcileIsClientStep, AroundIsClientStep DEF StopInvariant, WorkingStep, Killed

LEMMA WorkingIsSupStep ==
  ASSUME NEW i \in Instances, WorkingStep(i) \/ Killed(i)
  PROVE  SupNext
BY DEF WorkingStep, Killed, SupNext, Surroundings

LEMMA ShutdownStepIsStoreStep ==
  ASSUME StopInvariant, MaxTime <= MaxDelay, [ShutdownNext]_shutdownVars
  PROVE  [Next]_storeVars
<1>g. SupInvariant
  BY DEF StopInvariant
<1>1. ASSUME NEW i \in Instances, StopStep(i) \/ Killed(i) \/ WorkingStep(i)
      PROVE  [Next]_storeVars
  BY <1>1, <1>g, StopStepIsClientStep, WorkingIsClientStep, ClientStepIsStoreStep
<1>2. CASE Elsewhere
  BY <1>g, <1>2, ElsewhereIsSupStep, SupStepIsStoreStep
<1>3. QED
  BY <1>1, <1>2 DEF ShutdownNext, shutdownVars, Elsewhere

-----------------------------------------------------------------------------
(* The reconcile goroutines and the wrappers stay well formed *)

\* Steps of the main goroutine that leave the goroutines, the clock and the
\* wrappers alone.
StopQuietly(i) ==
  \/ Signal(i) \/ PassEnded(i) \/ ShutdownHeartbeat(i) \/ ListOwnedRunningJobs(i)
  \/ ShutdownRenew(i) \/ SettlePreparing(i) \/ ShutdownInspect(i)
  \/ ShutdownFinalize(i) \/ EndRound(i) \/ NextRound(i)

LEMMA QuietSteps ==
  ASSUME NEW i \in Instances, StopQuietly(i)
  PROVE  UNCHANGED <<daemon, clock, startedAt, processes, metadata, suspends, faults>>
BY DEF StopQuietly, Signal, PassEnded, ShutdownHeartbeat, ListOwnedRunningJobs,
   ShutdownRenew, SettlePreparing, ShutdownInspect, ShutdownFinalize, EndRound, NextRound,
   StoreIdle, storeVars, wrapperVars, boundVars, HeartbeatRunner, RenewJobLease,
   FinalizeJobOwned

LEMMA StopStepKeepsDaemons ==
  ASSUME StopInvariant, NEW i \in Instances, StopStep(i)
  PROVE  DaemonsOK'
<1>g. SupInvariant /\ DaemonsOK /\ clock \in Nat /\ GoroutineOK(daemon[i], clock)
  BY DEF StopInvariant, SupInvariant, DaemonsOK, TypeOK
<1>n. [j \in Jobs |-> AbsentRow] \in [Jobs -> Row]
  BY DEF AbsentRow, Row, LaunchStates, NoTime, NoToken
<1>s. "idle" \in Stages \ JobStages /\ "down" \in Stages \ JobStages
  BY DEF Stages, JobStages, TokenStages
<1>r. GoroutineOK(Resting, clock) /\ GoroutineOK([Resting EXCEPT !.stage = "down"], clock)
  BY <1>g, <1>n, <1>s, RestingOK
<1>1. CASE StopQuietly(i) \/ ShutdownCancel(i)
  BY <1>g, <1>1, QuietSteps DEF ShutdownCancel, StoreIdle, storeVars, DaemonsOK
<1>2. CASE FinishLaunch(i)
  BY <1>g, <1>2, FinishLaunchIsSupStep, SupKeepsDaemons
<1>3. CASE Interrupted(i)
  <2>1. UNCHANGED clock /\ Become(i, AfterInterrupt(i))
    BY <1>3 DEF Interrupted, StoreIdle, storeVars
  <2>2. CASE At(i, "persistRecord")
    <3>1. GoroutineOK([daemon[i] EXCEPT !.stage = "compensate"], clock)
      BY <1>g, <2>2, StageOK DEF At, Stages, JobStages, TokenStages
    <3>2. QED BY <1>g, <2>1, <2>2, <3>1, OneGoroutine DEF AfterInterrupt
  <2>3. CASE ~At(i, "persistRecord")
    BY <1>g, <1>r, <2>1, <2>3, OneGoroutine DEF AfterInterrupt
  <2>4. QED BY <2>2, <2>3
<1>4. CASE CancelLaunch(i)
  <2>1. UNCHANGED clock /\ Become(i, Resting)
    BY <1>4 DEF CancelLaunch, FinalizeJobOwned, storeVars
  <2>2. QED BY <1>g, <1>r, <2>1, OneGoroutine
<1>5. CASE DeleteHeartbeatAfterCleanShutdown(i) \/ Abandon(i)
  <2>1. UNCHANGED clock /\ Become(i, [Resting EXCEPT !.stage = "down"])
    BY <1>5 DEF DeleteHeartbeatAfterCleanShutdown, Abandon, Exit, DeleteRunnerHeartbeat,
       StoreIdle, storeVars
  <2>2. QED BY <1>g, <1>r, <2>1, OneGoroutine
<1>6. QED
  BY <1>1, <1>2, <1>3, <1>4, <1>5 DEF StopStep, StopQuietly

LEMMA StopStepKeepsWrappers ==
  ASSUME StopInvariant, NEW i \in Instances, StopStep(i)
  PROVE  WrappersOK'
<1>g. SupInvariant /\ WrappersOK /\ StoppingOK(stop[i])
  BY DEF StopInvariant, SupInvariant, StopOK
<1>1. CASE FinishLaunch(i)
  BY <1>g, <1>1, FinishLaunchIsSupStep, SupKeepsWrappers
<1>2. CASE ShutdownCancel(i)
  <2> DEFINE j == stop[i].job
             token == stop[i].rows[j].token
  <2>1. j \in Jobs
    BY <1>g, <1>2 DEF StoppingOK, ShutdownCancel, StopAt, HandStages
  <2>2. UNCHANGED <<startedAt, suspends, faults>>
    BY <1>2 DEF ShutdownCancel, StoreIdle, boundVars
  <2>3. processes' \in [Jobs -> SUBSET Tokens]
    BY <1>g, <1>2, <2>1 DEF ShutdownCancel, WrappersOK
  <2>4. metadata' \in [Jobs -> [Tokens -> Outcomes \cup {"none"}]]
    <3>1. PICK outcome \in Outcomes \cup {"none"} :
            \/ metadata' = metadata
            \/ token \in processes[j] /\ metadata' = [metadata EXCEPT ![j][token] = outcome]
      BY <1>2 DEF ShutdownCancel, Outcomes
    <3>2. token \in processes[j] => token \in Tokens
      BY <1>g, <2>1 DEF WrappersOK
    <3>3. QED BY <1>g, <2>1, <3>1, <3>2 DEF WrappersOK
  <2>5. QED BY <1>g, <2>2, <2>3, <2>4 DEF WrappersOK
<1>3. CASE ~FinishLaunch(i) /\ ~ShutdownCancel(i)
  <2>1. UNCHANGED <<processes, metadata, startedAt, suspends, faults>>
    BY <1>3, QuietSteps
    DEF StopStep, StopQuietly, Interrupted, CancelLaunch, DeleteHeartbeatAfterCleanShutdown,
        Abandon, StoreIdle, wrapperVars, boundVars
  <2>2. QED BY <1>g, <2>1 DEF WrappersOK
<1>4. QED BY <1>1, <1>2, <1>3

(* The invariant of Supervision survives every step of Shutdown. *)
LEMMA ShutdownKeepsSup ==
  ASSUME StopInvariant, MaxTime <= MaxDelay, [ShutdownNext]_shutdownVars
  PROVE  SupInvariant'
<1>g. SupInvariant
  BY DEF StopInvariant
<1>1. TypeOK' /\ RowInvariant'
  BY <1>g, ShutdownStepIsStoreStep, TypeStep, RowsStep DEF SupInvariant
<1>2. DaemonsOK' /\ WrappersOK'
  <2>1. ASSUME NEW i \in Instances, StopStep(i) PROVE DaemonsOK' /\ WrappersOK'
    BY <2>1, StopStepKeepsDaemons, StopStepKeepsWrappers
  <2>2. CASE Elsewhere \/ \E i \in Instances : WorkingStep(i) \/ Killed(i)
    BY <1>g, <2>2, ElsewhereIsSupStep, WorkingIsSupStep, SupKeepsDaemons, SupKeepsWrappers
  <2>3. QED BY <2>1, <2>2 DEF ShutdownNext, shutdownVars, Elsewhere
<1>3. QED BY <1>1, <1>2 DEF SupInvariant

-----------------------------------------------------------------------------
(* The main goroutines stay well formed *)

LEMMA StopStepKeepsStop ==
  ASSUME StopInvariant, NEW i \in Instances, StopStep(i)
  PROVE  /\ StopOK'
         /\ \A k \in Instances \ {i} : stop'[k] = stop[k]
<1> DEFINE s == stop[i]
<1>g. StopOK /\ s \in Stopping /\ StoppingOK(s) /\ WrappersOK
  BY DEF StopInvariant, SupInvariant, StopOK, StoppingOK
<1>s. StopStages \ HandStages =
        {"none", "signalled", "heartbeat", "list", "renew", "wait", "clean", "stopped",
         "abandoned"}
  BY DEF StopStages, HandStages
<1>1. SUFFICES \E t : StoppingOK(t) /\ StopBecome(i, t)
  BY <1>g, OneStopping
<1>2. ASSUME NEW stage \in StopStages \ HandStages, StopGoTo(i, stage)
      PROVE  \E t : StoppingOK(t) /\ StopBecome(i, t)
  BY <1>2, <1>g, StopStageOK, StopGoToIsBecome
<1>3. CASE UNCHANGED stop
  BY <1>3, <1>g DEF StopBecome, StopOK
<1>4. CASE Signal(i) \/ PassEnded(i) \/ ShutdownHeartbeat(i) \/ EndRound(i) \/ NextRound(i)
  BY <1>4, <1>2, <1>s DEF Signal, PassEnded, ShutdownHeartbeat, EndRound, NextRound
<1>5. CASE Interrupted(i) \/ FinishLaunch(i) \/ CancelLaunch(i)
  BY <1>5, <1>3 DEF Interrupted, FinishLaunch, CancelLaunch
<1>6. CASE ListOwnedRunningJobs(i)
  <2> DEFINE owned == {j \in Jobs : IsRunning(j) /\ jobs[j].owner = i}
             stage == IF owned = {} THEN "clean" ELSE "renew"
             rows == [j \in Jobs |-> IF j \in owned THEN jobs[j] ELSE AbsentRow]
  <2>1. AbsentRow \in Row
    BY DEF AbsentRow, Row, LaunchStates, NoTime, NoToken
  <2>2. rows \in [Jobs -> Row]
    BY <2>1 DEF StopInvariant, SupInvariant, TypeOK
  <2>3. stage \in StopStages \ HandStages
    BY <1>s
  <2>4. StopBecome(i, [NotStopping EXCEPT !.stage = stage, !.rows = rows])
    BY <1>6 DEF ListOwnedRunningJobs
  <2> HIDE DEF rows, stage
  <2>5. QED BY <2>2, <2>3, <2>4, NotStoppingOK
<1>7. CASE ShutdownRenew(i)
  <2>1. PICK j \in StopListed(i) :
          \/ StopBecome(i, AfterRenewal(s, j))
          \/ StopBecome(i, Handled([s EXCEPT !.job = j], FALSE))
    BY <1>7 DEF ShutdownRenew
  <2>2. j \in Jobs
    BY DEF StopListed
  <2>3. [s EXCEPT !.job = j] \in Stopping /\ [s EXCEPT !.job = j].job = j
    BY <1>g, <2>2 DEF Stopping
  <2>4. \A remaining \in BOOLEAN : StoppingOK(Handled([s EXCEPT !.job = j], remaining))
    BY <2>2, <2>3, HandledOK
  <2>5. \A stage \in {"cancel", "settle"} : StoppingOK([s EXCEPT !.stage = stage, !.job = j])
    BY <1>g, <2>2 DEF StoppingOK, Stopping, StopStages
  <2>6. QED BY <2>1, <2>4, <2>5 DEF AfterRenewal
<1>8. CASE SettlePreparing(i) \/ ShutdownFinalize(i)
  <2>1. s.job \in Jobs
    BY <1>g, <1>8 DEF StoppingOK, SettlePreparing, ShutdownFinalize, StopAt, HandStages
  <2>2. \A remaining \in BOOLEAN : StoppingOK(Handled(s, remaining))
    BY <1>g, <2>1, HandledOK
  <2>3. QED BY <1>8, <2>2 DEF SettlePreparing, ShutdownFinalize
<1>9. CASE ShutdownCancel(i) \/ ShutdownInspect(i)
  <2>1. s.job \in Jobs
    BY <1>g, <1>9 DEF StoppingOK, ShutdownCancel, ShutdownInspect, StopAt, HandStages
  <2>2. \A stage \in {"inspect", "probe"} : StoppingOK([s EXCEPT !.stage = stage])
    BY <1>g, <2>1, StopStageOK DEF StopStages
  <2>3. \A obs \in Observations : StoppingOK([s EXCEPT !.stage = "finalize", !.seen = obs])
    BY <1>g, <2>1 DEF StoppingOK, Stopping, StopStages
  <2>4. /\ Reported(s.rows[s.job], s.job) \in Observations \cup {"none"}
        /\ FromProcess(s.rows[s.job], s.job) \in Observations
    BY <1>g, <2>1, InspectionType DEF Observations
  <2>5. \A stage : StopGoTo(i, stage) => StopBecome(i, [s EXCEPT !.stage = stage])
    BY <1>g, StopGoToIsBecome
  <2>6. QED BY <1>9, <2>2, <2>3, <2>4, <2>5 DEF ShutdownCancel, ShutdownInspect
<1>10. CASE DeleteHeartbeatAfterCleanShutdown(i) \/ Abandon(i)
  <2>1. PICK how \in {"stopped", "abandoned"} :
          StopBecome(i, [NotStopping EXCEPT !.stage = how])
    BY <1>10 DEF DeleteHeartbeatAfterCleanShutdown, Abandon, Exit
  <2>2. QED BY <2>1, <1>s, NotStoppingOK
<1>11. QED
  BY <1>4, <1>5, <1>6, <1>7, <1>8, <1>9, <1>10 DEF StopStep

LEMMA ShutdownKeepsStop ==
  ASSUME StopInvariant, [ShutdownNext]_shutdownVars
  PROVE  StopOK'
<1>1. ASSUME NEW i \in Instances, StopStep(i) PROVE StopOK'
  BY <1>1, StopStepKeepsStop
<1>2. ASSUME NEW i \in Instances, Killed(i) PROVE StopOK'
  <2>1. StoppingOK(NotStopping)
    BY NotStoppingOK DEF StoppingOK, HandStages
  <2>2. QED BY <1>2, <2>1, OneStopping DEF Killed, StopBecome, StopInvariant
<1>3. CASE UNCHANGED stop
  BY <1>3 DEF StopInvariant, StopOK
<1>4. QED BY <1>1, <1>2, <1>3 DEF ShutdownNext, shutdownVars

-----------------------------------------------------------------------------
(* A clean stop leaves no lease *)

(* What i has gone through stays so while others act. *)
LEMMA RoundStays ==
  ASSUME StopInvariant, NEW i \in Instances, stop'[i] = stop[i],
         \A j \in Jobs : Untouched(i, j), clock' \in Nat, clock <= clock'
  PROVE  RoundOK(i)'
<1>1. ASSUME NEW j \in Jobs, LeaseGone(i, j) PROVE LeaseGone(i, j)'
  BY <1>1, LeaseStaysGone DEF StopInvariant
<1>2. RoundOK(i)
  BY DEF StopInvariant
<1>3. QED BY <1>1, <1>2 DEF RoundOK

\* The listing of a round: the rows i holds.
LEMMA ListKeepsRound ==
  ASSUME StopInvariant, NEW i \in Instances, ListOwnedRunningJobs(i)
  PROVE  RoundOK(i)'
<1> DEFINE owned == {j \in Jobs : IsRunning(j) /\ jobs[j].owner = i}
           stage == IF owned = {} THEN "clean" ELSE "renew"
           rows == [j \in Jobs |-> IF j \in owned THEN jobs[j] ELSE AbsentRow]
<1>1. StopBecome(i, [NotStopping EXCEPT !.stage = stage, !.rows = rows])
  BY DEF ListOwnedRunningJobs
<1>2. UNCHANGED <<jobs, clock>>
  BY DEF ListOwnedRunningJobs, StoreIdle, storeVars
<1>3. stop'[i].stage = stage /\ stop'[i].rows = rows
  <2> HIDE DEF rows, stage
  <2>1. QED BY <1>1 DEF StopBecome, StopInvariant, StopOK, NotStopping
<1>4. \A j \in owned : jobs[j].status = "running"
  BY DEF IsRunning
<1>5. ASSUME NEW j \in Jobs, rows[j] = AbsentRow PROVE j \notin owned
  <2>1. AbsentRow.status = "absent"
    BY DEF AbsentRow
  <2>2. j \in owned => rows[j] = jobs[j]
    OBVIOUS
  <2> HIDE DEF rows
  <2>3. QED BY <1>4, <1>5, <2>1, <2>2
<1>6. stage = "clean" => owned = {}
  OBVIOUS
<1>7. \A j \in Jobs : j \notin owned => LeaseGone(i, j)'
  BY <1>2 DEF LeaseGone, IsRunning
<1> HIDE DEF owned, rows, stage
<1>8. stage \in {"clean", "renew"}
  BY DEF stage
<1>9. \A j \in Jobs : rows[j] = AbsentRow => LeaseGone(i, j)'
  BY <1>5, <1>7
<1>10. stage \in {"clean", "stopped"} => \A j \in Jobs : LeaseGone(i, j)'
  BY <1>6, <1>7, <1>8
<1>11. QED BY <1>3, <1>9, <1>10 DEF RoundOK

\* The job in hand is done with.
LEMMA HandledKeepsRound ==
  ASSUME StopInvariant, NEW i \in Instances, stop[i].stage \in RoundStages,
         NEW j \in Jobs, NEW s \in Stopping, s.job = j,
         s.rows = stop[i].rows, s.remaining = stop[i].remaining,
         NEW remaining \in BOOLEAN, StopBecome(i, Handled(s, remaining)),
         ~remaining => LeaseGone(i, j)',
         \A l \in Jobs \ {j} : LeaseGone(i, l) => LeaseGone(i, l)'
  PROVE  RoundOK(i)'
<1>1. stop'[i] = Handled(s, remaining)
  BY DEF StopBecome, StopInvariant, StopOK
<1>2. /\ stop'[i].stage = "renew"
      /\ stop'[i].rows = [s.rows EXCEPT ![j] = AbsentRow]
      /\ remaining => stop'[i].remaining = "yes"
      /\ ~remaining => stop'[i].remaining = s.remaining
  BY <1>1, HandledOK
<1>3. RoundOK(i) /\ s.rows \in [Jobs -> Row]
  BY DEF StopInvariant, Stopping
<1>4. QED BY <1>2, <1>3 DEF RoundOK, RoundStages

\* The job stays in hand.
LEMMA InHandKeepsRound ==
  ASSUME StopInvariant, NEW i \in Instances, stop[i].stage \in RoundStages,
         stop'[i].rows = stop[i].rows, stop'[i].remaining = stop[i].remaining,
         stop'[i].stage \in RoundStages,
         \A l \in Jobs : stop[i].rows[l] = AbsentRow /\ LeaseGone(i, l) => LeaseGone(i, l)'
  PROVE  RoundOK(i)'
<1>1. RoundOK(i)
  BY DEF StopInvariant
<1>2. stop'[i].stage \notin {"clean", "stopped"}
  BY DEF RoundStages, HandStages
<1>3. QED BY <1>1, <1>2 DEF RoundOK

LEMMA RenewKeepsRound ==
  ASSUME StopInvariant, NEW i \in Instances, ShutdownRenew(i)
  PROVE  RoundOK(i)'
<1> DEFINE s == stop[i]
<1>1. PICK j \in StopListed(i) :
        \/ RenewJobLease(i, j, clock) /\ StopBecome(i, AfterRenewal(s, j))
        \/ /\ ~Owned(i, j, clock) /\ UNCHANGED storeVars
           /\ StopBecome(i, Handled([s EXCEPT !.job = j], FALSE))
  BY DEF ShutdownRenew
<1>2. /\ j \in Jobs /\ s.rows[j] # AbsentRow /\ s.stage = "renew" /\ s \in Stopping
      /\ stop \in [Instances -> Stopping] /\ SupInvariant
  BY DEF StopListed, ShutdownRenew, StopAt, StopInvariant, StopOK
<1> DEFINE inHand == [s EXCEPT !.job = j]
<1>3. /\ inHand \in Stopping /\ inHand.job = j
      /\ inHand.rows = s.rows /\ inHand.remaining = s.remaining
  BY <1>2 DEF Stopping
<1>4. CASE RenewJobLease(i, j, clock) /\ StopBecome(i, AfterRenewal(s, j))
  <2>1. \A l \in Jobs \ {j} : LeaseGone(i, l) => LeaseGone(i, l)'
    BY <1>2, <1>4 DEF RenewJobLease, LeaseGone, IsRunning, LeaseExpired, SupInvariant, TypeOK
  <2>2. CASE StopBecome(i, Handled(inHand, TRUE))
    <3> HIDE DEF inHand
    <3>1. QED BY <1>2, <1>3, <2>1, <2>2, HandledKeepsRound DEF RoundStages
  <2>3. ASSUME NEW stage \in {"cancel", "settle"},
               StopBecome(i, [s EXCEPT !.stage = stage, !.job = j])
        PROVE  RoundOK(i)'
    <3>1. /\ stop'[i].rows = s.rows /\ stop'[i].remaining = s.remaining
          /\ stop'[i].stage = stage
      BY <1>2, <2>3 DEF StopBecome, Stopping
    <3>2. QED BY <1>2, <2>1, <3>1, InHandKeepsRound DEF RoundStages, HandStages
  <2>4. QED BY <1>4, <2>2, <2>3 DEF AfterRenewal
<1>5. CASE /\ ~Owned(i, j, clock) /\ UNCHANGED storeVars
           /\ StopBecome(i, Handled(inHand, FALSE))
  <2>1. LeaseGone(i, j)
    BY <1>2, <1>5, RefusedIsGone
  <2>2. \A l \in Jobs : LeaseGone(i, l) => LeaseGone(i, l)'
    BY <1>5 DEF storeVars, LeaseGone, IsRunning, LeaseExpired
  <2> HIDE DEF inHand
  <2>3. QED BY <1>2, <1>3, <1>5, <2>1, <2>2, HandledKeepsRound DEF RoundStages
<1>6. QED BY <1>1, <1>4, <1>5

LEMMA SettleKeepsRound ==
  ASSUME StopInvariant, NEW i \in Instances, SettlePreparing(i) \/ ShutdownFinalize(i)
  PROVE  RoundOK(i)'
<1> DEFINE s == stop[i]
<1>0. PICK j \in Jobs : s.job = j
  BY DEF SettlePreparing, ShutdownFinalize, StopAt, StopInvariant, StopOK, StoppingOK,
     HandStages
<1>1. s.stage \in RoundStages /\ s \in Stopping /\ s.job = j /\ SupInvariant
  BY <1>0 DEF SettlePreparing, ShutdownFinalize, StopAt, StopInvariant, StopOK, StoppingOK,
     RoundStages, HandStages
<1>2. \/ \E status \in Terminal, workStarted \in BOOLEAN :
             /\ FinalizeJobOwned(i, j, status, workStarted, clock)
             /\ StopBecome(i, Handled(s, FALSE))
      \/ /\ ~Owned(i, j, clock) /\ UNCHANGED storeVars
         /\ \/ StopBecome(i, Handled(s, FALSE))
            \/ StopBecome(i, Handled(s, TRUE))
      \/ UNCHANGED storeVars /\ StopBecome(i, Handled(s, TRUE))
  BY <1>0 DEF SettlePreparing, ShutdownFinalize, Terminal, Outcomes
<1>3. CASE \E status \in Terminal, workStarted \in BOOLEAN :
             /\ FinalizeJobOwned(i, j, status, workStarted, clock)
             /\ StopBecome(i, Handled(s, FALSE))
  <2>1. /\ LeaseGone(i, j)'
        /\ \A l \in Jobs \ {j} : LeaseGone(i, l) => LeaseGone(i, l)'
    BY <1>1, <1>3, SettledIsGone
  <2>2. QED BY <1>1, <1>3, <2>1, HandledKeepsRound
<1>4. CASE UNCHANGED storeVars
  <2>1. \A l \in Jobs : LeaseGone(i, l) => LeaseGone(i, l)'
    BY <1>4 DEF storeVars, LeaseGone, IsRunning, LeaseExpired
  <2>2. ~Owned(i, j, clock) => LeaseGone(i, j)
    BY <1>1, RefusedIsGone
  <2>3. CASE StopBecome(i, Handled(s, TRUE))
    BY <1>1, <2>1, <2>3, HandledKeepsRound
  <2>4. CASE ~Owned(i, j, clock) /\ StopBecome(i, Handled(s, FALSE))
    BY <1>1, <2>1, <2>2, <2>4, HandledKeepsRound
  <2>5. CASE \E status \in Terminal, workStarted \in BOOLEAN :
               /\ FinalizeJobOwned(i, j, status, workStarted, clock)
               /\ StopBecome(i, Handled(s, FALSE))
    BY <1>3, <2>5
  <2>6. QED BY <1>2, <2>3, <2>4, <2>5
<1>5. QED BY <1>2, <1>3, <1>4

(* A step of a main goroutine keeps its own round. *)
LEMMA StopStepKeepsRound ==
  ASSUME StopInvariant, NEW i \in Instances, StopStep(i)
  PROVE  RoundOK(i)'
<1>g. stop \in [Instances -> Stopping] /\ stop[i] \in Stopping /\ RoundOK(i)
  BY DEF StopInvariant, StopOK
<1>o. stop'[i].stage \notin RoundStages \cup {"clean", "stopped"} => RoundOK(i)'
  BY DEF RoundOK
<1>u. UNCHANGED <<jobs, clock>> => \A l \in Jobs : LeaseGone(i, l) => LeaseGone(i, l)'
  BY DEF LeaseGone, IsRunning, LeaseExpired
<1>t. \A stage : StopGoTo(i, stage) => /\ stop'[i].stage = stage
                                       /\ stop'[i].rows = stop[i].rows
                                       /\ stop'[i].remaining = stop[i].remaining
  BY <1>g DEF StopGoTo, Stopping
<1>1. CASE Signal(i) \/ PassEnded(i) \/ ShutdownHeartbeat(i) \/ NextRound(i)
  BY <1>1, <1>o, <1>t DEF Signal, PassEnded, ShutdownHeartbeat, NextRound, RoundStages,
     HandStages
<1>2. CASE Interrupted(i) \/ FinishLaunch(i) \/ CancelLaunch(i)
  BY <1>2, <1>o DEF Interrupted, FinishLaunch, CancelLaunch, StopAt, RoundStages, HandStages
<1>3. CASE Abandon(i)
  <2>1. StopBecome(i, [NotStopping EXCEPT !.stage = "abandoned"])
    BY <1>3 DEF Abandon, Exit
  <2>2. stop'[i].stage = "abandoned"
    BY <1>g, <2>1 DEF StopBecome, NotStopping
  <2>3. QED BY <2>2, <1>o DEF RoundStages, HandStages
<1>4. CASE DeleteHeartbeatAfterCleanShutdown(i)
  <2>1. StopBecome(i, [NotStopping EXCEPT !.stage = "stopped"]) /\ stop[i].stage = "clean"
    BY <1>4 DEF DeleteHeartbeatAfterCleanShutdown, Exit, StopAt
  <2>2. stop'[i].stage = "stopped"
    BY <1>g, <2>1 DEF StopBecome, NotStopping
  <2>3. UNCHANGED <<jobs, clock>>
    BY <1>4 DEF DeleteHeartbeatAfterCleanShutdown, DeleteRunnerHeartbeat, storeVars
  <2>4. QED BY <1>g, <1>u, <2>1, <2>2, <2>3 DEF RoundOK, RoundStages, HandStages
<1>5. CASE EndRound(i)
  <2>1. /\ stop[i].stage = "renew" /\ UNCHANGED <<jobs, clock>>
        /\ \A l \in Jobs : stop[i].rows[l] = AbsentRow
        /\ stop'[i].stage = IF stop[i].remaining = "yes" THEN "wait" ELSE "clean"
    BY <1>5, <1>t DEF EndRound, StopAt, StopListed, StoreIdle, storeVars
  <2>2. CASE stop[i].remaining = "yes"
    BY <2>1, <2>2, <1>o DEF RoundStages, HandStages
  <2>3. CASE stop[i].remaining = "no"
    BY <1>g, <1>u, <2>1, <2>3 DEF RoundOK, RoundStages, HandStages
  <2>4. QED BY <1>g, <2>2, <2>3 DEF Stopping
<1>6. CASE ShutdownCancel(i) \/ ShutdownInspect(i)
  <2>1. /\ UNCHANGED <<jobs, clock>> /\ stop[i].stage \in RoundStages
    BY <1>6 DEF ShutdownCancel, ShutdownInspect, StoreIdle, storeVars, StopAt, RoundStages,
       HandStages
  <2>2. PICK stage \in {"inspect", "probe", "finalize"} :
          \/ StopGoTo(i, stage)
          \/ \E obs : StopBecome(i, [stop[i] EXCEPT !.stage = stage, !.seen = obs])
    BY <1>6 DEF ShutdownCancel, ShutdownInspect
  <2>3. /\ stop'[i].stage = stage /\ stop'[i].rows = stop[i].rows
        /\ stop'[i].remaining = stop[i].remaining
    <3>1. CASE StopGoTo(i, stage)
      BY <1>t, <3>1
    <3>2. ASSUME NEW obs, StopBecome(i, [stop[i] EXCEPT !.stage = stage, !.seen = obs])
          PROVE  /\ stop'[i].stage = stage /\ stop'[i].rows = stop[i].rows
                 /\ stop'[i].remaining = stop[i].remaining
      <4>1. stop'[i] = [stop[i] EXCEPT !.stage = stage, !.seen = obs]
        BY <1>g, <3>2 DEF StopBecome
      <4>2. QED BY <1>g, <4>1 DEF Stopping
    <3>3. QED BY <2>2, <3>1, <3>2
  <2>4. QED BY <1>u, <2>1, <2>3, InHandKeepsRound DEF RoundStages, HandStages
<1>7. QED
  BY <1>1, <1>2, <1>3, <1>4, <1>5, <1>6, ListKeepsRound, RenewKeepsRound, SettleKeepsRound
  DEF StopStep

-----------------------------------------------------------------------------
(* The invariant *)

(* However the others interleave with it, a main goroutine knows of every lease *)
(* it still holds.                                                              *)
LEMMA ShutdownKeepsRounds ==
  ASSUME StopInvariant, MaxTime <= MaxDelay, [ShutdownNext]_shutdownVars,
         NEW i \in Instances
  PROVE  RoundOK(i)'
<1>g. SupInvariant /\ stop \in [Instances -> Stopping] /\ clock \in Nat /\ clock' \in Nat
  BY ShutdownKeepsSup DEF StopInvariant, StopOK, SupInvariant, TypeOK
<1>o. stop'[i].stage = "none" => RoundOK(i)'
  BY DEF RoundOK, RoundStages, HandStages
<1>1. ASSUME NEW k \in Instances \ {i}, [ClientStep(k)]_storeVars, stop'[i] = stop[i]
      PROVE  RoundOK(i)'
  <2>1. \A j \in Jobs : Untouched(i, j)
    BY <1>1, <1>g, OthersLeaveRows
  <2>2. clock <= clock'
    BY <1>1, <1>g, ClientStepKeepsClock
  <2>3. QED BY <1>1, <1>g, <2>1, <2>2, RoundStays
<1>2. ASSUME NEW k \in Instances, StopStep(k) PROVE RoundOK(i)'
  <2>1. CASE k = i
    BY <1>2, <2>1, StopStepKeepsRound
  <2>2. CASE k # i
    BY <1>1, <1>2, <2>2, StopStepIsClientStep, StopStepKeepsStop
  <2>3. QED BY <2>1, <2>2
<1>3. ASSUME NEW k \in Instances, Killed(k) PROVE RoundOK(i)'
  <2>1. stop' = [stop EXCEPT ![k] = NotStopping]
    BY <1>3 DEF Killed
  <2>2. CASE k = i
    BY <2>1, <2>2, <1>g, <1>o, NotStoppingOK
  <2>3. CASE k # i
    BY <1>1, <1>3, <1>g, <2>1, <2>3, WorkingIsClientStep
  <2>4. QED BY <2>2, <2>3
<1>4. ASSUME NEW k \in Instances, WorkingStep(k), UNCHANGED stop PROVE RoundOK(i)'
  <2>1. CASE k = i
    BY <1>4, <2>1, <1>o DEF WorkingStep, StopAt
  <2>2. CASE k # i
    BY <1>1, <1>4, <2>2, WorkingIsClientStep
  <2>3. QED BY <2>1, <2>2
<1>5. CASE Elsewhere /\ UNCHANGED stop
  BY <1>5, <1>g, ElsewhereLeavesRows, RoundStays
<1>6. \/ \E k \in Instances : StopStep(k) \/ Killed(k)
      \/ (\E k \in Instances : WorkingStep(k)) /\ UNCHANGED stop
      \/ Elsewhere /\ UNCHANGED stop
  BY DEF ShutdownNext, shutdownVars, Elsewhere
<1>7. QED
  BY <1>2, <1>3, <1>4, <1>5, <1>6

LEMMA StopInvariantInit == ShutdownInit => StopInvariant
<1> SUFFICES ASSUME ShutdownInit PROVE StopInvariant
  OBVIOUS
<1>1. SupInvariant
  BY SupInitOK DEF ShutdownInit
<1>2. \A i \in Instances : stop[i] = NotStopping
  BY DEF ShutdownInit
<1>3. StopOK
  BY NotStoppingOK DEF ShutdownInit, StopOK, StoppingOK, HandStages
<1>4. \A i \in Instances : RoundOK(i)
  BY <1>2, NotStoppingOK DEF RoundOK, RoundStages, HandStages
<1>5. QED BY <1>1, <1>3, <1>4 DEF StopInvariant

LEMMA StopInvariantStep ==
  ASSUME StopInvariant, MaxTime <= MaxDelay, [ShutdownNext]_shutdownVars
  PROVE  StopInvariant'
BY ShutdownKeepsSup, ShutdownKeepsStop, ShutdownKeepsRounds DEF StopInvariant

LEMMA StopInvariantHolds ==
  ASSUME MaxTime <= MaxDelay
  PROVE  ShutdownSpec => []StopInvariant
BY StopInvariantInit, StopInvariantStep, PTL DEF ShutdownSpec

-----------------------------------------------------------------------------
(* No wrapper strays while daemons stop *)

\* The stages from the end of the pass to the end of the shutdown.
PassOver == RoundStages \cup {"heartbeat", "list", "wait", "clean"}

\* The pass is over; a claim that was listed as never launched and that i still
\* holds is as it was; a settlement is of such a claim, and an outcome that is to be
\* recorded was reported.
StopHandOK(i) ==
  LET s == stop[i] IN
  /\ s.stage \in PassOver => At(i, "idle")
  /\ s.stage \in RoundStages =>
       \A j \in Jobs :
         /\ s.rows[j] # AbsentRow /\ NotLaunchedRow(s.rows[j]) /\ Mine(i, j) =>
              jobs[j].launchState = "preparing"
         /\ s.job = j /\ s.stage = "settle" =>
              s.rows[j] # AbsentRow /\ NotLaunchedRow(s.rows[j])
         /\ \A obs \in Outcomes :
              s.job = j /\ s.stage = "finalize" /\ s.seen = obs => Witnessed(j, obs)

(* The inductive invariant of the wrappers of daemons that may be told to stop. *)
StopLaunchInvariant ==
  /\ StopInvariant
  /\ LaunchInvariant
  /\ \A i \in Instances : StopHandOK(i)

(* A main goroutine works alone: the other goroutines stand still. *)
LEMMA StopStepMovesOne ==
  ASSUME StopInvariant, MaxTime <= MaxDelay, NEW i \in Instances, StopStep(i)
  PROVE  \A k \in Instances \ {i} : StandsStill(k)
<1>g. SupInvariant /\ [ClientStep(i)]_storeVars
  BY StopStepIsClientStep DEF StopInvariant
<1>1. CASE FinishLaunch(i)
  BY <1>g, <1>1, FinishLaunchIsSupStep, ReconcileMovesOne
<1>2. CASE ~FinishLaunch(i)
  <2>1. (\E d : Become(i, d)) \/ UNCHANGED daemon
    BY <1>2, QuietSteps DEF StopStep, StopQuietly, Interrupted, CancelLaunch, ShutdownCancel,
       DeleteHeartbeatAfterCleanShutdown, Abandon, Exit
  <2>2. QED BY <1>g, <2>1, OthersStandStill
<1>3. QED BY <1>1, <1>2

(* Apart from the launch it finishes, it starts nothing. *)
LEMMA StopStartsNothing ==
  ASSUME StopInvariant, NEW i \in Instances, StopStep(i), ~FinishLaunch(i)
  PROVE  StartsNothing
<1>u. UNCHANGED wrapperVars => WrappersEndOrReport
  BY DEF wrapperVars, WrappersEndOrReport
<1>1. CASE ShutdownCancel(i)
  <2>1. stop[i].job \in Jobs
    BY <1>1 DEF StopInvariant, StopOK, StoppingOK, ShutdownCancel, StopAt, HandStages
  <2>2. WrappersEndOrReport
    BY <1>1, <2>1, CancelEndsOrReports DEF ShutdownCancel, StopInvariant
  <2>3. QED BY <1>1, <2>2 DEF ShutdownCancel, StoreIdle, storeVars, StartsNothing
<1>2. CASE ~ShutdownCancel(i)
  <2>1. UNCHANGED wrapperVars
    BY <1>2, QuietSteps DEF StopStep, StopQuietly, Interrupted, CancelLaunch,
       DeleteHeartbeatAfterCleanShutdown, Abandon, wrapperVars
  <2>2. launches' = launches
    BY <1>2 DEF StopStep, Signal, Interrupted, CancelLaunch, PassEnded, ShutdownHeartbeat,
       ListOwnedRunningJobs, ShutdownRenew, SettlePreparing, ShutdownInspect,
       ShutdownFinalize, EndRound, NextRound, DeleteHeartbeatAfterCleanShutdown, Abandon,
       HeartbeatRunner, RenewJobLease, FinalizeJobOwned, DeleteRunnerHeartbeat, StoreIdle,
       storeVars
  <2>3. QED BY <1>u, <2>1, <2>2 DEF StartsNothing
<1>3. QED BY <1>1, <1>2

(* What it settles is free: an interrupted launch whose wrapper was cancelled, a *)
(* claim that was never launched, or a job whose wrapper has reported.           *)
LEMMA StopSettlesFree ==
  ASSUME StopLaunchInvariant, NEW i \in Instances, StopStep(i), ~FinishLaunch(i)
  PROVE  OnlyFreeJobsStop
<1>g. SupInvariant /\ LaunchInvariant /\ StopHandOK(i) /\ StoppingOK(stop[i])
  BY DEF StopLaunchInvariant, StopInvariant, StopOK
<1>f. ASSUME NEW j \in Jobs, Free(j), NEW status, NEW workStarted,
             FinalizeJobOwned(i, j, status, workStarted, clock)
      PROVE  OnlyFreeJobsStop
  BY <1>f, <1>g, FinalizeSettles, OnlyFreeStop
<1>s. jobs' = jobs => OnlyFreeJobsStop
  BY DEF OnlyFreeJobsStop, IsRunning
<1>1. CASE CancelLaunch(i)
  <2>1. PICK j \in Jobs : daemon[i].job = j
    BY <1>1, <1>g DEF SupInvariant, DaemonsOK, GoroutineOK, CancelLaunch, At, JobStages
  <2>2. Owned(i, j, clock) => Free(j)
    BY <1>1, <1>g, <2>1 DEF CancelLaunch, At, LaunchInvariant, HandOK, Owned, Mine
  <2>3. QED BY <1>1, <1>f, <1>s, <2>1, <2>2 DEF CancelLaunch, FinalizeJobOwned, storeVars
<1>2. CASE SettlePreparing(i)
  <2>1. PICK j \in Jobs : stop[i].job = j
    BY <1>2, <1>g DEF StoppingOK, SettlePreparing, StopAt, HandStages
  <2>2. Mine(i, j) => jobs[j].launchState = "preparing"
    BY <1>2, <1>g, <2>1 DEF StopHandOK, SettlePreparing, StopAt, RoundStages, HandStages
  <2>3. Owned(i, j, clock) => Free(j)
    BY <1>g, <2>2, NotLaunchedIsFree DEF Owned, Mine, SupInvariant, RowInvariant, LaunchedOnce
  <2>4. QED BY <1>2, <1>f, <1>s, <2>1, <2>3 DEF SettlePreparing, FinalizeJobOwned, storeVars
<1>3. CASE ShutdownFinalize(i)
  <2>1. PICK j \in Jobs : stop[i].job = j
    BY <1>3, <1>g DEF StoppingOK, ShutdownFinalize, StopAt, HandStages
  <2>2. stop[i].seen \in Outcomes => Free(j)
    BY <1>3, <1>g, <2>1, WitnessedIsFree
    DEF StopHandOK, ShutdownFinalize, StopAt, RoundStages, HandStages
  <2>3. QED BY <1>3, <1>f, <1>s, <2>1, <2>2 DEF ShutdownFinalize, storeVars
<1>4. CASE ShutdownRenew(i)
  <2>1. ASSUME NEW j \in Jobs, RenewJobLease(i, j, clock) PROVE OnlyFreeJobsStop
    BY <1>g, <2>1, WritesSettleNothing, OnlyFreeStop
  <2>2. QED BY <1>4, <1>s, <2>1 DEF ShutdownRenew, StopListed, storeVars
<1>5. CASE ~CancelLaunch(i) /\ ~SettlePreparing(i) /\ ~ShutdownFinalize(i) /\ ~ShutdownRenew(i)
  BY <1>5, <1>s DEF StopStep, Signal, Interrupted, PassEnded, ShutdownHeartbeat,
     ListOwnedRunningJobs, ShutdownCancel, ShutdownInspect, EndRound, NextRound,
     DeleteHeartbeatAfterCleanShutdown, Abandon, HeartbeatRunner, DeleteRunnerHeartbeat,
     StoreIdle, storeVars
<1>6. QED BY <1>1, <1>2, <1>3, <1>4, <1>5

(* Its reconcile pass only comes to rest meanwhile, or compensates a launch. *)
LEMMA StopKeepsLaunch ==
  ASSUME StopLaunchInvariant, MaxTime <= MaxDelay, NEW i \in Instances, StopStep(i)
  PROVE  LaunchInvariant'
<1>g. SupInvariant /\ LaunchInvariant /\ StopHandOK(i) /\ StopInvariant
      /\ daemon \in [Instances -> Reconcile]
  BY DEF StopLaunchInvariant, StopInvariant, SupInvariant, DaemonsOK
<1>o. \A k \in Instances \ {i} : StandsStill(k)
  BY <1>g, StopStepMovesOne
<1>1. CASE FinishLaunch(i)
  BY <1>g, <1>1, FinishLaunchIsSupStep, ReconcileKeepsLaunch, AroundKeepsLaunch
<1>2. CASE Signal(i)
  <2>1. StandsStill(i)
    BY <1>2 DEF Signal, StoreIdle, storeVars, StandsStill, Untouched, Mine, IsRunning
  <2>2. {} \in SUBSET Instances /\ \A k \in Instances \ {} : StandsStill(k)
    BY <1>o, <2>1
  <2>3. StartsNothing /\ OnlyFreeJobsStop
    BY <1>2, <1>g, StopStartsNothing, StopSettlesFree
    DEF StopStep, Signal, FinishLaunch, StopAt
  <2>4. QED BY <1>g, <2>2, <2>3, QuietStep DEF StartsNothing
<1>3. CASE ~FinishLaunch(i) /\ ~Signal(i)
  <2>1. StartsNothing /\ OnlyFreeJobsStop
    BY <1>3, <1>g, StopStartsNothing, StopSettlesFree
  <2>2. CASE Interrupted(i)
    <3>1. CASE At(i, "persistRecord") /\ GoTo(i, "compensate")
      BY <1>g, <1>o, <2>1, <3>1, SameHands, OneGoesOn DEF At, LaunchingStages, ClaimStages
    <3>2. CASE Become(i, Resting)
      BY <1>g, <1>o, <2>1, <3>2, RestingGoesOn, OneGoesOn
    <3>3. Become(i, [daemon[i] EXCEPT !.stage = "compensate"]) => GoTo(i, "compensate")
      BY DEF Become, GoTo
    <3>4. QED BY <2>2, <3>1, <3>2, <3>3 DEF Interrupted, AfterInterrupt
  <2>3. CASE CancelLaunch(i) \/ DeleteHeartbeatAfterCleanShutdown(i) \/ Abandon(i)
    <3>1. GoesOn(i)
      BY <1>g, <2>1, <2>3, RestingGoesOn
      DEF CancelLaunch, DeleteHeartbeatAfterCleanShutdown, Abandon, Exit
    <3>2. QED BY <1>g, <1>o, <2>1, <3>1, OneGoesOn
  <2>4. CASE \/ PassEnded(i) \/ ShutdownHeartbeat(i) \/ ListOwnedRunningJobs(i)
             \/ ShutdownRenew(i) \/ SettlePreparing(i) \/ ShutdownCancel(i)
             \/ ShutdownInspect(i) \/ ShutdownFinalize(i) \/ EndRound(i) \/ NextRound(i)
    <3>1. At(i, "idle") /\ daemon' = daemon
      BY <1>g, <2>4 DEF PassEnded, ShutdownHeartbeat, ListOwnedRunningJobs, ShutdownRenew,
         SettlePreparing, ShutdownCancel, ShutdownInspect, ShutdownFinalize, EndRound,
         NextRound, StopAt, StopHandOK, PassOver, RoundStages, HandStages
    <3>2. Become(i, daemon[i])
      BY <1>g, <3>1 DEF Become
    <3>3. GoesOn(i)
      BY <1>g, <2>1, <3>1, <3>2, EmptyHanded
      DEF At, RelyingStages, LaunchingStages, ClaimStages, LaunchInvariant, SeenOK
    <3>4. QED BY <1>g, <1>o, <2>1, <3>3, OneGoesOn
  <2>5. QED BY <1>3, <2>2, <2>3, <2>4 DEF StopStep
<1>4. QED BY <1>1, <1>2, <1>3

(* What a launched wrapper has reported stays reported, whoever acts. *)
LEMMA ShutdownKeepsWitness ==
  ASSUME StopInvariant, MaxTime <= MaxDelay, [ShutdownNext]_shutdownVars, NEW j \in Jobs,
         NEW obs \in Outcomes, Witnessed(j, obs)
  PROVE  Witnessed(j, obs)'
<1>g. SupInvariant
  BY DEF StopInvariant
<1>1. launches[j] \subseteq launches'[j]
  BY <1>g, LaunchesStay, ShutdownStepIsStoreStep
<1>2. \A t \in Tokens : metadata[j][t] # "none" => metadata'[j][t] = metadata[j][t]
  <2>1. CASE [SupNext]_supVars
    BY <1>g, <2>1, ReportsStay
  <2>2. ASSUME NEW i \in Instances, StopStep(i)
        PROVE  \A t \in Tokens : metadata[j][t] # "none" => metadata'[j][t] = metadata[j][t]
    <3>1. CASE FinishLaunch(i)
      BY <2>1, <3>1, FinishLaunchIsSupStep
    <3>2. CASE ~FinishLaunch(i)
      <4>1. WrappersEndOrReport
        BY <2>2, <3>2, StopStartsNothing DEF StartsNothing
      <4>2. QED BY <4>1 DEF WrappersEndOrReport
    <3>3. QED BY <3>1, <3>2
  <2>3. ASSUME ~\E i \in Instances : StopStep(i) PROVE [SupNext]_supVars
    BY <2>3, WorkingIsSupStep, ElsewhereIsSupStep DEF ShutdownNext, shutdownVars, Elsewhere
  <2>4. QED BY <2>1, <2>2, <2>3
<1>3. PICK t \in launches[j] \cap Tokens :
        metadata[j][t] = obs \/ (obs = "failed" /\ metadata[j][t] # "none")
  BY DEF Witnessed
<1>4. metadata[j][t] # "none"
  BY <1>3 DEF Outcomes
<1>5. QED BY <1>1, <1>2, <1>3, <1>4 DEF Witnessed

(* While others act, i keeps what it may rely on. *)
LEMMA StopHandStays ==
  ASSUME StopLaunchInvariant, MaxTime <= MaxDelay, [ShutdownNext]_shutdownVars,
         NEW i \in Instances, stop'[i] = stop[i], StandsStill(i)
  PROVE  StopHandOK(i)'
<1>1. StopHandOK(i) /\ StopInvariant /\ SupInvariant /\ daemon'[i] = daemon[i]
  BY DEF StopLaunchInvariant, StopInvariant, StandsStill
<1>2. ASSUME NEW j \in Jobs, Mine(i, j)'
      PROVE  Mine(i, j) /\ (jobs[j].launchState = "preparing" =>
                              jobs'[j].launchState = "preparing")
  BY <1>1, <1>2, UntouchedRow DEF StandsStill
<1>3. \A j \in Jobs, obs \in Outcomes : Witnessed(j, obs) => Witnessed(j, obs)'
  BY <1>1, ShutdownKeepsWitness
<1>4. QED BY <1>1, <1>2, <1>3 DEF StopHandOK, At

(* In a round, i writes no launch state of a row it keeps. *)
LEMMA RoundKeepsHand ==
  ASSUME StopLaunchInvariant, NEW i \in Instances, daemon' = daemon,
         stop[i].stage \in RoundStages, stop'[i].stage \in RoundStages,
         \A j \in Jobs :
           /\ stop'[i].rows[j] \in {stop[i].rows[j], AbsentRow}
           /\ Mine(i, j)' => Mine(i, j) /\ jobs'[j].launchState = jobs[j].launchState
           /\ stop'[i].job = j /\ stop'[i].stage = "settle" =>
                stop'[i].rows[j] # AbsentRow /\ NotLaunchedRow(stop'[i].rows[j])
           /\ \A obs \in Outcomes :
                stop'[i].job = j /\ stop'[i].stage = "finalize" /\ stop'[i].seen = obs =>
                  Witnessed(j, obs)'
  PROVE  StopHandOK(i)'
<1>1. StopHandOK(i) /\ stop[i].stage \in PassOver
  BY DEF StopLaunchInvariant, PassOver
<1>2. At(i, "idle")'
  BY <1>1 DEF StopHandOK, At
<1>3. QED BY <1>1, <1>2 DEF StopHandOK

LEMMA RenewKeepsHand ==
  ASSUME StopLaunchInvariant, NEW i \in Instances, ShutdownRenew(i)
  PROVE  StopHandOK(i)'
<1> DEFINE s == stop[i]
<1>g. /\ s \in Stopping /\ stop \in [Instances -> Stopping] /\ s.stage = "renew"
      /\ daemon' = daemon /\ jobs \in [Jobs -> Row] /\ AbsentRow \in Row
  BY DEF StopLaunchInvariant, StopInvariant, SupInvariant, TypeOK, StopOK, ShutdownRenew,
     StopAt, AbsentRow, Row, LaunchStates, NoTime, NoToken
<1>1. PICK j \in StopListed(i) :
        \/ RenewJobLease(i, j, clock) /\ StopBecome(i, AfterRenewal(s, j))
        \/ /\ ~Owned(i, j, clock) /\ UNCHANGED storeVars
           /\ StopBecome(i, Handled([s EXCEPT !.job = j], FALSE))
  BY DEF ShutdownRenew
<1>2. j \in Jobs /\ s.rows[j] # AbsentRow
  BY DEF StopListed
<1>3. ASSUME NEW l \in Jobs, Mine(i, l)'
      PROVE  Mine(i, l) /\ jobs'[l].launchState = jobs[l].launchState
  <2>1. CASE RenewJobLease(i, j, clock)
    <3>1. jobs' = [jobs EXCEPT ![j].leaseUntil = clock + Lease]
      BY <2>1 DEF RenewJobLease
    <3>2. /\ jobs'[l].status = jobs[l].status /\ jobs'[l].owner = jobs[l].owner
          /\ jobs'[l].launchState = jobs[l].launchState
      BY <1>2, <1>g, <3>1 DEF Row
    <3>3. QED BY <1>3, <3>2 DEF Mine, IsRunning
  <2>2. CASE UNCHANGED storeVars
    BY <1>3, <2>2 DEF storeVars, Mine, IsRunning
  <2>3. QED BY <1>1, <2>1, <2>2
<1>4. ASSUME NEW remaining \in BOOLEAN, StopBecome(i, Handled([s EXCEPT !.job = j], remaining))
      PROVE  StopHandOK(i)'
  <2>1. PICK h : h = [s EXCEPT !.job = j]
    OBVIOUS
  <2>2. h \in Stopping /\ h.job = j /\ h.rows = s.rows
    BY <1>2, <1>g, <2>1 DEF Stopping
  <2>3. stop'[i] = Handled(h, remaining)
    BY <1>4, <1>g, <2>1 DEF StopBecome
  <2>4. stop'[i].stage = "renew" /\ stop'[i].rows = [s.rows EXCEPT ![j] = AbsentRow]
    BY <1>2, <2>2, <2>3, HandledOK
  <2>5. \A l \in Jobs : stop'[i].rows[l] \in {s.rows[l], AbsentRow}
    BY <1>g, <2>4 DEF Stopping
  <2>6. QED BY <1>3, <1>g, <2>4, <2>5, RoundKeepsHand DEF RoundStages
<1>5. ASSUME NEW stage \in {"cancel", "settle"},
             StopBecome(i, [s EXCEPT !.stage = stage, !.job = j]),
             stage = "settle" => NotLaunchedRow(s.rows[j])
      PROVE  StopHandOK(i)'
  <2>1. stop'[i].rows = s.rows /\ stop'[i].stage = stage /\ stop'[i].job = j
    BY <1>5, <1>g DEF StopBecome, Stopping
  <2>2. QED BY <1>2, <1>3, <1>5, <1>g, <2>1, RoundKeepsHand DEF RoundStages, HandStages
<1>6. QED BY <1>1, <1>4, <1>5 DEF AfterRenewal

LEMMA SettleKeepsHand ==
  ASSUME StopLaunchInvariant, NEW i \in Instances, SettlePreparing(i) \/ ShutdownFinalize(i)
  PROVE  StopHandOK(i)'
<1> DEFINE s == stop[i]
<1>0. PICK j \in Jobs : s.job = j
  BY DEF SettlePreparing, ShutdownFinalize, StopAt, StopLaunchInvariant, StopInvariant,
     StopOK, StoppingOK, HandStages
<1>1. /\ s \in Stopping /\ stop \in [Instances -> Stopping] /\ s.stage \in RoundStages
      /\ daemon' = daemon /\ SupInvariant
  BY DEF StopLaunchInvariant, StopInvariant, StopOK, SettlePreparing, ShutdownFinalize,
     StopAt, RoundStages, HandStages
<1>2. /\ \E remaining \in BOOLEAN : StopBecome(i, Handled(s, remaining))
      /\ \/ UNCHANGED storeVars
         \/ \E status \in Terminal, workStarted \in BOOLEAN :
              FinalizeJobOwned(i, j, status, workStarted, clock)
  BY <1>0 DEF SettlePreparing, ShutdownFinalize, Terminal, Outcomes
<1>3. ASSUME NEW l \in Jobs, Mine(i, l)'
      PROVE  Mine(i, l) /\ jobs'[l].launchState = jobs[l].launchState
  <2>1. CASE UNCHANGED storeVars
    BY <1>3, <2>1 DEF storeVars, Mine, IsRunning
  <2>2. ASSUME NEW status \in Terminal, Settled(j, status)
        PROVE  Mine(i, l) /\ jobs'[l].launchState = jobs[l].launchState
    BY <1>3, <2>2 DEF Settled, Mine, IsRunning, Terminal
  <2>3. QED BY <1>1, <1>2, <2>1, <2>2, FinalizeSettles
<1>4. PICK remaining \in BOOLEAN : StopBecome(i, Handled(s, remaining))
  BY <1>2
<1>5. /\ stop'[i].stage = "renew"
      /\ stop'[i].rows = [s.rows EXCEPT ![j] = AbsentRow]
  BY <1>0, <1>1, <1>4, HandledOK DEF StopBecome
<1>6. \A l \in Jobs : stop'[i].rows[l] \in {s.rows[l], AbsentRow}
  BY <1>1, <1>5 DEF Stopping
<1>7. QED BY <1>1, <1>3, <1>5, <1>6, RoundKeepsHand DEF RoundStages

(* An outcome that shutdown is going to record has been reported. *)
LEMMA InspectKeepsHand ==
  ASSUME StopLaunchInvariant, NEW i \in Instances, ShutdownCancel(i) \/ ShutdownInspect(i)
  PROVE  StopHandOK(i)'
<1> DEFINE s == stop[i]
<1>0. PICK j \in Jobs : s.job = j
  BY DEF ShutdownCancel, ShutdownInspect, StopAt, StopLaunchInvariant, StopInvariant,
     StopOK, StoppingOK, HandStages
<1>1. /\ s \in Stopping /\ stop \in [Instances -> Stopping] /\ s.stage \in RoundStages
      /\ daemon' = daemon /\ SupInvariant /\ LaunchInvariant
      /\ UNCHANGED <<jobs, launches>>
  BY DEF StopLaunchInvariant, StopInvariant, StopOK, ShutdownCancel, ShutdownInspect,
     StopAt, RoundStages, HandStages, StoreIdle, storeVars
<1>2. \A l \in Jobs : Mine(i, l)' => Mine(i, l) /\ jobs'[l].launchState = jobs[l].launchState
  BY <1>1 DEF Mine, IsRunning
<1>3. ASSUME NEW stage \in {"inspect", "probe"}, StopGoTo(i, stage)
      PROVE  StopHandOK(i)'
  <2>1. stop'[i].rows = s.rows /\ stop'[i].stage = stage
    BY <1>1, <1>3 DEF StopGoTo, Stopping
  <2>2. QED BY <1>1, <1>2, <2>1, RoundKeepsHand DEF RoundStages, HandStages
<1>4. ASSUME NEW obs, obs \in Outcomes => Witnessed(j, obs)', ShutdownInspect(i),
             StopBecome(i, [s EXCEPT !.stage = "finalize", !.seen = obs])
      PROVE  StopHandOK(i)'
  <2>1. /\ stop'[i].rows = s.rows /\ stop'[i].stage = "finalize" /\ stop'[i].job = j
        /\ stop'[i].seen = obs
    BY <1>0, <1>1, <1>4 DEF StopBecome, Stopping
  <2>2. QED BY <1>1, <1>2, <1>4, <2>1, RoundKeepsHand DEF RoundStages, HandStages
<1>5. CASE ShutdownCancel(i)
  BY <1>3, <1>5 DEF ShutdownCancel
<1>6. CASE ShutdownInspect(i)
  <2>1. UNCHANGED metadata
    BY <1>6 DEF ShutdownInspect, wrapperVars
  <2>2. ASSUME NEW obs \in Outcomes, Witnessed(j, obs) PROVE Witnessed(j, obs)'
    BY <1>1, <2>1, <2>2 DEF Witnessed
  <2>3. CASE /\ Reported(s.rows[j], j) # "none"
             /\ StopBecome(i, [s EXCEPT !.stage = "finalize", !.seen = Reported(s.rows[j], j)])
    BY <1>1, <1>4, <1>6, <2>2, <2>3, ReportIsWitnessed
  <2>4. CASE StopBecome(i, [s EXCEPT !.stage = "finalize", !.seen = FromProcess(s.rows[j], j)])
    <3>1. FromProcess(s.rows[j], j) \notin Outcomes
      BY DEF FromProcess, Outcomes
    <3>2. QED BY <1>4, <1>6, <2>4, <3>1
  <2>5. QED BY <1>0, <1>3, <1>6, <2>3, <2>4 DEF ShutdownInspect
<1>7. QED BY <1>5, <1>6

(* A listed claim is as the store has it. *)
LEMMA ListKeepsHand ==
  ASSUME StopLaunchInvariant, NEW i \in Instances, ListOwnedRunningJobs(i)
  PROVE  StopHandOK(i)'
<1> DEFINE owned == {j \in Jobs : IsRunning(j) /\ jobs[j].owner = i}
           stage == IF owned = {} THEN "clean" ELSE "renew"
           rows == [j \in Jobs |-> IF j \in owned THEN jobs[j] ELSE AbsentRow]
<1>g. SupInvariant /\ StopHandOK(i) /\ stop[i].stage \in PassOver
      /\ UNCHANGED <<jobs, daemon>>
  BY DEF StopLaunchInvariant, StopInvariant, ListOwnedRunningJobs, StopAt, PassOver, StoreIdle,
     storeVars
<1>1. StopBecome(i, [NotStopping EXCEPT !.stage = stage, !.rows = rows])
  BY DEF ListOwnedRunningJobs
<1>2. stop'[i].stage = stage /\ stop'[i].rows = rows
  <2> HIDE DEF rows, stage
  <2>1. QED BY <1>1 DEF StopBecome, StopLaunchInvariant, StopInvariant, StopOK, NotStopping
<1>3. stage \in {"clean", "renew"}
  OBVIOUS
<1>4. ASSUME NEW j \in Jobs, rows[j] # AbsentRow, NotLaunchedRow(rows[j])
      PROVE  jobs[j].launchState = "preparing"
  <2>1. rows[j] = jobs[j] /\ IsRunning(j)
    BY <1>4
  <2>2. jobs[j].token = NoToken \/ jobs[j].launchState = "preparing"
    BY <1>4, <2>1 DEF NotLaunchedRow
  <2>3. jobs[j] \in Row
    BY <1>g DEF SupInvariant, TypeOK
  <2>4. QED BY <1>g, <2>1, <2>2, <2>3
    DEF SupInvariant, RowInvariant, RowShape, Row, LaunchStates
<1> HIDE DEF rows, stage
<1>5. \A j \in Jobs : rows[j] # AbsentRow /\ NotLaunchedRow(rows[j]) =>
        jobs'[j].launchState = "preparing"
  BY <1>g, <1>4
<1>6. At(i, "idle")'
  BY <1>g DEF StopHandOK, At
<1>7. stop'[i].stage \notin HandStages
  BY <1>2, <1>3 DEF HandStages
<1>8. QED BY <1>2, <1>5, <1>6, <1>7 DEF StopHandOK, HandStages

(* A main goroutine keeps what it relies on itself. *)
LEMMA StopStepKeepsHand ==
  ASSUME StopLaunchInvariant, NEW i \in Instances, StopStep(i)
  PROVE  StopHandOK(i)'
<1>g. /\ stop \in [Instances -> Stopping] /\ StopHandOK(i)
  BY DEF StopLaunchInvariant, StopInvariant, StopOK
<1>o. stop'[i].stage \notin PassOver => StopHandOK(i)'
  BY DEF StopHandOK, PassOver
<1>t. \A stage : StopGoTo(i, stage) => stop'[i].stage = stage
  BY <1>g DEF StopGoTo, Stopping
<1>1. CASE Signal(i)
  BY <1>1, <1>o, <1>t DEF Signal, PassOver, RoundStages, HandStages
<1>2. CASE Interrupted(i) \/ FinishLaunch(i) \/ CancelLaunch(i)
  BY <1>2, <1>o DEF Interrupted, FinishLaunch, CancelLaunch, StopAt, PassOver, RoundStages,
     HandStages
<1>3. CASE Abandon(i) \/ DeleteHeartbeatAfterCleanShutdown(i)
  <2>1. PICK how \in {"stopped", "abandoned"} :
          StopBecome(i, [NotStopping EXCEPT !.stage = how])
    BY <1>3 DEF DeleteHeartbeatAfterCleanShutdown, Abandon, Exit
  <2>2. stop'[i].stage = how
    BY <1>g, <2>1 DEF StopBecome, NotStopping
  <2>3. QED BY <1>o, <2>2 DEF PassOver, RoundStages, HandStages
<1>4. CASE PassEnded(i) \/ ShutdownHeartbeat(i) \/ EndRound(i) \/ NextRound(i)
  <2>1. At(i, "idle") /\ daemon' = daemon
    BY <1>4, <1>g DEF PassEnded, ShutdownHeartbeat, EndRound, NextRound, StopAt, StopHandOK,
       PassOver, RoundStages
  <2>2. stop'[i].stage \notin RoundStages
    BY <1>4, <1>t DEF PassEnded, ShutdownHeartbeat, EndRound, NextRound, RoundStages,
       HandStages
  <2>3. QED BY <2>1, <2>2 DEF StopHandOK, At
<1>5. QED
  BY <1>1, <1>2, <1>3, <1>4, ListKeepsHand, RenewKeepsHand, SettleKeepsHand, InspectKeepsHand
  DEF StopStep

(* Every step of the composed system keeps the invariant. *)
LEMMA ShutdownKeepsHands ==
  ASSUME StopLaunchInvariant, MaxTime <= MaxDelay, [ShutdownNext]_shutdownVars
  PROVE  LaunchInvariant' /\ \A i \in Instances : StopHandOK(i)'
<1>g. /\ StopInvariant /\ SupInvariant /\ LaunchInvariant
      /\ stop \in [Instances -> Stopping]
  BY DEF StopLaunchInvariant, StopInvariant, StopOK
<1>o. \A i \in Instances : stop'[i].stage = "none" => StopHandOK(i)'
  BY DEF StopHandOK, PassOver, RoundStages, HandStages
<1>1. ASSUME NEW k \in Instances, StopStep(k)
      PROVE  LaunchInvariant' /\ \A i \in Instances : StopHandOK(i)'
  <2>1. LaunchInvariant'
    BY <1>1, StopKeepsLaunch
  <2>2. ASSUME NEW i \in Instances \ {k} PROVE StopHandOK(i)'
    BY <1>1, <1>g, <2>2, StopStepKeepsStop, StopStepMovesOne, StopHandStays
  <2>3. QED BY <1>1, <2>1, <2>2, StopStepKeepsHand
<1>2. ASSUME NEW k \in Instances, WorkingStep(k), UNCHANGED stop
      PROVE  LaunchInvariant' /\ \A i \in Instances : StopHandOK(i)'
  <2>1. \/ ReconcileStep(k) \/ Run(k) \/ StoreFault(k) \/ CancelFails(k) \/ Heartbeat(k)
    BY <1>2 DEF WorkingStep
  <2>2. LaunchInvariant'
    BY <1>g, <2>1, ReconcileKeepsLaunch, AroundKeepsLaunch
  <2>3. ASSUME NEW i \in Instances \ {k} PROVE StopHandOK(i)'
    BY <1>2, <1>g, <2>1, ReconcileMovesOne, StopHandStays
  <2>4. StopHandOK(k)'
    BY <1>2, <1>o DEF WorkingStep, StopAt
  <2>5. QED BY <2>2, <2>3, <2>4
<1>3. ASSUME NEW k \in Instances, Killed(k)
      PROVE  LaunchInvariant' /\ \A i \in Instances : StopHandOK(i)'
  <2>1. Crash(k) /\ stop' = [stop EXCEPT ![k] = NotStopping]
    BY <1>3 DEF Killed
  <2>2. LaunchInvariant'
    BY <1>g, <2>1, AroundKeepsLaunch
  <2>3. ASSUME NEW i \in Instances \ {k} PROVE StopHandOK(i)'
    BY <1>g, <2>1, ReconcileMovesOne, StopHandStays
  <2>4. StopHandOK(k)'
    BY <1>o, <1>g, <2>1, NotStoppingOK
  <2>5. QED BY <2>2, <2>3, <2>4
<1>4. CASE Elsewhere /\ UNCHANGED stop
  <2>1. daemon' = daemon
    BY <1>4 DEF Elsewhere, Enqueue, WriteMetadata, WrapperEnds, SlowTick, supVars
  <2>2. \A i \in Instances : StandsStill(i)
    BY <1>4, <1>g, <2>1, ElsewhereLeavesRows DEF StandsStill
  <2>3. QED BY <1>4, <1>g, <2>2, ElsewhereKeepsLaunch, StopHandStays
<1>5. \/ \E k \in Instances : StopStep(k) \/ Killed(k)
      \/ (\E k \in Instances : WorkingStep(k)) /\ UNCHANGED stop
      \/ Elsewhere /\ UNCHANGED stop
  BY DEF ShutdownNext, shutdownVars, Elsewhere
<1>6. QED BY <1>1, <1>2, <1>3, <1>4, <1>5

LEMMA StopLaunchHolds ==
  ASSUME MaxTime <= MaxDelay
  PROVE  ShutdownSpec => []StopLaunchInvariant
<1>1. ShutdownInit => StopLaunchInvariant
  <2> SUFFICES ASSUME ShutdownInit PROVE StopLaunchInvariant
    OBVIOUS
  <2>1. StopInvariant /\ LaunchInvariant
    BY StopInvariantInit, LaunchInit DEF ShutdownInit
  <2>2. \A i \in Instances : stop[i].stage = "none"
    BY NotStoppingOK DEF ShutdownInit
  <2>3. QED BY <2>1, <2>2 DEF StopLaunchInvariant, StopHandOK, PassOver, RoundStages, HandStages
<1>2. StopLaunchInvariant /\ [ShutdownNext]_shutdownVars => StopLaunchInvariant'
  BY StopInvariantStep, ShutdownKeepsHands DEF StopLaunchInvariant
<1>3. QED BY <1>1, <1>2, PTL DEF ShutdownSpec

-----------------------------------------------------------------------------
(* The theorems *)

(* Daemons that stop use the store as any client may: what a shutdown does to   *)
(* the tables, interrupted launches and settlements included, is within         *)
(* JobStore.                                                                    *)
THEOREM ShutdownImplementsStore ==
  ASSUME MaxTime <= MaxDelay
  PROVE  ShutdownSpec => DaemonsAreStoreClients
<1>1. StopInvariant /\ [ShutdownNext]_shutdownVars => [Next]_storeVars
  BY ShutdownStepIsStoreStep
<1>2. ShutdownInit => Init
  BY DEF ShutdownInit, SupInit
<1>3. QED
  BY <1>1, <1>2, StopInvariantHolds, PTL DEF ShutdownSpec, DaemonsAreStoreClients

(* The state of the main goroutines is well typed, with that of the reconcile   *)
(* passes, the wrappers and the tables.                                         *)
THEOREM StopTypeCorrect ==
  ASSUME MaxTime <= MaxDelay
  PROVE  ShutdownSpec => []StopTypeOK
<1>1. StopInvariant => StopTypeOK
  BY DEF StopInvariant, StopOK, SupInvariant, DaemonsOK, WrappersOK, SupTypeOK, StopTypeOK
<1>2. QED BY <1>1, StopInvariantHolds, PTL

(* A daemon that has deleted its heartbeat after a clean shutdown holds no      *)
(* lease that still runs, whatever the other daemons, the wrappers and the      *)
(* clock do before and after.                                                   *)
THEOREM CleanStopsAreClean ==
  ASSUME MaxTime <= MaxDelay
  PROVE  ShutdownSpec => []CleanStopLeavesNoLease
<1>1. StopInvariant => CleanStopLeavesNoLease
  BY DEF StopInvariant, RoundOK, LeaseGone, CleanStopLeavesNoLease, StopAt
<1>2. QED BY <1>1, StopInvariantHolds, PTL

(* The safety of the tables, of daemons that stop: one launch per job, the      *)
(* limits, one recovery path for every stale row.                               *)
THEOREM ShutdownIsSafe ==
  ASSUME MaxTime <= MaxDelay
  PROVE  ShutdownSpec => [](LaunchedOnce /\ CapacityRespected /\ NoOrphan)
<1>1. DaemonsAreStoreClients => Spec
  BY DEF DaemonsAreStoreClients, Spec
<1>2. QED
  BY <1>1, ShutdownImplementsStore, LaunchesAreUnique, CapacityHolds, NothingIsOrphaned, PTL


(* No shutdown, interrupted launch or settlement included, leaves a wrapper at   *)
(* work without its running row: a job that is settled as cancelled has no      *)
(* wrapper, or one that was ended first.                                         *)
THEOREM NoWrapperStraysInShutdown ==
  ASSUME MaxTime <= MaxDelay
  PROVE  ShutdownSpec => []NoStrayWrapper
<1>1. StopLaunchInvariant => NoStrayWrapper
  BY AtWorkIsRecognised DEF StopLaunchInvariant, StopInvariant, SupInvariant
<1>2. QED BY <1>1, StopLaunchHolds, PTL

=============================================================================
