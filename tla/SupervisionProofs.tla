------------------------- MODULE SupervisionProofs -------------------------
(***************************************************************************)
(* What TLAPS proves of Supervision, for any number of jobs, daemons, store *)
(* failures and crashes: a daemon is a client of the store, so that every   *)
(* theorem about the store holds of the daemons at work.                    *)
(***************************************************************************)
EXTENDS Supervision, JobStoreProofs

\* The stages in which a goroutine has one job in hand, and in which it has
\* drawn a launch token for it.
TokenStages == {"markLaunching", "launch", "persistRecord", "cleanup", "compensate"}
JobStages ==
  TokenStages \cup {"observeProbe", "verifyProbe", "adopt", "giveUp", "reinspect",
                    "reinspectProbe", "finalActions", "prepare", "persistSpec",
                    "launchFailed"}

\* What holds of each goroutine d at time c.
GoroutineOK(d, c) ==
  /\ d \in Reconcile
  /\ d.now <= c
  /\ d.stage \in JobStages => d.job \in Jobs
  /\ d.stage \in TokenStages => d.token \in Tokens
  /\ d.stage = "finalActions" => d.seen[d.job] \in Outcomes

DaemonsOK ==
  /\ daemon \in [Instances -> Reconcile]
  /\ \A i \in Instances : GoroutineOK(daemon[i], clock)
  /\ clock <= MaxTime

WrappersOK ==
  /\ processes \in [Jobs -> SUBSET Tokens]
  /\ metadata \in [Jobs -> [Tokens -> Outcomes \cup {"none"}]]
  /\ startedAt \in [Jobs -> Nat \cup {NoTime}]
  /\ suspends \in 0..MaxSuspends
  /\ faults \in 0..MaxFaults

(* The inductive invariant of the daemons: the one of the tables, and that   *)
(* what a goroutine remembers is of the right kind and not from the future.  *)
SupInvariant == TypeOK /\ RowInvariant /\ DaemonsOK /\ WrappersOK

-----------------------------------------------------------------------------
(* The goroutine's record *)

(* A goroutine at rest is well formed, *)
LEMMA RestingType == Resting \in Reconcile
<1>1. AbsentRow \in Row
  BY DEF AbsentRow, Row, LaunchStates, NoTime, NoToken
<1> DEFINE noRows == [j \in Jobs |-> AbsentRow]
           unseen == [j \in Jobs |-> "none"]
<1>2. noRows \in [Jobs -> Row]
  BY <1>1
<1>3. unseen \in [Jobs -> Observations \cup {"none"}]
  OBVIOUS
<1>4. Resting =
        [stage |-> "idle", back |-> "observe", rows |-> noRows, seen |-> unseen,
         job |-> NoJob, active |-> {}, now |-> 0, token |-> NoToken, round |-> "made"]
  BY DEF Resting
<1> HIDE DEF noRows, unseen
<1>5. QED BY <1>2, <1>3, <1>4 DEF Reconcile, Stages, NoToken

(* and so is one that starts a pass, stops, or has not started. *)
LEMMA RestingOK ==
  ASSUME NEW c \in Nat, NEW stage \in Stages \ JobStages,
         NEW round \in {"due", "made"}, NEW rows \in [Jobs -> Row]
  PROVE  /\ GoroutineOK([Resting EXCEPT !.stage = stage, !.round = round, !.rows = rows], c)
         /\ GoroutineOK([Resting EXCEPT !.stage = stage], c)
         /\ GoroutineOK([Resting EXCEPT !.round = round], c)
         /\ GoroutineOK(Resting, c)
<1>1. Resting.now = 0 /\ Resting.stage = "idle"
  BY DEF Resting
<1>2. "finalActions" \in JobStages /\ "idle" \notin JobStages /\ TokenStages \subseteq JobStages
  BY DEF JobStages, TokenStages
<1>3. ASSUME NEW d \in Reconcile, d.now = 0, d.stage \notin JobStages
      PROVE  GoroutineOK(d, c)
  BY <1>2, <1>3 DEF GoroutineOK
<1>4. \A d \in Reconcile :
        /\ [d EXCEPT !.stage = stage, !.round = round, !.rows = rows] \in Reconcile
        /\ [d EXCEPT !.stage = stage] \in Reconcile
        /\ [d EXCEPT !.round = round] \in Reconcile
  BY DEF Reconcile
<1>5. \A d \in Reconcile :
        /\ [d EXCEPT !.stage = stage, !.round = round, !.rows = rows].now = d.now
        /\ [d EXCEPT !.stage = stage, !.round = round, !.rows = rows].stage = stage
        /\ [d EXCEPT !.stage = stage].now = d.now
        /\ [d EXCEPT !.stage = stage].stage = stage
        /\ [d EXCEPT !.round = round].now = d.now
        /\ [d EXCEPT !.round = round].stage = d.stage
  BY DEF Reconcile
<1>6. QED BY <1>1, <1>2, <1>3, <1>4, <1>5, RestingType

(* A goroutine moves on to a stage that asks no more of it. *)
LEMMA StageOK ==
  ASSUME NEW c \in Nat, NEW d, GoroutineOK(d, c), NEW stage \in Stages,
         stage \in JobStages => d.stage \in JobStages,
         stage \in TokenStages => d.stage \in TokenStages,
         stage # "finalActions"
  PROVE  GoroutineOK([d EXCEPT !.stage = stage], c)
BY DEF GoroutineOK, Reconcile

(* One goroutine moves, the clock does not. *)
LEMMA OneGoroutine ==
  ASSUME DaemonsOK, NEW i \in Instances, NEW d, GoroutineOK(d, clock),
         Become(i, d), UNCHANGED clock
  PROVE  DaemonsOK'
<1>1. daemon' = [daemon EXCEPT ![i] = d] /\ clock' = clock
  BY DEF Become
<1>2. d \in Reconcile
  BY DEF GoroutineOK
<1>3. daemon' \in [Instances -> Reconcile]
  BY <1>1, <1>2 DEF DaemonsOK
<1>4. \A k \in Instances : daemon'[k] = IF k = i THEN d ELSE daemon[k]
  BY <1>1 DEF DaemonsOK
<1>5. QED BY <1>1, <1>3, <1>4 DEF DaemonsOK

(* GoTo changes the stage and nothing else. *)
LEMMA GoToIsBecome ==
  ASSUME DaemonsOK, NEW i \in Instances, NEW stage, GoTo(i, stage)
  PROVE  Become(i, [daemon[i] EXCEPT !.stage = stage])
BY DEF GoTo, Become, DaemonsOK

(* What Inspect says is taken down in its place. *)
LEMMA WithObservationOK ==
  ASSUME NEW c \in Nat, NEW d, GoroutineOK(d, c), NEW j \in Jobs,
         NEW obs \in Observations,
         d.stage \in {"observe", "verify", "reinspect",
                      "observeProbe", "verifyProbe", "reinspectProbe"}
  PROVE  GoroutineOK(WithObservation(d, j, obs), c)
<1>1. AbsentRow \in Row
  BY DEF AbsentRow, Row, LaunchStates, NoTime, NoToken
<1>2. /\ [d.rows EXCEPT ![j] = AbsentRow] \in [Jobs -> Row]
      /\ [d.seen EXCEPT ![j] = obs] \in [Jobs -> Observations \cup {"none"}]
      /\ d.active \cup {j} \in SUBSET Jobs
  BY <1>1 DEF GoroutineOK, Reconcile
<1> DEFINE handled == [d EXCEPT !.rows[j] = AbsentRow, !.job = NoJob]
           back(stage) == [handled EXCEPT !.stage = stage, !.seen[j] = obs,
                                          !.active = @ \cup {j}]
<1>3. ASSUME NEW stage \in {"observe", "verify"} PROVE GoroutineOK(back(stage), c)
  BY <1>2, <1>3 DEF GoroutineOK, Reconcile, NoJob, JobStages, TokenStages, Stages
<1>4. ASSUME NEW stage \in {"giveUp", "adopt"}
      PROVE GoroutineOK([d EXCEPT !.stage = stage, !.job = j], c)
  BY <1>4 DEF GoroutineOK, Reconcile, JobStages, TokenStages, Stages
<1>5. QED
  BY <1>3, <1>4 DEF WithObservation

-----------------------------------------------------------------------------
(* Every step of the daemons is a step of the store's general client *)

(* The two times a goroutine passes to the store are admissible samples. *)
LEMMA Samples ==
  ASSUME SupInvariant, NEW i \in Instances
  PROVE  /\ clock \in Sampled
         /\ MaxTime <= MaxDelay => daemon[i].now \in Sampled
<1>1. clock \in Nat /\ MaxDelay \in Nat /\ MaxTime \in Nat
  BY ConstantsAssumption DEF SupInvariant, TypeOK
<1>2. daemon[i].now \in Nat /\ daemon[i].now <= clock /\ clock <= MaxTime
  BY DEF SupInvariant, DaemonsOK, GoroutineOK, Reconcile
<1>3. QED BY <1>1, <1>2 DEF Sampled

(* What one client may do to the tables: it samples the time when it calls, and  *)
(* only recovery may decide by an older sample.                                 *)
ClientStep(i) ==
  \/ \E frontier \in SUBSET Jobs : \E j \in frontier : ClaimJob(i, j, frontier, clock)
  \/ \E j \in Jobs : OwnerStep(i, j, clock)
  \/ \E t \in Sampled : RecoveryStep(i, t)
  \/ HeartbeatRunner(i, clock)
  \/ DeleteRunnerHeartbeat(i)

LEMMA ClientStepIsStoreStep ==
  ASSUME SupInvariant, NEW i \in Instances, ClientStep(i)
  PROVE  Next
BY Samples DEF ClientStep, Next

(* A call by an owner. *)
LEMMA OwnerCall ==
  ASSUME NEW i \in Instances, NEW j \in Jobs, OwnerStep(i, j, clock)
  PROVE  ClientStep(i)
BY DEF ClientStep

(* A call by recovery, at a time the caller sampled. *)
LEMMA RecoveryCall ==
  ASSUME NEW i \in Instances, NEW t \in Sampled, RecoveryStep(i, t)
  PROVE  ClientStep(i)
BY DEF ClientStep

(* A recoverable row has an owner. *)
LEMMA RecoverableHasOwner ==
  ASSUME SupInvariant, NEW j \in Jobs, NEW t, Recoverable(j, t)
  PROVE  jobs[j].owner \in Instances
BY DEF SupInvariant, RowInvariant, RowShape, Recoverable

(* What a finalized job may end as is a terminal status. *)
LEMMA FinalStatusIsTerminal ==
  ASSUME NEW obs \in Outcomes
  PROVE  FinalStatus(obs) \subseteq Terminal
BY DEF FinalStatus, Outcomes, Terminal

(* One step of a reconcile goroutine is one operation of that client or none. *)
LEMMA ReconcileIsClientStep ==
  ASSUME SupInvariant, MaxTime <= MaxDelay, NEW i \in Instances, ReconcileStep(i)
  PROVE  [ClientStep(i)]_storeVars
<1>g. GoroutineOK(daemon[i], clock)
  BY DEF SupInvariant, DaemonsOK
<1>s. clock \in Sampled /\ daemon[i].now \in Sampled
  BY Samples
<1>1. CASE \/ BeginReconcile(i) \/ (\E j \in Jobs : ReadMetadata(i, j))
           \/ CheckProcess(i) \/ ListStaleDurableRunningJobs(i)
           \/ NothingToClaim(i) \/ Launch(i) \/ CancelWrapper(i)
  BY <1>1 DEF BeginReconcile, ReadMetadata, CheckProcess, ListStaleDurableRunningJobs,
     NothingToClaim, Launch, CancelWrapper, StoreIdle
<1>2. ASSUME NEW j \in Jobs, ActOnObservation(i, j) PROVE [ClientStep(i)]_storeVars
  BY <1>2, OwnerCall DEF ActOnObservation, OwnerStep
<1>3. CASE FinalizeObservation(i)
  <2>1. daemon[i].job \in Jobs /\ daemon[i].seen[daemon[i].job] \in Outcomes
    BY <1>g, <1>3 DEF GoroutineOK, FinalizeObservation, At, JobStages
  <2>2. FinalStatus(daemon[i].seen[daemon[i].job]) \subseteq Terminal
    BY <2>1, FinalStatusIsTerminal
  <2>3. QED BY <1>3, <2>1, <2>2, OwnerCall DEF FinalizeObservation, OwnerStep
<1>4. CASE RenewBeforeSideEffect(i)
  <2>1. daemon[i].job \in Jobs
    BY <1>g, <1>4 DEF GoroutineOK, RenewBeforeSideEffect, At, JobStages
  <2>2. QED BY <1>4, <2>1, OwnerCall DEF RenewBeforeSideEffect, OwnerStep
<1>5. CASE AdoptStale(i)
  <2>1. daemon[i].job \in Jobs
    BY <1>g, <1>5 DEF GoroutineOK, AdoptStale, At, JobStages
  <2>2. QED
    BY <1>5, <1>s, <2>1, RecoverableHasOwner, RecoveryCall
    DEF AdoptStale, AdoptStaleRunningJob, RecoveryStep
<1>6. CASE MarkStaleUnknown(i)
  <2>1. daemon[i].job \in Jobs
    BY <1>g, <1>6 DEF GoroutineOK, MarkStaleUnknown, At, JobStages
  <2>2. QED
    BY <1>6, <1>s, <2>1, RecoverableHasOwner, RecoveryCall
    DEF MarkStaleUnknown, MarkStaleRunningJobUnknown, RecoveryStep
<1>7. CASE RecoverExpiredLeases(i)
  <2>1. daemon[i].active \in SUBSET Jobs
    BY <1>g DEF GoroutineOK, Reconcile
  <2>2. QED BY <1>7, <1>s, <2>1, RecoveryCall DEF RecoverExpiredLeases, RecoveryStep
<1>8. CASE PruneStaleHeartbeats(i)
  BY <1>8, <1>s, RecoveryCall DEF PruneStaleHeartbeats, RecoveryStep
<1>9. CASE Claim(i)
  BY <1>9, <1>s DEF Claim, ClientStep
<1>10. CASE Prepare(i) \/ PersistSpec(i) \/ FailLaunch(i)
  <2>1. daemon[i].job \in Jobs
    BY <1>g, <1>10 DEF GoroutineOK, Prepare, PersistSpec, FailLaunch, At, JobStages
  <2>2. {"failed", "skipped", "dead"} \subseteq Terminal
    BY DEF Terminal
  <2>3. QED
    BY <1>10, <2>1, <2>2, OwnerCall DEF Prepare, PersistSpec, FailLaunch, OwnerStep
<1>11. CASE MarkLaunching(i) \/ PersistRecord(i)
  <2>1. daemon[i].job \in Jobs /\ daemon[i].token \in Tokens
    BY <1>g, <1>11
    DEF GoroutineOK, MarkLaunching, PersistRecord, At, JobStages, TokenStages
  <2>2. jobs[daemon[i].job].token = daemon[i].token =>
          daemon[i].token \in 1..issued[daemon[i].job]
    <3>1. /\ jobs[daemon[i].job].token <= issued[daemon[i].job]
          /\ issued[daemon[i].job] \in Nat
      BY <2>1 DEF SupInvariant, TypeOK, RowInvariant, RowShape
    <3>2. QED BY <2>1, <3>1, ConstantsAssumption DEF Tokens
  <2>3. QED
    BY <1>11, <2>1, <2>2, OwnerCall
    DEF MarkLaunching, PersistRecord, MarkJobLaunchingOwned, PersistLaunchRecordOwned,
        OwnerStep
<1>12. QED
  BY <1>1, <1>2, <1>3, <1>4, <1>5, <1>6, <1>7, <1>8, <1>9, <1>10, <1>11 DEF ReconcileStep

(* So is a step of the main goroutine or its end. *)
LEMMA AroundIsClientStep ==
  ASSUME SupInvariant, NEW i \in Instances,
         Run(i) \/ StoreFault(i) \/ CancelFails(i) \/ Heartbeat(i) \/ Crash(i)
  PROVE  [ClientStep(i)]_storeVars
BY Samples DEF Run, StoreFault, CancelFails, Heartbeat, Crash, StoreIdle, ClientStep

(* Every step of the system is a step of the store's general client. *)
LEMMA SupStepIsStoreStep ==
  ASSUME SupInvariant, MaxTime <= MaxDelay, [SupNext]_supVars
  PROVE  [Next]_storeVars
<1>1. ASSUME NEW i \in Instances,
             Run(i) \/ StoreFault(i) \/ CancelFails(i) \/ Heartbeat(i) \/ Crash(i)
      PROVE  [Next]_storeVars
  BY <1>1, AroundIsClientStep, ClientStepIsStoreStep
<1>2. ASSUME NEW j \in Jobs, Enqueue(j) PROVE [Next]_storeVars
  BY <1>2 DEF Enqueue, Next
<1>3. ASSUME NEW j \in Jobs, NEW token \in Tokens,
             WriteMetadata(j, token) \/ WrapperEnds(j, token)
      PROVE  [Next]_storeVars
  BY <1>3 DEF WriteMetadata, WrapperEnds, StoreIdle
<1>4. CASE SlowTick
  BY <1>4 DEF SlowTick, Next
<1>5. CASE UNCHANGED supVars
  BY <1>5 DEF supVars
<1>6. QED
  BY <1>1, <1>2, <1>3, <1>4, <1>5, ReconcileIsClientStep, ClientStepIsStoreStep
  DEF SupNext, Surroundings

-----------------------------------------------------------------------------
(* What a goroutine remembers stays well formed *)

(* A step of a goroutine keeps all goroutines well formed. *)
LEMMA ReconcileKeepsDaemons ==
  ASSUME SupInvariant, NEW i \in Instances, ReconcileStep(i)
  PROVE  DaemonsOK'
<1> DEFINE d == daemon[i]
<1>g. GoroutineOK(d, clock) /\ d \in Reconcile /\ DaemonsOK /\ clock \in Nat
  BY DEF SupInvariant, DaemonsOK, GoroutineOK, TypeOK
<1>c. UNCHANGED clock
  BY DEF ReconcileStep, BeginReconcile, ReadMetadata, CheckProcess, ActOnObservation,
     FinalizeObservation, RenewBeforeSideEffect, ListStaleDurableRunningJobs, AdoptStale,
     MarkStaleUnknown, RecoverExpiredLeases, PruneStaleHeartbeats, Claim, NothingToClaim,
     Prepare, PersistSpec, MarkLaunching, Launch, PersistRecord, CancelWrapper, FailLaunch,
     StoreIdle, storeVars, RenewJobLease, FinalizeJobOwned, AdoptStaleRunningJob,
     MarkStaleRunningJobUnknown, ReleaseExpiredLeases, PruneStaleRunnerHeartbeats, ClaimJob,
     PersistLaunchSpecOwned, MarkJobLaunchingOwned, PersistLaunchRecordOwned
<1>w. ASSUME NEW e, GoroutineOK(e, clock), Become(i, e) PROVE DaemonsOK'
  BY <1>c, <1>g, <1>w, OneGoroutine
<1>r. \A j \in Jobs : jobs[j] \in Row /\ AbsentRow \in Row
  BY DEF SupInvariant, TypeOK, AbsentRow, Row, LaunchStates, NoTime, NoToken
<1>rest. ASSUME Become(i, Resting) PROVE DaemonsOK'
  <2>1. "idle" \in Stages \ JobStages /\ "due" \in {"due", "made"}
    BY DEF Stages, JobStages, TokenStages
  <2>2. d.rows \in [Jobs -> Row]
    BY <1>g DEF Reconcile
  <2>3. GoroutineOK(Resting, clock)
    BY <1>g, <2>1, <2>2, RestingOK
  <2>4. QED BY <1>rest, <1>w, <2>3
<1>go. ASSUME NEW stage \in Stages, GoTo(i, stage), stage # "finalActions",
              stage \in JobStages => d.stage \in JobStages,
              stage \in TokenStages => d.stage \in TokenStages
       PROVE  DaemonsOK'
  <2>1. GoroutineOK([d EXCEPT !.stage = stage], clock)
    BY <1>g, <1>go, StageOK
  <2>2. Become(i, [d EXCEPT !.stage = stage])
    BY <1>g, <1>go, GoToIsBecome
  <2>3. QED BY <1>w, <2>1, <2>2
<1> HIDE DEF d
<1>1. CASE BeginReconcile(i)
  <2> DEFINE rows == [j \in Jobs |-> IF IsRunning(j) /\ jobs[j].owner = i
                                     THEN jobs[j] ELSE AbsentRow]
  <2>1. rows \in [Jobs -> Row]
    BY <1>r
  <2>2. d.round \in {"due", "made"}
    BY <1>g DEF Reconcile
  <2> HIDE DEF rows
  <2>3. "observe" \in Stages \ JobStages
    BY DEF Stages, JobStages, TokenStages
  <2>4. GoroutineOK([Resting EXCEPT !.stage = "observe", !.round = d.round, !.rows = rows],
                    clock)
    BY <1>g, <2>1, <2>2, <2>3, RestingOK
  <2>5. Become(i, [Resting EXCEPT !.stage = "observe", !.round = d.round, !.rows = rows])
    BY <1>1 DEF BeginReconcile, d, rows
  <2>6. QED BY <1>w, <2>4, <2>5
<1>2. ASSUME NEW j \in Jobs, ReadMetadata(i, j) PROVE DaemonsOK'
  <2>1. d.stage \in {"observe", "verify", "reinspect"}
    BY <1>2 DEF ReadMetadata, d
  <2>2. CASE ~Durable(d.rows[j])
    <3>1. GoroutineOK(WithObservation(d, j, "unknown"), clock)
      BY <1>g, <2>1, WithObservationOK DEF Observations
    <3>2. QED BY <1>2, <1>w, <2>2, <3>1 DEF ReadMetadata, d
  <2>3. CASE Durable(d.rows[j]) /\ Reported(d.rows[j], j) # "none"
    <3>1. Reported(d.rows[j], j) \in Outcomes
      BY <2>3 DEF Reported, SupInvariant, WrappersOK
    <3>2. GoroutineOK(WithObservation(d, j, Reported(d.rows[j], j)), clock)
      BY <1>g, <2>1, <3>1, WithObservationOK DEF Observations
    <3>3. QED BY <1>2, <1>w, <2>3, <3>2 DEF ReadMetadata, d
  <2>4. CASE Durable(d.rows[j]) /\ Reported(d.rows[j], j) = "none"
    <3>1. Probing(d.stage) \in {"observeProbe", "verifyProbe", "reinspectProbe"}
      BY <2>1 DEF Probing
    <3>2. GoroutineOK([d EXCEPT !.stage = Probing(d.stage), !.job = j], clock)
      BY <1>g, <3>1 DEF GoroutineOK, Reconcile, Stages, JobStages, TokenStages
    <3>3. QED BY <1>2, <1>w, <2>4, <3>2 DEF ReadMetadata, d
  <2>5. QED BY <2>2, <2>3, <2>4
<1>3. CASE CheckProcess(i)
  <2>1. d.stage \in {"observeProbe", "verifyProbe", "reinspectProbe"}
    BY <1>3 DEF CheckProcess, d
  <2>2. d.job \in Jobs
    BY <1>g, <2>1 DEF GoroutineOK, JobStages
  <2>3. FromProcess(d.rows[d.job], d.job) \in Observations
    BY DEF FromProcess, Observations
  <2>4. GoroutineOK(WithObservation(d, d.job, FromProcess(d.rows[d.job], d.job)), clock)
    BY <1>g, <2>1, <2>2, <2>3, WithObservationOK
  <2>5. QED BY <1>3, <1>w, <2>4 DEF CheckProcess, d
<1>4. ASSUME NEW j \in Jobs, ActOnObservation(i, j) PROVE DaemonsOK'
  <2>1. d.stage \in {"observe", "verify"}
    BY <1>4 DEF ActOnObservation, d
  <2>2. \A obs \in Observations \cup {"none"} :
          [d.seen EXCEPT ![j] = obs] \in [Jobs -> Observations \cup {"none"}]
    BY <1>g DEF Reconcile
  <2> DEFINE done == [d EXCEPT !.seen[j] = "none"]
             finalize(outcome) == [done EXCEPT !.stage = "finalActions", !.back = d.stage,
                                               !.job = j, !.seen[j] = outcome]
  <2>3. GoroutineOK(done, clock)
    BY <1>g, <2>1, <2>2 DEF GoroutineOK, Reconcile, JobStages, TokenStages
  <2>4. ASSUME NEW outcome \in Outcomes PROVE GoroutineOK(finalize(outcome), clock)
    BY <1>g, <2>1, <2>2 DEF GoroutineOK, Reconcile, Stages, JobStages, TokenStages, Observations
  <2>5. \/ Become(i, done)
        \/ \E outcome \in Outcomes : Become(i, finalize(outcome))
    BY <1>4 DEF ActOnObservation, d, Outcomes
  <2>6. QED BY <1>w, <2>3, <2>4, <2>5
<1>5. CASE FinalizeObservation(i)
  <2> DEFINE seen == [d.seen EXCEPT ![d.job] = "none"]
             e == [d EXCEPT !.stage = d.back, !.seen = seen, !.job = NoJob]
  <2>1. d.job \in Jobs /\ d.back \in {"observe", "verify"}
    BY <1>g, <1>5 DEF GoroutineOK, FinalizeObservation, At, d, JobStages, Reconcile
  <2>2. seen \in [Jobs -> Observations \cup {"none"}]
    BY <1>g, <2>1 DEF Reconcile
  <2>3. Become(i, e)
    BY <1>5, <1>g DEF FinalizeObservation, d, Reconcile
  <2> HIDE DEF seen
  <2>4. d.back \in Stages \ JobStages /\ TokenStages \subseteq JobStages
    BY <2>1 DEF Stages, JobStages, TokenStages
  <2>5. e \in Reconcile
    BY <1>g, <2>2, <2>4 DEF Reconcile
  <2>6. e.stage = d.back /\ e.now = d.now
    BY <1>g DEF Reconcile
  <2>7. \A f \in Reconcile : f.stage \notin JobStages /\ f.now <= clock => GoroutineOK(f, clock)
    BY <2>4 DEF GoroutineOK, JobStages
  <2>8. d.now <= clock
    BY <1>g DEF GoroutineOK
  <2> HIDE DEF e
  <2>9. QED BY <1>w, <2>3, <2>4, <2>5, <2>6, <2>7, <2>8
<1>6. CASE RenewBeforeSideEffect(i)
  BY <1>6, <1>c, <1>g DEF RenewBeforeSideEffect, DaemonsOK
<1>7. CASE ListStaleDurableRunningJobs(i)
  <2> DEFINE rows == [j \in Jobs |-> IF Recoverable(j, clock) THEN jobs[j] ELSE AbsentRow]
             e == [d EXCEPT !.stage = "verify", !.back = "verify", !.now = clock,
                            !.rows = rows]
  <2>1. rows \in [Jobs -> Row]
    BY <1>r
  <2>2. Become(i, e)
    BY <1>7 DEF ListStaleDurableRunningJobs, d
  <2> HIDE DEF rows
  <2>3. /\ e \in Reconcile
        /\ e.stage = "verify" /\ e.now = clock
    BY <1>g, <2>1 DEF Reconcile, Stages
  <2> HIDE DEF e
  <2>4. GoroutineOK(e, clock)
    BY <1>g, <2>3 DEF GoroutineOK, JobStages, TokenStages
  <2>5. QED BY <1>w, <2>2, <2>4
<1>8. CASE AdoptStale(i) \/ MarkStaleUnknown(i)
  <2> DEFINE back == [d EXCEPT !.stage = "verify", !.rows[d.job] = AbsentRow, !.job = NoJob]
             on == [d EXCEPT !.stage = "reinspect"]
  <2>1. d.stage \in {"adopt", "giveUp"}
    BY <1>8 DEF AdoptStale, MarkStaleUnknown, At, d
  <2>2. d.job \in Jobs
    BY <1>g, <2>1 DEF GoroutineOK, JobStages
  <2>3. [d.rows EXCEPT ![d.job] = AbsentRow] \in [Jobs -> Row]
    BY <1>g, <1>r, <2>2 DEF Reconcile
  <2>4. GoroutineOK(back, clock)
    BY <1>g, <2>3 DEF GoroutineOK, Reconcile, Stages, JobStages, TokenStages
  <2>5. GoroutineOK(on, clock)
    BY <1>g, <2>2 DEF GoroutineOK, Reconcile, Stages, JobStages, TokenStages
  <2>6. Become(i, back) \/ Become(i, on)
    BY <1>8 DEF AdoptStale, MarkStaleUnknown, d
  <2>7. QED BY <1>w, <2>4, <2>5, <2>6
<1>9. CASE RecoverExpiredLeases(i) \/ PruneStaleHeartbeats(i)
  <2>1. CASE RecoverExpiredLeases(i)
    <3> DEFINE e == [d EXCEPT !.stage = "prune", !.now = clock]
    <3>1. Become(i, e)
      BY <2>1 DEF RecoverExpiredLeases, d
    <3>2. e \in Reconcile /\ e.stage = "prune" /\ e.now = clock
      BY <1>g DEF Reconcile, Stages
    <3> HIDE DEF e
    <3>3. GoroutineOK(e, clock)
      BY <1>g, <3>2 DEF GoroutineOK, JobStages, TokenStages
    <3>4. QED BY <1>w, <3>1, <3>3
  <2>2. CASE PruneStaleHeartbeats(i)
    BY <1>go, <2>2 DEF PruneStaleHeartbeats, Stages, JobStages, TokenStages
  <2>3. QED BY <1>9, <2>1, <2>2
<1>10. CASE Claim(i)
  <2>1. PICK j \in Jobs : Become(i, [d EXCEPT !.stage = "prepare", !.job = j])
    BY <1>10 DEF Claim, d
  <2>2. GoroutineOK([d EXCEPT !.stage = "prepare", !.job = j], clock)
    BY <1>g DEF GoroutineOK, Reconcile, Stages, JobStages, TokenStages
  <2>3. QED BY <1>w, <2>1, <2>2
<1>11. CASE NothingToClaim(i) \/ FailLaunch(i)
  BY <1>11, <1>rest DEF NothingToClaim, FailLaunch
<1>12. CASE Prepare(i)
  BY <1>12, <1>go DEF Prepare, At, d, Stages, JobStages, TokenStages
<1>13. CASE PersistSpec(i)
  <2>1. d.stage = "persistSpec" /\ d.job \in Jobs
    BY <1>g, <1>13 DEF PersistSpec, At, d, GoroutineOK, JobStages
  <2>2. CASE GoTo(i, "refill") \/ GoTo(i, "launchFailed")
    BY <1>go, <2>1, <2>2 DEF Stages, JobStages, TokenStages
  <2>3. CASE /\ PersistLaunchSpecOwned(i, d.job, clock)
             /\ Become(i, [d EXCEPT !.stage = "markLaunching", !.token = issued[d.job] + 1])
    <3>1. issued[d.job] \in Nat /\ issued[d.job] + 1 \in Tokens
      BY <2>1, <2>3, ConstantsAssumption
      DEF PersistLaunchSpecOwned, SupInvariant, TypeOK, Tokens
    <3>2. issued[d.job] + 1 \in Nat
      BY <3>1
    <3>3. GoroutineOK([d EXCEPT !.stage = "markLaunching", !.token = issued[d.job] + 1], clock)
      BY <1>g, <2>1, <3>1, <3>2 DEF GoroutineOK, Reconcile, Stages, JobStages, TokenStages
    <3>4. QED BY <1>w, <2>3, <3>3
  <2>4. QED BY <1>13, <2>2, <2>3 DEF PersistSpec, d
<1>14. CASE MarkLaunching(i) \/ Launch(i) \/ PersistRecord(i) \/ CancelWrapper(i)
  <2>1. d.stage \in TokenStages
    BY <1>14
    DEF MarkLaunching, Launch, PersistRecord, CancelWrapper, At, d, TokenStages
  <2>2. \E stage \in {"launch", "refill", "persistRecord", "launchFailed", "cleanup"} :
          GoTo(i, stage)
    BY <1>14 DEF MarkLaunching, Launch, PersistRecord, CancelWrapper
  <2>3. QED BY <1>go, <2>1, <2>2 DEF Stages, JobStages
<1>15. QED
  BY <1>1, <1>2, <1>3, <1>4, <1>5, <1>6, <1>7, <1>8, <1>9, <1>10, <1>11, <1>12, <1>13, <1>14
  DEF ReconcileStep

(* So does everything that happens around the goroutines. *)
LEMMA SupKeepsDaemons ==
  ASSUME SupInvariant, [SupNext]_supVars
  PROVE  DaemonsOK'
<1>g. DaemonsOK /\ clock \in Nat
  BY DEF SupInvariant, TypeOK
<1>n. AbsentRow \in Row /\ [j \in Jobs |-> AbsentRow] \in [Jobs -> Row]
  BY DEF AbsentRow, Row, LaunchStates, NoTime, NoToken
<1>s. "idle" \in Stages \ JobStages /\ "down" \in Stages \ JobStages
  BY DEF Stages, JobStages, TokenStages
<1>1. ASSUME NEW i \in Instances, Run(i) PROVE DaemonsOK'
  <2>1. GoroutineOK([Resting EXCEPT !.round = "due"], clock)
    BY <1>g, <1>n, <1>s, RestingOK
  <2>2. Become(i, [Resting EXCEPT !.round = "due"]) /\ UNCHANGED clock
    BY <1>1 DEF Run, HeartbeatRunner
  <2>3. QED BY <1>g, <2>1, <2>2, OneGoroutine
<1>2. ASSUME NEW i \in Instances, StoreFault(i) \/ CancelFails(i) PROVE DaemonsOK'
  <2>c. UNCHANGED clock
    BY <1>2 DEF StoreFault, CancelFails, StoreIdle, storeVars
  <2>1. CASE Become(i, Resting)
    <3>1. GoroutineOK(Resting, clock)
      BY <1>g, <1>n, <1>s, RestingOK
    <3>2. QED BY <1>g, <2>c, <2>1, <3>1, OneGoroutine
  <2>2. CASE \/ At(i, "persistRecord") /\ GoTo(i, "compensate")
             \/ At(i, "cleanup") /\ GoTo(i, "refill")
    <3>1. PICK stage \in {"compensate", "refill"} :
            GoTo(i, stage) /\ daemon[i].stage \in TokenStages
      BY <2>2 DEF At, TokenStages
    <3>2. GoroutineOK([daemon[i] EXCEPT !.stage = stage], clock)
      BY <1>g, <3>1, StageOK DEF DaemonsOK, Stages, JobStages
    <3>3. QED BY <1>g, <2>c, <3>1, <3>2, GoToIsBecome, OneGoroutine
  <2>3. QED BY <1>2, <2>1, <2>2 DEF StoreFault, CancelFails
<1>3. ASSUME NEW i \in Instances, Crash(i) PROVE DaemonsOK'
  <2>1. GoroutineOK([Resting EXCEPT !.stage = "down"], clock)
    BY <1>g, <1>n, <1>s, RestingOK
  <2>2. Become(i, [Resting EXCEPT !.stage = "down"]) /\ UNCHANGED clock
    BY <1>3 DEF Crash, StoreIdle, storeVars
  <2>3. QED BY <1>g, <2>1, <2>2, OneGoroutine
<1>4. CASE UNCHANGED <<daemon, clock>>
  BY <1>4, <1>g DEF DaemonsOK
<1>5. CASE SlowTick
  <2>1. clock' \in Nat /\ clock <= clock' /\ clock' <= MaxTime /\ daemon' = daemon
    BY <1>5, <1>g, ConstantsAssumption DEF SlowTick, Tick
  <2>2. \A i \in Instances : daemon[i].now \in Nat
    BY <1>g DEF DaemonsOK, Reconcile
  <2>3. \A i \in Instances : GoroutineOK(daemon[i], clock')
    BY <1>g, <2>1, <2>2 DEF DaemonsOK, GoroutineOK
  <2>4. QED BY <1>g, <2>1, <2>3 DEF DaemonsOK
<1>6. ASSUME NEW i \in Instances, Heartbeat(i) PROVE DaemonsOK'
  BY <1>4, <1>6 DEF Heartbeat, HeartbeatRunner
<1>7. ASSUME NEW j \in Jobs, Enqueue(j) PROVE DaemonsOK'
  BY <1>4, <1>7 DEF Enqueue, EnqueueJob
<1>8. ASSUME NEW j \in Jobs, NEW token \in Tokens,
             WriteMetadata(j, token) \/ WrapperEnds(j, token)
      PROVE  DaemonsOK'
  BY <1>4, <1>8 DEF WriteMetadata, WrapperEnds, StoreIdle, storeVars
<1>9. CASE UNCHANGED supVars
  BY <1>4, <1>9 DEF supVars, storeVars
<1>10. QED
  BY <1>1, <1>2, <1>3, <1>5, <1>6, <1>7, <1>8, <1>9, ReconcileKeepsDaemons
  DEF SupNext, Surroundings

-----------------------------------------------------------------------------
(* The wrappers *)

(* Tokens of live processes are tokens that were drawn, reports are outcomes. *)
LEMMA SupKeepsWrappers ==
  ASSUME SupInvariant, [SupNext]_supVars
  PROVE  WrappersOK'
<1>g. WrappersOK /\ clock \in Nat
  BY DEF SupInvariant, TypeOK
<1>b. MaxSuspends \in Nat /\ MaxFaults \in Nat
  BY SupervisionAssumption
<1>1. CASE UNCHANGED <<processes, metadata, startedAt, suspends, faults>>
  BY <1>1, <1>g DEF WrappersOK
<1>2. ASSUME NEW i \in Instances, ReconcileStep(i) PROVE WrappersOK'
  <2>g. GoroutineOK(daemon[i], clock)
    BY DEF SupInvariant, DaemonsOK
  <2>1. CASE Launch(i)
    <3>1. daemon[i].job \in Jobs /\ daemon[i].token \in Tokens
      BY <2>g, <2>1 DEF Launch, At, GoroutineOK, JobStages, TokenStages
    <3>2. UNCHANGED <<metadata, startedAt, suspends, faults>>
      BY <2>1 DEF Launch, StoreIdle, boundVars
    <3>3. processes' \in [Jobs -> SUBSET Tokens]
      BY <1>g, <2>1, <3>1 DEF Launch, WrappersOK
    <3>4. QED BY <1>g, <3>2, <3>3 DEF WrappersOK
  <2>2. CASE CancelWrapper(i)
    <3>1. daemon[i].job \in Jobs /\ daemon[i].token \in Tokens
      BY <2>g, <2>2 DEF CancelWrapper, GoroutineOK, JobStages, TokenStages
    <3>2. UNCHANGED <<startedAt, suspends, faults>>
      BY <2>2 DEF CancelWrapper, StoreIdle, boundVars
    <3>3. processes' \in [Jobs -> SUBSET Tokens]
      BY <1>g, <2>2, <3>1 DEF CancelWrapper, WrappersOK
    <3>4. metadata' \in [Jobs -> [Tokens -> Outcomes \cup {"none"}]]
      <4>1. PICK outcome \in Outcomes \cup {"none"} :
              \/ metadata' = metadata
              \/ metadata' = [metadata EXCEPT ![daemon[i].job][daemon[i].token] = outcome]
        BY <2>2 DEF CancelWrapper, Outcomes
      <4>2. QED BY <1>g, <3>1, <4>1 DEF WrappersOK
    <3>5. QED BY <1>g, <3>2, <3>3, <3>4 DEF WrappersOK
  <2>3. CASE Claim(i)
    <3>1. UNCHANGED <<processes, metadata, suspends, faults>>
      BY <2>3 DEF Claim, wrapperVars, boundVars
    <3>2. startedAt' \in [Jobs -> Nat \cup {NoTime}]
      BY <1>g, <2>3 DEF Claim, WrappersOK
    <3>3. QED BY <1>g, <3>1, <3>2 DEF WrappersOK
  <2>4. CASE ~(Launch(i) \/ CancelWrapper(i) \/ Claim(i))
    BY <1>1, <1>2, <2>4
    DEF ReconcileStep, BeginReconcile, ReadMetadata, CheckProcess, ActOnObservation,
      FinalizeObservation, RenewBeforeSideEffect, ListStaleDurableRunningJobs, AdoptStale,
      MarkStaleUnknown, RecoverExpiredLeases, PruneStaleHeartbeats, NothingToClaim,
      Prepare, PersistSpec, MarkLaunching, PersistRecord, FailLaunch,
      StoreIdle, wrapperVars, boundVars
  <2>5. QED BY <2>1, <2>2, <2>3, <2>4
<1>3. ASSUME NEW i \in Instances, StoreFault(i) \/ CancelFails(i) PROVE WrappersOK'
  <2>1. UNCHANGED <<processes, metadata, startedAt, suspends>>
    BY <1>3 DEF StoreFault, CancelFails, StoreIdle, wrapperVars
  <2>2. faults' \in 0..MaxFaults
    BY <1>3, <1>b, <1>g DEF StoreFault, CancelFails, WrappersOK
  <2>3. QED BY <1>g, <2>1, <2>2 DEF WrappersOK
<1>4. ASSUME NEW i \in Instances, Run(i) \/ Heartbeat(i) \/ Crash(i) PROVE WrappersOK'
  BY <1>1, <1>4 DEF Run, Heartbeat, Crash, StoreIdle, wrapperVars, boundVars
<1>5. ASSUME NEW j \in Jobs, Enqueue(j) PROVE WrappersOK'
  BY <1>1, <1>5 DEF Enqueue, wrapperVars, boundVars
<1>6. ASSUME NEW j \in Jobs, NEW token \in Tokens, WriteMetadata(j, token)
      PROVE  WrappersOK'
  <2>1. UNCHANGED <<processes, startedAt, suspends, faults>>
    BY <1>6 DEF WriteMetadata, StoreIdle, boundVars
  <2>2. Reports \subseteq Outcomes
    BY SupervisionAssumption DEF Outcomes
  <2>3. metadata' \in [Jobs -> [Tokens -> Outcomes \cup {"none"}]]
    BY <1>g, <1>6, <2>2 DEF WriteMetadata, WrappersOK
  <2>4. QED BY <1>g, <2>1, <2>3 DEF WrappersOK
<1>7. ASSUME NEW j \in Jobs, NEW token \in Tokens, WrapperEnds(j, token)
      PROVE  WrappersOK'
  <2>1. UNCHANGED <<metadata, startedAt, suspends, faults>>
    BY <1>7 DEF WrapperEnds, StoreIdle, boundVars
  <2>2. processes' \in [Jobs -> SUBSET Tokens]
    BY <1>g, <1>7 DEF WrapperEnds, WrappersOK
  <2>3. QED BY <1>g, <2>1, <2>2 DEF WrappersOK
<1>8. CASE SlowTick \/ UNCHANGED supVars
  BY <1>1, <1>8 DEF SlowTick, supVars, wrapperVars, boundVars
<1>9. QED
  BY <1>2, <1>3, <1>4, <1>5, <1>6, <1>7, <1>8 DEF SupNext, Surroundings

-----------------------------------------------------------------------------
(* The theorems *)

(* The daemons start from a state of the invariant. *)
LEMMA SupInitOK == SupInit => SupInvariant
<1> SUFFICES ASSUME SupInit PROVE SupInvariant
  OBVIOUS
<1>1. TypeOK
  BY DEF SupInit, Init, AbsentRow, TypeOK, Row, Terminal, LaunchStates, NoTime, NoToken
<1>2. RowInvariant
  BY DEF SupInit, Init, AbsentRow, RowInvariant, RowShape, LaunchedOnce, IsRunning,
     NoTime, NoToken
<1>3. DaemonsOK
  <2>1. AbsentRow \in Row /\ [j \in Jobs |-> AbsentRow] \in [Jobs -> Row]
    BY DEF AbsentRow, Row, LaunchStates, NoTime, NoToken
  <2>2. "new" \in Stages \ JobStages /\ "due" \in {"due", "made"}
    BY DEF Stages, JobStages, TokenStages
  <2>3. clock = 0 /\ daemon = [i \in Instances |-> [Resting EXCEPT !.stage = "new"]]
    BY DEF SupInit, Init, DaemonsInit
  <2>4. GoroutineOK([Resting EXCEPT !.stage = "new"], 0)
    BY <2>1, <2>2, RestingOK
  <2>5. [Resting EXCEPT !.stage = "new"] \in Reconcile
    BY <2>4 DEF GoroutineOK
  <2>6. QED BY <2>3, <2>4, <2>5, ConstantsAssumption DEF DaemonsOK
<1>4. WrappersOK
  BY SupervisionAssumption DEF SupInit, DaemonsInit, WrappersOK
<1>5. QED BY <1>1, <1>2, <1>3, <1>4 DEF SupInvariant

(* What a daemon does to the tables is what the store's general client may do: *)
(* the composed system implements JobStore.  The assumption says that a pass   *)
(* may be held up for as long as the model's clock runs.                       *)
THEOREM DaemonsImplementStore ==
  ASSUME MaxTime <= MaxDelay
  PROVE  SupSpec => DaemonsAreStoreClients
<1>1. SupInvariant /\ [SupNext]_supVars => SupInvariant'
  <2> SUFFICES ASSUME SupInvariant, [SupNext]_supVars PROVE SupInvariant'
    OBVIOUS
  <2>1. [Next]_storeVars
    BY SupStepIsStoreStep
  <2>2. TypeOK' /\ RowInvariant'
    BY <2>1, TypeStep, RowsStep DEF SupInvariant
  <2>3. QED BY <2>2, SupKeepsDaemons, SupKeepsWrappers DEF SupInvariant
<1>2. SupInvariant /\ [SupNext]_supVars => [Next]_storeVars
  BY SupStepIsStoreStep
<1>3. SupInit => Init
  BY DEF SupInit
<1>4. QED
  BY <1>1, <1>2, <1>3, SupInitOK, PTL DEF SupSpec, DaemonsAreStoreClients

(* The state of the daemons, the wrappers and the tables is well typed. *)
THEOREM SupTypeCorrect ==
  ASSUME MaxTime <= MaxDelay
  PROVE  SupSpec => []SupTypeOK
<1>1. SupInvariant => SupTypeOK
  BY DEF SupInvariant, DaemonsOK, WrappersOK, SupTypeOK
<1>2. SupInvariant /\ [SupNext]_supVars => SupInvariant'
  <2> SUFFICES ASSUME SupInvariant, [SupNext]_supVars PROVE SupInvariant'
    OBVIOUS
  <2>1. [Next]_storeVars
    BY SupStepIsStoreStep
  <2>2. TypeOK' /\ RowInvariant'
    BY <2>1, TypeStep, RowsStep DEF SupInvariant
  <2>3. QED BY <2>2, SupKeepsDaemons, SupKeepsWrappers DEF SupInvariant
<1>3. QED BY <1>1, <1>2, SupInitOK, PTL DEF SupSpec

(* The safety of the tables, of the daemons: however their passes interleave,  *)
(* crash and fail, no job is launched twice, the limits hold, and a stale row  *)
(* is in the hands of exactly one recovery path.                               *)
THEOREM DaemonsAreSafe ==
  ASSUME MaxTime <= MaxDelay
  PROVE  SupSpec => [](LaunchedOnce /\ CapacityRespected /\ NoOrphan)
<1>1. DaemonsAreStoreClients => Spec
  BY DEF DaemonsAreStoreClients, Spec
<1>2. QED
  BY <1>1, DaemonsImplementStore, LaunchesAreUnique, CapacityHolds, NothingIsOrphaned, PTL

=============================================================================
