----------------------------- MODULE WaveProofs -----------------------------
(***************************************************************************)
(* What TLAPS proves of Wave, for any number of jobs and of runners, any of *)
(* which may be waves: a wave is a client of the store, one that returned   *)
(* leaves no lease behind, and no wave, however it fails or is signalled,   *)
(* leaves a wrapper at work without its running row.                        *)
(***************************************************************************)
EXTENDS Wave, LaunchProofs

WavesTyped == wave \in [Instances -> Waving]

\* Recovery gives up on a row once its lease is over, and then nobody renews it.
UnknownIsExpired == \A j \in Jobs : jobs[j].launchState = "unknown" => LeaseExpired(j, clock)

\* The stages of a wave before an error or a signal, and after its end.
Underway == {"new", "preflight", "top", "reap", "refill", "sleep", "returned"}

\* Goroutine i is at the claim or at the launch of job j.
InHand(i, j) == daemon[i].stage \in RelyingStages /\ daemon[i].job = j

\* Every lease of wave i is one of an active job or of the one in hand.
Accounted(i, j) == LeaseGone(i, j) \/ j \in wave[i].active \/ InHand(i, j)

\* The row in hand is as the launch left it, unless recovery gave up on it.
HandKept(i, j) ==
  daemon[i].job = j /\ Mine(i, j) =>
    /\ daemon[i].stage = "markLaunching" => jobs[j].token = daemon[i].token
    /\ daemon[i].stage \in {"launch", "persistRecord"} =>
         jobs[j].launchState \in {"launching", "unknown"}
    /\ daemon[i].stage = "cleanup" => LeaseGone(i, j)

\* A row that the wave listed and did not find launched is one given up on.
ListedOK(i, j) ==
  daemon[i].rows[j] # AbsentRow /\ ~Durable(daemon[i].rows[j]) =>
    jobs[j].launchState = "unknown"

WaveJobOK(i, j) ==
  /\ j \in wave[i].active => launches[j] # {}
  /\ ListedOK(i, j)
  /\ HandKept(i, j)
  /\ wave[i].stage \in Underway /\ daemon[i].stage # "idle" => Accounted(i, j)

WaveOK(i) ==
  /\ wave[i].stage \in {"new", "preflight", "returned"} => wave[i].active = {}
  /\ wave[i].stage = "returned" => At(i, "down")
  /\ At(i, "new") => wave[i].stage = "new"

(* The inductive invariant of waves among daemons. *)
WaveInvariant ==
  /\ SupInvariant
  /\ LaunchInvariant
  /\ WavesTyped
  /\ UnknownIsExpired
  /\ \A i \in Waves : WaveOK(i) /\ \A j \in Jobs : WaveJobOK(i, j)

-----------------------------------------------------------------------------
(* Every step is a step of one client of the store *)

LEMMA WavesAreInstances == \A i \in Waves : i \in Instances
BY WaveAssumption

\* The steps of Wave that Supervision has as well.
LEMMA SupervisedSteps ==
  ASSUME NEW i \in Instances,
         Preflight(i) \/ WaveInspect(i) \/ EndActive(i) \/ LaunchInFrontier(i)
  PROVE  ReconcileStep(i) \/ CancelFails(i)
BY DEF Preflight, WaveInspect, EndActive, LaunchInFrontier, ReconcileStep, Listed

\* Steps between two calls, and of calls that say nothing of jobs.
WaveRests(i) ==
  \/ WaveRun(i) \/ ListEligibleJobIDs(i) \/ WaveHeartbeat(i) \/ EndReap(i) \/ EndRefill(i)
  \/ WakeUp(i) \/ WaveError(i) \/ EndCancel(i) \/ GiveUpCancelling(i)

LEMMA RestingSteps ==
  ASSUME NEW i \in Instances, WaveRests(i)
  PROVE  /\ UNCHANGED <<jobs, clock, launches, startedAt, processes, metadata, suspends, faults>>
         /\ \/ UNCHANGED daemon
            \/ \E stage \in {"verify", "refill", "down"} :
                 Become(i, [Resting EXCEPT !.stage = stage])
<1>1. \A how : Exited(i, how) => Become(i, [Resting EXCEPT !.stage = "down"])
  BY DEF Exited
<1>2. Between(i) => Become(i, [Resting EXCEPT !.stage = "refill"])
  BY DEF Between
<1>3. CASE WaveRun(i) \/ WaveHeartbeat(i)
  BY <1>1, <1>3 DEF WaveRun, WaveHeartbeat, HeartbeatRunner, storeVars, wrapperVars, boundVars
<1>4. CASE WakeUp(i)
  BY <1>4 DEF WakeUp, StoreIdle, storeVars, wrapperVars, boundVars
<1>5. CASE ListEligibleJobIDs(i)
  BY <1>1, <1>5 DEF ListEligibleJobIDs, StoreIdle, storeVars, wrapperVars, boundVars
<1>6. CASE EndReap(i) \/ EndRefill(i) \/ WaveError(i) \/ EndCancel(i) \/ GiveUpCancelling(i)
  <2>1. UNCHANGED <<jobs, clock, launches, startedAt, processes, metadata, suspends, faults>>
    BY <1>6 DEF EndReap, EndRefill, WaveError, EndCancel, GiveUpCancelling, StoreIdle,
       storeVars, wrapperVars, boundVars
  <2>2. Between(i) \/ \E how : Exited(i, how)
    BY <1>6 DEF EndReap, EndRefill, WaveError, EndCancel, GiveUpCancelling
  <2>3. QED BY <1>1, <1>2, <2>1, <2>2
<1>7. QED BY <1>3, <1>4, <1>5, <1>6 DEF WaveRests

\* A step of a wave uses the store as its runner.
LEMMA WaveStepIsClientStep ==
  ASSUME SupInvariant, WavesTyped, MaxTime <= MaxDelay, NEW i \in Instances,
         WaveStep(i) \/ WaveDisturbed(i)
  PROVE  [ClientStep(i)]_storeVars
<1>g. GoroutineOK(daemon[i], clock)
  BY DEF SupInvariant, DaemonsOK
<1>1. CASE \/ Preflight(i) \/ WaveInspect(i) \/ EndActive(i) \/ LaunchInFrontier(i) \/ Crash(i)
  BY <1>1, SupervisedSteps, ReconcileIsClientStep, AroundIsClientStep
<1>2. CASE WaveRun(i) \/ WaveHeartbeat(i)
  BY <1>2 DEF WaveRun, WaveHeartbeat, ClientStep
<1>3. CASE \/ ListEligibleJobIDs(i) \/ ListActive(i) \/ (\E j \in Jobs : LeaveActive(i, j))
           \/ EndReap(i) \/ EndRefill(i) \/ WakeUp(i) \/ WaveError(i) \/ EndCancel(i)
           \/ CallFails(i) \/ GiveUpCancelling(i)
  BY <1>3 DEF ListEligibleJobIDs, ListActive, LeaveActive, EndReap, EndRefill, WakeUp,
     WaveError, EndCancel, CallFails, GiveUpCancelling, StoreIdle
<1>4. ASSUME NEW j \in Jobs, KeepActive(i, j) \/ FinalizeActive(i, j)
      PROVE  [ClientStep(i)]_storeVars
  BY <1>4, OwnerCall DEF KeepActive, FinalizeActive, OwnerStep
<1>5. CASE ClaimInFrontier(i)
  <2>1. wave[i].frontier \in SUBSET Jobs
    BY DEF WavesTyped, Waving
  <2>2. PICK j \in Jobs : ClaimJob(i, j, wave[i].frontier, clock)
    BY <1>5 DEF ClaimInFrontier
  <2>3. j \in wave[i].frontier
    BY <2>2 DEF ClaimJob, Claimable
  <2>4. QED BY <2>1, <2>2, <2>3 DEF ClientStep
<1>6. CASE FailFrontierLaunch(i)
  <2>1. daemon[i].job \in Jobs
    BY <1>g, <1>6 DEF GoroutineOK, FailFrontierLaunch, At, JobStages
  <2>2. {"failed", "cancelled"} \subseteq Terminal
    BY DEF Terminal
  <2>3. QED BY <1>6, <2>1, <2>2, OwnerCall DEF FailFrontierLaunch, OwnerStep
<1>7. CASE CancelActive(i)
  <2>1. "cancelled" \in Terminal /\ Listed(i) \subseteq Jobs
    BY DEF Terminal, Listed
  <2>2. QED BY <1>7, <2>1, OwnerCall DEF CancelActive, OwnerStep
<1>8. QED
  BY <1>1, <1>2, <1>3, <1>4, <1>5, <1>6, <1>7 DEF WaveStep, WaveDisturbed

\* So do the daemons around the waves.
LEMMA AroundTheWavesSteps ==
  ASSUME [WaveNext]_waveVars
  PROVE  \/ \E i \in Waves : WaveStep(i) \/ WaveDisturbed(i)
         \/ /\ UNCHANGED wave
            /\ \/ \E i \in Instances \ Waves : ReconcileStep(i) \/ Run(i) \/ Heartbeat(i)
               \/ Elsewhere
BY DEF WaveNext, AroundTheWaves, Elsewhere, waveVars

LEMMA WaveStepIsStoreStep ==
  ASSUME SupInvariant, WavesTyped, MaxTime <= MaxDelay, [WaveNext]_waveVars
  PROVE  [Next]_storeVars
<1>1. ASSUME NEW i \in Waves, WaveStep(i) \/ WaveDisturbed(i) PROVE [Next]_storeVars
  BY <1>1, WavesAreInstances, WaveStepIsClientStep, ClientStepIsStoreStep
<1>2. ASSUME NEW i \in Instances, ReconcileStep(i) \/ Run(i) \/ Heartbeat(i)
      PROVE  [Next]_storeVars
  BY <1>2, ReconcileIsClientStep, AroundIsClientStep, ClientStepIsStoreStep
<1>3. CASE Elsewhere
  BY <1>3, ElsewhereIsSupStep, SupStepIsStoreStep
<1>4. QED BY <1>1, <1>2, <1>3, AroundTheWavesSteps

-----------------------------------------------------------------------------
(* The goroutines and the wrappers stay well formed *)

\* The calls that are not Supervision's and that do something to a job.
WaveCalls(i) ==
  \/ ListActive(i) \/ (\E j \in Jobs : KeepActive(i, j) \/ FinalizeActive(i, j) \/ LeaveActive(i, j))
  \/ ClaimInFrontier(i) \/ FailFrontierLaunch(i) \/ CancelActive(i) \/ CallFails(i)

LEMMA KindsOfSteps ==
  ASSUME NEW i \in Instances, WaveStep(i) \/ WaveDisturbed(i)
  PROVE  \/ Preflight(i) \/ WaveInspect(i) \/ EndActive(i) \/ LaunchInFrontier(i)
         \/ WaveRests(i) \/ WaveCalls(i)
         \/ Crash(i) /\ wave' = [wave EXCEPT ![i] = [NotWaving EXCEPT !.stage = "killed"]]
BY DEF WaveStep, WaveDisturbed, WaveRests, WaveCalls

\* The wrapper of j with this token is told to end.
ToldToEnd(j, token) ==
  /\ processes' = [processes EXCEPT ![j] = @ \ {token}]
  /\ IF token \in processes[j] /\ metadata[j][token] = "none"
     THEN \E outcome \in {"cancelled", "none"} :
            metadata' = [metadata EXCEPT ![j][token] = outcome]
     ELSE UNCHANGED metadata

\* None of them moves the clock, gives a permission, or starts a wrapper.
LEMMA CallsStartNothing ==
  ASSUME SupInvariant, NEW i \in Instances, WaveCalls(i)
  PROVE  StartsNothing /\ clock' = clock /\ UNCHANGED <<suspends, faults>>
<1>u. UNCHANGED wrapperVars => WrappersEndOrReport
  BY DEF wrapperVars, WrappersEndOrReport
<1>1. CASE ListActive(i) \/ CallFails(i) \/ \E j \in Jobs : LeaveActive(i, j)
  BY <1>1, <1>u DEF ListActive, CallFails, LeaveActive, StoreIdle, storeVars, boundVars,
     StartsNothing
<1>2. CASE \E j \in Jobs : KeepActive(i, j) \/ FinalizeActive(i, j)
  BY <1>2, <1>u DEF KeepActive, FinalizeActive, RenewJobLease, storeVars, boundVars,
     StartsNothing
<1>3. CASE ClaimInFrontier(i)
  BY <1>3, <1>u DEF ClaimInFrontier, ClaimJob, boundVars, StartsNothing
<1>4. CASE FailFrontierLaunch(i)
  BY <1>4, <1>u DEF FailFrontierLaunch, FinalizeJobOwned, storeVars, boundVars, StartsNothing
<1>5. CASE CancelActive(i)
  <2>1. UNCHANGED <<clock, launches, suspends, faults>>
    BY <1>5 DEF CancelActive, FinalizeJobOwned, storeVars, boundVars
  <2>2. WrappersEndOrReport
    <3>1. PICK j \in Listed(i) : UNCHANGED wrapperVars \/ ToldToEnd(j, daemon[i].rows[j].token)
      BY <1>5 DEF CancelActive, ToldToEnd
    <3>2. j \in Jobs
      BY DEF Listed
    <3>3. QED BY <1>u, <3>1, <3>2, CancelEndsOrReports DEF ToldToEnd
  <2>3. QED BY <2>1, <2>2 DEF StartsNothing
<1>6. QED BY <1>1, <1>2, <1>3, <1>4, <1>5 DEF WaveCalls

LEMMA CallsKeepDaemons ==
  ASSUME SupInvariant, NEW i \in Instances, WaveCalls(i)
  PROVE  DaemonsOK'
<1> DEFINE d == daemon[i]
<1>g. /\ GoroutineOK(d, clock) /\ d \in Reconcile /\ DaemonsOK /\ clock \in Nat
      /\ jobs \in [Jobs -> Row] /\ AbsentRow \in Row
  BY DEF SupInvariant, DaemonsOK, GoroutineOK, TypeOK, AbsentRow, Row, LaunchStates, NoTime,
     NoToken
<1>w. ASSUME NEW e, GoroutineOK(e, clock), Become(i, e) PROVE DaemonsOK'
  BY <1>g, <1>w, CallsStartNothing, OneGoroutine
<1>rest. Become(i, Resting) => DaemonsOK'
  <2>1. "idle" \in Stages \ JobStages /\ [j \in Jobs |-> AbsentRow] \in [Jobs -> Row]
    BY <1>g DEF Stages, JobStages, TokenStages
  <2>2. GoroutineOK(Resting, clock)
    BY <1>g, <2>1, RestingOK
  <2>3. QED BY <1>w, <2>2
<1>go. ASSUME NEW stage \in {"compensate", "launchFailed"}, GoTo(i, stage),
              d.stage \in TokenStages
       PROVE  DaemonsOK'
  <2>1. GoroutineOK([d EXCEPT !.stage = stage], clock)
    BY <1>g, <1>go, StageOK DEF Stages, JobStages, TokenStages
  <2>2. Become(i, [d EXCEPT !.stage = stage])
    BY <1>g, <1>go, GoToIsBecome
  <2>3. QED BY <1>w, <2>1, <2>2
\* A goroutine between the observations it has made.
<1>seen. ASSUME d.stage = "observe", NEW e \in Reconcile, Become(i, e),
                e.stage = "observe", e.now = d.now
         PROVE  DaemonsOK'
  BY <1>g, <1>w, <1>seen DEF GoroutineOK, JobStages, TokenStages
<1>1. CASE ListActive(i)
  <2> DEFINE rows == [j \in Jobs |-> IF j \in OwnedActive(i) THEN jobs[j] ELSE AbsentRow]
  <2>1. rows \in [Jobs -> Row] /\ "observe" \in Stages \ JobStages
    BY <1>g DEF Stages, JobStages, TokenStages
  <2>2. Become(i, [Resting EXCEPT !.stage = "observe", !.rows = rows])
    BY <1>1 DEF ListActive
  <2> HIDE DEF rows
  <2>3. Resting.round = "made" /\ Resting \in Reconcile
    BY RestingType DEF Resting
  <2>4. [Resting EXCEPT !.stage = "observe", !.round = "made", !.rows = rows] =
          [Resting EXCEPT !.stage = "observe", !.rows = rows]
    BY <2>3 DEF Reconcile
  <2>5. GoroutineOK([Resting EXCEPT !.stage = "observe", !.round = "made", !.rows = rows], clock)
    BY <1>g, <2>1, RestingOK
  <2>6. QED BY <1>w, <2>2, <2>4, <2>5
<1>2. ASSUME NEW j \in Jobs, KeepActive(i, j) \/ LeaveActive(i, j) PROVE DaemonsOK'
  <2>1. d.stage = "observe" /\ Become(i, [d EXCEPT !.seen[j] = "none"])
    BY <1>2 DEF KeepActive, LeaveActive, At
  <2>2. PICK e : e = [d EXCEPT !.seen[j] = "none"]
    OBVIOUS
  <2>3. e \in Reconcile /\ e.stage = "observe" /\ e.now = d.now
    BY <1>g, <2>1, <2>2 DEF Reconcile
  <2>4. QED BY <1>seen, <2>1, <2>2, <2>3
<1>3. ASSUME NEW j \in Jobs, FinalizeActive(i, j) PROVE DaemonsOK'
  <2>1. PICK outcome \in Outcomes :
          Become(i, [d EXCEPT !.stage = "finalActions", !.back = "observe", !.job = j,
                              !.seen[j] = outcome])
    BY <1>3 DEF FinalizeActive, Outcomes
  <2>2. PICK e : e = [d EXCEPT !.stage = "finalActions", !.back = "observe", !.job = j,
                               !.seen[j] = outcome]
    OBVIOUS
  <2>3. [d.seen EXCEPT ![j] = outcome] \in [Jobs -> Observations \cup {"none"}]
    BY <1>g DEF Reconcile, Observations
  <2>4. /\ e \in Reconcile /\ e.now = d.now /\ e.stage = "finalActions" /\ e.job = j
        /\ e.seen = [d.seen EXCEPT ![j] = outcome]
    BY <1>g, <2>2, <2>3 DEF Reconcile, Stages
  <2>5. e.seen[j] = outcome
    BY <1>g, <2>4 DEF Reconcile
  <2>6. GoroutineOK(e, clock)
    BY <1>g, <2>4, <2>5 DEF GoroutineOK, TokenStages
  <2>7. QED BY <1>w, <2>1, <2>2, <2>6
<1>4. CASE ClaimInFrontier(i)
  <2>1. PICK j \in Jobs : Become(i, [d EXCEPT !.job = j, !.stage = "prepare"])
    BY <1>4 DEF ClaimInFrontier
  <2>2. GoroutineOK([d EXCEPT !.job = j, !.stage = "prepare"], clock)
    BY <1>g DEF GoroutineOK, Reconcile, Stages, TokenStages
  <2>3. QED BY <1>w, <2>1, <2>2
<1>5. CASE FailFrontierLaunch(i)
  BY <1>5, <1>rest DEF FailFrontierLaunch
<1>6. CASE CancelActive(i)
  <2>1. PICK j \in Jobs :
          /\ d.stage = "observe"
          /\ UNCHANGED <<clock, daemon>> \/ Become(i, [d EXCEPT !.rows[j] = AbsentRow])
    BY <1>6, CallsStartNothing DEF CancelActive, Listed, At
  <2>2. PICK e : e = [d EXCEPT !.rows[j] = AbsentRow]
    OBVIOUS
  <2>3. e \in Reconcile /\ e.stage = "observe" /\ e.now = d.now
    BY <1>g, <2>1, <2>2 DEF Reconcile
  <2>4. UNCHANGED <<clock, daemon>> => DaemonsOK'
    BY <1>g DEF DaemonsOK
  <2>5. QED BY <1>seen, <2>1, <2>2, <2>3, <2>4
<1>7. CASE CallFails(i)
  <2>1. CASE At(i, "persistRecord")
    BY <1>7, <1>go, <2>1 DEF CallFails, At, TokenStages
  <2>2. CASE At(i, "launch")
    BY <1>7, <1>go, <2>2 DEF CallFails, At, TokenStages
  <2>3. CASE ~At(i, "persistRecord") /\ ~At(i, "launch")
    BY <1>7, <1>rest, <2>3 DEF CallFails
  <2>4. QED BY <2>1, <2>2, <2>3
<1>8. QED BY <1>1, <1>2, <1>3, <1>4, <1>5, <1>6, <1>7 DEF WaveCalls

LEMMA CallsKeepWrappers ==
  ASSUME SupInvariant, NEW i \in Instances, WaveCalls(i)
  PROVE  WrappersOK'
<1>g. WrappersOK /\ clock \in Nat /\ UNCHANGED <<suspends, faults>>
  BY CallsStartNothing DEF SupInvariant, TypeOK
<1>1. CASE ClaimInFrontier(i)
  <2>1. UNCHANGED <<processes, metadata>>
    BY <1>1 DEF ClaimInFrontier, wrapperVars
  <2>2. startedAt' \in [Jobs -> Nat \cup {NoTime}]
    BY <1>1, <1>g DEF ClaimInFrontier, WrappersOK
  <2>3. QED BY <1>g, <2>1, <2>2 DEF WrappersOK
<1>2. CASE CancelActive(i)
  <2>1. UNCHANGED startedAt
    BY <1>2 DEF CancelActive
  <2>2. PICK j \in Listed(i) : UNCHANGED wrapperVars \/ ToldToEnd(j, daemon[i].rows[j].token)
    BY <1>2 DEF CancelActive, ToldToEnd
  <2> DEFINE token == daemon[i].rows[j].token
  <2>3. j \in Jobs /\ {"cancelled", "none"} \subseteq Outcomes \cup {"none"}
    BY DEF Listed, Outcomes
  <2>4. processes' \in [Jobs -> SUBSET Tokens]
    BY <1>g, <2>2, <2>3 DEF WrappersOK, ToldToEnd, wrapperVars
  <2>5. metadata' \in [Jobs -> [Tokens -> Outcomes \cup {"none"}]]
    <3>1. PICK outcome \in Outcomes \cup {"none"} :
            \/ metadata' = metadata
            \/ token \in processes[j] /\ metadata' = [metadata EXCEPT ![j][token] = outcome]
      BY <2>2, <2>3 DEF ToldToEnd, wrapperVars
    <3>2. token \in processes[j] => token \in Tokens
      BY <1>g, <2>3 DEF WrappersOK
    <3> HIDE DEF token
    <3>3. QED BY <1>g, <2>3, <3>1, <3>2 DEF WrappersOK
  <2>6. QED BY <1>g, <2>1, <2>4, <2>5 DEF WrappersOK
<1>3. CASE ~ClaimInFrontier(i) /\ ~CancelActive(i)
  <2>1. UNCHANGED <<processes, metadata, startedAt>>
    BY <1>3 DEF WaveCalls, ListActive, KeepActive, FinalizeActive, LeaveActive,
       FailFrontierLaunch, CallFails, StoreIdle, wrapperVars
  <2>2. QED BY <1>g, <2>1 DEF WrappersOK
<1>4. QED BY <1>1, <1>2, <1>3

\* The invariant of Supervision survives every step of Wave.
LEMMA WaveKeepsSup ==
  ASSUME SupInvariant, WavesTyped, MaxTime <= MaxDelay, [WaveNext]_waveVars
  PROVE  SupInvariant'
<1>g. DaemonsOK /\ WrappersOK /\ clock \in Nat
  BY DEF SupInvariant, TypeOK
<1>1. TypeOK' /\ RowInvariant'
  BY WaveStepIsStoreStep, TypeStep, RowsStep DEF SupInvariant
<1>2. ASSUME NEW i \in Instances, WaveRests(i) PROVE DaemonsOK' /\ WrappersOK'
  <2>1. WrappersOK'
    BY <1>g, <1>2, RestingSteps DEF WrappersOK
  <2>2. ASSUME NEW stage \in {"verify", "refill", "down"},
               Become(i, [Resting EXCEPT !.stage = stage])
        PROVE  DaemonsOK'
    <3>1. stage \in Stages \ JobStages /\ [j \in Jobs |-> AbsentRow] \in [Jobs -> Row]
      BY DEF Stages, JobStages, TokenStages, AbsentRow, Row, LaunchStates, NoTime, NoToken
    <3>2. GoroutineOK([Resting EXCEPT !.stage = stage], clock)
      BY <1>g, <3>1, RestingOK
    <3>3. QED BY <1>2, <1>g, <2>2, <3>2, RestingSteps, OneGoroutine
  <2>3. UNCHANGED <<daemon, clock>> => DaemonsOK'
    BY <1>g DEF DaemonsOK
  <2>4. QED BY <1>2, <2>1, <2>2, <2>3, RestingSteps
<1>3. ASSUME [SupNext]_supVars PROVE DaemonsOK' /\ WrappersOK'
  BY <1>3, SupKeepsDaemons, SupKeepsWrappers
<1>4. ASSUME NEW i \in Instances,
             ReconcileStep(i) \/ CancelFails(i) \/ Run(i) \/ Heartbeat(i) \/ Crash(i)
      PROVE  DaemonsOK' /\ WrappersOK'
  BY <1>3, <1>4 DEF SupNext, Surroundings
<1>5. ASSUME NEW i \in Instances, WaveStep(i) \/ WaveDisturbed(i)
      PROVE  DaemonsOK' /\ WrappersOK'
  BY <1>2, <1>4, <1>5, KindsOfSteps, SupervisedSteps, CallsKeepDaemons, CallsKeepWrappers
<1>6. DaemonsOK' /\ WrappersOK'
  BY <1>3, <1>4, <1>5, AroundTheWavesSteps, WavesAreInstances, ElsewhereIsSupStep
<1>7. QED BY <1>1, <1>6 DEF SupInvariant

-----------------------------------------------------------------------------
(* The loops of the waves stay well formed *)

\* A step of wave i changes the loop of no other wave.
LEMMA WaveMovesOne ==
  ASSUME SupInvariant, WavesTyped, NEW i \in Instances, WaveStep(i) \/ WaveDisturbed(i)
  PROVE  \E w \in Waving : wave' = [wave EXCEPT ![i] = w]
<1> DEFINE v == wave[i]
           To(w) == w \in Waving /\ wave' = [wave EXCEPT ![i] = w]
<1>g. /\ wave \in [Instances -> Waving] /\ v \in Waving
      /\ v.frontier \in SUBSET Jobs /\ v.active \in SUBSET Jobs /\ v.cancelled \in SUBSET Jobs
  BY DEF WavesTyped, Waving
<1> SUFFICES \E w : To(w)
  OBVIOUS
<1>u. CASE UNCHANGED wave
  BY <1>g, <1>u
<1>go. ASSUME NEW stage \in WaveStages, WaveGoTo(i, stage) PROVE \E w : To(w)
  <2>1. [v EXCEPT !.stage = stage] \in Waving
    BY <1>g DEF Waving
  <2>2. wave' = [wave EXCEPT ![i] = [v EXCEPT !.stage = stage]]
    BY <1>go DEF WaveGoTo
  <2>3. QED BY <2>1, <2>2
<1>exit. ASSUME NEW stage \in WaveStages,
                wave' = [wave EXCEPT ![i] = [NotWaving EXCEPT !.stage = stage]]
         PROVE  \E w : To(w)
  <2>1. [NotWaving EXCEPT !.stage = stage] \in Waving
    BY DEF NotWaving, Waving
  <2>2. QED BY <1>exit, <2>1
<1>drop. ASSUME NEW j, Drop(i, j) PROVE \E w : To(w)
  <2>1. [v EXCEPT !.active = @ \ {j}, !.cancelled = @ \ {j}] \in Waving
    BY <1>g DEF Waving
  <2>2. wave' = [wave EXCEPT ![i] = [v EXCEPT !.active = @ \ {j}, !.cancelled = @ \ {j}]]
    BY <1>drop DEF Drop
  <2>3. QED BY <2>1, <2>2
<1>s. {"preflight", "top", "reap", "refill", "sleep", "cancel", "returned", "failed", "killed"}
        \subseteq WaveStages
  BY DEF WaveStages
<1>1. CASE WaveRun(i) \/ WaveHeartbeat(i) \/ EndReap(i) \/ EndRefill(i) \/ WaveError(i)
           \/ EndCancel(i) \/ GiveUpCancelling(i)
  BY <1>1, <1>s, <1>u, <1>go, <1>exit
  DEF WaveRun, WaveHeartbeat, EndReap, EndRefill, WaveError, EndCancel, GiveUpCancelling, Exited
<1>2. CASE Crash(i) /\ wave' = [wave EXCEPT ![i] = [NotWaving EXCEPT !.stage = "killed"]]
  BY <1>2, <1>s, <1>exit
<1>3. CASE WakeUp(i)
  <2>1. [v EXCEPT !.stage = "cancel", !.timed = "yes"] \in Waving
    BY <1>g, <1>s DEF Waving
  <2>2. WaveGoTo(i, "top")
        \/ wave' = [wave EXCEPT ![i] = [v EXCEPT !.stage = "cancel", !.timed = "yes"]]
    BY <1>3 DEF WakeUp
  <2>3. QED BY <1>s, <1>go, <2>1, <2>2
<1>4. CASE Preflight(i) \/ WaveInspect(i) \/ FailFrontierLaunch(i) \/ CallFails(i)
           \/ \E j \in Jobs : FinalizeActive(i, j) \/ LeaveActive(i, j)
  BY <1>4, <1>u
  DEF Preflight, WaveInspect, FailFrontierLaunch, CallFails, FinalizeActive, LeaveActive
<1>5. CASE EndActive(i) \/ \E j \in Jobs : KeepActive(i, j)
  BY <1>5, <1>u, <1>drop DEF EndActive, KeepActive
<1>6. CASE ListEligibleJobIDs(i)
  <2> DEFINE eligible == {j \in Jobs : jobs[j].status = "pending"}
  <2>1. [v EXCEPT !.frontier = eligible, !.stage = "top"] \in Waving
    BY <1>g, <1>s DEF Waving
  <2>2. \/ Exited(i, "returned")
        \/ wave' = [wave EXCEPT ![i] = [v EXCEPT !.frontier = eligible, !.stage = "top"]]
    BY <1>6 DEF ListEligibleJobIDs
  <2>3. QED BY <1>s, <1>exit, <2>1, <2>2 DEF Exited
<1>7. CASE ListActive(i)
  <2>1. OwnedActive(i) \in SUBSET Jobs
    BY <1>g DEF OwnedActive
  <2>2. [v EXCEPT !.active = OwnedActive(i), !.cancelled = {}] \in Waving
    BY <1>g, <2>1 DEF Waving
  <2>3. wave' = [wave EXCEPT ![i] = [v EXCEPT !.active = OwnedActive(i), !.cancelled = {}]]
    BY <1>7 DEF ListActive
  <2>4. QED BY <2>2, <2>3
<1>8. CASE ClaimInFrontier(i)
  <2>1. PICK j \in Jobs : wave' = [wave EXCEPT ![i] = [v EXCEPT !.frontier = @ \ {j}]]
    BY <1>8 DEF ClaimInFrontier
  <2>2. [v EXCEPT !.frontier = @ \ {j}] \in Waving
    BY <1>g DEF Waving
  <2>3. QED BY <2>1, <2>2
<1>9. CASE LaunchInFrontier(i)
  <2> DEFINE active == IF At(i, "persistRecord") /\ daemon'[i].stage = "refill"
                       THEN v.active \cup {daemon[i].job} ELSE v.active
  <2>1. At(i, "persistRecord") => daemon[i].job \in Jobs
    BY DEF SupInvariant, DaemonsOK, GoroutineOK, At, JobStages, TokenStages
  <2>2. active \in SUBSET Jobs
    BY <1>g, <2>1
  <2>3. wave' = [wave EXCEPT ![i] = [v EXCEPT !.active = active]]
    BY <1>9 DEF LaunchInFrontier
  <2> HIDE DEF active
  <2>4. [v EXCEPT !.active = active] \in Waving
    BY <1>g, <2>2 DEF Waving
  <2>5. QED BY <2>3, <2>4
<1>10. CASE CancelActive(i)
  <2>1. PICK j \in Jobs :
          \/ Drop(i, j) \/ UNCHANGED wave
          \/ wave' = [wave EXCEPT ![i] = [v EXCEPT !.cancelled = @ \cup {j}]]
    BY <1>10 DEF CancelActive, Listed
  <2>2. [v EXCEPT !.cancelled = @ \cup {j}] \in Waving
    BY <1>g DEF Waving
  <2>3. QED BY <1>u, <1>drop, <2>1, <2>2
<1>11. QED
  BY <1>1, <1>2, <1>3, <1>4, <1>5, <1>6, <1>7, <1>8, <1>9, <1>10 DEF WaveStep, WaveDisturbed

LEMMA WaveKeepsTypes ==
  ASSUME SupInvariant, WavesTyped, [WaveNext]_waveVars
  PROVE  WavesTyped'
<1>1. ASSUME NEW i \in Waves, WaveStep(i) \/ WaveDisturbed(i) PROVE WavesTyped'
  <2>1. PICK w \in Waving : wave' = [wave EXCEPT ![i] = w]
    BY <1>1, WavesAreInstances, WaveMovesOne
  <2>2. QED BY <2>1 DEF WavesTyped
<1>2. UNCHANGED wave => WavesTyped'
  BY DEF WavesTyped
<1>3. QED BY <1>1, <1>2, AroundTheWavesSteps

-----------------------------------------------------------------------------
(* What recovery gave up on stays so *)

\* Row j is as it was, or it is not one given up on, or recovery just gave up on it.
GivenUpOrNot(j) ==
  \/ jobs'[j] = jobs[j]
  \/ jobs[j].launchState # "unknown" /\ jobs'[j].launchState # "unknown"
  \/ jobs[j].launchState # "unknown" /\ WrittenOff(j)

LEMMA ClientGivesUp ==
  ASSUME SupInvariant, UnknownIsExpired, NEW k \in Instances, [ClientStep(k)]_storeVars,
         NEW j \in Jobs
  PROVE  GivenUpOrNot(j)
<1>g. jobs \in [Jobs -> Row] /\ clock \in Nat
  BY DEF SupInvariant, TypeOK
<1>r. /\ ~IsRunning(j) => jobs[j].launchState = "null"
      /\ jobs[j].launchState = "unknown" =>
           /\ IsRunning(j) /\ LeaseExpired(j, clock) /\ jobs[j].token # NoToken
           /\ \A i : ~Owned(i, j, clock)
  <2>1. jobs[j].leaseUntil \in Nat \cup {NoTime}
    BY <1>g DEF Row
  <2>2. QED BY <1>g, <2>1 DEF SupInvariant, RowInvariant, RowShape, UnknownIsExpired,
         LeaseExpired, Owned, NoTime
<1>u. jobs' = jobs => GivenUpOrNot(j)
  BY DEF GivenUpOrNot
<1>one. ASSUME NEW l \in Jobs, NEW row, jobs' = [jobs EXCEPT ![l] = row],
               jobs[l].launchState # "unknown" \/ l # j, row.launchState # "unknown"
        PROVE  GivenUpOrNot(j)
  BY <1>g, <1>one DEF GivenUpOrNot
<1>1. ASSUME NEW l \in Jobs, NEW frontier, ClaimJob(k, l, frontier, clock)
      PROVE  GivenUpOrNot(j)
  <2> DEFINE row == ClaimedBy(jobs[l], k, clock + Lease)
  <2>1. jobs' = [jobs EXCEPT ![l] = row] /\ jobs[l].status = "pending"
    BY <1>1 DEF ClaimJob, Claimable
  <2>2. row.launchState # "unknown"
    BY <1>g DEF ClaimedBy, Row
  <2>3. jobs[l].launchState # "unknown" \/ l # j
    BY <1>r, <2>1 DEF IsRunning
  <2> HIDE DEF row
  <2>4. QED BY <1>one, <2>1, <2>2, <2>3
<1>2. ASSUME NEW l \in Jobs, OwnerStep(k, l, clock) PROVE GivenUpOrNot(j)
  <2>1. Owned(k, l, clock) /\ jobs[l] \in Row
    BY <1>2, <1>g DEF OwnerStep, PersistLaunchSpecOwned, MarkJobLaunchingOwned,
       PersistLaunchRecordOwned, RenewJobLease, IncrementAttemptsForJob, FinalizeJobOwned
  <2>2. CASE l # j
    <3>1. jobs'[j] = jobs[j]
      BY <1>2, <1>g, <2>2 DEF OwnerStep, PersistLaunchSpecOwned, MarkJobLaunchingOwned,
         PersistLaunchRecordOwned, RenewJobLease, IncrementAttemptsForJob, FinalizeJobOwned
    <3>2. QED BY <3>1 DEF GivenUpOrNot
  <2>3. CASE l = j
    <3>1. jobs[j].launchState # "unknown"
      BY <1>r, <2>1, <2>3
    <3>2. jobs'[j].launchState # "unknown"
      <4>1. CASE RenewJobLease(k, j, clock) \/ PersistLaunchSpecOwned(k, j, clock)
        BY <4>1, <3>1, <1>g DEF RenewJobLease, PersistLaunchSpecOwned, Row
      <4>2. ASSUME NEW token, MarkJobLaunchingOwned(k, j, token, clock)
            PROVE  jobs'[j].launchState # "unknown"
        BY <4>2, <1>g DEF MarkJobLaunchingOwned, Row
      <4>3. ASSUME NEW token, PersistLaunchRecordOwned(k, j, token, clock)
            PROVE  jobs'[j].launchState # "unknown"
        BY <4>3, <1>g DEF PersistLaunchRecordOwned, WithProcess, Row
      <4>4. ASSUME NEW budget, IncrementAttemptsForJob(k, j, budget, clock)
            PROVE  jobs'[j].launchState # "unknown"
        BY <4>4, <3>1, <1>g DEF IncrementAttemptsForJob, Charged, Row
      <4>5. ASSUME NEW status, NEW workStarted,
                   FinalizeJobOwned(k, j, status, workStarted, clock)
            PROVE  jobs'[j].launchState # "unknown"
        BY <4>5, <1>g DEF FinalizeJobOwned, Disowned, Row
      <4>6. QED BY <1>2, <2>3, <4>1, <4>2, <4>3, <4>4, <4>5 DEF OwnerStep
    <3>3. QED BY <3>1, <3>2 DEF GivenUpOrNot
  <2>4. QED BY <2>2, <2>3
<1>3. ASSUME NEW t \in Sampled, RecoveryStep(k, t) PROVE GivenUpOrNot(j)
  <2>1. ASSUME NEW active, ReleaseExpiredLeases(k, active, t) PROVE GivenUpOrNot(j)
    <3>1. CASE Releasable(j, k, active, t)
      <4>1. jobs'[j] = Disowned(jobs[j], "pending")
        BY <2>1, <3>1 DEF ReleaseExpiredLeases
      <4>2. jobs'[j].launchState # "unknown"
        BY <1>g, <4>1 DEF Disowned, Row
      <4>3. jobs[j].launchState # "unknown"
        BY <1>r, <3>1 DEF Releasable, NotLaunched
      <4>4. QED BY <4>2, <4>3 DEF GivenUpOrNot
    <3>2. CASE ~Releasable(j, k, active, t)
      BY <2>1, <3>2 DEF ReleaseExpiredLeases, GivenUpOrNot
    <3>3. QED BY <3>1, <3>2
  <2>2. ASSUME NEW l \in Jobs, NEW old, AdoptStaleRunningJob(k, l, old, t)
        PROVE  GivenUpOrNot(j)
    <3> DEFINE row == AdoptedBy(jobs[l], k, t + Lease)
    <3>1. jobs' = [jobs EXCEPT ![l] = row] /\ jobs[l].launchState # "unknown"
      BY <2>2 DEF AdoptStaleRunningJob, Recoverable
    <3>2. row.launchState # "unknown"
      BY <1>g, <3>1 DEF AdoptedBy, Row
    <3> HIDE DEF row
    <3>3. QED BY <1>one, <3>1, <3>2
  <2>3. ASSUME NEW l \in Jobs, NEW old, MarkStaleRunningJobUnknown(l, old, t)
        PROVE  GivenUpOrNot(j)
    <3>1. /\ jobs' = [jobs EXCEPT ![l].launchState = "unknown"] /\ Recoverable(l, t)
          /\ jobs[l].launchState # "unknown"
      BY <2>3 DEF MarkStaleRunningJobUnknown, Recoverable
    <3>2. QED BY <1>g, <3>1 DEF GivenUpOrNot, WrittenOff
  <2>4. PruneStaleRunnerHeartbeats(t) => GivenUpOrNot(j)
    BY <1>u DEF PruneStaleRunnerHeartbeats
  <2>5. QED BY <1>3, <2>1, <2>2, <2>3, <2>4 DEF RecoveryStep
<1>4. CASE HeartbeatRunner(k, clock) \/ DeleteRunnerHeartbeat(k) \/ UNCHANGED storeVars
  BY <1>4, <1>u DEF HeartbeatRunner, DeleteRunnerHeartbeat, storeVars
<1>5. QED BY <1>1, <1>2, <1>3, <1>4 DEF ClientStep

LEMMA ElsewhereGivesUp ==
  ASSUME SupInvariant, Elsewhere, NEW j \in Jobs
  PROVE  GivenUpOrNot(j)
<1>1. ASSUME NEW l \in Jobs, Enqueue(l) PROVE GivenUpOrNot(j)
  <2>1. jobs \in [Jobs -> Row] /\ jobs[l].launchState = "null"
    BY <1>1 DEF Enqueue, EnqueueJob, SupInvariant, TypeOK, RowInvariant, RowShape, IsRunning
  <2>2. jobs' = [jobs EXCEPT ![l].status = "pending"]
    BY <1>1 DEF Enqueue, EnqueueJob
  <2>3. QED BY <2>1, <2>2 DEF GivenUpOrNot, Row
<1>2. jobs' = jobs => GivenUpOrNot(j)
  BY DEF GivenUpOrNot
<1>3. QED BY <1>1, <1>2 DEF Elsewhere, WriteMetadata, WrapperEnds, SlowTick, Tick, StoreIdle,
       storeVars, supVars

LEMMA WaveGivesUp ==
  ASSUME SupInvariant, WavesTyped, UnknownIsExpired, MaxTime <= MaxDelay,
         [WaveNext]_waveVars
  PROVE  /\ UnknownIsExpired'
         /\ \A j \in Jobs : jobs[j].launchState = "unknown" => jobs'[j].launchState = "unknown"
<1>g. /\ jobs \in [Jobs -> Row] /\ clock \in Nat /\ clock' \in Nat
  BY WaveKeepsSup DEF SupInvariant, TypeOK
<1>1. clock <= clock' /\ \A j \in Jobs : GivenUpOrNot(j)
  <2>1. ASSUME NEW i \in Waves, WaveStep(i) \/ WaveDisturbed(i)
        PROVE  clock' = clock /\ \A j \in Jobs : GivenUpOrNot(j)
    BY <2>1, WavesAreInstances, WaveStepIsClientStep, ClientGivesUp, ClientStepKeepsClock
  <2>2. ASSUME NEW i \in Instances, ReconcileStep(i) \/ Run(i) \/ Heartbeat(i)
        PROVE  clock' = clock /\ \A j \in Jobs : GivenUpOrNot(j)
    BY <2>2, ReconcileIsClientStep, AroundIsClientStep, ClientGivesUp, ClientStepKeepsClock
  <2>3. ASSUME Elsewhere PROVE clock <= clock' /\ \A j \in Jobs : GivenUpOrNot(j)
    <3>1. \A j \in Jobs : GivenUpOrNot(j)
      BY <2>3, ElsewhereGivesUp
    <3>2. clock <= clock'
      BY <1>g, <2>3 DEF Elsewhere, Enqueue, EnqueueJob, WriteMetadata, WrapperEnds, SlowTick,
         Tick, StoreIdle, storeVars, supVars
    <3>3. QED BY <3>1, <3>2
  <2>4. QED BY <1>g, <2>1, <2>2, <2>3, AroundTheWavesSteps
<1>2. ASSUME NEW j \in Jobs, WrittenOff(j)
      PROVE  jobs'[j].launchState = "unknown" /\ LeaseExpired(j, clock)'
  <2>1. PICK t \in Sampled : Recoverable(j, t)
    BY <1>2 DEF WrittenOff
  <2>2. t \in Nat /\ t <= clock /\ jobs[j].leaseUntil \in Nat /\ jobs[j].leaseUntil < t
    BY <1>g, <2>1 DEF Sampled, Recoverable, LeaseExpired, Row, NoTime
  <2>3. jobs'[j].launchState = "unknown" /\ jobs'[j].leaseUntil = jobs[j].leaseUntil
    BY <1>g, <1>2 DEF WrittenOff, Row
  <2>4. QED BY <1>1, <1>g, <2>2, <2>3 DEF LeaseExpired, NoTime
<1>3. ASSUME NEW j \in Jobs, jobs'[j] = jobs[j], jobs[j].launchState = "unknown"
      PROVE  LeaseExpired(j, clock)'
  <2>1. jobs[j].leaseUntil \in Nat /\ jobs[j].leaseUntil < clock
    BY <1>g, <1>3 DEF UnknownIsExpired, LeaseExpired, Row, NoTime
  <2>2. QED BY <1>1, <1>3, <1>g, <2>1 DEF LeaseExpired, NoTime
<1>4. QED BY <1>1, <1>2, <1>3 DEF UnknownIsExpired, GivenUpOrNot

-----------------------------------------------------------------------------
(* The wrappers and their launchers stay well formed *)

\* What a wave lists and finds not launched, recovery has given up on: it does
\* not own that job, and never finalizes it here.
LEMMA NothingCancelledUnlaunched ==
  ASSUME SupInvariant, UnknownIsExpired, NEW i \in Instances, NEW j \in Listed(i),
         ListedOK(i, j), ~Durable(daemon[i].rows[j])
  PROVE  ~Owned(i, j, clock)
<1>1. j \in Jobs /\ daemon[i].rows[j] # AbsentRow
  BY DEF Listed
<1>2. LeaseExpired(j, clock)
  BY <1>1 DEF ListedOK, UnknownIsExpired
<1>3. jobs[j].leaseUntil \in Nat \cup {NoTime} /\ clock \in Nat
  BY <1>1 DEF SupInvariant, TypeOK, Row
<1>4. QED BY <1>2, <1>3 DEF LeaseExpired, Owned, NoTime

LEMMA CallsSettleFree ==
  ASSUME SupInvariant, LaunchInvariant, UnknownIsExpired, NEW i \in Instances, WaveCalls(i),
         \A j \in Jobs : ListedOK(i, j)
  PROVE  NothingSettled \/ \E l \in Jobs : \E status : Settled(l, status) /\ Free(l)
<1>s. jobs' = jobs => NothingSettled
  BY DEF NothingSettled, IsRunning
<1>1. CASE ListActive(i) \/ CallFails(i) \/ \E j \in Jobs : LeaveActive(i, j)
  BY <1>1, <1>s DEF ListActive, CallFails, LeaveActive, StoreIdle, storeVars
<1>2. ASSUME NEW j \in Jobs, KeepActive(i, j) \/ FinalizeActive(i, j) PROVE NothingSettled
  BY <1>2, <1>s, WritesSettleNothing DEF KeepActive, FinalizeActive, storeVars
<1>3. CASE ClaimInFrontier(i)
  BY <1>3, WritesSettleNothing DEF ClaimInFrontier
<1>4. CASE FailFrontierLaunch(i)
  <2>1. PICK j \in Jobs : daemon[i].job = j
    BY <1>4 DEF SupInvariant, DaemonsOK, GoroutineOK, FailFrontierLaunch, At, JobStages
  <2>2. ASSUME NEW status, FinalizeJobOwned(i, j, status, TRUE, clock)
        PROVE  Settled(j, status) /\ Free(j)
    <3>1. Free(j)
      BY <1>4, <2>1, <2>2
      DEF FailFrontierLaunch, At, FinalizeJobOwned, Owned, Mine, LaunchInvariant, HandOK
    <3>2. QED BY <2>2, <3>1, FinalizeSettles
  <2>3. QED BY <1>4, <1>s, <2>1, <2>2 DEF FailFrontierLaunch, storeVars
<1>5. CASE CancelActive(i)
  <2>1. PICK j \in Listed(i) :
          \/ /\ ~Durable(daemon[i].rows[j])
             /\ FinalizeJobOwned(i, j, "cancelled", TRUE, clock) \/ UNCHANGED storeVars
          \/ UNCHANGED storeVars
    BY <1>5 DEF CancelActive
  <2>2. CASE /\ ~Durable(daemon[i].rows[j])
             /\ FinalizeJobOwned(i, j, "cancelled", TRUE, clock)
    <3>1. ListedOK(i, j)
      BY DEF Listed
    <3>2. QED BY <2>2, <3>1, NothingCancelledUnlaunched DEF FinalizeJobOwned
  <2>3. QED BY <1>s, <2>1, <2>2 DEF storeVars
<1>6. QED BY <1>1, <1>2, <1>3, <1>4, <1>5 DEF WaveCalls

LEMMA CallsGoOn ==
  ASSUME SupInvariant, LaunchInvariant, NEW i \in Instances, WaveCalls(i),
         \A k \in Instances \ {i} : StandsStill(k)
  PROVE  GoesOn(i)
<1> DEFINE d == daemon[i]
<1>g. d \in Reconcile /\ GoroutineOK(d, clock) /\ StartsNothing
  BY CallsStartNothing DEF SupInvariant, DaemonsOK
<1>s. \A l \in Jobs : d.seen[l] \in Outcomes => Witnessed(l, d.seen[l])
  BY DEF LaunchInvariant, SeenOK
<1>h. {"observe", "finalActions"} \cap RelyingStages = {} /\ "none" \notin Outcomes
  BY DEF RelyingStages, LaunchingStages, ClaimStages, Outcomes
\* A goroutine that has taken down one observation, or ticked one off.
<1>f. ASSUME NEW j \in Jobs, NEW obs, NEW e, Become(i, e), e.stage \notin RelyingStages,
             e.seen = [d.seen EXCEPT ![j] = obs], obs \in Outcomes => Witnessed(j, obs)
      PROVE  GoesOn(i)
  <2>1. \A l \in Jobs : e.seen[l] \in Outcomes => Witnessed(l, e.seen[l])
    BY <1>f, <1>g, <1>s DEF Reconcile
  <2>2. QED BY <1>f, <1>g, <2>1, EmptyHanded
<1>1. CASE ListActive(i)
  BY <1>1, <1>g, RestingGoesOn DEF ListActive
<1>2. ASSUME NEW j \in Jobs, KeepActive(i, j) \/ LeaveActive(i, j) PROVE GoesOn(i)
  <2>1. PICK e : e = [d EXCEPT !.seen[j] = "none"]
    OBVIOUS
  <2>2. Become(i, e) /\ d.stage = "observe"
    BY <1>2, <2>1 DEF KeepActive, LeaveActive, At
  <2>3. e.stage = d.stage /\ e.seen = [d.seen EXCEPT ![j] = "none"]
    BY <1>g, <2>1 DEF Reconcile
  <2>4. QED BY <1>f, <1>h, <2>2, <2>3
<1>3. ASSUME NEW j \in Jobs, FinalizeActive(i, j) PROVE GoesOn(i)
  <2>1. PICK outcome \in {d.seen[j]} \cup {"failed"} :
          /\ d.seen[j] \in Outcomes
          /\ Become(i, [d EXCEPT !.stage = "finalActions", !.back = "observe", !.job = j,
                                 !.seen[j] = outcome])
    BY <1>3 DEF FinalizeActive
  <2>2. PICK e : e = [d EXCEPT !.stage = "finalActions", !.back = "observe", !.job = j,
                               !.seen[j] = outcome]
    OBVIOUS
  <2>3. e.stage = "finalActions" /\ e.seen = [d.seen EXCEPT ![j] = outcome]
    BY <1>g, <2>2 DEF Reconcile
  <2>4. Witnessed(j, outcome)
    BY <1>h, <1>s, <2>1 DEF Witnessed
  <2>5. QED BY <1>f, <1>h, <2>1, <2>2, <2>3, <2>4
<1>4. CASE ClaimInFrontier(i)
  <2>1. PICK j \in Jobs : /\ ClaimJob(i, j, wave[i].frontier, clock)
                          /\ Become(i, [d EXCEPT !.job = j, !.stage = "prepare"])
    BY <1>4 DEF ClaimInFrontier
  <2>2. PICK e : e = [d EXCEPT !.job = j, !.stage = "prepare"]
    OBVIOUS
  <2>3. e.stage = "prepare" /\ e.job = j /\ e.seen = d.seen
    BY <1>g, <2>2 DEF Reconcile
  <2>4. clock \in Nat
    BY DEF SupInvariant, TypeOK
  <2>5. QED BY <1>g, <2>1, <2>2, <2>3, <2>4, ClaimGoesOn
<1>5. CASE FailFrontierLaunch(i)
  BY <1>5, <1>g, RestingGoesOn DEF FailFrontierLaunch
<1>6. CASE CancelActive(i)
  <2>1. d.stage = "observe"
    BY <1>6 DEF CancelActive, At
  <2>2. PICK j \in Jobs : UNCHANGED daemon \/ Become(i, [d EXCEPT !.rows[j] = AbsentRow])
    BY <1>6 DEF CancelActive, Listed
  <2>3. PICK e : e = [d EXCEPT !.rows[j] = AbsentRow]
    OBVIOUS
  <2>4. e.stage = "observe" /\ e.seen = d.seen
    BY <1>g, <2>1, <2>3 DEF Reconcile
  <2>5. UNCHANGED daemon => Become(i, d)
    BY DEF Become, SupInvariant, DaemonsOK
  <2>6. QED BY <1>g, <1>h, <1>s, <2>1, <2>2, <2>3, <2>4, <2>5, EmptyHanded
<1>7. CASE CallFails(i)
  <2>1. CASE At(i, "persistRecord") /\ GoTo(i, "compensate")
    BY <1>g, <2>1, SameHands DEF At, LaunchingStages, ClaimStages
  <2>2. CASE At(i, "launch") /\ GoTo(i, "launchFailed")
    <3>1. UNCHANGED <<processes, metadata>> /\ daemon'[i].stage = "launchFailed"
      BY <1>7, <2>2 DEF CallFails, wrapperVars, GoTo, SupInvariant, DaemonsOK, Reconcile
    <3>2. ASSUME NEW j \in Jobs, d.job = j PROVE Free(j)'
      <4>1. processes[j] = {}
        BY <2>2, <3>2 DEF LaunchInvariant, HandOK, At
      <4>2. ~AtLaunch(j)'
        BY <2>2, <3>1, <3>2, LaunchedAlone DEF At, LaunchingStages, StandsStill
      <4>3. QED BY <3>1, <4>1, <4>2 DEF Free, AtWork
    <3>3. QED BY <1>g, <2>2, <3>2, SameHands DEF LaunchingStages, ClaimStages
  <2>3. CASE Become(i, Resting)
    BY <1>g, <2>3, RestingGoesOn
  <2>4. QED BY <1>7, <2>1, <2>2, <2>3 DEF CallFails
<1>8. QED
  BY <1>1, <1>2, <1>3, <1>4, <1>5, <1>6, <1>7 DEF WaveCalls

(* Goroutine i alone moves. *)
LEMMA WaveMovesAlone ==
  ASSUME SupInvariant, WavesTyped, MaxTime <= MaxDelay, NEW i \in Instances,
         WaveStep(i) \/ WaveDisturbed(i)
  PROVE  \A k \in Instances \ {i} : StandsStill(k)
<1>1. [ClientStep(i)]_storeVars
  BY WaveStepIsClientStep
<1>2. CASE WaveCalls(i)
  <2>1. (\E d : Become(i, d)) \/ (\E stage : GoTo(i, stage)) \/ UNCHANGED daemon
    BY <1>2 DEF WaveCalls, ListActive, KeepActive, FinalizeActive, LeaveActive,
       ClaimInFrontier, FailFrontierLaunch, CancelActive, CallFails
  <2>2. QED BY <1>1, <2>1, OthersStandStill
<1>3. CASE WaveRests(i)
  BY <1>1, <1>3, RestingSteps, OthersStandStill
<1>4. CASE ReconcileStep(i) \/ CancelFails(i) \/ Crash(i)
  BY <1>4, ReconcileMovesOne
<1>5. QED BY <1>2, <1>3, <1>4, KindsOfSteps, SupervisedSteps

LEMMA WaveStepKeepsLaunch ==
  ASSUME SupInvariant, LaunchInvariant, WavesTyped, UnknownIsExpired, MaxTime <= MaxDelay,
         NEW i \in Instances, WaveStep(i) \/ WaveDisturbed(i), \A j \in Jobs : ListedOK(i, j)
  PROVE  LaunchInvariant'
<1>o. \A k \in Instances \ {i} : StandsStill(k)
  BY WaveMovesAlone
<1>1. CASE ReconcileStep(i) \/ CancelFails(i) \/ Crash(i)
  BY <1>1, ReconcileKeepsLaunch, AroundKeepsLaunch
<1>2. CASE WaveRests(i)
  <2>1. StartsNothing /\ jobs' = jobs
    BY <1>2, RestingSteps DEF StartsNothing, WrappersEndOrReport
  <2>2. OnlyFreeJobsStop
    BY <2>1 DEF OnlyFreeJobsStop, IsRunning
  <2>3. CASE \E stage \in {"verify", "refill", "down"} :
               Become(i, [Resting EXCEPT !.stage = stage])
    <3>1. GoesOn(i)
      BY <2>1, <2>3, RestingGoesOn
    <3>2. QED BY <1>o, <2>1, <2>2, <3>1, OneGoesOn
  <2>4. CASE UNCHANGED daemon
    <3>1. \A k \in Instances : StandsStill(k)
      BY <1>2, <2>4, RestingSteps DEF StandsStill, Untouched, Mine, IsRunning
    <3>2. {} \in SUBSET Instances
      OBVIOUS
    <3>3. QED BY <2>1, <2>2, <3>1, <3>2, QuietStep DEF StartsNothing
  <2>5. QED BY <1>2, <2>3, <2>4, RestingSteps
<1>3. CASE WaveCalls(i)
  <2>1. StartsNothing
    BY <1>3, CallsStartNothing
  <2>2. OnlyFreeJobsStop
    BY <1>3, CallsSettleFree, OnlyFreeStop
  <2>3. GoesOn(i)
    BY <1>3, <1>o, CallsGoOn
  <2>4. QED BY <1>o, <2>1, <2>2, <2>3, OneGoesOn
<1>4. QED BY <1>1, <1>2, <1>3, KindsOfSteps, SupervisedSteps

LEMMA WaveKeepsLaunch ==
  ASSUME WaveInvariant, MaxTime <= MaxDelay, [WaveNext]_waveVars
  PROVE  LaunchInvariant'
<1>g. SupInvariant /\ LaunchInvariant /\ WavesTyped /\ UnknownIsExpired
  BY DEF WaveInvariant
<1>1. ASSUME NEW i \in Waves, WaveStep(i) \/ WaveDisturbed(i) PROVE LaunchInvariant'
  <2>1. \A j \in Jobs : ListedOK(i, j)
    BY DEF WaveInvariant, WaveJobOK
  <2>2. QED BY <1>1, <1>g, <2>1, WavesAreInstances, WaveStepKeepsLaunch
<1>2. ASSUME NEW i \in Instances, ReconcileStep(i) \/ Run(i) \/ Heartbeat(i)
      PROVE  LaunchInvariant'
  BY <1>2, <1>g, ReconcileKeepsLaunch, AroundKeepsLaunch
<1>3. QED BY <1>1, <1>2, <1>g, AroundTheWavesSteps, ElsewhereKeepsLaunch

-----------------------------------------------------------------------------
(* What the moves of a wave make of its goroutine and of its loop *)

LEMMA LoopAfter ==
  ASSUME WavesTyped, NEW i \in Instances
  PROVE  /\ \A stage : WaveGoTo(i, stage) =>
              wave'[i].stage = stage /\ wave'[i].active = wave[i].active
         /\ \A j : Drop(i, j) =>
              wave'[i].stage = wave[i].stage /\ wave'[i].active = wave[i].active \ {j}
         /\ \A how : Exited(i, how) => wave'[i].stage = how /\ wave'[i].active = {}
<1>1. wave \in [Instances -> Waving] /\ wave[i] \in Waving
  BY DEF WavesTyped
<1>2. ASSUME NEW stage, WaveGoTo(i, stage)
      PROVE  wave'[i].stage = stage /\ wave'[i].active = wave[i].active
  BY <1>1, <1>2 DEF WaveGoTo, Waving
<1>3. ASSUME NEW j, Drop(i, j)
      PROVE  wave'[i].stage = wave[i].stage /\ wave'[i].active = wave[i].active \ {j}
  BY <1>1, <1>3 DEF Drop, Waving
<1>4. ASSUME NEW how, Exited(i, how) PROVE wave'[i].stage = how /\ wave'[i].active = {}
  <2>1. wave'[i] = [NotWaving EXCEPT !.stage = how]
    BY <1>1, <1>4 DEF Exited
  <2>2. QED BY <2>1 DEF NotWaving
<1>5. QED BY <1>2, <1>3, <1>4

LEMMA RestAfter ==
  ASSUME SupInvariant, NEW i \in Instances, NEW stage,
         \/ Become(i, [Resting EXCEPT !.stage = stage])
         \/ Become(i, Resting) /\ stage = "idle"
  PROVE  daemon'[i].stage = stage /\ \A j \in Jobs : daemon'[i].rows[j] = AbsentRow
<1> DEFINE noRows == [j \in Jobs |-> AbsentRow]
           unseen == [j \in Jobs |-> "none"]
<1>1. Resting =
        [stage |-> "idle", back |-> "observe", rows |-> noRows, seen |-> unseen,
         job |-> NoJob, active |-> {}, now |-> 0, token |-> NoToken, round |-> "made"]
  BY DEF Resting
<1>2. \A j \in Jobs : noRows[j] = AbsentRow
  OBVIOUS
<1> HIDE DEF noRows, unseen
<1>3. daemon'[i] \in {Resting, [Resting EXCEPT !.stage = stage]}
      /\ (daemon'[i] = Resting => stage = "idle" \/ daemon'[i] = [Resting EXCEPT !.stage = stage])
  BY DEF Become, SupInvariant, DaemonsOK
<1>4. daemon'[i].stage = stage /\ daemon'[i].rows = noRows
  BY <1>1, <1>3
<1>5. QED BY <1>2, <1>4

LEMMA GoToAfter ==
  ASSUME SupInvariant, NEW i \in Instances, NEW stage, GoTo(i, stage)
  PROVE  /\ daemon'[i].stage = stage /\ daemon'[i].job = daemon[i].job
         /\ daemon'[i].token = daemon[i].token /\ daemon'[i].rows = daemon[i].rows
BY DEF GoTo, SupInvariant, DaemonsOK, Reconcile

\* The rows after an observation are those before it, less the one observed.
LEMMA ObservationRows ==
  ASSUME NEW d \in Reconcile, NEW j \in Jobs, NEW obs,
         d.stage \in {"observe", "verify", "reinspect",
                      "observeProbe", "verifyProbe", "reinspectProbe"},
         NEW e, e = WithObservation(d, j, obs), NEW l \in Jobs
  PROVE  e.rows[l] \in {d.rows[l], AbsentRow}
<1> DEFINE handled == [d EXCEPT !.rows[j] = AbsentRow, !.job = NoJob]
           rows == [d.rows EXCEPT ![j] = AbsentRow]
<1>1. rows[l] \in {d.rows[l], AbsentRow}
  BY DEF Reconcile
<1>2. ASSUME NEW stage, e = [handled EXCEPT !.stage = stage, !.seen[j] = obs,
                                            !.active = @ \cup {j}]
      PROVE  e.rows = rows
  BY <1>2 DEF Reconcile
<1>3. ASSUME NEW stage, e = [d EXCEPT !.stage = stage, !.job = j]
      PROVE  e.rows = d.rows
  BY <1>3 DEF Reconcile
<1>4. e.rows = rows \/ e.rows = d.rows
  BY <1>2, <1>3 DEF WithObservation
<1> HIDE DEF rows
<1>5. QED BY <1>1, <1>4

\* The stages of which WaveOK or HandKept says something.
KeptStages == {"new", "markLaunching", "launch", "persistRecord", "cleanup"}

\* A wave comes to those stages by the launch only, and to rows by its list only.
LEMMA GoroutineMoves ==
  ASSUME SupInvariant, NEW i \in Instances, WaveStep(i) \/ WaveDisturbed(i)
  PROVE  /\ \/ UNCHANGED <<daemon, jobs, clock>>
            \/ daemon'[i].stage \notin KeptStages
            \/ PersistSpec(i) \/ MarkLaunching(i) \/ Launch(i) \/ PersistRecord(i)
         /\ ListActive(i)
            \/ \A j \in Jobs : daemon'[i].rows[j] \in {daemon[i].rows[j], AbsentRow}
<1> DEFINE d == daemon[i]
           Fine == /\ daemon'[i].stage \notin KeptStages
                   /\ \A j \in Jobs : daemon'[i].rows[j] \in {d.rows[j], AbsentRow}
<1>g. d \in Reconcile /\ GoroutineOK(d, clock) /\ daemon = [k \in Instances |-> daemon[k]]
  BY DEF SupInvariant, DaemonsOK
<1>k. \A stage : stage \in KeptStages <=>
                   stage \in {"new", "markLaunching", "launch", "persistRecord", "cleanup"}
  BY DEF KeptStages
<1>b. \A e : Become(i, e) => daemon'[i] = e
  BY DEF Become, SupInvariant, DaemonsOK
<1>r. ASSUME NEW stage \in {"idle", "down", "verify", "refill"},
             \/ Become(i, [Resting EXCEPT !.stage = stage])
             \/ Become(i, Resting) /\ stage = "idle"
      PROVE  Fine
  BY <1>k, <1>r, RestAfter
<1>t. ASSUME NEW stage, GoTo(i, stage), stage \notin KeptStages PROVE Fine
  BY <1>t, GoToAfter
\* Another stage, another observation, and the same rows.
<1>e. ASSUME NEW e, Become(i, e), e.stage \notin KeptStages,
             \A j \in Jobs : e.rows[j] \in {d.rows[j], AbsentRow}
      PROVE  Fine
  BY <1>b, <1>e
<1>1. CASE WaveRests(i)
  BY <1>1, <1>r, RestingSteps
<1>2. CASE Preflight(i)
  <2>1. CASE RecoverExpiredLeases(i)
    <3>1. PICK e : e = [d EXCEPT !.stage = "prune", !.now = clock]
      OBVIOUS
    <3>2. e.stage = "prune" /\ e.rows = d.rows
      BY <1>g, <3>1 DEF Reconcile
    <3>3. Become(i, e)
      BY <2>1, <3>1 DEF RecoverExpiredLeases, d
    <3>4. QED BY <1>e, <1>k, <3>2, <3>3
  <2>2. CASE PruneStaleHeartbeats(i)
    BY <1>k, <1>t, <2>2 DEF PruneStaleHeartbeats
  <2>3. QED BY <1>2, <2>1, <2>2 DEF Preflight
<1>3. CASE WaveInspect(i)
  <2>1. PICK e : /\ Become(i, e)
                 /\ \/ \E j \in Jobs, obs \in Observations :
                         /\ d.stage \in {"observe", "verify", "reinspect",
                                         "observeProbe", "verifyProbe", "reinspectProbe"}
                         /\ e = WithObservation(d, j, obs)
                    \/ \E j \in Jobs :
                         /\ d.stage = "observe"
                         /\ e = [d EXCEPT !.stage = Probing(d.stage), !.job = j]
    <3>1. CASE CheckProcess(i)
      <4>1. d.stage \in {"observeProbe", "verifyProbe", "reinspectProbe"}
        BY <3>1 DEF CheckProcess
      <4>2. d.job \in Jobs
        BY <1>g, <4>1 DEF GoroutineOK, JobStages
      <4>3. FromProcess(d.rows[d.job], d.job) \in Observations
        BY DEF FromProcess, Observations
      <4>4. Become(i, WithObservation(d, d.job, FromProcess(d.rows[d.job], d.job)))
        BY <3>1 DEF CheckProcess
      <4>5. QED BY <4>1, <4>2, <4>3, <4>4
    <3>2. ASSUME NEW j \in Jobs, ReadMetadata(i, j), At(i, "observe")
          PROVE  \E e : /\ Become(i, e)
                        /\ \/ \E obs \in Observations : e = WithObservation(d, j, obs)
                           \/ e = [d EXCEPT !.stage = Probing(d.stage), !.job = j]
      <4>1. Reported(d.rows[j], j) # "none" => Reported(d.rows[j], j) \in Observations
        BY InspectionType DEF SupInvariant, Observations
      <4>2. "unknown" \in Observations
        BY DEF Observations
      <4>3. PICK e \in {WithObservation(d, j, "unknown"),
                        WithObservation(d, j, Reported(d.rows[j], j)),
                        [d EXCEPT !.stage = Probing(d.stage), !.job = j]} :
              /\ Become(i, e)
              /\ \/ Reported(d.rows[j], j) # "none" \/ e = WithObservation(d, j, "unknown")
                 \/ e = [d EXCEPT !.stage = Probing(d.stage), !.job = j]
        BY <3>2 DEF ReadMetadata
      <4>4. QED BY <4>1, <4>2, <4>3
    <3>3. QED BY <1>3, <3>1, <3>2 DEF WaveInspect, Listed, At
  <2>2. CASE \E j \in Jobs, obs \in Observations :
               /\ d.stage \in {"observe", "verify", "reinspect",
                               "observeProbe", "verifyProbe", "reinspectProbe"}
               /\ e = WithObservation(d, j, obs)
    <3>1. PICK j \in Jobs, obs \in Observations : e = WithObservation(d, j, obs)
      BY <2>2
    <3>2. \A l \in Jobs : e.rows[l] \in {d.rows[l], AbsentRow}
      BY <1>g, <2>2, <3>1, ObservationRows
    <3>3. e.stage \in {"observe", "adopt", "giveUp", "verify"}
      BY <1>g, <2>2, <3>1 DEF WithObservation, Reconcile
    <3>4. QED BY <1>e, <1>k, <2>1, <3>2, <3>3
  <2>3. ASSUME NEW j \in Jobs, d.stage = "observe",
               e = [d EXCEPT !.stage = Probing(d.stage), !.job = j]
        PROVE  Fine
    <3>1. e.stage = "observeProbe" /\ e.rows = d.rows
      BY <1>g, <2>3 DEF Probing, Reconcile
    <3>2. QED BY <1>e, <1>k, <2>1, <3>1
  <2>4. QED BY <2>1, <2>2, <2>3
<1>4. CASE EndActive(i)
  <2>1. CASE RenewBeforeSideEffect(i)
    BY <1>k, <2>1 DEF RenewBeforeSideEffect, At
  <2>2. CASE FinalizeObservation(i)
    <3>1. PICK e : e = [d EXCEPT !.stage = d.back, !.seen[d.job] = "none", !.job = NoJob]
      OBVIOUS
    <3>2. e.stage \in {"observe", "verify"} /\ e.rows = d.rows
      BY <1>g, <3>1 DEF Reconcile
    <3>3. Become(i, e)
      BY <2>2, <3>1 DEF FinalizeObservation
    <3>4. QED BY <1>e, <1>k, <3>2, <3>3
  <2>3. QED BY <1>4, <2>1, <2>2 DEF EndActive
<1>5. CASE LaunchInFrontier(i)
  <2>1. CASE RenewBeforeSideEffect(i)
    BY <1>k, <2>1 DEF RenewBeforeSideEffect, At
  <2>2. CASE Prepare(i) \/ CancelWrapper(i) \/ CancelFails(i)
    <3>1. \/ GoTo(i, "persistSpec") \/ GoTo(i, "refill") \/ GoTo(i, "launchFailed")
          \/ Become(i, Resting)
      BY <2>2 DEF Prepare, CancelWrapper, CancelFails
    <3>2. QED BY <1>k, <1>r, <1>t, <3>1
  <2>3. CASE PersistSpec(i)
    <3>1. PICK token : \/ Become(i, [d EXCEPT !.stage = "markLaunching", !.token = token])
                       \/ GoTo(i, "refill") \/ GoTo(i, "launchFailed")
      BY <2>3 DEF PersistSpec
    <3>2. PICK e : e = [d EXCEPT !.stage = "markLaunching", !.token = token]
      OBVIOUS
    <3>3. e.rows = d.rows
      BY <1>g, <3>2 DEF Reconcile
    <3>4. QED BY <1>b, <2>3, <3>1, <3>2, <3>3, GoToAfter
  <2>4. CASE MarkLaunching(i) \/ Launch(i) \/ PersistRecord(i)
    BY <2>4, GoToAfter DEF MarkLaunching, Launch, PersistRecord
  <2>5. QED BY <1>5, <2>1, <2>2, <2>3, <2>4 DEF LaunchInFrontier
<1>6. CASE ListActive(i)
  <2>1. PICK rows : Become(i, [Resting EXCEPT !.stage = "observe", !.rows = rows])
    BY <1>6 DEF ListActive
  <2>2. [Resting EXCEPT !.stage = "observe", !.rows = rows].stage = "observe"
    BY DEF Resting
  <2>3. QED BY <1>6, <1>b, <1>k, <2>1, <2>2
<1>7. ASSUME NEW j \in Jobs, KeepActive(i, j) \/ LeaveActive(i, j) PROVE Fine
  <2>1. PICK e : e = [d EXCEPT !.seen[j] = "none"]
    OBVIOUS
  <2>2. Become(i, e) /\ d.stage = "observe"
    BY <1>7, <2>1 DEF KeepActive, LeaveActive, At
  <2>3. e.stage = d.stage /\ e.rows = d.rows
    BY <1>g, <2>1 DEF Reconcile
  <2>4. QED BY <1>e, <1>k, <2>2, <2>3
<1>8. ASSUME NEW j \in Jobs, FinalizeActive(i, j) PROVE Fine
  <2>1. PICK outcome :
          Become(i, [d EXCEPT !.stage = "finalActions", !.back = "observe", !.job = j,
                              !.seen[j] = outcome])
    BY <1>8 DEF FinalizeActive
  <2>2. PICK e : e = [d EXCEPT !.stage = "finalActions", !.back = "observe", !.job = j,
                               !.seen[j] = outcome]
    OBVIOUS
  <2>3. e.stage = "finalActions" /\ e.rows = d.rows
    BY <1>g, <2>2 DEF Reconcile
  <2>4. QED BY <1>e, <1>k, <2>1, <2>2, <2>3
<1>9. CASE ClaimInFrontier(i)
  <2>1. PICK j \in Jobs : Become(i, [d EXCEPT !.job = j, !.stage = "prepare"])
    BY <1>9 DEF ClaimInFrontier
  <2>2. PICK e : e = [d EXCEPT !.job = j, !.stage = "prepare"]
    OBVIOUS
  <2>3. e.stage = "prepare" /\ e.rows = d.rows
    BY <1>g, <2>2 DEF Reconcile
  <2>4. QED BY <1>e, <1>k, <2>1, <2>2, <2>3
<1>10. CASE FailFrontierLaunch(i) \/ CallFails(i)
  <2>1. GoTo(i, "compensate") \/ GoTo(i, "launchFailed") \/ Become(i, Resting)
    BY <1>10 DEF FailFrontierLaunch, CallFails
  <2>2. QED BY <1>k, <1>r, <1>t, <2>1
<1>11. CASE CancelActive(i)
  <2>1. PICK j \in Jobs : UNCHANGED daemon \/ Become(i, [d EXCEPT !.rows[j] = AbsentRow])
    BY <1>11 DEF CancelActive, Listed
  <2>2. d.stage = "observe"
    BY <1>11 DEF CancelActive, At
  <2>3. PICK e : e = [d EXCEPT !.rows[j] = AbsentRow]
    OBVIOUS
  <2>4. e.stage = "observe" /\ \A l \in Jobs : e.rows[l] \in {d.rows[l], AbsentRow}
    BY <1>g, <2>2, <2>3 DEF Reconcile
  <2>5. QED BY <1>e, <1>k, <2>1, <2>2, <2>3, <2>4
<1>12. CASE Crash(i)
  BY <1>12, <1>r DEF Crash
<1>13. QED
  BY <1>1, <1>2, <1>3, <1>4, <1>5, <1>6, <1>7, <1>8, <1>9, <1>10, <1>11, <1>12, KindsOfSteps
  DEF WaveCalls

-----------------------------------------------------------------------------
(* The loop, the rows and the hand of a wave in a step of its own *)

LEMMA OwnStepKeepsLoop ==
  ASSUME SupInvariant, WavesTyped, NEW i \in Instances, WaveOK(i),
         WaveStep(i) \/ WaveDisturbed(i)
  PROVE  /\ WaveOK(i)'
         /\ \A j \in wave'[i].active :
              j \in wave[i].active \/ (At(i, "persistRecord") /\ daemon[i].job = j)
<1> DEFINE v == wave[i]
           Fine == /\ WaveOK(i)'
                   /\ \A j \in wave'[i].active :
                        j \in v.active \/ (At(i, "persistRecord") /\ daemon[i].job = j)
<1>g. wave \in [Instances -> Waving] /\ v \in Waving
  BY DEF WavesTyped
<1>n. CASE ~At(i, "new")'
  \* The loop goes to or stays at a stage in which nothing is asked of it.
  <2>s. ASSUME NEW w \in Waving, wave' = [wave EXCEPT ![i] = w],
               w.stage \notin {"new", "preflight", "returned"},
               \A j \in w.active :
                 j \in v.active \/ (At(i, "persistRecord") /\ daemon[i].job = j)
        PROVE  Fine
    <3>1. wave'[i] = w
      BY <1>g, <2>s
    <3>2. QED BY <1>n, <2>s, <3>1 DEF WaveOK
  <2>same. ASSUME UNCHANGED wave, v.stage # "returned"
           PROVE  Fine
    BY <1>n, <2>same DEF WaveOK
  <2>exit. ASSUME NEW how, Exited(i, how) PROVE Fine
    <3>1. wave'[i].stage = how /\ wave'[i].active = {}
      BY <1>g, <2>exit, LoopAfter
    <3>2. daemon'[i].stage = "down"
      BY <2>exit, RestAfter DEF Exited
    <3>3. QED BY <1>n, <3>1, <3>2 DEF WaveOK, At
  <2>go. ASSUME NEW stage, WaveGoTo(i, stage),
                stage \notin {"new", "preflight", "returned"}
         PROVE  Fine
    BY <1>n, <2>go, LoopAfter DEF WaveOK
  <2>drop. ASSUME NEW j, Drop(i, j), v.stage \notin {"new", "preflight", "returned"}
           PROVE  Fine
    BY <1>n, <2>drop, LoopAfter DEF WaveOK
  <2>1. CASE WaveRun(i)
    <3>1. v.active = {}
      BY <2>1 DEF WaveRun, WaveOK
    <3>2. wave'[i].stage = "preflight" /\ wave'[i].active = {}
      BY <2>1, <3>1, LoopAfter DEF WaveRun
    <3>3. QED BY <1>n, <3>2 DEF WaveOK
  <2>2. CASE WaveHeartbeat(i) \/ EndReap(i) \/ EndRefill(i) \/ WaveError(i) \/ EndCancel(i)
             \/ GiveUpCancelling(i)
    <3>1. \/ \E how : Exited(i, how)
          \/ \E stage \in {"reap", "refill", "sleep", "cancel"} : WaveGoTo(i, stage)
          \/ UNCHANGED wave /\ v.stage = "cancel"
      BY <2>2 DEF WaveHeartbeat, EndReap, EndRefill, WaveError, EndCancel, GiveUpCancelling,
         WaveAt
    <3>2. QED BY <2>exit, <2>go, <2>same, <3>1
  <2>3. CASE WakeUp(i)
    <3>1. PICK w : w = [v EXCEPT !.stage = "cancel", !.timed = "yes"]
      OBVIOUS
    <3>2. w \in Waving /\ w.stage = "cancel" /\ w.active = v.active
      BY <1>g, <3>1 DEF Waving, WaveStages
    <3>3. WaveGoTo(i, "top") \/ wave' = [wave EXCEPT ![i] = w]
      BY <2>3, <3>1 DEF WakeUp
    <3>4. QED BY <2>s, <2>go, <3>2, <3>3
  <2>4. CASE ListEligibleJobIDs(i)
    <3>1. PICK eligible \in SUBSET Jobs :
            \/ Exited(i, "returned")
            \/ wave' = [wave EXCEPT ![i].frontier = eligible, ![i].stage = "top"]
      BY <2>4 DEF ListEligibleJobIDs
    <3>2. PICK w : w = [v EXCEPT !.frontier = eligible, !.stage = "top"]
      OBVIOUS
    <3>3. w \in Waving /\ w.stage = "top" /\ w.active = v.active
      BY <1>g, <3>2 DEF Waving, WaveStages
    <3>4. QED BY <2>s, <2>exit, <3>1, <3>2, <3>3
  <2>5. CASE Preflight(i) \/ WaveInspect(i) \/ FailFrontierLaunch(i) \/ CallFails(i)
             \/ \E j \in Jobs : FinalizeActive(i, j) \/ LeaveActive(i, j)
    BY <2>5, <2>same DEF Preflight, WaveInspect, FailFrontierLaunch, CallFails,
       FinalizeActive, LeaveActive, WaveAt
  <2>6. CASE EndActive(i) \/ \E j \in Jobs : KeepActive(i, j)
    <3>1. v.stage \in {"reap", "cancel"} /\ (UNCHANGED wave \/ \E j : Drop(i, j))
      BY <2>6 DEF EndActive, KeepActive, WaveAt
    <3>2. QED BY <2>same, <2>drop, <3>1
  <2>7. CASE ListActive(i)
    <3>1. OwnedActive(i) \in SUBSET Jobs /\ OwnedActive(i) \subseteq v.active
      BY <1>g DEF OwnedActive, Waving
    <3>2. PICK w : w = [v EXCEPT !.active = OwnedActive(i), !.cancelled = {}]
      OBVIOUS
    <3>3. w \in Waving /\ w.stage = v.stage /\ w.active \subseteq v.active
      BY <1>g, <3>1, <3>2 DEF Waving
    <3>4. wave' = [wave EXCEPT ![i] = w] /\ v.stage \in {"reap", "cancel"}
      BY <2>7, <3>2 DEF ListActive
    <3>5. QED BY <2>s, <3>3, <3>4
  <2>8. CASE ClaimInFrontier(i)
    <3>1. PICK j \in Jobs : wave' = [wave EXCEPT ![i].frontier = @ \ {j}]
      BY <2>8 DEF ClaimInFrontier
    <3>2. PICK w : w = [v EXCEPT !.frontier = @ \ {j}]
      OBVIOUS
    <3>3. w \in Waving /\ w.stage = v.stage /\ w.active = v.active
      BY <1>g, <3>2 DEF Waving
    <3>4. wave' = [wave EXCEPT ![i] = w] /\ v.stage = "refill"
      BY <2>8, <3>1, <3>2 DEF ClaimInFrontier, WaveAt
    <3>5. QED BY <2>s, <3>3, <3>4
  <2>9. CASE LaunchInFrontier(i)
    <3> DEFINE active == IF At(i, "persistRecord") /\ daemon'[i].stage = "refill"
                         THEN v.active \cup {daemon[i].job} ELSE v.active
    <3>1. /\ wave' = [wave EXCEPT ![i].active = active]
          /\ v.stage = "refill"
      BY <2>9 DEF LaunchInFrontier, WaveAt
    <3>2. \A j \in active : j \in v.active \/ (At(i, "persistRecord") /\ daemon[i].job = j)
      OBVIOUS
    <3> HIDE DEF active
    <3>3. wave'[i].active = active /\ wave'[i].stage = "refill"
      BY <1>g, <3>1 DEF Waving
    <3>4. QED BY <1>n, <3>2, <3>3 DEF WaveOK
  <2>10. CASE CancelActive(i)
    <3>1. v.stage = "cancel"
      BY <2>10 DEF CancelActive, WaveAt
    <3>2. PICK j \in Jobs :
            \/ Drop(i, j) \/ UNCHANGED wave
            \/ wave' = [wave EXCEPT ![i].cancelled = @ \cup {j}]
      BY <2>10 DEF CancelActive, Listed
    <3>3. PICK w : w = [v EXCEPT !.cancelled = @ \cup {j}]
      OBVIOUS
    <3>4. w \in Waving /\ w.stage = v.stage /\ w.active = v.active
      BY <1>g, <3>3 DEF Waving
    <3>5. QED BY <2>s, <2>same, <2>drop, <3>1, <3>2, <3>3, <3>4
  <2>11. CASE wave' = [wave EXCEPT ![i] = [NotWaving EXCEPT !.stage = "killed"]]
    <3>1. PICK w : w = [NotWaving EXCEPT !.stage = "killed"]
      OBVIOUS
    <3>2. w \in Waving /\ w.stage = "killed" /\ w.active = {}
      BY <3>1 DEF NotWaving, Waving, WaveStages
    <3>3. QED BY <2>s, <2>11, <3>1, <3>2
  <2>12. QED
    BY <2>1, <2>2, <2>3, <2>4, <2>5, <2>6, <2>7, <2>8, <2>9, <2>10, <2>11
    DEF WaveStep, WaveDisturbed
<1>m. ~At(i, "new")'
  <2>1. CASE UNCHANGED daemon
    <3>1. WaveRun(i) \/ Crash(i) \/ v.stage # "new"
      BY DEF WaveStep, WaveDisturbed, Preflight, ListEligibleJobIDs, WaveHeartbeat, ListActive,
         WaveInspect, KeepActive, FinalizeActive, LeaveActive, EndActive, EndReap,
         ClaimInFrontier, LaunchInFrontier, FailFrontierLaunch, EndRefill, WakeUp, WaveError,
         CancelActive, EndCancel, CallFails, GiveUpCancelling, WaveAt
    <3>2. WaveRun(i) => daemon'[i].stage = "verify"
      BY RestAfter DEF WaveRun
    <3>3. Crash(i) => ~At(i, "new")
      BY DEF Crash, Up, At
    <3>4. QED BY <2>1, <3>1, <3>2, <3>3 DEF At, WaveOK
  <2>2. CASE daemon'[i].stage \notin KeptStages
    BY <2>2 DEF KeptStages, At
  <2>3. CASE PersistSpec(i) \/ MarkLaunching(i) \/ Launch(i) \/ PersistRecord(i)
    <3>1. \/ \E stage \in {"refill", "launchFailed", "launch", "persistRecord", "cleanup"} :
               GoTo(i, stage)
          \/ \E token : Become(i, [daemon[i] EXCEPT !.stage = "markLaunching",
                                                    !.token = token])
      BY <2>3 DEF PersistSpec, MarkLaunching, Launch, PersistRecord
    <3>2. ASSUME NEW token, Become(i, [daemon[i] EXCEPT !.stage = "markLaunching",
                                                        !.token = token])
          PROVE  daemon'[i].stage = "markLaunching"
      BY <3>2 DEF Become, SupInvariant, DaemonsOK, Reconcile
    <3>3. QED BY <3>1, <3>2, GoToAfter DEF At
  <2>4. QED BY <2>1, <2>2, <2>3, GoroutineMoves
<1>2. QED BY <1>n, <1>m

\* What the wave listed and found not launched is still given up on.
LEMMA OwnStepKeepsList ==
  ASSUME WaveInvariant, MaxTime <= MaxDelay, [WaveNext]_waveVars,
         NEW i \in Waves, WaveStep(i) \/ WaveDisturbed(i), NEW j \in Jobs
  PROVE  ListedOK(i, j)'
<1>g. /\ SupInvariant /\ WavesTyped /\ i \in Instances /\ ListedOK(i, j)
      /\ jobs[j].launchState = "unknown" => jobs'[j].launchState = "unknown"
  BY WavesAreInstances, WaveGivesUp DEF WaveInvariant, WaveJobOK
<1>1. CASE daemon'[i].rows[j] \in {daemon[i].rows[j], AbsentRow}
  BY <1>g, <1>1 DEF ListedOK
<1>2. CASE ListActive(i)
  <2> DEFINE rows == [l \in Jobs |-> IF l \in OwnedActive(i) THEN jobs[l] ELSE AbsentRow]
  <2>1. Become(i, [Resting EXCEPT !.stage = "observe", !.rows = rows]) /\ jobs' = jobs
    BY <1>2 DEF ListActive, StoreIdle, storeVars
  <2>2. rows[j] \in {jobs[j], AbsentRow} /\ (rows[j] # AbsentRow => j \in OwnedActive(i))
    OBVIOUS
  <2> HIDE DEF rows
  <2>3. daemon'[i].rows = rows
    <3>1. daemon'[i] = [Resting EXCEPT !.stage = "observe", !.rows = rows]
      BY <1>g, <2>1 DEF Become, SupInvariant, DaemonsOK
    <3>2. Resting \in Reconcile
      BY RestingType
    <3>3. QED BY <3>1, <3>2 DEF Reconcile
  <2>4. ASSUME rows[j] # AbsentRow, ~Durable(rows[j]) PROVE jobs[j].launchState = "unknown"
    <3>1. rows[j] = jobs[j] /\ IsRunning(j) /\ launches[j] # {}
      BY <2>2, <2>4 DEF OwnedActive, WaveInvariant, WaveJobOK
    <3>2. jobs[j].launchState \in {"launching", "running", "unknown"}
      BY <1>g, <3>1 DEF SupInvariant, TypeOK, Row, LaunchStates, RowInvariant, RowShape,
         LaunchedOnce
    <3>3. jobs[j].token # NoToken
      BY <1>g, <3>2 DEF SupInvariant, RowInvariant, RowShape
    <3>4. QED BY <2>4, <3>1, <3>2, <3>3 DEF Durable
  <2>5. QED BY <2>1, <2>3, <2>4 DEF ListedOK
<1>3. QED BY <1>1, <1>2, <1>g, GoroutineMoves

\* A lease that has run out is renewed by no owner's call.
LEMMA OwnWriteKeepsGone ==
  ASSUME SupInvariant, NEW i \in Instances, NEW l \in Jobs, Owned(i, l, clock),
         NEW row, jobs' = [jobs EXCEPT ![l] = row], clock' = clock,
         NEW j \in Jobs, LeaseGone(i, j)
  PROVE  LeaseGone(i, j)'
<1>1. jobs[l].leaseUntil \in Nat /\ clock \in Nat
  BY DEF SupInvariant, TypeOK, Row, RowInvariant, RowShape, Owned, NoTime
<1>2. j # l
  BY <1>1 DEF Owned, LeaseGone, LeaseExpired, NoTime
<1>3. jobs'[j] = jobs[j]
  BY <1>2 DEF SupInvariant, TypeOK
<1>4. QED BY <1>3 DEF LeaseGone, IsRunning, LeaseExpired

LEMMA OwnCallKeepsGone ==
  ASSUME SupInvariant, NEW i \in Instances, NEW l \in Jobs, NEW j \in Jobs, LeaseGone(i, j),
         \/ OwnerStep(i, l, clock)
         \/ \E active : ReleaseExpiredLeases(i, active, clock)
         \/ UNCHANGED <<jobs, clock>>
  PROVE  LeaseGone(i, j)'
<1>g. jobs \in [Jobs -> Row]
  BY DEF SupInvariant, TypeOK
<1>1. CASE UNCHANGED <<jobs, clock>>
  BY <1>1 DEF LeaseGone, IsRunning, LeaseExpired
<1>2. ASSUME NEW active, ReleaseExpiredLeases(i, active, clock) PROVE LeaseGone(i, j)'
  <2>1. clock' = clock /\ (jobs'[j] = Disowned(jobs[j], "pending") \/ jobs'[j] = jobs[j])
    BY <1>2 DEF ReleaseExpiredLeases
  <2>2. Disowned(jobs[j], "pending").status = "pending"
    BY <1>g DEF Disowned, Row
  <2>3. QED BY <2>1, <2>2 DEF LeaseGone, IsRunning, LeaseExpired
<1>3. CASE OwnerStep(i, l, clock)
  <2>1. Owned(i, l, clock) /\ clock' = clock
    BY <1>3 DEF OwnerStep, PersistLaunchSpecOwned, MarkJobLaunchingOwned,
       PersistLaunchRecordOwned, RenewJobLease, IncrementAttemptsForJob, FinalizeJobOwned
  <2>2. \E row : jobs' = [jobs EXCEPT ![l] = row]
    BY <1>3 DEF OwnerStep, PersistLaunchSpecOwned, MarkJobLaunchingOwned,
       PersistLaunchRecordOwned, RenewJobLease, IncrementAttemptsForJob, FinalizeJobOwned
  <2>3. QED BY <2>1, <2>2, OwnWriteKeepsGone
<1>4. QED BY <1>1, <1>2, <1>3

\* The row in hand is as the launch leaves it.
LEMMA OwnStepKeepsHand ==
  ASSUME SupInvariant, LaunchInvariant, UnknownIsExpired, NEW i \in Instances,
         WaveStep(i) \/ WaveDisturbed(i), NEW j \in Jobs, HandKept(i, j)
  PROVE  HandKept(i, j)'
<1> DEFINE d == daemon[i]
<1>g. /\ jobs \in [Jobs -> Row] /\ clock \in Nat /\ d \in Reconcile /\ HandOK(i, j)
      /\ GoroutineOK(d, clock)
  BY DEF SupInvariant, TypeOK, DaemonsOK, LaunchInvariant
<1>t. \A stage : GoTo(i, stage) => daemon'[i].stage = stage /\ daemon'[i].job = d.job
                                   /\ daemon'[i].token = d.token
  BY GoToAfter
<1>1. CASE UNCHANGED <<daemon, jobs, clock>>
  BY <1>1 DEF HandKept, Mine, IsRunning, LeaseGone, LeaseExpired
<1>2. CASE daemon'[i].stage \notin KeptStages
  BY <1>2 DEF HandKept, KeptStages
<1>3. CASE PersistSpec(i)
  <2>1. PICK l \in Jobs : d.job = l
    BY <1>g, <1>3 DEF GoroutineOK, PersistSpec, At, JobStages
  <2>2. CASE /\ PersistLaunchSpecOwned(i, l, clock)
             /\ Become(i, [d EXCEPT !.stage = "markLaunching", !.token = issued[l] + 1])
    <3>1. /\ daemon'[i].stage = "markLaunching" /\ daemon'[i].job = l
          /\ daemon'[i].token = issued[l] + 1
      BY <1>g, <2>1, <2>2 DEF Become, SupInvariant, DaemonsOK, Reconcile
    <3>2. jobs'[l].token = issued[l] + 1
      BY <1>g, <2>2 DEF PersistLaunchSpecOwned, Row
    <3>3. QED BY <3>1, <3>2 DEF HandKept
  <2>3. CASE GoTo(i, "refill") \/ GoTo(i, "launchFailed")
    BY <1>t, <2>3 DEF HandKept
  <2>4. QED BY <1>3, <2>1, <2>2, <2>3 DEF PersistSpec
<1>4. CASE MarkLaunching(i)
  <2>1. PICK l \in Jobs : d.job = l
    BY <1>g, <1>4 DEF GoroutineOK, MarkLaunching, At, JobStages, TokenStages
  <2>2. CASE MarkJobLaunchingOwned(i, l, d.token, clock) /\ GoTo(i, "launch")
    <3>1. jobs'[l].launchState = "launching"
      BY <1>g, <2>2 DEF MarkJobLaunchingOwned, Row
    <3>2. QED BY <1>t, <2>1, <2>2, <3>1 DEF HandKept
  <2>3. CASE GoTo(i, "refill")
    BY <1>t, <2>3 DEF HandKept
  <2>4. QED BY <1>4, <2>1, <2>2, <2>3 DEF MarkLaunching
<1>5. CASE Launch(i)
  <2>1. jobs' = jobs /\ d.stage = "launch"
    BY <1>5 DEF Launch, StoreIdle, storeVars, At
  <2>2. GoTo(i, "persistRecord") \/ GoTo(i, "launchFailed")
    BY <1>5 DEF Launch
  <2>3. QED BY <1>t, <2>1, <2>2 DEF HandKept, Mine, IsRunning
<1>6. CASE PersistRecord(i)
  <2>1. CASE GoTo(i, "refill")
    BY <1>t, <2>1 DEF HandKept
  <2>2. CASE /\ ~(/\ Owned(i, d.job, clock) /\ jobs[d.job].launchState = "launching"
                  /\ jobs[d.job].token = d.token)
             /\ GoTo(i, "cleanup") /\ UNCHANGED storeVars
    <3>1. ASSUME d.job = j, Mine(i, j) PROVE LeaseGone(i, j)
      <4>1. jobs[j].launchState \in {"launching", "unknown"} /\ d.token \in launches[j]
        BY <1>6, <1>g, <3>1 DEF HandKept, HandOK, PersistRecord, At, LaunchingStages
      <4>2. CASE jobs[j].launchState = "unknown"
        BY <4>2 DEF UnknownIsExpired, LeaseGone
      <4>3. CASE jobs[j].launchState = "launching"
        <5>1. launches[j] = {jobs[j].token}
          BY <4>3 DEF SupInvariant, RowInvariant, LaunchedOnce
        <5>2. ~Owned(i, j, clock)
          BY <2>2, <3>1, <4>1, <4>3, <5>1
        <5>3. QED BY <5>2, RefusedIsGone
      <4>4. QED BY <4>1, <4>2, <4>3
    <3>2. UNCHANGED <<jobs, clock>>
      BY <2>2 DEF storeVars
    <3>3. QED
      BY <1>t, <2>2, <3>1, <3>2 DEF HandKept, Mine, IsRunning, LeaseGone, LeaseExpired
  <2>3. QED BY <1>6, <2>1, <2>2 DEF PersistRecord
<1>7. QED BY <1>1, <1>2, <1>3, <1>4, <1>5, <1>6, GoroutineMoves

-----------------------------------------------------------------------------
(* No lease of a wave is forgotten *)

LEMMA RestsAccount ==
  ASSUME SupInvariant, WavesTyped, NEW i \in Instances, NEW j \in Jobs, WaveOK(i),
         wave[i].stage \in Underway /\ daemon[i].stage # "idle" => Accounted(i, j),
         WaveRests(i), wave'[i].stage \in Underway, daemon'[i].stage # "idle"
  PROVE  Accounted(i, j)'
<1>g. LeaseGone(i, j) => LeaseGone(i, j)'
  BY RestingSteps DEF LeaseGone, IsRunning, LeaseExpired
<1>r. {"new", "refill", "observe"} \cap RelyingStages = {}
  BY DEF RelyingStages, LaunchingStages, ClaimStages
<1>x. ~Exited(i, "failed")
  BY LoopAfter DEF Underway
<1>u. \A stage : stage \in Underway <=>
        stage \in {"new", "preflight", "top", "reap", "refill", "sleep", "returned"}
  BY DEF Underway
\* Between two calls nothing is in hand.
<1>b. ASSUME wave[i].stage \in Underway, daemon[i].stage \in {"new", "refill", "observe"},
             wave'[i].active = wave[i].active \/ wave[i].active = {}
      PROVE  Accounted(i, j)'
  <2>1. Accounted(i, j) /\ ~InHand(i, j)
    BY <1>b, <1>r DEF InHand
  <2>2. QED BY <1>b, <1>g, <2>1 DEF Accounted
<1>s. ASSUME UNCHANGED daemon, wave'[i].active = wave[i].active, wave[i].stage \in Underway
      PROVE  Accounted(i, j)'
  BY <1>s, <1>g DEF Accounted, InHand
<1>1. CASE WaveRun(i)
  <2>1. wave[i].stage = "new" /\ wave[i].active = {} /\ daemon[i].stage = "new"
    BY <1>1 DEF WaveRun, WaveOK, At
  <2>2. QED BY <1>b, <1>u, <2>1
<1>2. CASE ListEligibleJobIDs(i)
  <2>1. wave[i].stage = "preflight" /\ wave[i].active = {} /\ daemon[i].stage = "refill"
    BY <1>2 DEF ListEligibleJobIDs, WaveAt, WaveOK, At
  <2>2. QED BY <1>b, <1>u, <2>1
<1>3. CASE WaveHeartbeat(i)
  <2>1. wave[i].stage = "top"
    BY <1>3 DEF WaveHeartbeat, WaveAt
  <2>2. WaveGoTo(i, "reap") /\ UNCHANGED daemon
    BY <1>3, <1>x DEF WaveHeartbeat
  <2>3. QED BY <1>s, <1>u, <2>1, <2>2, LoopAfter
<1>4. CASE EndReap(i)
  <2>1. wave[i].stage = "reap" /\ daemon[i].stage \in {"refill", "observe"}
    BY <1>4 DEF EndReap, WaveAt, At
  <2>2. wave'[i].active = wave[i].active
    BY <1>4, LoopAfter DEF EndReap
  <2>3. QED BY <1>b, <1>u, <2>1, <2>2
<1>5. CASE EndRefill(i)
  <2>1. wave[i].stage = "refill" /\ daemon[i].stage = "refill"
    BY <1>5 DEF EndRefill, WaveAt, At
  <2>2. wave'[i].active = wave[i].active \/ wave[i].active = {}
    BY <1>5, LoopAfter DEF EndRefill
  <2>3. QED BY <1>b, <1>u, <2>1, <2>2
<1>6. CASE WakeUp(i)
  <2>1. wave[i].stage = "sleep" /\ UNCHANGED daemon
    BY <1>6 DEF WakeUp, WaveAt
  <2>2. wave' # [wave EXCEPT ![i].stage = "cancel", ![i].timed = "yes"]
    <3>1. [wave EXCEPT ![i].stage = "cancel", ![i].timed = "yes"][i].stage = "cancel"
      BY DEF WavesTyped, Waving
    <3>2. QED BY <1>u, <3>1
  <2>3. WaveGoTo(i, "top")
    BY <1>6, <2>2 DEF WakeUp
  <2>4. QED BY <1>s, <1>u, <2>1, <2>3, LoopAfter
<1>7. CASE WaveError(i) \/ EndCancel(i) \/ GiveUpCancelling(i)
  <2>1. \/ Exited(i, "failed")
        \/ WaveGoTo(i, "cancel")
        \/ UNCHANGED wave /\ wave[i].stage = "cancel"
    BY <1>7 DEF WaveError, EndCancel, GiveUpCancelling, WaveAt
  <2>2. wave'[i].stage # "cancel"
    BY <1>u
  <2>3. QED BY <1>x, <2>1, <2>2, LoopAfter
<1>8. QED BY <1>1, <1>2, <1>3, <1>4, <1>5, <1>6, <1>7 DEF WaveRests

LEMMA CallsAccount ==
  ASSUME SupInvariant, WavesTyped, NEW i \in Instances, NEW j \in Jobs,
         wave[i].stage \in Underway /\ daemon[i].stage # "idle" => Accounted(i, j),
         WaveCalls(i), wave'[i].stage \in Underway, daemon'[i].stage # "idle"
  PROVE  Accounted(i, j)'
<1> DEFINE d == daemon[i]
<1>g. /\ d \in Reconcile /\ GoroutineOK(d, clock) /\ wave \in [Instances -> Waving]
      /\ jobs \in [Jobs -> Row]
  BY DEF SupInvariant, DaemonsOK, WavesTyped, TypeOK
<1>r. {"new", "refill", "observe"} \cap RelyingStages = {}
  BY DEF RelyingStages, LaunchingStages, ClaimStages
<1>u. \A stage : stage \in Underway <=>
        stage \in {"new", "preflight", "top", "reap", "refill", "sleep", "returned"}
  BY DEF Underway
<1>i. \A e : Become(i, e) => daemon'[i] = e
  BY DEF Become, SupInvariant, DaemonsOK
<1>z. ~Become(i, Resting)
  BY RestAfter
\* At the calls between the launches nothing is in hand.
<1>b. ASSUME wave[i].stage \in Underway, d.stage \in {"refill", "observe"}
      PROVE  LeaseGone(i, j) \/ j \in wave[i].active
  BY <1>b, <1>r DEF Accounted, InHand
<1>1. CASE ListActive(i)
  <2>1. wave'[i].active = OwnedActive(i) /\ wave'[i].stage = wave[i].stage
    <3>1. wave[i] \in Waving /\ wave' = [wave EXCEPT ![i].active = OwnedActive(i),
                                                     ![i].cancelled = {}]
      BY <1>g, <1>1 DEF ListActive
    <3>2. PICK owned : owned = OwnedActive(i)
      OBVIOUS
    <3>3. QED BY <1>g, <3>1, <3>2 DEF Waving
  <2>2. d.stage = "refill" /\ UNCHANGED <<jobs, clock>>
    BY <1>1 DEF ListActive, At, StoreIdle, storeVars
  <2>3. LeaseGone(i, j) \/ j \in wave[i].active
    BY <1>b, <2>1, <2>2
  <2>4. LeaseGone(i, j) \/ j \in OwnedActive(i)
    BY <2>3 DEF OwnedActive, LeaseGone
  <2>5. QED BY <2>1, <2>2, <2>4 DEF Accounted, LeaseGone, IsRunning, LeaseExpired
<1>2. ASSUME NEW l \in Jobs, KeepActive(i, l) PROVE Accounted(i, j)'
  <2>1. wave[i].stage = "reap" /\ d.stage = "observe"
    BY <1>2 DEF KeepActive, WaveAt, At
  <2>2. LeaseGone(i, j) \/ j \in wave[i].active
    BY <1>b, <1>u, <2>1
  <2>3. CASE RenewJobLease(i, l, clock) /\ UNCHANGED wave
    BY <2>2, <2>3, OwnCallKeepsGone DEF Accounted, OwnerStep
  <2>4. CASE UNCHANGED <<jobs, clock, wave>>
    BY <2>2, <2>4, OwnCallKeepsGone DEF Accounted
  <2>5. CASE ~Owned(i, l, clock) /\ Drop(i, l) /\ UNCHANGED <<jobs, clock>>
    <3>1. LeaseGone(i, l)
      BY <2>5, RefusedIsGone
    <3>2. LeaseGone(i, j) \/ j \in wave[i].active \ {l}
      BY <2>2, <3>1
    <3>3. QED BY <2>5, <3>2, LoopAfter, OwnCallKeepsGone DEF Accounted
  <2>6. QED BY <1>2, <2>3, <2>4, <2>5 DEF KeepActive, Keeps, storeVars
<1>3. ASSUME NEW l \in Jobs, FinalizeActive(i, l) PROVE Accounted(i, j)'
  <2>1. /\ UNCHANGED wave /\ d.stage = "observe"
        /\ RenewJobLease(i, l, clock) \/ UNCHANGED storeVars
    BY <1>3 DEF FinalizeActive, At
  <2>2. LeaseGone(i, j) \/ j \in wave[i].active
    BY <1>b, <2>1
  <2>3. QED BY <2>1, <2>2, OwnCallKeepsGone DEF Accounted, OwnerStep, storeVars
<1>4. ASSUME NEW l \in Jobs, LeaveActive(i, l) PROVE FALSE
  BY <1>4, <1>u DEF LeaveActive, WaveAt
<1>5. CASE ClaimInFrontier(i)
  <2>1. PICK l \in Jobs :
          /\ ClaimJob(i, l, wave[i].frontier, clock)
          /\ Become(i, [d EXCEPT !.job = l, !.stage = "prepare"])
          /\ wave' = [wave EXCEPT ![i].frontier = @ \ {l}]
    BY <1>5 DEF ClaimInFrontier
  <2>2. wave[i].stage = "refill" /\ d.stage = "refill"
    BY <1>5 DEF ClaimInFrontier, WaveAt, At
  <2>3. wave'[i].active = wave[i].active
    BY <1>g, <2>1 DEF Waving
  <2>4. CASE j = l
    <3>1. daemon'[i].stage = "prepare" /\ daemon'[i].job = j
      BY <1>g, <1>i, <2>1, <2>4 DEF Reconcile
    <3>2. QED BY <3>1 DEF Accounted, InHand, RelyingStages, ClaimStages
  <2>5. CASE j # l
    <3>1. jobs'[j] = jobs[j] /\ clock' = clock
      BY <1>g, <2>1, <2>5 DEF ClaimJob
    <3>2. LeaseGone(i, j) \/ j \in wave[i].active
      BY <1>b, <1>u, <2>2
    <3>3. QED BY <2>3, <3>1, <3>2 DEF Accounted, LeaseGone, IsRunning, LeaseExpired
  <2>6. QED BY <2>4, <2>5
<1>6. CASE FailFrontierLaunch(i)
  BY <1>6, <1>z DEF FailFrontierLaunch
<1>7. CASE CancelActive(i)
  <2>1. wave[i].stage = "cancel"
    BY <1>7 DEF CancelActive, WaveAt
  <2>2. wave'[i].stage = "cancel"
    <3>1. PICK l \in Jobs :
            \/ Drop(i, l) \/ UNCHANGED wave
            \/ wave' = [wave EXCEPT ![i].cancelled = @ \cup {l}]
      BY <1>7 DEF CancelActive, Listed
    <3>2. [wave EXCEPT ![i].cancelled = @ \cup {l}][i].stage = wave[i].stage
      BY <1>g DEF Waving
    <3>3. QED BY <2>1, <3>1, <3>2, LoopAfter
  <2>3. QED BY <1>u, <2>2
<1>8. CASE CallFails(i)
  <2>1. /\ UNCHANGED <<jobs, clock, wave>> /\ d.stage # "idle"
        /\ \/ d.stage \in RelyingStages /\ GoTo(i, "compensate")
           \/ d.stage \in RelyingStages /\ GoTo(i, "launchFailed")
    BY <1>8, <1>z DEF CallFails, StoreIdle, storeVars, At, RelyingStages, LaunchingStages
  <2>2. daemon'[i].stage \in RelyingStages /\ daemon'[i].job = d.job
    BY <2>1, GoToAfter DEF RelyingStages, LaunchingStages
  <2>3. Accounted(i, j)
    BY <2>1
  <2>4. QED
    BY <2>1, <2>2, <2>3 DEF Accounted, InHand, LeaseGone, IsRunning, LeaseExpired
<1>9. QED BY <1>1, <1>2, <1>3, <1>4, <1>5, <1>6, <1>7, <1>8 DEF WaveCalls

LEMMA LaunchAccount ==
  ASSUME SupInvariant, LaunchInvariant, WavesTyped, NEW i \in Instances, NEW j \in Jobs,
         HandKept(i, j), LaunchInFrontier(i), daemon'[i].stage # "idle",
         wave[i].stage \in Underway /\ daemon[i].stage # "idle" => Accounted(i, j)
  PROVE  Accounted(i, j)'
<1> DEFINE d == daemon[i]
<1>g. /\ d \in Reconcile /\ GoroutineOK(d, clock) /\ wave \in [Instances -> Waving]
      /\ HandOK(i, j)
  BY DEF SupInvariant, DaemonsOK, WavesTyped, LaunchInvariant
<1>1. wave[i].stage = "refill" /\ d.stage # "idle"
  BY DEF LaunchInFrontier, WaveAt, RenewBeforeSideEffect, Prepare, PersistSpec, MarkLaunching,
     Launch, PersistRecord, CancelWrapper, CancelFails, At
<1>2. Accounted(i, j)
  BY <1>1 DEF Underway
<1>a. /\ wave[i].active \subseteq wave'[i].active
      /\ At(i, "persistRecord") /\ daemon'[i].stage = "refill" => d.job \in wave'[i].active
  <2> DEFINE active == IF At(i, "persistRecord") /\ daemon'[i].stage = "refill"
                       THEN wave[i].active \cup {d.job} ELSE wave[i].active
  <2>1. wave' = [wave EXCEPT ![i].active = active]
    BY DEF LaunchInFrontier
  <2>2. /\ wave[i].active \subseteq active
        /\ At(i, "persistRecord") /\ daemon'[i].stage = "refill" => d.job \in active
    OBVIOUS
  <2> HIDE DEF active
  <2>3. wave'[i].active = active
    BY <1>g, <2>1 DEF Waving
  <2>4. QED BY <2>2, <2>3
<1>h. \A stage : GoTo(i, stage) => daemon'[i].stage = stage /\ daemon'[i].job = d.job
  BY GoToAfter
<1>s. \A stage : stage \in RelyingStages <=>
        stage \in {"launch", "persistRecord", "cleanup", "compensate", "prepare",
                   "persistSpec", "markLaunching", "launchFailed"}
  BY DEF RelyingStages, LaunchingStages, ClaimStages
<1>n. ~Become(i, Resting)
  BY RestAfter
\* What is still in hand.
<1>k. ASSUME NEW stage \in RelyingStages, GoTo(i, stage), InHand(i, j) PROVE InHand(i, j)'
  BY <1>h, <1>k DEF InHand
<1>o. ASSUME LeaseGone(i, j), UNCHANGED <<jobs, clock>> PROVE LeaseGone(i, j)'
  BY <1>o DEF LeaseGone, IsRunning, LeaseExpired
<1>f. ASSUME InHand(i, j), Mine(i, j) => ~Owned(i, j, clock), UNCHANGED <<jobs, clock>>
      PROVE  LeaseGone(i, j)'
  <2>1. LeaseGone(i, j)
    BY <1>f, RefusedIsGone DEF LeaseGone, Mine
  <2>2. QED BY <1>f, <1>o, <2>1
<1>3. CASE LeaseGone(i, j)
  <2>1. PICK l \in Jobs : d.job = l
    <3>1. d.stage \in JobStages
      BY DEF LaunchInFrontier, RenewBeforeSideEffect, Prepare, PersistSpec, MarkLaunching,
         Launch, PersistRecord, CancelWrapper, CancelFails, At, JobStages, TokenStages
    <3>2. QED BY <1>g, <3>1 DEF GoroutineOK
  <2>2. CASE RenewBeforeSideEffect(i)
    BY <1>3, <2>1, <2>2, OwnCallKeepsGone DEF RenewBeforeSideEffect, OwnerStep, Accounted
  <2>3. CASE Launch(i) \/ CancelWrapper(i) \/ CancelFails(i)
    BY <1>3, <1>o, <2>3 DEF Launch, CancelWrapper, CancelFails, StoreIdle, storeVars, Accounted
  <2>4. CASE Prepare(i)
    <3>1. ASSUME NEW status \in {"failed", "skipped", "dead"},
                 FinalizeJobOwned(i, l, status, TRUE, clock)
          PROVE  LeaseGone(i, j)'
      BY <1>3, <3>1, SettledIsGone DEF Terminal
    <3>2. QED BY <1>3, <1>o, <2>1, <2>4, <3>1 DEF Prepare, storeVars, Accounted
  <2>5. CASE PersistSpec(i) \/ MarkLaunching(i) \/ PersistRecord(i)
    <3>1. \/ PersistLaunchSpecOwned(i, l, clock)
          \/ MarkJobLaunchingOwned(i, l, d.token, clock)
          \/ PersistLaunchRecordOwned(i, l, d.token, clock)
          \/ UNCHANGED <<jobs, clock>>
      BY <2>1, <2>5 DEF PersistSpec, MarkLaunching, PersistRecord, storeVars
    <3>2. \/ /\ Owned(i, l, clock) /\ clock' = clock
             /\ \E row : jobs' = [jobs EXCEPT ![l] = row]
          \/ UNCHANGED <<jobs, clock>>
      BY <3>1 DEF PersistLaunchSpecOwned, MarkJobLaunchingOwned, PersistLaunchRecordOwned
    <3>3. QED BY <1>3, <1>o, <3>2, OwnWriteKeepsGone DEF Accounted
  <2>6. QED BY <2>2, <2>3, <2>4, <2>5 DEF LaunchInFrontier
<1>4. CASE j \in wave[i].active
  BY <1>4, <1>a DEF Accounted
<1>5. CASE InHand(i, j)
  <2>1. d.job = j /\ d.stage \in RelyingStages
    BY <1>5 DEF InHand
  <2>2. CASE RenewBeforeSideEffect(i)
    BY <1>5, <2>2 DEF RenewBeforeSideEffect, Accounted, InHand
  <2>3. CASE Prepare(i)
    <3>1. ASSUME NEW status \in {"failed", "skipped", "dead"},
                 FinalizeJobOwned(i, j, status, TRUE, clock)
          PROVE  LeaseGone(i, j)'
      BY <3>1, SettledIsGone DEF Terminal
    <3>2. QED BY <1>5, <1>f, <1>k, <1>s, <2>1, <2>3, <3>1 DEF Prepare, storeVars, Accounted
  <2>4. CASE PersistSpec(i)
    <3>1. CASE Become(i, [d EXCEPT !.stage = "markLaunching", !.token = issued[j] + 1])
      <4>1. daemon'[i].stage = "markLaunching" /\ daemon'[i].job = j
        BY <1>g, <2>1, <3>1 DEF Become, SupInvariant, DaemonsOK, Reconcile
      <4>2. QED BY <1>s, <4>1 DEF Accounted, InHand
    <3>2. CASE /\ ~(Owned(i, j, clock) /\ jobs[j].launchState = "preparing")
               /\ UNCHANGED storeVars
      <4>1. Mine(i, j) => jobs[j].launchState = "preparing"
        BY <1>g, <2>1, <2>4 DEF HandOK, PersistSpec, At, ClaimStages
      <4>2. QED BY <1>5, <1>f, <3>2, <4>1 DEF storeVars, Accounted
    <3>3. CASE GoTo(i, "launchFailed")
      BY <1>5, <1>k, <1>s, <3>3 DEF Accounted
    <3>4. QED BY <2>1, <2>4, <3>1, <3>2, <3>3 DEF PersistSpec
  <2>5. CASE MarkLaunching(i)
    <3>1. CASE GoTo(i, "launch")
      BY <1>5, <1>k, <1>s, <3>1 DEF Accounted
    <3>2. CASE /\ ~(/\ Owned(i, j, clock) /\ jobs[j].launchState = "preparing"
                    /\ jobs[j].token = d.token)
               /\ UNCHANGED storeVars
      <4>1. Mine(i, j) => jobs[j].launchState = "preparing" /\ jobs[j].token = d.token
        BY <1>g, <2>1, <2>5 DEF HandOK, HandKept, MarkLaunching, At, ClaimStages
      <4>2. QED BY <1>5, <1>f, <3>2, <4>1 DEF storeVars, Accounted
    <3>3. QED BY <2>1, <2>5, <3>1, <3>2 DEF MarkLaunching
  <2>6. CASE Launch(i)
    BY <1>5, <1>k, <1>s, <2>6 DEF Launch, Accounted
  <2>7. CASE PersistRecord(i)
    <3>1. CASE GoTo(i, "cleanup")
      BY <1>5, <1>k, <1>s, <3>1 DEF Accounted
    <3>2. CASE GoTo(i, "refill")
      BY <1>a, <1>h, <2>1, <2>7, <3>2 DEF PersistRecord, Accounted
    <3>3. QED BY <2>7, <3>1, <3>2 DEF PersistRecord
  <2>8. CASE CancelWrapper(i) \/ CancelFails(i)
    <3>1. CASE d.stage = "cleanup"
      <4>1. LeaseGone(i, j)
        BY <2>1, <3>1 DEF HandKept, Mine, LeaseGone
      <4>2. QED BY <1>o, <2>8, <4>1 DEF CancelWrapper, CancelFails, StoreIdle, storeVars,
                   Accounted
    <3>2. CASE d.stage # "cleanup"
      <4>1. GoTo(i, "launchFailed")
        BY <1>n, <2>8, <3>2 DEF CancelWrapper, CancelFails, At
      <4>2. QED BY <1>5, <1>k, <1>s, <4>1 DEF Accounted
    <3>3. QED BY <3>1, <3>2
  <2>9. QED
    BY <2>2, <2>3, <2>4, <2>5, <2>6, <2>7, <2>8 DEF LaunchInFrontier
<1>6. QED BY <1>2, <1>3, <1>4, <1>5 DEF Accounted

LEMMA OwnStepAccounts ==
  ASSUME SupInvariant, LaunchInvariant, WavesTyped, NEW i \in Instances, NEW j \in Jobs,
         WaveOK(i), HandKept(i, j), WaveStep(i) \/ WaveDisturbed(i),
         wave[i].stage \in Underway /\ daemon[i].stage # "idle" => Accounted(i, j),
         wave'[i].stage \in Underway, daemon'[i].stage # "idle"
  PROVE  Accounted(i, j)'
<1>g. GoroutineOK(daemon[i], clock) /\ wave \in [Instances -> Waving]
  BY DEF SupInvariant, DaemonsOK, WavesTyped
<1>u. \A stage : stage \in Underway <=>
        stage \in {"new", "preflight", "top", "reap", "refill", "sleep", "returned"}
  BY DEF Underway
\* In a step without a job in hand.
<1>b. ASSUME wave[i].stage \in Underway, daemon[i].stage \notin RelyingStages \cup {"idle"}
      PROVE  LeaseGone(i, j) \/ j \in wave[i].active
  BY <1>b DEF Accounted, InHand
<1>r. {"verify", "prune", "observe", "observeProbe", "verifyProbe", "reinspectProbe",
       "finalActions"} \cap (RelyingStages \cup {"idle"}) = {}
  BY DEF RelyingStages, LaunchingStages, ClaimStages
<1>1. CASE WaveRests(i)
  BY <1>1, RestsAccount
<1>2. CASE WaveCalls(i)
  BY <1>2, CallsAccount
<1>3. CASE LaunchInFrontier(i)
  BY <1>3, LaunchAccount
<1>4. CASE Preflight(i)
  <2>1. /\ wave[i].stage = "preflight" /\ UNCHANGED wave
        /\ daemon[i].stage \in {"verify", "prune"}
    BY <1>4 DEF Preflight, RecoverExpiredLeases, PruneStaleHeartbeats, WaveAt, At
  <2>2. (\E active : ReleaseExpiredLeases(i, active, clock)) \/ UNCHANGED <<jobs, clock>>
    BY <1>4 DEF Preflight, RecoverExpiredLeases, PruneStaleHeartbeats,
       PruneStaleRunnerHeartbeats, storeVars
  <2>3. LeaseGone(i, j) \/ j \in wave[i].active
    BY <1>b, <1>r, <1>u, <2>1
  <2>4. QED BY <2>1, <2>2, <2>3, OwnCallKeepsGone DEF Accounted
<1>5. CASE WaveInspect(i)
  <2>1. /\ UNCHANGED <<jobs, clock, wave>>
        /\ daemon[i].stage \in {"observe", "observeProbe", "verifyProbe", "reinspectProbe"}
    BY <1>5 DEF WaveInspect, CheckProcess, ReadMetadata, StoreIdle, storeVars, At
  <2>2. LeaseGone(i, j) \/ j \in wave[i].active
    BY <1>b, <1>r, <2>1
  <2>3. QED BY <2>1, <2>2 DEF Accounted, LeaseGone, IsRunning, LeaseExpired
<1>6. CASE EndActive(i)
  <2>1. CASE RenewBeforeSideEffect(i) /\ UNCHANGED wave
    <3>1. daemon[i].stage \in {"prepare", "finalActions"} /\ UNCHANGED daemon
      BY <2>1 DEF RenewBeforeSideEffect, At
    <3>2. PICK l \in Jobs : daemon[i].job = l
      BY <1>g, <3>1 DEF GoroutineOK, JobStages
    <3>3. RenewJobLease(i, l, clock)
      BY <2>1, <3>2 DEF RenewBeforeSideEffect
    <3>4. QED BY <2>1, <3>1, <3>3, OwnCallKeepsGone DEF Accounted, InHand, OwnerStep
  <2>2. CASE FinalizeObservation(i) /\ Drop(i, daemon[i].job)
    <3>1. daemon[i].stage = "finalActions" /\ wave[i].stage \in {"reap", "cancel"}
      BY <1>6, <2>2 DEF FinalizeObservation, EndActive, At
    <3>2. PICK l \in Jobs : daemon[i].job = l /\ daemon[i].seen[l] \in Outcomes
      BY <1>g, <3>1 DEF GoroutineOK, JobStages
    <3>3. /\ wave'[i].stage = wave[i].stage
          /\ wave'[i].active = wave[i].active \ {l}
      BY <2>2, <3>2, LoopAfter
    <3>4. LeaseGone(i, j) \/ j \in wave[i].active
      BY <1>b, <1>r, <3>1, <3>3
    <3>5. LeaseGone(i, l)' /\ (j # l /\ LeaseGone(i, j) => LeaseGone(i, j)')
      <4>1. CASE Owned(i, l, clock)
        <5>1. PICK status \in FinalStatus(daemon[i].seen[l]), workStarted \in BOOLEAN :
                FinalizeJobOwned(i, l, status, workStarted, clock)
          BY <2>2, <3>2, <4>1 DEF FinalizeObservation
        <5>2. status \in Terminal
          BY <3>2 DEF FinalStatus, Outcomes, Terminal
        <5>3. QED BY <5>1, <5>2, SettledIsGone
      <4>2. CASE ~Owned(i, l, clock)
        <5>1. UNCHANGED <<jobs, clock>>
          BY <2>2, <3>2, <4>2 DEF FinalizeObservation, storeVars
        <5>2. LeaseGone(i, l)
          BY <4>2, RefusedIsGone
        <5>3. QED BY <5>1, <5>2 DEF LeaseGone, IsRunning, LeaseExpired
      <4>3. QED BY <4>1, <4>2
    <3>6. QED BY <3>3, <3>4, <3>5 DEF Accounted
  <2>3. QED BY <1>6, <2>1, <2>2 DEF EndActive
<1>7. CASE wave' = [wave EXCEPT ![i] = [NotWaving EXCEPT !.stage = "killed"]]
  <2>1. wave'[i].stage = "killed"
    BY <1>7, <1>g DEF NotWaving
  <2>2. QED BY <1>u, <2>1
<1>8. QED BY <1>1, <1>2, <1>3, <1>4, <1>5, <1>6, <1>7, KindsOfSteps

-----------------------------------------------------------------------------
(* Every step keeps the invariant *)

LEMMA OwnStepKeepsWave ==
  ASSUME WaveInvariant, MaxTime <= MaxDelay, [WaveNext]_waveVars,
         NEW i \in Waves, WaveStep(i) \/ WaveDisturbed(i)
  PROVE  WaveOK(i)' /\ \A j \in Jobs : WaveJobOK(i, j)'
<1>g. /\ SupInvariant /\ LaunchInvariant /\ WavesTyped /\ UnknownIsExpired /\ i \in Instances
      /\ WaveOK(i) /\ \A j \in Jobs : WaveJobOK(i, j)
  BY WavesAreInstances DEF WaveInvariant
<1>1. /\ WaveOK(i)'
      /\ \A j \in wave'[i].active :
           j \in wave[i].active \/ (At(i, "persistRecord") /\ daemon[i].job = j)
  BY <1>g, OwnStepKeepsLoop
<1>2. ASSUME NEW j \in Jobs PROVE WaveJobOK(i, j)'
  <2>1. ASSUME j \in wave'[i].active PROVE launches'[j] # {}
    <3>1. j \in wave[i].active => launches[j] # {}
      BY <1>g DEF WaveJobOK
    <3>2. At(i, "persistRecord") /\ daemon[i].job = j => launches[j] # {}
      BY <1>g DEF LaunchInvariant, HandOK, At, LaunchingStages
    <3>3. launches[j] # {}
      BY <1>1, <2>1, <3>1, <3>2
    <3>4. launches[j] \subseteq launches'[j]
      BY <1>g, WaveStepIsStoreStep, LaunchesStay
    <3>5. QED BY <3>3, <3>4
  <2>2. ListedOK(i, j)'
    BY OwnStepKeepsList
  <2>3. HandKept(i, j)'
    BY <1>g, OwnStepKeepsHand DEF WaveJobOK
  <2>4. wave'[i].stage \in Underway /\ daemon'[i].stage # "idle" => Accounted(i, j)'
    BY <1>g, OwnStepAccounts DEF WaveJobOK
  <2>5. QED BY <2>1, <2>2, <2>3, <2>4 DEF WaveJobOK
<1>3. QED BY <1>1, <1>2

(* A wave that stands still loses what it holds only to the clock. *)
LEMMA OthersKeepWave ==
  ASSUME SupInvariant, NEW i \in Instances, WaveOK(i), NEW j \in Jobs, WaveJobOK(i, j),
         StandsStill(i), wave'[i] = wave[i], clock' \in Nat, clock <= clock',
         launches[j] \subseteq launches'[j],
         jobs[j].launchState = "unknown" => jobs'[j].launchState = "unknown"
  PROVE  WaveOK(i)' /\ WaveJobOK(i, j)'
<1>1. daemon'[i] = daemon[i] /\ Untouched(i, j)
  BY DEF StandsStill
<1>2. LeaseGone(i, j) => LeaseGone(i, j)'
  BY <1>1, LeaseStaysGone
<1>3. WaveOK(i)'
  BY <1>1 DEF WaveOK, At
<1>4. ListedOK(i, j)'
  BY <1>1 DEF WaveJobOK, ListedOK
<1>5. HandKept(i, j)'
  <2>1. ASSUME Mine(i, j)'
        PROVE  /\ Mine(i, j) /\ jobs'[j].token = jobs[j].token
               /\ jobs'[j].launchState \in {jobs[j].launchState, "unknown"}
    <3>1. Mine(i, j) /\ jobs'[j].token = jobs[j].token
      BY <1>1, <2>1, UntouchedRow
    <3>2. jobs'[j] = jobs[j] \/ WrittenOff(j)
      BY <1>1, <2>1 DEF Untouched
    <3>3. QED BY <3>1, <3>2 DEF WrittenOff, SupInvariant, TypeOK, Row
  <2>2. HandKept(i, j)
    BY DEF WaveJobOK
  <2>3. QED BY <1>1, <1>2, <2>1, <2>2 DEF HandKept
<1>6. wave'[i].stage \in Underway /\ daemon'[i].stage # "idle" => Accounted(i, j)'
  BY <1>1, <1>2 DEF WaveJobOK, Accounted, InHand
<1>7. QED BY <1>3, <1>4, <1>5, <1>6 DEF WaveJobOK

LEMMA WaveKeepsInvariant ==
  ASSUME WaveInvariant, MaxTime <= MaxDelay, [WaveNext]_waveVars
  PROVE  WaveInvariant'
<1>g. SupInvariant /\ LaunchInvariant /\ WavesTyped /\ UnknownIsExpired
  BY DEF WaveInvariant
<1>1. SupInvariant' /\ LaunchInvariant' /\ WavesTyped' /\ UnknownIsExpired'
  BY <1>g, WaveKeepsSup, WaveKeepsLaunch, WaveKeepsTypes, WaveGivesUp
<1>2. /\ \A j \in Jobs : launches[j] \subseteq launches'[j]
      /\ \A j \in Jobs : jobs[j].launchState = "unknown" => jobs'[j].launchState = "unknown"
  BY <1>g, WaveStepIsStoreStep, LaunchesStay, WaveGivesUp
<1>c. clock \in Nat /\ clock' \in Nat
  BY <1>g, <1>1 DEF SupInvariant, TypeOK
<1>3. ASSUME NEW i \in Waves, StandsStill(i), wave'[i] = wave[i], clock <= clock'
      PROVE  WaveOK(i)' /\ \A j \in Jobs : WaveJobOK(i, j)'
  <2>1. WaveOK(i) /\ i \in Instances /\ \A j \in Jobs : WaveJobOK(i, j)
    BY WavesAreInstances DEF WaveInvariant
  <2>2. WaveOK(i)'
    BY <1>3, <2>1 DEF WaveOK, StandsStill, At
  <2>3. QED BY <1>g, <1>2, <1>3, <1>c, <2>1, <2>2, OthersKeepWave
<1>4. ASSUME NEW k \in Waves, WaveStep(k) \/ WaveDisturbed(k), NEW i \in Waves
      PROVE  WaveOK(i)' /\ \A j \in Jobs : WaveJobOK(i, j)'
  <2>1. CASE i = k
    BY <1>4, <2>1, OwnStepKeepsWave
  <2>2. CASE i # k
    <3>1. StandsStill(i)
      BY <1>4, <1>g, <2>2, WavesAreInstances, WaveMovesAlone
    <3>2. wave'[i] = wave[i]
      BY <1>4, <1>g, <2>2, WavesAreInstances, WaveMovesOne DEF WavesTyped
    <3>3. clock' = clock
      BY <1>4, <1>g, WavesAreInstances, WaveStepIsClientStep, ClientStepKeepsClock
    <3>4. QED BY <1>3, <1>c, <3>1, <3>2, <3>3
  <2>3. QED BY <2>1, <2>2
<1>5. ASSUME NEW k \in Instances \ Waves, ReconcileStep(k) \/ Run(k) \/ Heartbeat(k),
             UNCHANGED wave, NEW i \in Waves
      PROVE  WaveOK(i)' /\ \A j \in Jobs : WaveJobOK(i, j)'
  <2>1. StandsStill(i)
    BY <1>5, <1>g, WavesAreInstances, ReconcileMovesOne
  <2>2. clock' = clock
    BY <1>5, <1>g, ReconcileIsClientStep, AroundIsClientStep, ClientStepKeepsClock
  <2>3. QED BY <1>3, <1>5, <1>c, <2>1, <2>2
<1>6. ASSUME Elsewhere, UNCHANGED wave, NEW i \in Waves
      PROVE  WaveOK(i)' /\ \A j \in Jobs : WaveJobOK(i, j)'
  <2>1. daemon' = daemon
    BY <1>6 DEF Elsewhere, Enqueue, WriteMetadata, WrapperEnds, SlowTick, supVars
  <2>2. StandsStill(i) /\ clock <= clock'
    BY <1>6, <1>g, <2>1, WavesAreInstances, ElsewhereLeavesRows DEF StandsStill
  <2>3. QED BY <1>3, <1>6, <2>2
<1>7. QED BY <1>1, <1>4, <1>5, <1>6, AroundTheWavesSteps DEF WaveInvariant

(* At the start no wave runs and there is no job. *)
LEMMA WaveInitOK ==
  ASSUME WaveInit
  PROVE  WaveInvariant
<1>1. SupInvariant /\ LaunchInvariant
  BY SupInitOK, LaunchInit DEF WaveInit
<1>2. NotWaving \in Waving /\ NotWaving.stage = "new" /\ NotWaving.active = {}
  BY DEF NotWaving, Waving, WaveStages
<1>3. \A i \in Instances : wave[i] = NotWaving
  BY DEF WaveInit
<1>4. WavesTyped
  BY <1>2 DEF WaveInit, WavesTyped
<1>5. \A j \in Jobs : /\ jobs[j].status = "absent" /\ jobs[j].launchState = "null"
                      /\ ~IsRunning(j)
  BY DEF WaveInit, SupInit, Init, AbsentRow, IsRunning
<1>6. UnknownIsExpired
  BY <1>5 DEF UnknownIsExpired
<1>7. \A i \in Instances, j \in Jobs : daemon[i].rows[j] = AbsentRow
  <2> DEFINE noRows == [j \in Jobs |-> AbsentRow]
             unseen == [j \in Jobs |-> "none"]
  <2>1. Resting =
          [stage |-> "idle", back |-> "observe", rows |-> noRows, seen |-> unseen,
           job |-> NoJob, active |-> {}, now |-> 0, token |-> NoToken, round |-> "made"]
    BY DEF Resting
  <2>2. \A j \in Jobs : noRows[j] = AbsentRow
    OBVIOUS
  <2> HIDE DEF noRows, unseen
  <2>3. [Resting EXCEPT !.stage = "new"].rows = noRows
    BY <2>1
  <2>4. \A i \in Instances : daemon[i] = [Resting EXCEPT !.stage = "new"]
    BY DEF WaveInit, SupInit, DaemonsInit
  <2>5. QED BY <2>2, <2>3, <2>4
<1>8. ASSUME NEW i \in Waves PROVE WaveOK(i) /\ \A j \in Jobs : WaveJobOK(i, j)
  <2>1. wave[i] = NotWaving
    BY <1>3, WavesAreInstances
  <2>2. \A j \in Jobs : LeaseGone(i, j) /\ ~Mine(i, j)
    BY <1>5 DEF LeaseGone, Mine
  <2>3. \A j \in Jobs : WaveJobOK(i, j)
    BY <1>2, <1>7, <2>1, <2>2, WavesAreInstances DEF WaveJobOK, ListedOK, HandKept, Accounted
  <2>4. QED BY <1>2, <2>1, <2>3 DEF WaveOK
<1>9. QED BY <1>1, <1>4, <1>6, <1>8 DEF WaveInvariant

-----------------------------------------------------------------------------
(* The theorems *)

LEMMA WaveInvariantHolds ==
  ASSUME MaxTime <= MaxDelay
  PROVE  WaveSpec => []WaveInvariant
<1>1. WaveInit => WaveInvariant
  BY WaveInitOK
<1>2. WaveInvariant /\ [WaveNext]_waveVars => WaveInvariant'
  BY WaveKeepsInvariant
<1>3. QED BY <1>1, <1>2, PTL DEF WaveSpec

(* Waves are clients of the store, by calls that its specification allows.      *)
THEOREM WavesImplementStore ==
  ASSUME MaxTime <= MaxDelay
  PROVE  WaveSpec => DaemonsAreStoreClients
<1>1. WaveInit => Init
  BY DEF WaveInit, SupInit
<1>2. WaveInvariant /\ [WaveNext]_waveVars => [Next]_storeVars
  BY WaveStepIsStoreStep DEF WaveInvariant
<1>3. QED
  BY <1>1, <1>2, WaveInvariantHolds, PTL DEF WaveSpec, DaemonsAreStoreClients, Spec

(* Every step of a wave leaves its loop, its goroutine and the wrappers well    *)
(* formed.                                                                      *)
THEOREM WaveTypeCorrect ==
  ASSUME MaxTime <= MaxDelay
  PROVE  WaveSpec => []WaveTypeOK
<1>1. WaveInvariant => WaveTypeOK
  BY DEF WaveInvariant, WavesTyped, SupInvariant, DaemonsOK, WrappersOK, SupTypeOK, WaveTypeOK
<1>2. QED BY <1>1, WaveInvariantHolds, PTL

(* Once a wave has returned, what it may still own of a running job has expired. *)
THEOREM WavesLeaveNoLease ==
  ASSUME MaxTime <= MaxDelay
  PROVE  WaveSpec => []WaveLeavesNoLease
<1>1. ASSUME WaveInvariant PROVE WaveLeavesNoLease
  <2> SUFFICES ASSUME NEW i \in Waves, NEW j \in Jobs, WaveAt(i, "returned")
               PROVE  LeaseGone(i, j)
    BY DEF WaveLeavesNoLease, LeaseGone
  <2>1. WaveOK(i) /\ WaveJobOK(i, j)
    BY <1>1 DEF WaveInvariant
  <2>2. wave[i].active = {} /\ daemon[i].stage = "down"
    BY <2>1 DEF WaveOK, WaveAt, At
  <2>3. Accounted(i, j) /\ ~InHand(i, j)
    BY <2>1, <2>2 DEF WaveJobOK, WaveAt, Underway, InHand, RelyingStages, LaunchingStages,
       ClaimStages
  <2>4. QED BY <2>2, <2>3 DEF Accounted
<1>2. QED BY <1>1, WaveInvariantHolds, PTL

(* A wave that fails, is signalled or gives up cancelling leaves no wrapper at  *)
(* work in a job that is settled or requeued.                                   *)
THEOREM NoWrapperStraysInWaves ==
  ASSUME MaxTime <= MaxDelay
  PROVE  WaveSpec => []NoStrayWrapper
<1>1. WaveInvariant => NoStrayWrapper
  BY AtWorkIsRecognised DEF WaveInvariant, SupInvariant
<1>2. QED BY <1>1, WaveInvariantHolds, PTL


(* The safety of the tables, of waves beside daemons: one launch per job, the   *)
(* limits, one recovery path for every stale row.                               *)
THEOREM WavesAreSafe ==
  ASSUME MaxTime <= MaxDelay
  PROVE  WaveSpec => [](LaunchedOnce /\ CapacityRespected /\ NoOrphan)
<1>1. DaemonsAreStoreClients => Spec
  BY DEF DaemonsAreStoreClients, Spec
<1>2. QED
  BY <1>1, WavesImplementStore, LaunchesAreUnique, CapacityHolds, NothingIsOrphaned, PTL

=============================================================================
