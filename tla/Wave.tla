-------------------------------- MODULE Wave --------------------------------
(***************************************************************************)
(* A bounded wave (internal/dispatcher, the commands dispatch and once): a   *)
(* runner of one process that lists the jobs pending now, its frontier,     *)
(* works on these and on no others, and exits once none of them is left to  *)
(* claim and none that it launched is still active.                         *)
(*                                                                          *)
(* Preparing, launching and finalizing one job are the actions of           *)
(* Supervision; the loop around them is another one.  It has no heartbeat   *)
(* ticker, adopts nothing, and cancels its jobs on any error.  In `daemon`, *)
(* a wave between two of its calls is at "refill", and one whose call       *)
(* failed is at "idle".                                                     *)
(***************************************************************************)
EXTENDS Supervision

CONSTANT Waves      \* instances that are waves; the others are daemons

ASSUME WaveAssumption == Waves \subseteq Instances

VARIABLE wave       \* the loop of each wave

waveVars == <<supVars, wave>>

WaveStages ==
  {"new", "preflight", "top", "reap", "refill", "sleep", "cancel",
   "returned", "failed", "killed"}

\* frontier: jobs not claimed yet; active: jobs launched and not yet over;
\* cancelled: active jobs whose wrapper was told to end in this round; timed:
\* whether cancelling has a time limit.
Waving ==
  [stage: WaveStages, frontier: SUBSET Jobs, active: SUBSET Jobs,
   cancelled: SUBSET Jobs, timed: {"no", "yes"}]

NotWaving ==
  [stage |-> "new", frontier |-> {}, active |-> {}, cancelled |-> {},
   timed |-> "no"]

WaveAt(i, stage) == wave[i].stage = stage
WaveGoTo(i, stage) == wave' = [wave EXCEPT ![i].stage = stage]

\* Leaves the loop at the end of a round of calls.
Between(i) == Become(i, [Resting EXCEPT !.stage = "refill"])

Exited(i, how) ==
  /\ Become(i, [Resting EXCEPT !.stage = "down"])
  /\ wave' = [wave EXCEPT ![i] = [NotWaving EXCEPT !.stage = how]]

Drop(i, j) == wave' = [wave EXCEPT ![i].active = @ \ {j}, ![i].cancelled = @ \ {j}]

\* ListOwnedRunningJobs, of which only the active jobs matter.
OwnedActive(i) == {j \in wave[i].active : IsRunning(j) /\ jobs[j].owner = i}

-----------------------------------------------------------------------------
(* Preflight and the frontier *)

\* Preflight begins with a heartbeat, and then recovers and prunes.
WaveRun(i) ==
  /\ At(i, "new")
  /\ HeartbeatRunner(i, clock)
  /\ Become(i, [Resting EXCEPT !.stage = "verify"])
  /\ WaveGoTo(i, "preflight")
  /\ UNCHANGED <<startedAt, wrapperVars, boundVars>>

Preflight(i) ==
  /\ WaveAt(i, "preflight")
  /\ RecoverExpiredLeases(i) \/ PruneStaleHeartbeats(i)
  /\ UNCHANGED wave

ListEligibleJobIDs(i) ==
  LET eligible == {j \in Jobs : jobs[j].status = "pending"} IN
  /\ WaveAt(i, "preflight") /\ At(i, "refill")
  /\ IF eligible = {} THEN Exited(i, "returned")
     ELSE /\ wave' = [wave EXCEPT ![i].frontier = eligible, ![i].stage = "top"]
          /\ UNCHANGED daemon
  /\ StoreIdle /\ UNCHANGED <<wrapperVars, boundVars>>

-----------------------------------------------------------------------------
(* One round: heartbeat, reap, refill, sleep *)

\* An error of the heartbeat ends a wave only if nothing is active.
WaveHeartbeat(i) ==
  /\ WaveAt(i, "top")
  /\ \/ HeartbeatRunner(i, clock) /\ WaveGoTo(i, "reap") /\ UNCHANGED daemon
     \/ /\ IF wave[i].active = {} THEN Exited(i, "failed")
           ELSE WaveGoTo(i, "reap") /\ UNCHANGED daemon
        /\ UNCHANGED storeVars
  /\ UNCHANGED <<startedAt, wrapperVars, boundVars>>

\* Active jobs that the list does not name are dropped.
ListActive(i) ==
  LET owned == OwnedActive(i) IN
  /\ wave[i].stage \in {"reap", "cancel"} /\ At(i, "refill")
  /\ wave[i].active # {}
  /\ Become(i, [Resting EXCEPT !.stage = "observe",
       !.rows = [j \in Jobs |-> IF j \in owned THEN jobs[j] ELSE AbsentRow]])
  /\ wave' = [wave EXCEPT ![i].active = owned, ![i].cancelled = {}]
  /\ StoreIdle /\ UNCHANGED <<wrapperVars, boundVars>>

\* One job at a time; when cancelling, after its wrapper was told to end.
WaveInspect(i) ==
  /\ wave[i].stage \in {"reap", "cancel"} /\ Observed(i) = {}
  /\ \/ CheckProcess(i)
     \/ /\ At(i, "observe")
        /\ \E j \in Listed(i) :
             /\ WaveAt(i, "cancel") => j \in wave[i].cancelled
             /\ ReadMetadata(i, j)
  /\ UNCHANGED wave

\* Fault: a job that cannot be proved to run is taken off the wave.
KeepsDroppingUnknown(obs) == obs \in {"starting", "running"}

\* What is not known to be over stays active.
Keeps(obs) == obs \in {"starting", "running", "unknown"}

\* Only a renewal tells a lost job from one that still runs; of a job that is
\* not known to run, the refusal of the renewal is ignored.
KeepActive(i, j) ==
  LET obs == daemon[i].seen[j] IN
  /\ WaveAt(i, "reap") /\ At(i, "observe")
  /\ obs \in {"starting", "running", "unknown"}
  /\ \/ /\ RenewJobLease(i, j, clock)
        /\ IF Keeps(obs) THEN UNCHANGED wave ELSE Drop(i, j)
     \/ /\ ~Owned(i, j, clock) /\ UNCHANGED storeVars
        /\ IF obs = "unknown" /\ Keeps(obs) THEN UNCHANGED wave ELSE Drop(i, j)
  /\ Become(i, [daemon[i] EXCEPT !.seen[j] = "none"])
  /\ UNCHANGED <<startedAt, wrapperVars, boundVars>>

\* FinalizeOwnedObservationWithLifecycle up to the actions on the issue; without
\* a GitHub client there are none, and no renewal before them.
FinalizeActive(i, j) ==
  LET d == daemon[i]  obs == d.seen[j] IN
  /\ wave[i].stage \in {"reap", "cancel"} /\ At(i, "observe")
  /\ obs \in Outcomes
  /\ \E outcome \in {obs} \cup {"failed"} :
       /\ \/ RenewJobLease(i, j, clock)
          \/ outcome = obs /\ UNCHANGED storeVars
       /\ Become(i, [d EXCEPT !.stage = "finalActions", !.back = "observe", !.job = j,
                              !.seen[j] = outcome])
  /\ UNCHANGED <<startedAt, wrapperVars, boundVars, wave>>

\* Finalized or lost, the job leaves the wave.
EndActive(i) ==
  /\ \/ RenewBeforeSideEffect(i) /\ UNCHANGED wave
     \/ FinalizeObservation(i) /\ Drop(i, daemon[i].job)
  /\ wave[i].stage \in {"reap", "cancel"}

EndReap(i) ==
  /\ WaveAt(i, "reap")
  /\ \/ At(i, "refill") /\ wave[i].active = {}
     \/ At(i, "observe") /\ Listed(i) = {} /\ Observed(i) = {}
  /\ Between(i) /\ WaveGoTo(i, "refill")
  /\ StoreIdle /\ UNCHANGED <<wrapperVars, boundVars>>

Room(i) == Cardinality(wave[i].active) < MaxGlobal /\ wave[i].frontier # {}

ClaimInFrontier(i) ==
  /\ WaveAt(i, "refill") /\ At(i, "refill") /\ Room(i)
  /\ \E j \in Jobs :
       /\ ClaimJob(i, j, wave[i].frontier, clock)
       /\ startedAt' = [startedAt EXCEPT ![j] = IF @ = NoTime THEN clock ELSE @]
       /\ Become(i, [daemon[i] EXCEPT !.job = j, !.stage = "prepare"])
       /\ wave' = [wave EXCEPT ![i].frontier = @ \ {j}]
  /\ UNCHANGED <<wrapperVars, boundVars>>

\* Prepare and LaunchClaimedWrapper; a job whose launch is on record is active.
LaunchInFrontier(i) ==
  /\ WaveAt(i, "refill")
  /\ \/ RenewBeforeSideEffect(i) \/ Prepare(i) \/ PersistSpec(i) \/ MarkLaunching(i)
     \/ Launch(i) \/ PersistRecord(i) \/ CancelWrapper(i) \/ CancelFails(i)
  /\ wave' = [wave EXCEPT ![i].active =
       IF At(i, "persistRecord") /\ daemon'[i].stage = "refill"
       THEN @ \cup {daemon[i].job} ELSE @]

\* A launch that ended with the context of the wave is settled as cancelled, any
\* other as failed.
FailFrontierLaunch(i) ==
  LET j == daemon[i].job IN
  /\ WaveAt(i, "refill") /\ At(i, "launchFailed")
  /\ \/ \E status \in {"failed", "cancelled"} : FinalizeJobOwned(i, j, status, TRUE, clock)
     \/ ~Owned(i, j, clock) /\ UNCHANGED storeVars
  /\ Become(i, Resting)
  /\ UNCHANGED <<startedAt, wrapperVars, boundVars, wave>>

EndRefill(i) ==
  /\ WaveAt(i, "refill") /\ At(i, "refill")
  /\ ~Room(i) \/ Cardinality(Running) >= MaxGlobal \/ Claimable(i, wave[i].frontier) = {}
  /\ IF wave[i].active = {} THEN Exited(i, "returned")
     ELSE WaveGoTo(i, "sleep") /\ Between(i)
  /\ StoreIdle /\ UNCHANGED <<wrapperVars, boundVars>>

\* The timer, or the signal: the process then has a limited time to cancel.
WakeUp(i) ==
  /\ WaveAt(i, "sleep")
  /\ \/ WaveGoTo(i, "top")
     \/ wave' = [wave EXCEPT ![i].stage = "cancel", ![i].timed = "yes"]
  /\ StoreIdle /\ UNCHANGED <<daemon, wrapperVars, boundVars>>

-----------------------------------------------------------------------------
(* Errors, signals, and cancelActive *)

\* Fault: a launch that could not be recorded is failed without a cancel.
CallFailsWithoutCancel(i) ==
  /\ wave[i].stage \in {"preflight", "reap", "refill", "cancel"}
  /\ daemon[i].stage \notin {"idle", "cleanup", "compensate"}
  /\ IF daemon[i].stage \in {"launch", "persistRecord"}
     THEN GoTo(i, "launchFailed") ELSE Become(i, Resting)
  /\ StoreIdle /\ UNCHANGED <<wrapperVars, boundVars, wave>>

\* A call that fails ends what the wave was at, and so does a signal: it cancels
\* the context of the next call.  The calls that compensate a launch take another
\* context.  The number of such failures is not bounded.
CallFails(i) ==
  /\ wave[i].stage \in {"preflight", "reap", "refill", "cancel"}
  /\ daemon[i].stage \notin {"idle", "cleanup", "compensate"}
  /\ CASE At(i, "persistRecord") -> GoTo(i, "compensate")
       [] At(i, "launch")        -> GoTo(i, "launchFailed")
       [] OTHER                  -> Become(i, Resting)
  /\ StoreIdle /\ UNCHANGED <<wrapperVars, boundVars, wave>>

\* Fault: a round that failed is followed by another one.
WaveErrorGoesOn(i) ==
  /\ At(i, "idle")
  /\ \/ wave[i].stage \in {"preflight", "cancel"} /\ Exited(i, "failed")
     \/ wave[i].stage \in {"reap", "refill"} /\ WaveGoTo(i, "top") /\ Between(i)
  /\ StoreIdle /\ UNCHANGED <<wrapperVars, boundVars>>

\* An error: what is active is cancelled, without a time limit.
WaveError(i) ==
  /\ At(i, "idle")
  /\ \/ wave[i].stage \in {"preflight", "cancel"} /\ Exited(i, "failed")
     \/ wave[i].stage \in {"reap", "refill"} /\ WaveGoTo(i, "cancel") /\ Between(i)
  /\ StoreIdle /\ UNCHANGED <<wrapperVars, boundVars>>

\* A claim that is no longer durable is finalized at once, if it is still owned.
CancelActive(i) ==
  LET d == daemon[i] IN
  /\ WaveAt(i, "cancel") /\ At(i, "observe") /\ Observed(i) = {}
  /\ Listed(i) \cap wave[i].cancelled = {}
  /\ \E j \in Listed(i) :
       LET row == d.rows[j]  skip == Become(i, [d EXCEPT !.rows[j] = AbsentRow]) IN
       \/ /\ ~Durable(row) /\ skip
          /\ \/ FinalizeJobOwned(i, j, "cancelled", TRUE, clock) /\ Drop(i, j)
             \/ ~Owned(i, j, clock) /\ UNCHANGED <<storeVars, wave>>
          /\ UNCHANGED wrapperVars
       \/ /\ Durable(row)
          /\ processes' = [processes EXCEPT ![j] = @ \ {row.token}]
          /\ IF row.token \in processes[j] /\ metadata[j][row.token] = "none"
             THEN \E outcome \in {"cancelled", "none"} :
                    metadata' = [metadata EXCEPT ![j][row.token] = outcome]
             ELSE UNCHANGED metadata
          /\ wave' = [wave EXCEPT ![i].cancelled = @ \cup {j}]
          /\ UNCHANGED <<storeVars, daemon>>
  /\ UNCHANGED <<startedAt, boundVars>>

\* A job that is not over by now is left for another round.
LeaveActive(i, j) ==
  /\ WaveAt(i, "cancel") /\ At(i, "observe")
  /\ daemon[i].seen[j] \in {"starting", "running", "unknown"}
  /\ Become(i, [daemon[i] EXCEPT !.seen[j] = "none"])
  /\ StoreIdle /\ UNCHANGED <<wrapperVars, boundVars, wave>>

\* Another round of cancelActive, or the end of it.
EndCancel(i) ==
  /\ WaveAt(i, "cancel")
  /\ \/ /\ At(i, "refill") /\ wave[i].active = {} /\ Exited(i, "failed")
     \/ /\ At(i, "observe") /\ Listed(i) = {} /\ Observed(i) = {}
        /\ IF wave[i].active = {} THEN Exited(i, "failed") ELSE Between(i) /\ UNCHANGED wave
  /\ StoreIdle /\ UNCHANGED <<wrapperVars, boundVars>>

\* The time limit of a wave that was signalled while it slept.
GiveUpCancelling(i) ==
  /\ WaveAt(i, "cancel") /\ wave[i].timed = "yes"
  /\ Exited(i, "failed")
  /\ StoreIdle /\ UNCHANGED <<wrapperVars, boundVars>>

-----------------------------------------------------------------------------

WaveStep(i) ==
  \/ WaveRun(i) \/ Preflight(i) \/ ListEligibleJobIDs(i)
  \/ WaveHeartbeat(i) \/ ListActive(i) \/ WaveInspect(i)
  \/ (\E j \in Jobs : KeepActive(i, j) \/ FinalizeActive(i, j) \/ LeaveActive(i, j))
  \/ EndActive(i) \/ EndReap(i)
  \/ ClaimInFrontier(i) \/ LaunchInFrontier(i) \/ FailFrontierLaunch(i) \/ EndRefill(i)
  \/ WakeUp(i) \/ WaveError(i) \/ CancelActive(i) \/ EndCancel(i)

WaveDisturbed(i) ==
  \/ CallFails(i) \/ GiveUpCancelling(i)
  \/ Crash(i) /\ wave' = [wave EXCEPT ![i] = [NotWaving EXCEPT !.stage = "killed"]]

Over(i) == wave[i].stage \in {"returned", "failed", "killed"}

\* The daemons, whose own faults are left to Supervision, the wrappers and the
\* clock.  Bound: time begins with the first wave and ends with the last one, as
\* the rest is what Supervision models.
AroundTheWaves ==
  /\ \/ /\ \E i \in Waves : wave[i].stage # "new" /\ ~Over(i)
        /\ \/ \E i \in Instances \ Waves : ReconcileStep(i) \/ Run(i) \/ Heartbeat(i)
           \/ SlowTick
     \/ \E j \in Jobs : Enqueue(j)
     \/ \E j \in Jobs, token \in Tokens : WriteMetadata(j, token) \/ WrapperEnds(j, token)
  /\ UNCHANGED wave

WaveInit == SupInit /\ wave = [i \in Instances |-> NotWaving]
WaveNext == (\E i \in Waves : WaveStep(i) \/ WaveDisturbed(i)) \/ AroundTheWaves
WaveSpec == WaveInit /\ [][WaveNext]_waveVars

\* The loop of a wave goes on, and a wrapper enforces the timeout of its command.
FairWaveSpec ==
  /\ WaveSpec
  /\ \A i \in Waves : WF_waveVars(WaveStep(i))
  /\ \A j \in Jobs, token \in Tokens : WF_waveVars(WriteMetadata(j, token) /\ UNCHANGED wave)

-----------------------------------------------------------------------------
(* Properties *)

WaveTypeOK == SupTypeOK /\ wave \in [Instances -> Waving]

\* docs/concurrency-supervision-design.md:350: "`once` returns after the jobs
\* spawned in its reconciliation wave complete."  A wave that returned leaves no
\* running job behind but one it lost, whose lease had run out: no job is left
\* with a lease and without a process that renews it.
WaveLeavesNoLease ==
  \A i \in Waves, j \in Jobs :
    WaveAt(i, "returned") /\ IsRunning(j) /\ jobs[j].owner = i => LeaseExpired(j, clock)

\* A wrapper that is gone without a report, or a job that another daemon believes
\* to be one.
Unprovable(j) ==
  /\ IsRunning(j)
  /\ \/ jobs[j].launchState = "unknown"
     \/ jobs[j].token \notin processes[j] /\ Reported(jobs[j], j) = "none"

\* A wave comes to an end, whatever it loses to other runners, unless a job of its
\* own is one of which nothing can be proved: that one it would wait for forever.
WaveReturns ==
  \A i \in Waves :
    wave[i].stage # "new" ~> \/ Over(i)
                             \/ \E j \in wave[i].active : Unprovable(j)

=============================================================================
