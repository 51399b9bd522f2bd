------------------------------ MODULE Shutdown ------------------------------
(***************************************************************************)
(* Supervision with daemons that are told to stop (internal/daemon, stop    *)
(* and shutdown).  The main goroutine cancels the context of the reconcile  *)
(* pass and waits for it to end.  Then it cancels the wrappers of its own   *)
(* jobs and settles these, round after round, until none remains or the     *)
(* cleanup timeout ends it; only a shutdown without an error deletes the    *)
(* runner's heartbeat.  The rest of the daemons, the wrappers and the clock *)
(* go on meanwhile.                                                         *)
(***************************************************************************)
EXTENDS Supervision

CONSTANT Stoppers   \* instances that may be told to stop

ASSUME ShutdownAssumption == Stoppers \subseteq Instances

VARIABLE stop       \* the main goroutine of each instance, once it stops

shutdownVars == <<supVars, stop>>

StopStages ==
  {"none",                                   \* not told to stop
   "signalled", "heartbeat", "list",
   "renew", "settle", "cancel", "inspect", "probe", "finalize", "wait",
   "clean", "stopped", "abandoned"}

\* rows: listed jobs still to be handled; remaining: whether one is left for
\* another round; seen: the observation of the job in hand.
Stopping ==
  [stage: StopStages, rows: [Jobs -> Row], job: Jobs \cup {NoJob},
   seen: Observations \cup {"none"}, remaining: {"no", "yes"}]

NotStopping ==
  [stage |-> "none", rows |-> [j \in Jobs |-> AbsentRow], job |-> NoJob,
   seen |-> "none", remaining |-> "no"]

StopAt(i, stage) == stop[i].stage = stage
StopBecome(i, s) == stop' = [stop EXCEPT ![i] = s]
StopGoTo(i, stage) == stop' = [stop EXCEPT ![i].stage = stage]

StopListed(i) == {j \in Jobs : stop[i].rows[j] # AbsentRow}

\* Done with the job in hand for this round.
Handled(s, remaining) ==
  [s EXCEPT !.stage = "renew", !.rows[s.job] = AbsentRow, !.job = NoJob, !.seen = "none",
            !.remaining = IF remaining THEN "yes" ELSE @]

-----------------------------------------------------------------------------
(* Stop the reconcile pass *)

\* The signal cancels the contexts of the pass and of the poll, and ends the
\* heartbeat ticker.
Signal(i) ==
  /\ i \in Stoppers /\ Up(i) /\ StopAt(i, "none")
  /\ StopGoTo(i, "signalled")
  /\ StoreIdle /\ UNCHANGED <<daemon, wrapperVars, boundVars>>

\* Fault: a launch that could not be recorded is settled without a cleanup.
AfterInterruptWithoutCancel(i) ==
  IF At(i, "persistRecord") THEN [daemon[i] EXCEPT !.stage = "launchFailed"] ELSE Resting

\* A launch that could not be recorded is compensated.
AfterInterrupt(i) ==
  IF At(i, "persistRecord") THEN [daemon[i] EXCEPT !.stage = "compensate"] ELSE Resting

\* Under a cancelled context every store call and every inspection fails, and the
\* pass ends there.
Interrupted(i) ==
  /\ StopAt(i, "signalled")
  /\ daemon[i].stage \notin {"idle", "launch", "cleanup", "compensate", "launchFailed"}
  /\ Become(i, AfterInterrupt(i))
  /\ StoreIdle /\ UNCHANGED <<wrapperVars, boundVars, stop>>

\* These use no context or one of their own.
FinishLaunch(i) ==
  /\ StopAt(i, "signalled")
  /\ Launch(i) \/ CancelWrapper(i) \/ CancelFails(i)
  /\ UNCHANGED stop

\* A launch that a cancelled context ended is settled as cancelled.
CancelLaunch(i) ==
  LET j == daemon[i].job IN
  /\ StopAt(i, "signalled") /\ At(i, "launchFailed")
  /\ \/ \E status \in {"failed", "cancelled"} : FinalizeJobOwned(i, j, status, TRUE, clock)
     \/ ~Owned(i, j, clock) /\ UNCHANGED storeVars
  /\ Become(i, Resting)
  /\ UNCHANGED <<startedAt, wrapperVars, boundVars, stop>>

PassEnded(i) ==
  /\ StopAt(i, "signalled") /\ At(i, "idle")
  /\ StopGoTo(i, "heartbeat")
  /\ StoreIdle /\ UNCHANGED <<daemon, wrapperVars, boundVars>>

-----------------------------------------------------------------------------
(* shutdown: one round over the owned jobs *)

ShutdownHeartbeat(i) ==
  /\ StopAt(i, "heartbeat")
  /\ HeartbeatRunner(i, clock)
  /\ StopGoTo(i, "list")
  /\ UNCHANGED <<daemon, startedAt, wrapperVars, boundVars>>

ListOwnedRunningJobs(i) ==
  LET owned == {j \in Jobs : IsRunning(j) /\ jobs[j].owner = i} IN
  /\ StopAt(i, "list")
  /\ StopBecome(i, [NotStopping EXCEPT
       !.stage = IF owned = {} THEN "clean" ELSE "renew",
       !.rows = [j \in Jobs |-> IF j \in owned THEN jobs[j] ELSE AbsentRow]])
  /\ StoreIdle /\ UNCHANGED <<daemon, wrapperVars, boundVars>>

NotLaunchedRow(row) == row.token = NoToken \/ row.launchState = "preparing"

\* Fault: a job that is not durable is not waited for.
AfterRenewalForgetting(s, j) ==
  IF Durable(s.rows[j]) THEN [s EXCEPT !.stage = "cancel", !.job = j]
  ELSE Handled([s EXCEPT !.job = j], FALSE)

\* Only a claim that never launched is settled as it is; a job in state unknown
\* remains.
AfterRenewal(s, j) ==
  IF Durable(s.rows[j]) THEN [s EXCEPT !.stage = "cancel", !.job = j]
  ELSE IF NotLaunchedRow(s.rows[j]) THEN [s EXCEPT !.stage = "settle", !.job = j]
  ELSE Handled([s EXCEPT !.job = j], TRUE)

\* A job whose renewal is refused is left to recovery and not waited for.
ShutdownRenew(i) ==
  LET s == stop[i] IN
  /\ StopAt(i, "renew")
  /\ \E j \in StopListed(i) :
       \/ RenewJobLease(i, j, clock) /\ StopBecome(i, AfterRenewal(s, j))
       \/ /\ ~Owned(i, j, clock) /\ UNCHANGED storeVars
          /\ StopBecome(i, Handled([s EXCEPT !.job = j], FALSE))
  /\ UNCHANGED <<daemon, startedAt, wrapperVars, boundVars>>

SettlePreparing(i) ==
  LET s == stop[i] IN
  /\ StopAt(i, "settle")
  /\ \/ FinalizeJobOwned(i, s.job, "cancelled", TRUE, clock) /\ StopBecome(i, Handled(s, FALSE))
     \/ /\ ~Owned(i, s.job, clock) /\ UNCHANGED storeVars
        /\ StopBecome(i, Handled(s, TRUE))
  /\ UNCHANGED <<daemon, startedAt, wrapperVars, boundVars>>

\* A process that is not on record cannot be cancelled: Abandon.
ShutdownCancel(i) ==
  LET s == stop[i]  j == s.job  token == s.rows[j].token IN
  /\ StopAt(i, "cancel") /\ s.rows[j].pid = "set"
  /\ processes' = [processes EXCEPT ![j] = @ \ {token}]
  /\ IF token \in processes[j] /\ metadata[j][token] = "none"
     THEN \E outcome \in {"cancelled", "none"} :
            metadata' = [metadata EXCEPT ![j][token] = outcome]
     ELSE UNCHANGED metadata
  /\ StopGoTo(i, "inspect")
  /\ StoreIdle /\ UNCHANGED <<daemon, boundVars>>

ShutdownInspect(i) ==
  LET s == stop[i]  j == s.job  row == s.rows[j]  report == Reported(row, j) IN
  /\ \/ /\ StopAt(i, "inspect") /\ report = "none" /\ StopGoTo(i, "probe")
     \/ /\ StopAt(i, "inspect") /\ report # "none"
        /\ StopBecome(i, [s EXCEPT !.stage = "finalize", !.seen = report])
     \/ /\ StopAt(i, "probe")
        /\ StopBecome(i, [s EXCEPT !.stage = "finalize", !.seen = FromProcess(row, j)])
  /\ StoreIdle /\ UNCHANGED <<daemon, wrapperVars, boundVars>>

\* FinalizeOwnedObservation: without the actions on the issue.
ShutdownFinalize(i) ==
  LET s == stop[i]  j == s.job IN
  /\ StopAt(i, "finalize")
  /\ \/ /\ s.seen \in Outcomes
        /\ \E workStarted \in BOOLEAN : FinalizeJobOwned(i, j, s.seen, workStarted, clock)
        /\ StopBecome(i, Handled(s, FALSE))
     \/ /\ s.seen \in Outcomes /\ ~Owned(i, j, clock) /\ UNCHANGED storeVars
        /\ StopBecome(i, Handled(s, FALSE))
     \/ /\ s.seen \notin Outcomes /\ UNCHANGED storeVars
        /\ StopBecome(i, Handled(s, TRUE))
  /\ UNCHANGED <<daemon, startedAt, wrapperVars, boundVars>>

EndRound(i) ==
  /\ StopAt(i, "renew") /\ StopListed(i) = {}
  /\ StopGoTo(i, IF stop[i].remaining = "yes" THEN "wait" ELSE "clean")
  /\ StoreIdle /\ UNCHANGED <<daemon, wrapperVars, boundVars>>

NextRound(i) ==
  /\ StopAt(i, "wait")
  /\ StopGoTo(i, "heartbeat")
  /\ StoreIdle /\ UNCHANGED <<daemon, wrapperVars, boundVars>>

Exit(i, how) ==
  /\ Become(i, [Resting EXCEPT !.stage = "down"])
  /\ StopBecome(i, [NotStopping EXCEPT !.stage = how])

DeleteHeartbeatAfterCleanShutdown(i) ==
  /\ StopAt(i, "clean")
  /\ DeleteRunnerHeartbeat(i) \/ UNCHANGED storeVars     \* its error is only logged
  /\ Exit(i, "stopped")
  /\ UNCHANGED <<startedAt, wrapperVars, boundVars>>

\* The cleanup timeout, an error of the store or of Cancel ends shutdown: the
\* heartbeat stays until it is stale.
Abandon(i) ==
  /\ stop[i].stage \in StopStages \ {"none", "signalled", "clean", "stopped", "abandoned"}
  /\ Exit(i, "abandoned")
  /\ StoreIdle /\ UNCHANGED <<wrapperVars, boundVars>>

StopStep(i) ==
  \/ Signal(i) \/ Interrupted(i) \/ FinishLaunch(i) \/ CancelLaunch(i) \/ PassEnded(i)
  \/ ShutdownHeartbeat(i) \/ ListOwnedRunningJobs(i) \/ ShutdownRenew(i)
  \/ SettlePreparing(i) \/ ShutdownCancel(i) \/ ShutdownInspect(i) \/ ShutdownFinalize(i)
  \/ EndRound(i) \/ NextRound(i) \/ DeleteHeartbeatAfterCleanShutdown(i) \/ Abandon(i)

\* What goes on around: the instances that were not told to stop.
WorkingStep(i) ==
  /\ StopAt(i, "none")
  /\ ReconcileStep(i) \/ Run(i) \/ StoreFault(i) \/ CancelFails(i) \/ Heartbeat(i)

Killed(i) ==
  /\ Crash(i)
  /\ stop' = [stop EXCEPT ![i] = NotStopping]

ShutdownInit == SupInit /\ stop = [i \in Instances |-> NotStopping]

ShutdownNext ==
  \/ \E i \in Instances : StopStep(i) \/ Killed(i)
  \/ /\ \/ \E i \in Instances : WorkingStep(i)
        \/ \E j \in Jobs : Enqueue(j)
        \/ \E j \in Jobs, token \in Tokens : WriteMetadata(j, token) \/ WrapperEnds(j, token)
        \/ SlowTick
     /\ UNCHANGED stop

ShutdownSpec == ShutdownInit /\ [][ShutdownNext]_shutdownVars

-----------------------------------------------------------------------------
(* Properties *)

StopTypeOK == SupTypeOK /\ stop \in [Instances -> Stopping]

\* docs/execution-supervisor-spec.md:19: "delete heartbeat only after cleanup
\* succeeds."  A runner that took its heartbeat away is the owner of no job, except
\* of one whose lease had run out before shutdown reached it, which recovery takes
\* over: no heartbeat hides a job that a daemon left behind, and no job is left
\* with a lease and without a daemon.
CleanStopLeavesNoLease ==
  \A i \in Instances, j \in Jobs :
    StopAt(i, "stopped") /\ IsRunning(j) /\ jobs[j].owner = i => LeaseExpired(j, clock)

=============================================================================
