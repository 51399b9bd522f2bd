--------------------------- MODULE SupervisionTime ---------------------------
(***************************************************************************)
(* Supervision with the timing the daemon's tickers give it, for liveness.  *)
(*                                                                          *)
(* daemon.go heartbeats and reconciles at least four times per lease        *)
(* (heartbeatInterval, reconcileInterval), and neither waits for a wrapper.  *)
(* The unit of time is one such round: it passes once every running daemon   *)
(* has written a heartbeat and made one reconcile pass in it.  Nothing is    *)
(* assumed on the order of these steps.  In SuspendedSpec, the whole host may   *)
(* also be suspended for longer than a lease (a laptop's lid, a stopped VM),  *)
(* MaxSuspends times, at any moment.  Crashes and MaxFaults failing calls of   *)
(* the store may come at any step of either.                                  *)
(*                                                                          *)
(* Liveness needs time without end: the clock stays at MaxTime and every    *)
(* recorded time moves into the past instead, down to 0.  Only differences  *)
(* of times are ever compared; MaxTime is above every difference that       *)
(* matters (TimeWindow).                                                    *)
(***************************************************************************)
EXTENDS Supervision

ASSUME TimeWindow == MaxTime >= 2 * Lease + 2 /\ MaxTime >= StartGrace

Rested(i) == At(i, "idle") /\ daemon[i].round = "made"
Timely == \A i \in Instances : Up(i) => heartbeats[i] = clock /\ Rested(i)

\* One pass of each daemon per round.
RoundStep(i) == ~Rested(i) /\ ReconcileStep(i)

\* n units of time pass.
Elapse(n) ==
  LET Aged(t) == IF t = NoTime THEN NoTime ELSE IF t > n THEN t - n ELSE 0
      Older(row) == [row EXCEPT !.leaseUntil = Aged(@)]
  IN  /\ jobs' = [j \in Jobs |-> Older(jobs[j])]
      /\ heartbeats' = [i \in Instances |-> Aged(heartbeats[i])]
      /\ startedAt' = [j \in Jobs |-> Aged(startedAt[j])]
      /\ daemon' = [i \in Instances |->
           [daemon[i] EXCEPT !.now = Aged(@), !.round = "due",
                             !.rows = [j \in Jobs |-> Older(daemon[i].rows[j])]]]
      /\ UNCHANGED <<clock, routeAttempts, issued, launches, wrapperVars, faults>>

TimelyTick == Timely /\ Elapse(1) /\ UNCHANGED suspends

SuspendHost ==
  /\ suspends < MaxSuspends
  /\ suspends' = suspends + 1
  /\ Elapse(Lease + 1)

TimedNext ==
  \/ Surroundings
  \/ \E i \in Instances : RoundStep(i)
  \/ TimelyTick

\* The Go scheduler runs the goroutines of a live process, time passes, and a
\* daemon that was stopped or has crashed is started again as a new instance.
Fairness ==
  /\ \A i \in Instances : /\ WF_supVars(Run(i))
                          /\ WF_supVars(Heartbeat(i))
                          /\ WF_supVars(RoundStep(i))
  /\ WF_supVars(TimelyTick)

TimedInit ==
  /\ jobs = [j \in Jobs |-> AbsentRow]
  /\ heartbeats = [i \in Instances |-> NoTime]
  /\ routeAttempts = [b \in Budgets |-> 0]
  /\ clock = MaxTime
  /\ issued = [j \in Jobs |-> 0]
  /\ launches = [j \in Jobs |-> {}]
  /\ DaemonsInit

TimedSpec     == TimedInit /\ [][TimedNext]_supVars /\ Fairness
SuspendedSpec == TimedInit /\ [][TimedNext \/ SuspendHost]_supVars /\ Fairness

-----------------------------------------------------------------------------
(* Properties *)

Finished(j) ==
  /\ IsRunning(j) /\ Durable(jobs[j])
  /\ metadata[j][jobs[j].token] # "none"

\* docs/execution-supervisor-spec.md:119 of a daemon: "finalize completed jobs".
\* Once the wrapper of a running job has reported, some daemon settles the job
\* or leaves it to the operator as unknown, even when its owner has crashed.
CompletedJobsAreSettled ==
  \A j \in Jobs : Finished(j) ~> ~IsRunning(j) \/ jobs[j].launchState = "unknown"

\* A call for a claim failed, and its lease has run out: nobody works on it, and
\* the heartbeat of its owner, which lives, keeps recovery away.
GivenUp(j) ==
  faults > 0 /\ Up(jobs[j].owner) /\ LeaseExpired(j, clock)

\* A claim does not hold its job forever: it is launched, settled or given back,
\* also when its owner dies at any call of the preparation.  The one exception is
\* a claim that a failed call made a living owner give up: it stays until that
\* daemon ends, and is then relieved like others (DeadOwnersAreRelieved).  Timely
\* excludes an owner held up for longer than a lease, to which the same happens.
ClaimsAreNotStuck ==
  \A j \in Jobs :
    jobs[j].launchState = "preparing" ~> jobs[j].launchState # "preparing" \/ GivenUp(j)

\* Whatever a dead instance held - a claim, a launch or a running wrapper - some
\* live daemon takes over, or marks unknown.
DeadOwnersAreRelieved ==
  \A j \in Jobs, i \in Instances :
    jobs[j].owner = i /\ At(i, "down")
      ~> jobs[j].owner # i \/ jobs[j].launchState = "unknown"

=============================================================================
