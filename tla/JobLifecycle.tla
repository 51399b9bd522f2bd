---------------------------- MODULE JobLifecycle ----------------------------
(***************************************************************************)
(* What the job queue promises its users, without leases, heartbeats,       *)
(* tokens or clocks: the life of a job as docs/execution-supervisor-spec.md *)
(* draws it.  A job is queued once, held by one runner at a time, may be    *)
(* given back only while its wrapper was not launched, is launched at most  *)
(* once, may change hands after that, and is settled once and for ever.     *)
(***************************************************************************)
EXTENDS Integers, FiniteSets

CONSTANTS Jobs, Instances, Nobody, Capacity

VARIABLES
  phase,    \* [Jobs -> {"absent", "queued", "held", "launched", "settled"}]
  holder    \* [Jobs -> Instances \cup {Nobody}]

lifecycleVars == <<phase, holder>>

InHand == {j \in Jobs : phase[j] \in {"held", "launched"}}

Init ==
  /\ phase = [j \in Jobs |-> "absent"]
  /\ holder = [j \in Jobs |-> Nobody]

Submit(j) ==
  /\ phase[j] = "absent"
  /\ phase' = [phase EXCEPT ![j] = "queued"]
  /\ UNCHANGED holder

Take(i, j) ==
  /\ phase[j] = "queued"
  /\ Cardinality(InHand) < Capacity
  /\ phase' = [phase EXCEPT ![j] = "held"]
  /\ holder' = [holder EXCEPT ![j] = i]

\* One recovery pass may give back several jobs.
GiveBack(S) ==
  /\ \A j \in S : phase[j] = "held"
  /\ phase' = [j \in Jobs |-> IF j \in S THEN "queued" ELSE phase[j]]
  /\ holder' = [j \in Jobs |-> IF j \in S THEN Nobody ELSE holder[j]]

Launch(j) ==
  /\ phase[j] = "held"
  /\ phase' = [phase EXCEPT ![j] = "launched"]
  /\ UNCHANGED holder

HandOver(i, j) ==
  /\ phase[j] = "launched"
  /\ holder' = [holder EXCEPT ![j] = i]
  /\ UNCHANGED phase

Settle(j) ==
  /\ phase[j] \in {"held", "launched"}
  /\ phase' = [phase EXCEPT ![j] = "settled"]
  /\ holder' = [holder EXCEPT ![j] = Nobody]

Next ==
  \/ \E j \in Jobs : Submit(j) \/ Launch(j) \/ Settle(j)
  \/ \E i \in Instances, j \in Jobs : Take(i, j) \/ HandOver(i, j)
  \/ \E S \in SUBSET Jobs : GiveBack(S)

Spec == Init /\ [][Next]_lifecycleVars

=============================================================================
