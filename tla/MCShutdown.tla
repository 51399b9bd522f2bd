----------------------------- MODULE MCShutdown -----------------------------
(* Small instances of Shutdown for TLC: a is told to stop, b adopts its jobs. *)
EXTENDS Shutdown

CONSTANTS a, b, r1

OneRoute  == [j \in Jobs |-> r1]
SameRank  == [j \in Jobs |-> 0]
OnlyStoppers == [i \in Instances |-> IF i \in Stoppers THEN Jobs ELSE {}]
Unlimited == [r \in Routes |-> 0]

=============================================================================
