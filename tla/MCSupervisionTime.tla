-------------------------- MODULE MCSupervisionTime --------------------------
(* Small instances of SupervisionTime for TLC.  No symmetry: the properties  *)
(* are temporal.                                                             *)
EXTENDS SupervisionTime

CONSTANTS a, b, r1

OneRoute  == [j \in Jobs |-> r1]
SameRank  == [j \in Jobs |-> 0]
AllKinds  == [i \in Instances |-> Jobs]
Unlimited == [r \in Routes |-> 0]

=============================================================================
