---------------------------- MODULE MCSupervision ----------------------------
(* Small instances of Supervision for TLC. *)
EXTENDS Supervision, TLC

CONSTANTS a, b, r1

OneRoute  == [j \in Jobs |-> r1]
SameRank  == [j \in Jobs |-> 0]
AllKinds  == [i \in Instances |-> Jobs]
Unlimited == [r \in Routes |-> 0]

InstanceSymmetry == Permutations(Instances)

=============================================================================
