------------------------------- MODULE MCWave -------------------------------
(* Small instances of Wave for TLC. *)
EXTENDS Wave

CONSTANTS a, b, r1

OneRoute  == [j \in Jobs |-> r1]
SameRank  == [j \in Jobs |-> 0]
OnlyWaves == [i \in Instances |-> IF i \in Waves THEN Jobs ELSE {}]
Unlimited == [r \in Routes |-> 0]

=============================================================================
