----------------------------- MODULE MCJobStore -----------------------------
(* Small instances of JobStore for TLC. *)
EXTENDS JobStoreRefinement, TLC

CONSTANTS a, b, r1, r2, scope1

\* Up to three queued jobs: 1 and 3 share the limited route r1, 2 is on r2 and
\* urgent.
TwoRoutes     == [j \in Jobs |-> IF j = 2 THEN r2 ELSE r1]
Urgent2       == [j \in Jobs |-> IF j = 2 THEN 1 ELSE 0]
AllKinds      == [i \in Instances |-> Jobs]
R1AtMostOne   == [r \in Routes |-> IF r = r1 THEN 1 ELSE 0]
Unlimited     == [r \in Routes |-> 0]

InstanceSymmetry == Permutations(Instances)

=============================================================================
