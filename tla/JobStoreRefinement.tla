------------------------- MODULE JobStoreRefinement -------------------------
(***************************************************************************)
(* The tables of JobStore implement the life of a job of JobLifecycle.      *)
(***************************************************************************)
EXTENDS JobStore

\* A row is "held" while its claim is being prepared and "launched" from the
\* moment MarkJobLaunchingOwned commits, also when it is later unknown.
PhaseOf(row) ==
  CASE row.status = "absent"  -> "absent"
    [] row.status = "pending" -> "queued"
    [] row.status = "running" ->
         IF row.launchState = "preparing" THEN "held" ELSE "launched"
    [] OTHER -> "settled"

phaseBar  == [j \in Jobs |-> PhaseOf(jobs[j])]
holderBar == [j \in Jobs |-> jobs[j].owner]

Lifecycle == INSTANCE JobLifecycle WITH
  phase <- phaseBar, holder <- holderBar, Nobody <- None, Capacity <- MaxGlobal

\* Every operation of the store is a step of the job's life or leaves it alone.
ImplementsLifecycle == Lifecycle!Spec

=============================================================================
