----------------------------- MODULE GateHistory -----------------------------
(***************************************************************************)
(* IssueWorkflow with what each worker could have known.  The gate of a job  *)
(* is judged when the job is enqueued, and once more when its attempt scope   *)
(* is computed after the claim (AttemptScopeHash); the history says which     *)
(* handoffs were stored by then, and which states the issue has been in.      *)
(***************************************************************************)
EXTENDS IssueWorkflow

VARIABLES
  known,   \* of each worker: the handoffs when it began its job
  been     \* and the fingerprints of the issue since then

historyVars == <<workVars, known, been>>

Idle(t) == thread[t] = Rest

HistoryInit ==
  /\ Init
  /\ known = [t \in Workers |-> handoffs]
  /\ been = [t \in Workers |-> Fingerprints(github)]

HistoryNext ==
  /\ Next
  /\ known' = [t \in Workers |-> IF Idle(t)' THEN handoffs' ELSE known[t]]
  /\ been' = [t \in Workers |->
       IF Idle(t)' THEN Fingerprints(github') ELSE been[t] \cup Fingerprints(github')]

HistorySpec == HistoryInit /\ [][HistoryNext]_historyVars

-----------------------------------------------------------------------------
(* Properties *)

\* No block was posted twice.  A block that was keeps one row, whose time goes back
\* to its first comment at every poll, until the poll comes to the last one
\* (poller.go:56): in the meantime, an older block that accepts may be the latest.
NothingRepeated ==
  \A m, n \in DOMAIN comments :
    comments[m].text = comments[n].text /\ comments[m].text \in DOMAIN Handoffs => m = n

\* h is as late as any other handoff the gate asks for that the worker could know.
UpToDate(t, h) ==
  LET from == RouteOf(t).gate.from IN
  \A g \in DOMAIN Handoffs \ {h} :
    known[t][g] > 0 /\ (from # {} => Handoffs[g].from \in from)
      => known[t][g] <= known[t][h] \/ known[t][g] <= handoffs[h]

\* docs/handoff-gates-spec.md:76 of a gate: "Declarative route precondition evaluated
\* before work starts."  However long a job waited, and whatever was posted and
\* edited meanwhile: when its command is launched, a handoff that the gate accepts
\* was the latest one and was about the issue as it is, each at some moment since
\* the claim.  This is said of routes that count attempts by another scope than
\* legacy; with legacy, the gate of a job is judged only when it is enqueued.
WorkFollowsLatestHandoff ==
  NothingRepeated =>
    \A t \in Workers :
      LET route == RouteOf(t) IN
      At(t, "launch") /\ Holds(t) /\ route.scope # "legacy" /\ route.gate.required =>
        \E h \in DOMAIN Handoffs :
          /\ Accepts(route, h) /\ UpToDate(t, h)
          /\ route.gate.freshness = "source_unchanged" =>
               Handoffs[h].ofIssue /\ Handoffs[h].source \in been[t]

=============================================================================
