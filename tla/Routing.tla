------------------------------ MODULE Routing ------------------------------
(***************************************************************************)
(* The poll/route goroutine of each daemon (internal/poller,                *)
(* internal/router): it copies the issue and the handoffs in its comments   *)
(* to the store, then walks the configured routes.  A route that matches    *)
(* and whose gate is open gets a job; a closed gate is recorded as a block, *)
(* and its on_block action is applied unless it was applied already.        *)
(***************************************************************************)
EXTENDS IssueActions

CONSTANTS
  Routers,       \* threads that run the poll/route goroutine
  Routes         \* cfg.Routes, in order: records of predicate, gate and actions

RouteNames == {Routes[n].name : n \in DOMAIN Routes}
Keys       == [route : RouteNames, labels : SUBSET Labels, updated : Nat]

Reasons == {"missing_handoff", "decision_not_allowed", "next_route_mismatch",
            "source_stale", "target_stale"}

\* As Config.Validate has it: the names of routes differ, and a required handoff
\* says from whom.
ASSUME RoutingAssumption ==
  /\ Routers \subseteq Threads
  /\ None \notin Threads \cup DOMAIN Handoffs \cup Reasons
  /\ None \notin Keys
  /\ Routes \in Seq(Range(Routes))
  /\ \A m, n \in DOMAIN Routes : Routes[m].name = Routes[n].name => m = n
  /\ \A n \in DOMAIN Routes :
       /\ Routes[n].gate.required => Routes[n].gate.from # {}
       /\ Routes[n].onBlock.add \subseteq Labels

VARIABLES
  handoffs,      \* created_at of the stored handoffs, 0: not stored
  blocks,        \* rows of gate_blocks
  applied        \* those with action_applied_at

routingVars == <<handoffs, blocks, applied>>

Open == [blocked |-> None, handoff |-> None]

-----------------------------------------------------------------------------
(* Matching and gates *)

Matches(route, issue) ==
  /\ issue.state = "open"
  /\ route.include \subseteq issue.labels
  /\ route.exclude \cap issue.labels = {}

\* Fault: ORDER BY created_at ASC.
EarliestMatchingHandoff(from) ==
  LET stored == {h \in DOMAIN Handoffs :
                   handoffs[h] > 0 /\ (from = {} \/ Handoffs[h].from \in from)}
  IN  IF stored = {} THEN None
      ELSE CHOOSE h \in stored : \A g \in stored : handoffs[h] <= handoffs[g]

\* The stored handoff of these routes with the latest created_at.
LatestMatchingHandoff(from) ==
  LET stored == {h \in DOMAIN Handoffs :
                   handoffs[h] > 0 /\ (from = {} \/ Handoffs[h].from \in from)}
  IN  IF stored = {} THEN None
      ELSE CHOOSE h \in stored : \A g \in stored : handoffs[g] <= handoffs[h]

\* freshness is None where it is not set; an explicit "none" enables the gate.
HandoffGateEnabled(gate) ==
  \/ gate.required \/ gate.from # {} \/ gate.decisions # {}
  \/ gate.nextRoute # None \/ gate.freshness # None

\* What a handoff may quote to say which state of the issue it is about.
Fingerprints(issue) == {<<"updated", issue.updated>>, <<"body", issue.body>>}

\* ofIssue: its source kind and key name this issue, or are left out.
SourceFresh(h, issue) ==
  Handoffs[h].ofIssue /\ Handoffs[h].source \in Fingerprints(issue)

\* The checks of a handoff, in the order of the code: the first that fails is
\* the reason.  target_head_unchanged always blocks.
Objection(gate, h, issue) ==
  IF gate.decisions # {} /\ Handoffs[h].decision \notin gate.decisions
    THEN "decision_not_allowed"
  ELSE IF gate.nextRoute # None /\ Handoffs[h].next # gate.nextRoute
    THEN "next_route_mismatch"
  ELSE IF gate.freshness = "source_unchanged" /\ ~SourceFresh(h, issue)
    THEN "source_stale"
  ELSE IF gate.freshness = "target_head_unchanged" THEN "target_stale" ELSE None

\* Fault: a handoff that is missing is no objection.
MissingIsFine(gate) == None

Missing(gate) == IF gate.required THEN "missing_handoff" ELSE None

EvaluateGate(route, issue) ==
  LET h == LatestMatchingHandoff(route.gate.from) IN
  IF ~HandoffGateEnabled(route.gate) THEN Open
  ELSE IF h = None THEN [Open EXCEPT !.blocked = Missing(route.gate)]
  ELSE [blocked |-> Objection(route.gate, h, issue), handoff |-> h]

\* What a block is about: its handoff, or the issue as it was.
GateScope(issue, decision) ==
  IF decision.handoff # None THEN <<"handoff", decision.handoff>>
  ELSE <<"issue", issue.updated>>

GateBlock(route, issue, decision) ==
  [route |-> route.name, reason |-> decision.blocked, scope |-> GateScope(issue, decision)]

\* Fault: a change of anything but the labels is not a new occasion.
DedupeKeyOfLabels(issue, route) ==
  [route |-> route.name, labels |-> issue.labels, updated |-> 0]

DedupeKey(issue, route) ==
  [route |-> route.name, labels |-> issue.labels, updated |-> issue.updated]

NewJob == [status |-> "pending", owner |-> None, phase |-> "new", outcome |-> "none",
           result |-> None, charge |-> None]

-----------------------------------------------------------------------------
(* Poll *)

\* A closed issue is not listed: its snapshot stays as it is.
ListOpenIssues(t) ==
  /\ At(t, "idle")
  /\ Become(t, IF github.state = "open"
               THEN [Rest EXCEPT !.stage = "upsert", !.issue = github]
               ELSE [Rest EXCEPT !.stage = "listRoutable"])
  /\ UNCHANGED <<issueVars, snapshot, jobs, troubles, routingVars>>

UpsertIssue(t) ==
  /\ At(t, "upsert")
  /\ snapshot' = thread[t].issue
  /\ GoTo(t, "listComments")
  /\ UNCHANGED <<issueVars, jobs, troubles, routingVars>>

\* The comments that hold a handoff; the number of a comment is the time it was
\* posted at.
ListIssueComments(t) ==
  /\ At(t, "listComments")
  /\ Become(t, [Rest EXCEPT !.stage = "parse",
       !.rows = {n \in DOMAIN comments : comments[n].text \in DOMAIN Handoffs}])
  /\ UNCHANGED <<issueVars, snapshot, jobs, troubles, routingVars>>

\* The id of a handoff is a hash of its content: the same block posted again
\* overwrites created_at.
UpsertHandoff(t) ==
  LET s == thread[t]  first == Min(s.rows) IN
  /\ At(t, "parse")
  /\ IF s.rows = {}
     THEN GoTo(t, "listRoutable") /\ UNCHANGED handoffs
     ELSE /\ handoffs' = [handoffs EXCEPT ![comments[first].text] = first]
          /\ Become(t, [s EXCEPT !.rows = @ \ {first}])
  /\ UNCHANGED <<issueVars, snapshot, jobs, troubles, blocks, applied>>

\* Any error ends the poll and skips the routing after it.
PollFails(t) ==
  /\ thread[t].stage \in {"idle", "listComments"}
  /\ Trouble
  /\ Become(t, Rest)
  /\ UNCHANGED <<issueVars, snapshot, jobs, routingVars>>

-----------------------------------------------------------------------------
(* RouteWithGitHub *)

\* The first route from index k on that matches the snapshot in hand.
NextMatch(issue, k) ==
  LET matching == {n \in k..Len(Routes) : Matches(Routes[n], issue)} IN
  IF matching = {} THEN 0 ELSE Min(matching)

\* The loop goes on with the route after index k.
Continue(issue, k) ==
  LET n == NextMatch(issue, k + 1) IN
  IF n = 0 THEN Rest ELSE [Rest EXCEPT !.stage = "gate", !.issue = issue, !.route = n]

ListRoutableIssues(t) ==
  /\ At(t, "listRoutable")
  /\ Become(t, IF snapshot # None /\ snapshot.state = "open"
               THEN Continue(snapshot, 0) ELSE Rest)
  /\ UNCHANGED <<issueVars, snapshot, jobs, troubles, routingVars>>

CheckGate(t) ==
  LET s == thread[t]  decision == EvaluateGate(Routes[s.route], s.issue) IN
  /\ At(t, "gate")
  /\ Become(t, [s EXCEPT !.decision = decision,
                         !.stage = IF decision.blocked = None THEN "enqueue" ELSE "block"])
  /\ UNCHANGED <<issueVars, snapshot, jobs, troubles, routingVars>>

\* INSERT OR IGNORE on the dedupe key.
EnqueueJob(t) ==
  LET s == thread[t]  key == DedupeKey(s.issue, Routes[s.route]) IN
  /\ At(t, "enqueue")
  /\ jobs' = [k \in DOMAIN jobs \cup {key} |-> IF k \in DOMAIN jobs THEN jobs[k] ELSE NewJob]
  /\ Become(t, Continue(s.issue, s.route))
  /\ UNCHANGED <<issueVars, snapshot, troubles, routingVars>>

\* Fault: one row per route.
RecordedOncePerRoute(block) ==
  IF \E b \in blocks : b.route = block.route THEN blocks ELSE blocks \cup {block}

\* One row per issue, route, reason and scope.
Recorded(block) == blocks \cup {block}

RecordGateBlock(t) ==
  LET s == thread[t]  route == Routes[s.route]
      block == GateBlock(route, s.issue, s.decision)
      marking == [s EXCEPT !.stage = "markApplied", !.decision = None, !.cause = <<"block", block>>]
  IN
  /\ At(t, "block")
  /\ blocks' = Recorded(block)
  /\ Become(t, IF block \in applied THEN Continue(s.issue, s.route)
               ELSE IF Empty(route.onBlock) THEN marking
               ELSE Applying(marking, route.onBlock, marking.cause, "markApplied", "idle"))
  /\ UNCHANGED <<issueVars, snapshot, jobs, troubles, handoffs, applied>>

\* Fault: the mark is forgotten.
MarkGateBlockActionUnapplied(t) ==
  LET s == thread[t] IN
  /\ At(t, "markApplied")
  /\ Become(t, Continue(s.issue, s.route))
  /\ UNCHANGED <<issueVars, snapshot, jobs, troubles, routingVars>>

\* Later routes see the issue as the action left it.
MarkGateBlockActionApplied(t) ==
  LET s == thread[t] IN
  /\ At(t, "markApplied")
  /\ applied' = applied \cup {s.cause[2]}
  /\ Become(t, Continue(s.issue, s.route))
  /\ UNCHANGED <<issueVars, snapshot, jobs, troubles, handoffs, blocks>>

=============================================================================
