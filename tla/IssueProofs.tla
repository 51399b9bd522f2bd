---------------------------- MODULE IssueProofs ----------------------------
(***************************************************************************)
(* What TLAPS proves of IssueWorkflow, for any routes, handoffs, results    *)
(* and goroutines: the type invariant, that work on a gated route follows   *)
(* an accepted handoff, and that the launches charged to one scope never    *)
(* exceed the limit of its route.                                           *)
(***************************************************************************)
EXTENDS IssueWorkflow, FiniteSetTheorems, WellFoundedInduction, TLAPS

-----------------------------------------------------------------------------
(* Numbers, sequences, functions *)

(* A set of naturals has a least element: what Min returns. *)
LEMMA MinIsLeast ==
  ASSUME NEW S \in SUBSET Nat, S # {}
  PROVE  Min(S) \in S /\ \A n \in S : Min(S) <= n
<1> DEFINE less == {ss \in Nat \X Nat : ss[1] < ss[2]}
<1>1. IsWellFoundedOn(less, Nat)
  BY NatLessThanWellFounded DEF OpToRel
<1>2. \A m, n \in Nat : m < n => <<m, n>> \in less
  OBVIOUS
<1> HIDE DEF less
<1>3. \E n \in S : \A m \in S : ~(<<m, n>> \in less)
  BY <1>1, WFMin
<1>4. \E n \in S : \A m \in S : n <= m
  <2>1. \A m, n \in Nat : n <= m \/ m < n
    OBVIOUS
  <2>2. \A m, n \in S : <<m, n>> \in less \/ n <= m
    BY <1>2, <2>1
  <2>3. QED BY <1>3, <2>2
<1>5. QED BY <1>4, Zenon DEF Min

(* A set of naturals that has a bound has a greatest element. *)
LEMMA BoundedHasGreatest ==
  ASSUME NEW S \in SUBSET Nat, S # {}, NEW b \in Nat, \A n \in S : n <= b
  PROVE  \E n \in S : \A m \in S : m <= n
<1> DEFINE gaps == {b - n : n \in S}
<1>1. gaps # {}
  OBVIOUS
<1>2. \A n \in S : b - n \in Nat
  OBVIOUS
<1>3. gaps \in SUBSET Nat
  BY <1>2
<1>4. PICK gap \in gaps : \A g \in gaps : gap <= g
  BY <1>1, <1>3, MinIsLeast
<1>5. PICK n \in S : gap = b - n
  OBVIOUS
<1>6. ASSUME NEW m \in S PROVE m <= n
  <2>1. b - n <= b - m
    BY <1>4, <1>5
  <2>2. m \in Nat /\ n \in Nat
    OBVIOUS
  <2>3. QED BY <2>1, <2>2
<1>7. QED BY <1>6

LEMMA SeqOfItsRange ==
  ASSUME NEW a, NEW S, a \in Seq(S)
  PROVE  a \in Seq(Range(a))
<1> DEFINE l == Len(a)  r == Range(a)
<1>1. a = [n \in 1..l |-> a[n]] /\ l \in Nat
  OBVIOUS
<1>2. \A n \in 1..l : a[n] \in r
  BY DEF Range
<1> HIDE DEF l, r
<1>3. a \in [1..l -> r]
  BY <1>1, <1>2
<1>4. a \in Seq(r)
  BY <1>1, <1>3
<1>5. QED BY <1>4 DEF r

(* Appending keeps what was there. *)
LEMMA AppendGrows ==
  ASSUME NEW s, s \in Seq(Range(s)), NEW x
  PROVE  /\ Append(s, x) \in Seq(Range(Append(s, x)))
         /\ Len(Append(s, x)) = Len(s) + 1 /\ Len(s) \in Nat
         /\ DOMAIN s \subseteq DOMAIN Append(s, x)
         /\ \A n \in DOMAIN s : Append(s, x)[n] = s[n]
<1> DEFINE S == Range(s) \cup {x}
<1>1. s \in Seq(S)
  <2>1. Range(s) \subseteq S
    OBVIOUS
  <2> HIDE DEF S
  <2>2. s \in Seq(Range(s))
    OBVIOUS
  <2>3. QED BY <2>1, <2>2
<1> HIDE DEF S
<1>2. x \in S
  BY DEF S
<1>3. /\ Append(s, x) \in Seq(S)
      /\ Len(Append(s, x)) = Len(s) + 1 /\ Len(s) \in Nat
      /\ DOMAIN s = 1..Len(s) /\ DOMAIN Append(s, x) = 1..(Len(s) + 1)
      /\ \A n \in 1..Len(s) : Append(s, x)[n] = s[n]
  BY <1>1, <1>2
<1>4. Append(s, x) \in Seq(Range(Append(s, x)))
  BY <1>3, SeqOfItsRange
<1>5. QED BY <1>3, <1>4
-----------------------------------------------------------------------------
(* The inductive invariant *)

ActionStages == ActionCalls \cup {"actionStore"}

\* Stages that rely on the snapshot in hand; that have a job in hand, before it is
\* charged and at all; that end with its settlement; that end with the mark of a
\* block; from the charge to the launch.
Reading(s)   == s.stage \in {"upsert", "gate", "enqueue", "block", "markApplied", "recheck",
                             "scope"} \cup (ActionStages \ {"actionRead"})
Claiming(s)  == s.stage \in {"refresh", "recheck", "scope", "charge"}
Launching(s) == \/ s.stage \in {"started", "launch"}
                \/ s.stage = "count" /\ s.then = "launch"
                \/ s.stage \in ActionStages /\ s.then = "started"
Ending(s)    == \/ s.stage \in {"finished", "settle"}
                \/ s.stage = "count" /\ s.then = "settle"
                \/ s.stage \in ActionStages /\ s.then \in {"finished", "settle"}
Marking(s)   == \/ s.stage = "markApplied"
                \/ s.stage \in ActionStages /\ s.then = "markApplied"

Outcomes == {"succeeded", "failed"}

\* A goroutine by itself is well formed.
Shape(s) ==
  /\ DOMAIN s = DOMAIN Rest
  /\ s.issue \in Issue \cup {None}
  /\ s.action.add \subseteq Labels
  /\ s.route \in 0..Len(Routes)
  /\ Reading(s) => s.issue \in Issue
  /\ s.stage \in {"gate", "enqueue", "block"} => s.route # 0
  /\ s.stage \in ActionStages =>
       /\ s.then \in {"markApplied", "started", "finished", "settle"}
       /\ s.orElse = IF s.then = "markApplied" THEN "idle" ELSE "settle"
  /\ s.stage = "count" => s.then \in {"launch", "settle"}
  /\ Ending(s) => s.status \in Outcomes \cup {"skipped", "dead"}
  /\ Claiming(s) \/ Launching(s) \/ Ending(s) => s.job # None

\* An open gate that requires a handoff has accepted a stored one.
GateOpen(route) == route.gate.required => \E h \in DOMAIN Handoffs : Accepts(route, h)

Gated(charge) ==
  charge.scope[1] = "handoff" => Accepts(RouteNamed(charge.route), charge.scope[2])

Posted == {n \in DOMAIN comments : comments[n].text \in DOMAIN Handoffs}

\* What a goroutine refers to is there.
Linked(s) ==
  /\ s.job # None => s.job \in DOMAIN jobs
  /\ s.rows \subseteq Posted
  /\ Marking(s) => s.cause[2] \in blocks
  /\ s.stage = "enqueue" => GateOpen(Routes[s.route])
  /\ s.stage = "charge" =>
       s.charge \in Charges /\ s.charge.route = s.job.route /\ Gated(s.charge)

ThreadsOK ==
  /\ DOMAIN thread = Threads
  /\ \A t \in Threads : Shape(thread[t]) /\ Linked(thread[t])

IssueOK ==
  /\ github \in Issue /\ snapshot \in Issue \cup {None}
  /\ comments \in Seq(Range(comments))
  /\ handoffs \in [DOMAIN Handoffs -> 0..Len(comments)]
  /\ applied \subseteq blocks

RowOK(row) ==
  /\ DOMAIN row = DOMAIN NewJob
  /\ row.status \in {"pending", "running", "skipped", "dead"} \cup Outcomes
  /\ row.owner \in Threads \cup {None, Gone}
  /\ row.phase \in {"new", "claimed", "launched"}
  /\ row.outcome \in Outcomes \cup {"none"}
  /\ row.outcome \in Outcomes => row.result \in Results

RowsOK ==
  /\ IsFiniteSet(DOMAIN jobs) /\ DOMAIN jobs \subseteq Keys
  /\ \A key \in DOMAIN jobs : RowOK(jobs[key]) /\ GateOpen(RouteNamed(key.route))
  /\ \A t \in Threads :
       Claiming(thread[t]) /\ Holds(t) => jobs[thread[t].job].phase = "claimed"

\* The jobs that charged a budget last, and those of them that are launched or,
\* past the check of its limit, about to be.
ChargedBy(charge) == {key \in DOMAIN jobs : jobs[key].charge = charge}
Passed(key) ==
  \/ jobs[key].phase = "launched"
  \/ \E t \in Threads : thread[t].job = key /\ Holds(t) /\ Launching(thread[t])

BudgetsOK ==
  /\ DOMAIN attempts \subseteq Charges /\ transitions \in Nat
  /\ \A key \in DOMAIN jobs : jobs[key].charge \in DOMAIN attempts \cup {None}
  /\ \A charge \in DOMAIN attempts :
       /\ attempts[charge] \in Nat /\ Gated(charge)
       /\ Cardinality(ChargedBy(charge)) <= attempts[charge]
       /\ Cardinality({key \in ChargedBy(charge) : Passed(key)})
            <= RouteNamed(charge.route).maxAttempts

WorkInvariant == ThreadsOK /\ IssueOK /\ RowsOK /\ BudgetsOK

-----------------------------------------------------------------------------
(* Routes and goroutines *)

LEMMA RoutesAreNamed ==
  ASSUME NEW n \in DOMAIN Routes
  PROVE  RouteNamed(Routes[n].name) = Routes[n] /\ Routes[n].name \in RouteNames
<1>1. Routes[n] \in Range(Routes)
  BY DEF Range
<1>2. \A r \in Range(Routes) : r.name = Routes[n].name => r = Routes[n]
  BY RoutingAssumption DEF Range
<1>3. QED BY <1>1, <1>2, Zenon DEF RouteNamed, RouteNames

LEMMA NamesAreOfRoutes ==
  ASSUME NEW name \in RouteNames
  PROVE  \E n \in DOMAIN Routes : RouteNamed(name) = Routes[n] /\ Routes[n].name = name
BY RoutesAreNamed DEF RouteNames

LEMMA RoutesAreListed == Len(Routes) \in Nat /\ DOMAIN Routes = 1..Len(Routes)
BY RoutingAssumption

LEMMA RestFields ==
  /\ DOMAIN Rest = {"stage", "issue", "job", "action", "left", "before", "cause", "charge",
                    "then", "orElse", "rows", "route", "decision", "status"}
  /\ Rest.stage = "idle" /\ Rest.issue = None /\ Rest.job = None /\ Rest.action = NoAction
  /\ Rest.rows = {} /\ Rest.route = 0 /\ Rest.then = "idle" /\ Rest.status = "none"
BY DEF Rest

LEMMA NoActionAddsNothing == NoAction.add = {}
BY DEF NoAction

\* The stages of an action.
LEMMA StagesOfActions ==
  \A stage : stage \in ActionStages <=>
    stage \in {"actionRead", "actionRemove", "actionAdd", "actionComment", "actionReread",
               "actionStore"}
BY DEF ActionStages, ActionCalls

LEMMA RestIsFine == Shape(Rest) /\ Linked(Rest)
BY RestFields, NoActionAddsNothing, RoutesAreListed, StagesOfActions
DEF Shape, Linked, Reading, Claiming, Launching, Ending, Marking

LEMMA LaterStages ==
  ASSUME NEW action
  PROVE  /\ AfterAdd(action) \in {"actionComment", "actionReread"}
         /\ AfterRemove(action) \in {"actionAdd", "actionComment", "actionReread", "actionStore"}
BY DEF AfterAdd, AfterRemove

LEMMA ContinuesAtARoute ==
  ASSUME NEW issue \in Issue, NEW k \in 0..Len(Routes)
  PROVE  \/ Continue(issue, k) = Rest
         \/ \E n \in 1..Len(Routes) :
              Continue(issue, k) = [Rest EXCEPT !.stage = "gate", !.issue = issue, !.route = n]
<1> DEFINE matching == {n \in (k + 1)..Len(Routes) : Matches(Routes[n], issue)}
<1>1. matching \in SUBSET Nat /\ \A n \in matching : n \in 1..Len(Routes)
  BY RoutesAreListed
<1>2. NextMatch(issue, k + 1) = IF matching = {} THEN 0 ELSE Min(matching)
  BY DEF NextMatch
<1> HIDE DEF matching
<1>3. NextMatch(issue, k + 1) = 0 \/ NextMatch(issue, k + 1) \in 1..Len(Routes)
  BY <1>1, <1>2, MinIsLeast
<1>4. QED BY <1>3 DEF Continue

LEMMA ContinueIsFine ==
  ASSUME NEW issue \in Issue, NEW k \in 0..Len(Routes)
  PROVE  /\ Shape(Continue(issue, k))
         /\ Continue(issue, k).stage \in {"idle", "gate"}
         /\ Continue(issue, k).job = None /\ Continue(issue, k).rows = {}
<1>1. CASE Continue(issue, k) = Rest
  BY <1>1, RestIsFine, RestFields
<1>2. ASSUME NEW n \in 1..Len(Routes),
             Continue(issue, k) = [Rest EXCEPT !.stage = "gate", !.issue = issue, !.route = n]
      PROVE  /\ Shape(Continue(issue, k))
             /\ Continue(issue, k).stage \in {"idle", "gate"}
             /\ Continue(issue, k).job = None /\ Continue(issue, k).rows = {}
  BY <1>2, RestFields, NoActionAddsNothing, RoutesAreListed, StagesOfActions
  DEF Shape, Reading, Claiming, Launching, Ending
<1>3. QED BY <1>1, <1>2, ContinuesAtARoute


-----------------------------------------------------------------------------
(* The world only grows *)

\* Jobs, comments and blocks are not deleted, and a handoff stays stored.
WorldGrows ==
  /\ DOMAIN jobs \subseteq DOMAIN jobs'
  /\ Posted \subseteq Posted'
  /\ blocks \subseteq blocks'
  /\ \A h \in DOMAIN Handoffs : handoffs[h] > 0 => handoffs'[h] > 0

\* What is accepted stays accepted.
LEMMA AcceptanceStays ==
  ASSUME WorldGrows, NEW route
  PROVE  /\ \A h \in DOMAIN Handoffs : Accepts(route, h) => Accepts(route, h)'
         /\ GateOpen(route) => GateOpen(route)'
BY DEF WorldGrows, Accepts, GateOpen

LEMMA GatedStays ==
  ASSUME WorldGrows, NEW charge \in Charges, Gated(charge)
  PROVE  Gated(charge)'
<1>1. charge.scope[1] = "handoff" => charge.scope[2] \in DOMAIN Handoffs
  <2>1. DOMAIN TargetKinds = {"pr_head", "ci_head"}
    BY DEF TargetKinds
  <2>2. QED BY <2>1 DEF Charges
<1>2. QED BY <1>1, AcceptanceStays DEF Gated

LEMMA LinkedStays ==
  ASSUME WorldGrows, NEW s, Linked(s)
  PROVE  Linked(s)'
<1>1. s.stage = "enqueue" => GateOpen(Routes[s.route])'
  BY AcceptanceStays DEF Linked
<1>2. s.stage = "charge" => Gated(s.charge)'
  BY GatedStays DEF Linked
<1>3. QED BY <1>1, <1>2 DEF Linked, WorldGrows, Marking

\* Only SetLabels, Comment and Edit change the issue.
IssueGrows ==
  /\ github' \in Issue
  /\ comments' \in Seq(Range(comments'))
  /\ Len(comments) \in Nat /\ Len(comments') \in Nat /\ Len(comments) <= Len(comments')
  /\ Posted \subseteq Posted'

LEMMA EditedIssue ==
  ASSUME NEW g \in Issue
  PROVE  /\ [g EXCEPT !.updated = @ + 1] \in Issue
         /\ \A labels \in SUBSET Labels :
              [g EXCEPT !.labels = labels, !.updated = @ + 1] \in Issue
         /\ \A body \in Bodies : [g EXCEPT !.body = body, !.updated = @ + 1] \in Issue
         /\ \A state \in {"open", "closed"} :
              [g EXCEPT !.state = state, !.updated = @ + 1] \in Issue
<1>1. PICK n \in Nat : n = g.updated + 1
  BY DEF Issue
<1>2. ASSUME NEW labels \in SUBSET Labels PROVE [g EXCEPT !.labels = labels, !.updated = n] \in Issue
  BY DEF Issue
<1>3. ASSUME NEW body \in Bodies PROVE [g EXCEPT !.body = body, !.updated = n] \in Issue
  BY DEF Issue
<1>4. ASSUME NEW state \in {"open", "closed"}
      PROVE  [g EXCEPT !.state = state, !.updated = n] \in Issue
  BY DEF Issue
<1>5. [g EXCEPT !.updated = n] \in Issue
  BY DEF Issue
<1>6. QED BY <1>1, <1>2, <1>3, <1>4, <1>5

LEMMA IssueUnchanged ==
  ASSUME IssueOK, UNCHANGED issueVars
  PROVE  IssueGrows
BY DEF IssueOK, issueVars, IssueGrows, Posted

LEMMA LabelsChange ==
  ASSUME IssueOK, NEW labels \in SUBSET Labels, SetLabels(labels), comments' = comments
  PROVE  IssueGrows
<1>1. github' \in Issue
  BY EditedIssue DEF IssueOK, SetLabels
<1>2. QED BY <1>1 DEF IssueOK, IssueGrows, Posted

LEMMA CommentIsPosted ==
  ASSUME IssueOK, NEW text, NEW cause, Comment(text, cause)
  PROVE  IssueGrows
<1> DEFINE post == [text |-> text, cause |-> cause]
<1>1. github' \in Issue
  BY EditedIssue DEF IssueOK, Comment
<1>2. comments' = Append(comments, post) /\ comments \in Seq(Range(comments))
  BY DEF IssueOK, Comment
<1> HIDE DEF post
<1>3. /\ comments' \in Seq(Range(comments'))
      /\ Len(comments') = Len(comments) + 1 /\ Len(comments) \in Nat
      /\ DOMAIN comments \subseteq DOMAIN comments'
      /\ \A n \in DOMAIN comments : comments'[n] = comments[n]
  BY <1>2, AppendGrows
<1>4. QED BY <1>1, <1>3 DEF IssueGrows, Posted

LEMMA EditGrows ==
  ASSUME IssueOK, Edit
  PROVE  IssueGrows
<1>1. ASSUME NEW label \in UserLabels, SetLabels(github.labels \cup {label}), UNCHANGED comments
      PROVE  IssueGrows
  <2>1. github.labels \cup {label} \in SUBSET Labels
    BY WorkflowAssumption DEF IssueOK, Issue
  <2>2. QED BY <1>1, <2>1, LabelsChange
<1>2. ASSUME NEW body \in Bodies, github' = [github EXCEPT !.body = body, !.updated = @ + 1],
             UNCHANGED comments
      PROVE  IssueGrows
  <2>1. github' \in Issue
    BY <1>2, EditedIssue, Zenon DEF IssueOK
  <2>2. QED BY <1>2, <2>1 DEF IssueOK, IssueGrows, Posted
<1>3. ASSUME NEW state \in UserStates, github' = [github EXCEPT !.state = state, !.updated = @ + 1],
             UNCHANGED comments
      PROVE  IssueGrows
  <2>1. state \in {"open", "closed"} /\ github \in Issue
    BY WorkflowAssumption DEF IssueOK
  <2>2. github' \in Issue
    BY <1>3, <2>1, EditedIssue, Zenon
  <2>3. QED BY <1>3, <2>2 DEF IssueOK, IssueGrows, Posted
<1>4. ASSUME NEW text \in UserComments, Comment(text, <<"user">>)
      PROVE  IssueGrows
  BY <1>4, CommentIsPosted
<1>5. QED BY <1>1, <1>2, <1>3, <1>4 DEF Edit

LEMMA ActionsGrow ==
  ASSUME IssueOK, ThreadsOK, NEW t \in Threads, ActionStep(t) \/ ActionFails(t)
  PROVE  IssueGrows
<1>1. thread[t].action.add \subseteq Labels /\ github.labels \subseteq Labels
  BY DEF ThreadsOK, Shape, IssueOK, Issue
<1>2. CASE ActionRemove(t)
  <2>1. github.labels \ {Head(thread[t].left)} \in SUBSET Labels
    BY <1>1
  <2>2. QED BY <1>2, <2>1, LabelsChange DEF ActionRemove
<1>3. CASE ActionAdd(t)
  <2>1. github.labels \cup thread[t].action.add \in SUBSET Labels
    BY <1>1
  <2>2. QED BY <1>3, <2>1, LabelsChange DEF ActionAdd
<1>4. CASE ActionComment(t)
  BY <1>4, CommentIsPosted DEF ActionComment
<1>5. CASE ActionFails(t)
  <2>1. UNCHANGED issueVars \/ Comment(thread[t].action.comment, thread[t].cause)
    BY <1>5 DEF ActionFails
  <2>2. QED BY <2>1, IssueUnchanged, CommentIsPosted
<1>6. CASE ActionRead(t) \/ ActionReread(t) \/ ActionStore(t) \/ ActionRefused(t)
  BY <1>6, IssueUnchanged DEF ActionRead, ActionReread, ActionStore, ActionRefused
<1>7. QED BY <1>2, <1>3, <1>4, <1>5, <1>6 DEF ActionStep


-----------------------------------------------------------------------------
(* The kinds of steps *)

\* Steps of a goroutine that write no job, all but the marks of blocks.
Quiet(t) ==
  \/ ListOpenIssues(t) \/ UpsertIssue(t) \/ ListIssueComments(t) \/ UpsertHandoff(t)
  \/ ListRoutableIssues(t) \/ CheckGate(t) \/ RecordGateBlock(t)
  \/ MarkGateBlockActionApplied(t) \/ PollFails(t)
  \/ ActionStep(t) /\ UNCHANGED routingVars
  \/ ActionFails(t) /\ UNCHANGED routingVars
  \/ RefreshClaimed(t) \/ RefreshFails(t) \/ RouteStillMatches(t) \/ AttemptScopeHash(t)
  \/ ActionDone(t) \/ IncrementTransitionsForJob(t) \/ LaunchFails(t)
  \/ FinalizeOwnedObservation(t) \/ Refused(t)

\* Steps of a goroutine that write the row of a job in hand, or of one it takes.
Writes(t) ==
  \/ Claim(t) \/ IncrementAttemptsForJob(t) \/ Launch(t) \/ FinalizeJobOwned(t)
  \/ \E key \in DOMAIN jobs : Adopt(t, key)

\* Steps without a goroutine.
Outside ==
  \/ \E key \in DOMAIN jobs : CommandEnds(key) \/ LoseJob(key) \/ Requeue(key)
  \/ Edit

LEMMA KindsOfSteps ==
  ASSUME [Next]_workVars
  PROVE  \/ \E t \in Threads : Quiet(t) /\ (IncrementTransitionsForJob(t) \/ UNCHANGED budgetVars)
         \/ \E t \in Threads : Writes(t)
         \/ \E t \in Threads : EnqueueJob(t) /\ UNCHANGED budgetVars
         \/ \E t \in Threads : Crash(t)
         \/ Outside
         \/ UNCHANGED workVars
<1> DEFINE Calm(t) == Quiet(t) /\ (IncrementTransitionsForJob(t) \/ UNCHANGED budgetVars)
<1>t. Routers \subseteq Threads /\ Workers \subseteq Threads
  BY RoutingAssumption, WorkflowAssumption
<1>1. ASSUME NEW t \in Routers, RouterStep(t) \/ PollFails(t), UNCHANGED budgetVars
      PROVE  Calm(t) \/ (EnqueueJob(t) /\ UNCHANGED budgetVars)
  BY <1>1 DEF RouterStep, Quiet
<1>2. ASSUME NEW t \in Workers, WorkerStep(t) \/ RefreshFails(t) \/ LaunchFails(t)
      PROVE  Calm(t) \/ Writes(t)
  <2>1. CASE RefreshFails(t) \/ LaunchFails(t)
    BY <2>1 DEF RefreshFails, LaunchFails, Quiet
  <2>2. CASE RefreshClaimed(t) \/ RouteStillMatches(t) \/ AttemptScopeHash(t) \/ ActionDone(t)
    BY <2>2 DEF RefreshClaimed, RouteStillMatches, AttemptScopeHash, ActionDone, Quiet
  <2>3. CASE IncrementTransitionsForJob(t)
    BY <2>3 DEF Quiet
  <2>4. CASE FinalizeOwnedObservation(t) \/ Refused(t)
    BY <2>4 DEF FinalizeOwnedObservation, Refused, Quiet
  <2>5. CASE ActionStep(t) /\ UNCHANGED <<routingVars, budgetVars>>
    BY <2>5 DEF Quiet
  <2>6. CASE Writes(t)
    BY <2>6
  <2>7. QED BY <1>2, <2>1, <2>2, <2>3, <2>4, <2>5, <2>6 DEF WorkerStep, PrepareStep, Writes
<1>3. ASSUME NEW t \in Threads, ActionFails(t), UNCHANGED <<routingVars, budgetVars>>
      PROVE  Calm(t)
  BY <1>3 DEF Quiet
<1> HIDE DEF Calm
<1>4. CASE Next
  <2>1. \/ \E t \in Routers : (RouterStep(t) \/ PollFails(t)) /\ UNCHANGED budgetVars
        \/ \E t \in Workers : WorkerStep(t) \/ RefreshFails(t) \/ LaunchFails(t)
        \/ \E t \in Threads : ActionFails(t) /\ UNCHANGED <<routingVars, budgetVars>>
        \/ \E t \in Threads : Crash(t)
        \/ Outside
    BY <1>4 DEF Next, Outside
  <2>2. \/ \E t \in Threads : Calm(t) \/ Writes(t) \/ (EnqueueJob(t) /\ UNCHANGED budgetVars)
        \/ \E t \in Threads : Crash(t)
        \/ Outside
    BY <1>1, <1>2, <1>3, <1>t, <2>1
  <2>3. QED BY <2>2 DEF Calm
<1>5. QED BY <1>4

LEMMA HandoffIsPosted ==
  ASSUME IssueOK, ThreadsOK, NEW t \in Threads, UpsertHandoff(t)
  PROVE  /\ handoffs' \in [DOMAIN Handoffs -> 0..Len(comments)]
         /\ \A h \in DOMAIN Handoffs : handoffs[h] > 0 => handoffs'[h] > 0
<1> DEFINE s == thread[t]  first == Min(s.rows)
<1>1. s.rows \subseteq Posted /\ DOMAIN comments = 1..Len(comments) /\ Len(comments) \in Nat
  BY DEF ThreadsOK, Linked, IssueOK
<1>2. s.rows # {} => first \in s.rows
  <2>1. s.rows \in SUBSET Nat
    BY <1>1 DEF Posted
  <2>2. QED BY <2>1, MinIsLeast
<1>3. \/ handoffs' = handoffs
      \/ s.rows # {} /\ handoffs' = [handoffs EXCEPT ![comments[first].text] = first]
  BY DEF UpsertHandoff
<1> HIDE DEF s, first
<1>4. handoffs \in [DOMAIN Handoffs -> 0..Len(comments)]
  BY DEF IssueOK
<1>5. s.rows # {} => first \in 1..Len(comments) /\ comments[first].text \in DOMAIN Handoffs
  BY <1>1, <1>2 DEF Posted
<1>6. QED BY <1>3, <1>4, <1>5, <1>1

LEMMA StepGrows ==
  ASSUME WorkInvariant, [Next]_workVars
  PROVE  WorldGrows /\ IssueOK'
<1>g. ThreadsOK /\ IssueOK
  BY DEF WorkInvariant
<1>h. handoffs \in [DOMAIN Handoffs -> 0..Len(comments)] /\ Len(comments) \in Nat
  BY <1>g DEF IssueOK
\* A step that leaves the issue and the handoffs alone, or grows either.
<1>1. ASSUME IssueGrows, UNCHANGED routingVars, UNCHANGED snapshot, DOMAIN jobs \subseteq DOMAIN jobs'
      PROVE  WorldGrows /\ IssueOK'
  <2>1. handoffs' \in [DOMAIN Handoffs -> 0..Len(comments')]
    <3>1. 0..Len(comments) \subseteq 0..Len(comments')
      BY <1>1 DEF IssueGrows
    <3>2. QED BY <1>1, <1>h, <3>1 DEF routingVars
  <2>2. QED BY <1>1, <1>g, <2>1 DEF IssueOK, IssueGrows, WorldGrows, routingVars
<1>2. ASSUME UNCHANGED issueVars, DOMAIN jobs \subseteq DOMAIN jobs',
             snapshot' \in Issue \cup {None}, blocks \subseteq blocks', applied' \subseteq blocks',
             handoffs' \in [DOMAIN Handoffs -> 0..Len(comments)],
             \A h \in DOMAIN Handoffs : handoffs[h] > 0 => handoffs'[h] > 0
      PROVE  WorldGrows /\ IssueOK'
  BY <1>2, <1>g DEF IssueOK, WorldGrows, issueVars, Posted
<1>3. ASSUME UNCHANGED <<issueVars, routingVars>>, snapshot' \in Issue \cup {None},
             DOMAIN jobs \subseteq DOMAIN jobs'
      PROVE  WorldGrows /\ IssueOK'
  BY <1>2, <1>3, <1>g, <1>h DEF IssueOK, routingVars
<1>s. snapshot \in Issue \cup {None} /\ applied \subseteq blocks
  BY <1>g DEF IssueOK
<1>4. ASSUME NEW t \in Threads, Quiet(t)
      PROVE  WorldGrows /\ IssueOK'
  <2>i. thread[t].issue \in Issue \cup {None} /\ Linked(thread[t])
    BY <1>g DEF ThreadsOK, Shape
  <2>1. CASE (ActionStep(t) \/ ActionFails(t)) /\ UNCHANGED routingVars
    <3>1. CASE ActionStore(t)
      BY <1>3, <2>1, <2>i, <3>1 DEF ActionStore
    <3>2. CASE ~ActionStore(t)
      <4>1. UNCHANGED <<snapshot, jobs>>
        BY <2>1, <3>2 DEF ActionStep, ActionRead, ActionRemove, ActionAdd, ActionComment,
           ActionReread, ActionRefused, ActionFails
      <4>2. IssueGrows
        BY <1>g, <2>1, ActionsGrow
      <4>3. QED BY <1>1, <2>1, <4>1, <4>2
    <3>3. QED BY <3>1, <3>2
  <2>2. CASE UpsertHandoff(t)
    BY <1>2, <1>g, <1>s, <2>2, HandoffIsPosted DEF UpsertHandoff
  <2>3. CASE RecordGateBlock(t)
    BY <1>2, <1>h, <1>s, <2>3 DEF RecordGateBlock, Recorded
  <2>4. CASE MarkGateBlockActionApplied(t)
    <3>1. thread[t].cause[2] \in blocks
      BY <2>4, <2>i DEF MarkGateBlockActionApplied, Linked, Marking, At
    <3>2. QED BY <1>2, <1>h, <1>s, <2>4, <3>1 DEF MarkGateBlockActionApplied
  <2>5. CASE UpsertIssue(t) \/ RouteStillMatches(t)
    BY <1>3, <2>5, <2>i DEF UpsertIssue, RouteStillMatches
  <2>6. CASE \/ ListOpenIssues(t) \/ ListIssueComments(t) \/ ListRoutableIssues(t) \/ CheckGate(t)
             \/ PollFails(t) \/ RefreshClaimed(t) \/ RefreshFails(t) \/ AttemptScopeHash(t)
             \/ ActionDone(t) \/ IncrementTransitionsForJob(t) \/ LaunchFails(t)
             \/ FinalizeOwnedObservation(t) \/ Refused(t)
    BY <1>3, <1>s, <2>6 DEF ListOpenIssues, ListIssueComments, ListRoutableIssues, CheckGate,
       PollFails, RefreshClaimed, RefreshFails, AttemptScopeHash, ActionDone,
       IncrementTransitionsForJob, LaunchFails, FinalizeOwnedObservation, Refused
  <2>7. QED BY <1>4, <2>1, <2>2, <2>3, <2>4, <2>5, <2>6 DEF Quiet
<1>5. ASSUME NEW t \in Threads, Writes(t) \/ EnqueueJob(t) \/ Crash(t)
      PROVE  WorldGrows /\ IssueOK'
  BY <1>3, <1>5, <1>s DEF Writes, Claim, IncrementAttemptsForJob, Launch, FinalizeJobOwned,
     Adopt, EnqueueJob, Crash, SetJob
<1>6. CASE Outside
  <2>1. CASE Edit
    BY <1>1, <1>g, <2>1, EditGrows DEF Edit
  <2>2. CASE \E key \in DOMAIN jobs : CommandEnds(key) \/ LoseJob(key) \/ Requeue(key)
    BY <1>3, <1>s, <2>2 DEF CommandEnds, LoseJob, Requeue, SetJob
  <2>3. QED BY <1>6, <2>1, <2>2 DEF Outside
<1>7. CASE UNCHANGED workVars
  BY <1>3, <1>s, <1>7 DEF workVars
<1>8. QED BY <1>4, <1>5, <1>6, <1>7, KindsOfSteps


-----------------------------------------------------------------------------
(* Goroutines that write no job *)

\* A goroutine comes to hold a claim, or a job to launch, only from the stage before.
GoesOn(s, next) ==
  /\ Claiming(next)  => Claiming(s)  /\ next.job = s.job
  /\ Launching(next) => Launching(s) /\ next.job = s.job

Moves(t, next) ==
  /\ thread' = [thread EXCEPT ![t] = next]
  /\ Shape(next) /\ Linked(next)' /\ GoesOn(thread[t], next)

LEMMA ThreadsMove ==
  ASSUME ThreadsOK, WorldGrows, NEW t \in Threads, NEW next,
         thread' = [thread EXCEPT ![t] = next], Shape(next), Linked(next)'
  PROVE  ThreadsOK' /\ thread'[t] = next /\ \A u \in Threads \ {t} : thread'[u] = thread[u]
<1>1. DOMAIN thread = Threads /\ \A u \in Threads : Shape(thread[u]) /\ Linked(thread[u])
  BY DEF ThreadsOK
<1>2. \A u \in Threads : Linked(thread[u])'
  <2>1. ASSUME NEW u \in Threads, NEW s, s = thread[u] PROVE Linked(s)'
    BY <1>1, <2>1, LinkedStays
  <2> QED
    <3> TAKE u \in Threads
    <3>1. CASE u = t
      BY <1>1, <3>1
    <3>2. CASE u # t
      BY <1>1, <2>1, <3>2
    <3>3. QED BY <3>1, <3>2
<1>3. QED BY <1>1, <1>2 DEF ThreadsOK


LEMMA Prepared ==
  ASSUME ThreadsOK, NEW t \in Threads
  PROVE  /\ Shape(thread[t]) /\ Linked(thread[t])
         /\ \A next : Become(t, next) => thread' = [thread EXCEPT ![t] = next]
         /\ \A stage : GoTo(t, stage) =>
              thread' = [thread EXCEPT ![t] = [thread[t] EXCEPT !.stage = stage]]
BY DEF ThreadsOK, Become, GoTo

LEMMA DropMoves ==
  ASSUME ThreadsOK, WorldGrows, NEW t \in Threads, Drop(t)
  PROVE  Moves(t, Rest)
<1>1. Linked(Rest)'
  BY RestIsFine, LinkedStays
<1>2. GoesOn(thread[t], Rest)
  BY RestFields, StagesOfActions DEF GoesOn, Claiming, Launching
<1>3. QED BY <1>1, <1>2, RestIsFine DEF Drop, Become, Moves

\* The loop over the routes goes on, or ends.
LEMMA ContinueMoves ==
  ASSUME ThreadsOK, WorldGrows, NEW t \in Threads, NEW issue \in Issue, NEW k \in 0..Len(Routes),
         Become(t, Continue(issue, k))
  PROVE  Moves(t, Continue(issue, k))
<1> DEFINE next == Continue(issue, k)
<1>1. /\ Shape(next) /\ next.stage \in {"idle", "gate"}
      /\ next.job = None /\ next.rows = {}
  BY ContinueIsFine
<1> HIDE DEF next
<1>2. Linked(next)
  BY <1>1, StagesOfActions DEF Linked, Marking
<1>3. GoesOn(thread[t], next)
  BY <1>1, StagesOfActions DEF GoesOn, Claiming, Launching
<1>4. QED BY <1>1, <1>2, <1>3, LinkedStays DEF Moves, Become, next

\* One call of an action.
LEMMA ActionMoves ==
  ASSUME ThreadsOK, IssueOK, WorldGrows, NEW t \in Threads, ActionStep(t)
  PROVE  \E next : Moves(t, next)
<1> DEFINE s == thread[t]
<1>g. Shape(s) /\ Linked(s) /\ github \in Issue
  BY Prepared DEF IssueOK
\* Whatever the next stage of the action is.
<1>m. ASSUME NEW next, thread' = [thread EXCEPT ![t] = next], s.stage \in ActionStages,
             DOMAIN next = DOMAIN s, next.stage \in ActionStages \ {"actionRead"},
             next.issue \in Issue, next.action = s.action, next.route = s.route,
             next.then = s.then, next.orElse = s.orElse, next.status = s.status,
             next.job = s.job, next.rows = s.rows, next.cause = s.cause
      PROVE  Moves(t, next)
  <2>1. Shape(next)
    BY <1>g, <1>m, StagesOfActions DEF Shape, Reading, Claiming, Launching, Ending
  <2>2. Linked(next)
    BY <1>g, <1>m, StagesOfActions DEF Linked, Marking
  <2>3. GoesOn(s, next)
    BY <1>m, StagesOfActions DEF GoesOn, Claiming, Launching
  <2>4. QED BY <1>m, <2>1, <2>2, <2>3, LinkedStays DEF Moves
<1>1. CASE ActionRead(t)
  <2>1. PICK stage \in ActionStages \ {"actionRead"} :
          thread' = [thread EXCEPT ![t] =
                       [s EXCEPT !.before = github.labels, !.issue = github, !.stage = stage]]
    BY <1>1, LaterStages, StagesOfActions DEF ActionRead, Become
  <2>2. s.stage = "actionRead"
    BY <1>1 DEF ActionRead, At
  <2>n. PICK next : next = [s EXCEPT !.before = github.labels, !.issue = github, !.stage = stage]
    OBVIOUS
  <2>3. /\ DOMAIN next = DOMAIN s /\ next.stage = stage /\ next.issue = github
        /\ next.action = s.action /\ next.route = s.route /\ next.then = s.then
        /\ next.orElse = s.orElse /\ next.status = s.status /\ next.job = s.job
        /\ next.rows = s.rows /\ next.cause = s.cause
    BY <1>g, <2>n, RestFields DEF Shape
  <2>4. Moves(t, next)
    BY <1>g, <1>m, <2>1, <2>2, <2>3, StagesOfActions, <2>n
  <2>5. QED BY <2>4
<1>2. CASE ActionRemove(t)
  <2>0. PICK left : thread' = [thread EXCEPT ![t] = [s EXCEPT !.left = left,
          !.stage = IF left # <<>> THEN @ ELSE AfterRemove(s.action)]]
    BY <1>2, Zenon DEF ActionRemove, Become
  <2>s. s.stage \in ActionStages \ {"actionRead"}
    BY <1>2, StagesOfActions DEF ActionRemove, At
  <2>p. PICK stage : stage = IF left # <<>> THEN s.stage ELSE AfterRemove(s.action)
    OBVIOUS
  <2>q. stage \in ActionStages \ {"actionRead"}
    BY <2>s, <2>p, LaterStages, StagesOfActions
  <2>1. thread' = [thread EXCEPT ![t] = [s EXCEPT !.left = left, !.stage = stage]]
    BY <2>0, <2>p
  <2>2. s.stage = "actionRemove" /\ s.issue \in Issue
    BY <1>2, <1>g, StagesOfActions DEF ActionRemove, At, Shape, Reading
  <2>n. PICK next : next = [s EXCEPT !.left = left, !.stage = stage]
    OBVIOUS
  <2>3. /\ DOMAIN next = DOMAIN s /\ next.stage = stage /\ next.issue = s.issue
        /\ next.action = s.action /\ next.route = s.route /\ next.then = s.then
        /\ next.orElse = s.orElse /\ next.status = s.status /\ next.job = s.job
        /\ next.rows = s.rows /\ next.cause = s.cause
    BY <1>g, <2>n, RestFields DEF Shape
  <2>4. Moves(t, next)
    BY <1>g, <1>m, <2>1, <2>2, <2>3, StagesOfActions, <2>n, <2>q
  <2>5. QED BY <2>4
<1>3. CASE ActionAdd(t) \/ ActionComment(t)
  <2>1. PICK stage \in ActionStages \ {"actionRead"} :
          thread' = [thread EXCEPT ![t] = [s EXCEPT !.stage = stage]]
    BY <1>3, LaterStages, StagesOfActions, Prepared DEF ActionAdd, ActionComment
  <2>2. s.stage \in {"actionAdd", "actionComment"} /\ s.issue \in Issue
    BY <1>3, <1>g, StagesOfActions DEF ActionAdd, ActionComment, At, Shape, Reading
  <2>n. PICK next : next = [s EXCEPT !.stage = stage]
    OBVIOUS
  <2>3. /\ DOMAIN next = DOMAIN s /\ next.stage = stage /\ next.issue = s.issue
        /\ next.action = s.action /\ next.route = s.route /\ next.then = s.then
        /\ next.orElse = s.orElse /\ next.status = s.status /\ next.job = s.job
        /\ next.rows = s.rows /\ next.cause = s.cause
    BY <1>g, <2>n, RestFields DEF Shape
  <2>4. Moves(t, next)
    BY <1>g, <1>m, <2>1, <2>2, <2>3, StagesOfActions, <2>n
  <2>5. QED BY <2>4
<1>4. CASE ActionReread(t)
  <2>n. PICK next : next = [s EXCEPT !.issue = github, !.stage = "actionStore"]
    OBVIOUS
  <2>1. thread' = [thread EXCEPT ![t] = next] /\ s.stage = "actionReread"
    BY <1>4, <2>n DEF ActionReread, Become, At
  <2>2. /\ DOMAIN next = DOMAIN s /\ next.stage = "actionStore" /\ next.issue = github
        /\ next.action = s.action /\ next.route = s.route /\ next.then = s.then
        /\ next.orElse = s.orElse /\ next.status = s.status /\ next.job = s.job
        /\ next.rows = s.rows /\ next.cause = s.cause
    BY <1>g, <2>n, RestFields DEF Shape
  <2>3. Moves(t, next)
    BY <1>g, <1>m, <2>1, <2>2, StagesOfActions
  <2>4. QED BY <2>3
<1>5. CASE ActionStore(t)
  <2>n. PICK next : next = [s EXCEPT !.stage = s.then, !.action = NoAction]
    OBVIOUS
  <2>1. /\ thread' = [thread EXCEPT ![t] = next] /\ s.stage = "actionStore"
        /\ s.issue \in Issue /\ s.then \in {"markApplied", "started", "finished", "settle"}
    BY <1>5, <1>g, <2>n, StagesOfActions DEF ActionStore, Become, At, Shape, Reading
  <2>2. /\ DOMAIN next = DOMAIN s /\ next.stage = s.then /\ next.issue = s.issue
        /\ next.action = NoAction /\ next.route = s.route /\ next.then = s.then
        /\ next.status = s.status /\ next.job = s.job
        /\ next.rows = s.rows /\ next.cause = s.cause
    BY <1>g, <2>n, RestFields DEF Shape
  <2>3. Shape(next)
    BY <1>g, <2>1, <2>2, NoActionAddsNothing, StagesOfActions
    DEF Shape, Reading, Claiming, Launching, Ending
  <2>4. Linked(next)
    BY <1>g, <2>1, <2>2, StagesOfActions DEF Linked, Marking
  <2>5. GoesOn(s, next)
    BY <2>1, <2>2, StagesOfActions DEF GoesOn, Claiming, Launching
  <2>6. Moves(t, next)
    BY <2>1, <2>3, <2>4, <2>5, LinkedStays DEF Moves
  <2>7. QED BY <2>6
<1>6. CASE ActionRefused(t)
  BY <1>6, DropMoves DEF ActionRefused
<1>7. QED BY <1>1, <1>2, <1>3, <1>4, <1>5, <1>6 DEF ActionStep

LEMMA ActionFailureMoves ==
  ASSUME ThreadsOK, WorldGrows, NEW t \in Threads, ActionFails(t)
  PROVE  \E next : Moves(t, next)
<1> DEFINE s == thread[t]
<1>f. PICK failed :
        failed = [s EXCEPT !.stage = s.orElse, !.action = NoAction, !.left = <<>>,
                           !.status = "failed"]
  OBVIOUS
<1>g. Shape(s) /\ Linked(s) /\ s.stage \in ActionStages
  BY Prepared DEF ActionFails, ActionStages
<1>1. CASE s.orElse = "idle"
  BY <1>1, DropMoves DEF ActionFails, Drop
<1>2. CASE s.orElse # "idle"
  <2>1. /\ thread' = [thread EXCEPT ![t] = failed]
        /\ s.orElse = "settle" /\ s.then \in {"started", "finished", "settle"}
    BY <1>2, <1>f, <1>g DEF ActionFails, Become, Shape
  <2>2. /\ DOMAIN failed = DOMAIN s /\ failed.stage = "settle" /\ failed.issue = s.issue
        /\ failed.action = NoAction /\ failed.route = s.route /\ failed.status = "failed"
        /\ failed.job = s.job /\ failed.rows = s.rows
    BY <1>f, <1>g, <2>1, RestFields DEF Shape
  <2>3. s.job # None
    BY <1>g, <2>1 DEF Shape, Launching, Ending
  <2>4. Shape(failed)
    BY <1>g, <2>2, <2>3, NoActionAddsNothing, StagesOfActions
    DEF Shape, Reading, Claiming, Launching, Ending, Outcomes
  <2>5. Linked(failed)
    BY <1>g, <2>2, StagesOfActions DEF Linked, Marking
  <2>6. GoesOn(s, failed)
    BY <2>2, StagesOfActions DEF GoesOn, Claiming, Launching
  <2>7. Moves(t, failed)
    BY <2>1, <2>4, <2>5, <2>6, LinkedStays DEF Moves
  <2>8. QED BY <2>7
<1>3. QED BY <1>1, <1>2

-----------------------------------------------------------------------------
(* Gates *)

\* What LatestMatchingHandoff finds is stored, and from one of the routes asked for.
LEMMA LatestIsStored ==
  ASSUME IssueOK, NEW from, LatestMatchingHandoff(from) # None
  PROVE  LET h == LatestMatchingHandoff(from) IN
         h \in DOMAIN Handoffs /\ handoffs[h] > 0 /\ (from # {} => Handoffs[h].from \in from)
<1> DEFINE stored == {h \in DOMAIN Handoffs :
                        handoffs[h] > 0 /\ (from = {} \/ Handoffs[h].from \in from)}
           times  == {handoffs[h] : h \in stored}
<1>1. handoffs \in [DOMAIN Handoffs -> 0..Len(comments)] /\ Len(comments) \in Nat
  BY DEF IssueOK
<1>2. stored # {}
  BY DEF LatestMatchingHandoff
<1>3. times \in SUBSET Nat /\ times # {} /\ \A n \in times : n <= Len(comments)
  BY <1>1, <1>2
<1>4. \E n \in times : \A m \in times : m <= n
  <2> HIDE DEF times
  <2>1. QED BY <1>1, <1>3, BoundedHasGreatest
<1>5. \E h \in stored : \A g \in stored : handoffs[g] <= handoffs[h]
  BY <1>4
<1>6. LatestMatchingHandoff(from)
        = CHOOSE h \in stored : \A g \in stored : handoffs[g] <= handoffs[h]
  BY <1>2 DEF LatestMatchingHandoff
<1>7. LatestMatchingHandoff(from) \in stored
  <2> HIDE DEF stored, times
  <2>1. QED BY <1>5, <1>6, Zenon
<1>8. QED BY <1>7

\* The handoff of an open gate is one the gate accepts.
LEMMA OpenGateAccepts ==
  ASSUME IssueOK, NEW route, NEW issue, EvaluateGate(route, issue).blocked = None,
         EvaluateGate(route, issue).handoff # None
  PROVE  /\ EvaluateGate(route, issue).handoff \in DOMAIN Handoffs
         /\ Accepts(route, EvaluateGate(route, issue).handoff)
<1> DEFINE gate == route.gate  h == LatestMatchingHandoff(gate.from)
<1>1. HandoffGateEnabled(gate) /\ h # None
  BY DEF EvaluateGate, Open
<1>2. EvaluateGate(route, issue) = [blocked |-> Objection(gate, h, issue), handoff |-> h]
  BY <1>1 DEF EvaluateGate
<1>3. h \in DOMAIN Handoffs /\ handoffs[h] > 0 /\ (gate.from # {} => Handoffs[h].from \in gate.from)
  BY <1>1, LatestIsStored
<1>4. Objection(gate, h, issue) = None
  BY <1>2
<1>5. /\ gate.decisions # {} => Handoffs[h].decision \in gate.decisions
      /\ gate.nextRoute # None => Handoffs[h].next = gate.nextRoute
  BY <1>4, RoutingAssumption DEF Objection, Reasons
<1> HIDE DEF h
<1>6. QED BY <1>2, <1>3, <1>5 DEF Accepts

LEMMA UnblockedIsOpen ==
  ASSUME IssueOK, NEW route, NEW issue, EvaluateGate(route, issue).blocked = None
  PROVE  GateOpen(route)
<1> DEFINE gate == route.gate  h == LatestMatchingHandoff(gate.from)
<1>1. CASE EvaluateGate(route, issue).handoff # None
  BY <1>1, OpenGateAccepts DEF GateOpen
<1>2. CASE ~HandoffGateEnabled(gate)
  BY <1>2 DEF HandoffGateEnabled, GateOpen
<1>3. CASE HandoffGateEnabled(gate) /\ h = None
  <2>1. EvaluateGate(route, issue).blocked = Missing(gate)
    BY <1>3 DEF EvaluateGate, Open
  <2>2. ~gate.required
    BY <2>1, RoutingAssumption DEF Missing, Reasons
  <2>3. QED BY <2>2 DEF GateOpen
<1>4. CASE HandoffGateEnabled(gate) /\ h # None
  <2>1. EvaluateGate(route, issue).handoff = h
    BY <1>4 DEF EvaluateGate
  <2>2. QED BY <1>1, <1>4, <2>1
<1>5. QED BY <1>1, <1>2, <1>3, <1>4

-----------------------------------------------------------------------------
(* The steps of the poll and of the router *)

\* A goroutine that polls has nothing in hand that could be wrong.
LEMMA PollMoves ==
  ASSUME ThreadsOK, WorldGrows, NEW t \in Threads, NEW next,
         thread' = [thread EXCEPT ![t] = next], DOMAIN next = DOMAIN Rest,
         next.stage \in {"upsert", "listComments", "parse", "listRoutable"},
         next.issue \in Issue \cup {None}, next.stage = "upsert" => next.issue \in Issue,
         next.action.add \subseteq Labels, next.route \in 0..Len(Routes),
         next.job = None \/ next.job \in DOMAIN jobs, next.rows \subseteq Posted
  PROVE  Moves(t, next)
<1>1. Shape(next)
  BY StagesOfActions DEF Shape, Reading, Claiming, Launching, Ending
<1>2. Linked(next)
  BY StagesOfActions DEF Linked, Marking
<1>3. GoesOn(thread[t], next)
  BY StagesOfActions DEF GoesOn, Claiming, Launching
<1>4. QED BY <1>1, <1>2, <1>3, LinkedStays DEF Moves

LEMMA PollingMoves ==
  ASSUME ThreadsOK, IssueOK, WorldGrows, NEW t \in Threads,
         \/ ListOpenIssues(t) \/ UpsertIssue(t) \/ ListIssueComments(t) \/ UpsertHandoff(t)
         \/ PollFails(t)
  PROVE  \E next : Moves(t, next)
<1> DEFINE s == thread[t]
<1>g. Shape(s) /\ Linked(s) /\ github \in Issue
  BY Prepared DEF IssueOK
<1>r. 0 \in 0..Len(Routes) /\ {} \subseteq Labels
  BY RoutesAreListed
<1>1. CASE ListOpenIssues(t)
  <2>1. CASE github.state = "open"
    <3>1. PICK next : next = [Rest EXCEPT !.stage = "upsert", !.issue = github]
      OBVIOUS
    <3>2. thread' = [thread EXCEPT ![t] = next]
      BY <1>1, <2>1, <3>1, Prepared DEF ListOpenIssues
    <3>3. /\ DOMAIN next = DOMAIN Rest /\ next.stage = "upsert" /\ next.issue = github
          /\ next.action = NoAction /\ next.route = 0 /\ next.job = None /\ next.rows = {}
      BY <3>1, RestFields
    <3>4. Moves(t, next)
      BY <1>g, <1>r, <3>2, <3>3, PollMoves, NoActionAddsNothing
    <3>5. QED BY <3>4
  <2>2. CASE github.state # "open"
    <3>1. PICK next : next = [Rest EXCEPT !.stage = "listRoutable"]
      OBVIOUS
    <3>2. thread' = [thread EXCEPT ![t] = next]
      BY <1>1, <2>2, <3>1, Prepared DEF ListOpenIssues
    <3>3. /\ DOMAIN next = DOMAIN Rest /\ next.stage = "listRoutable" /\ next.issue = None
          /\ next.action = NoAction /\ next.route = 0 /\ next.job = None /\ next.rows = {}
      BY <3>1, RestFields
    <3>4. Moves(t, next)
      BY <1>g, <1>r, <3>2, <3>3, PollMoves, NoActionAddsNothing
    <3>5. QED BY <3>4
  <2>3. QED BY <2>1, <2>2
<1>2. ASSUME NEW stage \in {"listComments", "listRoutable"}, GoTo(t, stage)
      PROVE  \E next : Moves(t, next)
  <2>1. PICK next : next = [s EXCEPT !.stage = stage]
    OBVIOUS
  <2>2. thread' = [thread EXCEPT ![t] = next]
    BY <1>2, <2>1, Prepared
  <2>3. /\ DOMAIN next = DOMAIN Rest /\ next.stage = stage /\ next.issue = s.issue
        /\ next.action = s.action /\ next.route = s.route /\ next.job = s.job
        /\ next.rows = s.rows
    BY <1>g, <2>1, RestFields DEF Shape
  <2>4. /\ s.issue \in Issue \cup {None} /\ s.action.add \subseteq Labels
        /\ s.route \in 0..Len(Routes) /\ (s.job = None \/ s.job \in DOMAIN jobs)
        /\ s.rows \subseteq Posted
    BY <1>g DEF Shape, Linked
  <2>5. Moves(t, next)
    BY <1>2, <2>2, <2>3, <2>4, PollMoves
  <2>6. QED BY <2>5
<1>3. CASE UpsertIssue(t)
  BY <1>2, <1>3 DEF UpsertIssue
<1>4. CASE ListIssueComments(t)
  <2>1. PICK next : next = [Rest EXCEPT !.stage = "parse", !.rows = Posted]
    OBVIOUS
  <2>2. thread' = [thread EXCEPT ![t] = next]
    BY <1>4, <2>1, Prepared DEF ListIssueComments, Posted
  <2>3. /\ DOMAIN next = DOMAIN Rest /\ next.stage = "parse" /\ next.issue = None
        /\ next.action = NoAction /\ next.route = 0 /\ next.job = None /\ next.rows = Posted
    BY <2>1, RestFields
  <2>4. Moves(t, next)
    BY <1>g, <1>r, <2>2, <2>3, PollMoves, NoActionAddsNothing
  <2>5. QED BY <2>4
<1>5. CASE UpsertHandoff(t)
  <2>1. CASE s.rows = {}
    BY <1>2, <1>5, <2>1 DEF UpsertHandoff
  <2>2. CASE s.rows # {}
    <3>1. PICK rows : rows = s.rows \ {Min(s.rows)}
      OBVIOUS
    <3>2. PICK next : next = [s EXCEPT !.rows = rows]
      OBVIOUS
    <3>3. s.stage = "parse" /\ thread' = [thread EXCEPT ![t] = next]
      <4>1. "rows" \in DOMAIN s
        BY <1>g, RestFields DEF Shape
      <4>2. QED BY <1>5, <2>2, <3>1, <3>2, <4>1 DEF UpsertHandoff, Become, At
    <3>4. /\ DOMAIN next = DOMAIN Rest /\ next.stage = "parse" /\ next.issue = s.issue
          /\ next.action = s.action /\ next.route = s.route /\ next.job = s.job
          /\ next.rows \subseteq s.rows
      BY <1>g, <3>1, <3>2, <3>3, RestFields DEF Shape
    <3>5. /\ s.issue \in Issue \cup {None} /\ s.action.add \subseteq Labels
          /\ s.route \in 0..Len(Routes) /\ (s.job = None \/ s.job \in DOMAIN jobs)
          /\ s.rows \subseteq Posted
      BY <1>g DEF Shape, Linked
    <3>6. Moves(t, next)
      BY <3>3, <3>4, <3>5, PollMoves
    <3>7. QED BY <3>6
  <2>3. QED BY <2>1, <2>2
<1>6. CASE PollFails(t)
  BY <1>6, DropMoves DEF PollFails, Drop
<1>7. QED BY <1>1, <1>3, <1>4, <1>5, <1>6

LEMMA ApplyingFields ==
  ASSUME NEW s, DOMAIN s = DOMAIN Rest, NEW action, NEW cause, NEW then, NEW orElse
  PROVE  LET next == Applying(s, action, cause, then, orElse) IN
         /\ DOMAIN next = DOMAIN Rest /\ next.stage = "actionRead" /\ next.action = action
         /\ next.cause = cause /\ next.then = then /\ next.orElse = orElse
         /\ next.issue = s.issue /\ next.job = s.job /\ next.rows = s.rows
         /\ next.route = s.route /\ next.status = s.status
BY RestFields DEF Applying

LEMMA RoutingMoves ==
  ASSUME ThreadsOK, IssueOK, WorldGrows, NEW t \in Threads,
         \/ ListRoutableIssues(t) \/ CheckGate(t) \/ RecordGateBlock(t)
         \/ MarkGateBlockActionApplied(t)
  PROVE  \E next : Moves(t, next)
<1> DEFINE s == thread[t]
<1>g. Shape(s) /\ Linked(s) /\ snapshot \in Issue \cup {None}
  BY Prepared DEF IssueOK
<1>f. /\ DOMAIN s = DOMAIN Rest /\ s.issue \in Issue \cup {None} /\ s.action.add \subseteq Labels
      /\ s.route \in 0..Len(Routes) /\ (s.job # None => s.job \in DOMAIN jobs)
      /\ s.rows \subseteq Posted
  BY <1>g DEF Shape, Linked
<1>l. /\ DOMAIN jobs \subseteq DOMAIN jobs' /\ Posted \subseteq Posted'
  BY DEF WorldGrows
<1>1. CASE ListRoutableIssues(t)
  <2>1. CASE Drop(t)
    BY <2>1, DropMoves
  <2>2. CASE snapshot # None /\ Become(t, Continue(snapshot, 0))
    BY <1>g, <2>2, ContinueMoves, RoutesAreListed
  <2>3. QED BY <1>1, <2>1, <2>2 DEF ListRoutableIssues, Drop
<1>2. CASE CheckGate(t)
  <2>s. s.stage = "gate" /\ s.issue \in Issue /\ s.route # 0
    BY <1>2, <1>g DEF CheckGate, At, Shape, Reading
  <2>1. PICK decision : decision = EvaluateGate(Routes[s.route], s.issue)
    OBVIOUS
  <2>2. PICK stage : stage = IF decision.blocked = None THEN "enqueue" ELSE "block"
    OBVIOUS
  <2>3. PICK next : next = [s EXCEPT !.decision = decision, !.stage = stage]
    OBVIOUS
  <2>4. thread' = [thread EXCEPT ![t] = next]
    BY <1>2, <2>1, <2>2, <2>3, Prepared DEF CheckGate
  <2>5. stage = "enqueue" => GateOpen(Routes[s.route])
    BY <2>1, <2>2, UnblockedIsOpen
  <2>6. stage \in {"enqueue", "block"}
    BY <2>2
  <2>7. /\ DOMAIN next = DOMAIN Rest /\ next.stage = stage /\ next.issue = s.issue
        /\ next.action = s.action /\ next.route = s.route /\ next.job = s.job
        /\ next.rows = s.rows
    BY <1>f, <2>3, RestFields
  <2>8. Shape(next)
    BY <1>f, <2>s, <2>6, <2>7, StagesOfActions DEF Shape, Reading, Claiming, Launching, Ending
  <2>9. Linked(next)
    BY <1>f, <2>5, <2>6, <2>7, StagesOfActions DEF Linked, Marking
  <2>10. GoesOn(s, next)
    BY <2>6, <2>7, StagesOfActions DEF GoesOn, Claiming, Launching
  <2>11. Moves(t, next)
    BY <2>4, <2>8, <2>9, <2>10, LinkedStays DEF Moves
  <2>12. QED BY <2>11
<1>3. CASE RecordGateBlock(t)
  <2>s. s.stage = "block" /\ s.issue \in Issue /\ s.route # 0
    BY <1>3, <1>g DEF RecordGateBlock, At, Shape, Reading
  <2>1. PICK block : block = GateBlock(Routes[s.route], s.issue, s.decision)
    OBVIOUS
  <2>2. PICK action : action = Routes[s.route].onBlock
    OBVIOUS
  <2>3. PICK marking : marking = [s EXCEPT !.stage = "markApplied", !.decision = None,
                                           !.cause = <<"block", block>>]
    OBVIOUS
  <2>4. PICK doing : doing = Applying(marking, action, marking.cause, "markApplied", "idle")
    OBVIOUS
  <2>5. /\ block \in blocks'
        /\ \/ Become(t, Continue(s.issue, s.route)) \/ Become(t, marking) \/ Become(t, doing)
    BY <1>3, <2>1, <2>2, <2>3, <2>4 DEF RecordGateBlock, Recorded
  <2>6. action.add \subseteq Labels
    BY <1>f, <2>s, <2>2, RoutesAreListed, RoutingAssumption
  <2>7. /\ DOMAIN marking = DOMAIN Rest /\ marking.stage = "markApplied" /\ marking.issue = s.issue
        /\ marking.action = s.action /\ marking.route = s.route /\ marking.job = s.job
        /\ marking.rows = s.rows /\ marking.cause = <<"block", block>>
    BY <1>f, <2>3, RestFields
  <2>8. /\ DOMAIN doing = DOMAIN Rest /\ doing.stage = "actionRead" /\ doing.issue = s.issue
        /\ doing.action = action /\ doing.route = s.route /\ doing.job = s.job
        /\ doing.rows = s.rows /\ doing.cause = <<"block", block>>
        /\ doing.then = "markApplied" /\ doing.orElse = "idle"
    BY <2>4, <2>7, ApplyingFields
  <2>9. CASE Become(t, Continue(s.issue, s.route))
    BY <1>f, <2>s, <2>9, ContinueMoves
  <2>10. ASSUME NEW next, Become(t, next), next = marking \/ next = doing
         PROVE  Moves(t, next)
    <3>1. Shape(next)
      BY <1>f, <2>s, <2>6, <2>7, <2>8, <2>10, StagesOfActions
      DEF Shape, Reading, Claiming, Launching, Ending
    <3>2. Linked(next)'
      BY <1>f, <1>l, <2>5, <2>7, <2>8, <2>10, StagesOfActions DEF Linked, Marking
    <3>3. GoesOn(s, next)
      BY <2>7, <2>8, <2>10, StagesOfActions DEF GoesOn, Claiming, Launching
    <3>4. QED BY <2>10, <3>1, <3>2, <3>3, Prepared DEF Moves
  <2>11. QED BY <2>5, <2>9, <2>10
<1>4. CASE MarkGateBlockActionApplied(t)
  <2>1. s.issue \in Issue /\ Become(t, Continue(s.issue, s.route))
    BY <1>4, <1>g DEF MarkGateBlockActionApplied, At, Shape, Reading
  <2>2. QED BY <1>f, <2>1, ContinueMoves
<1>5. QED BY <1>1, <1>2, <1>3, <1>4

-----------------------------------------------------------------------------
(* The steps of the reconcile goroutine that write no job *)

Statuses == Outcomes \cup {"skipped", "dead"}

LEMMA SettleMoves ==
  ASSUME ThreadsOK, WorldGrows, NEW t \in Threads, NEW status \in Statuses,
         Become(t, Settle(thread[t], status)), thread[t].job # None
  PROVE  \E next : Moves(t, next)
<1> DEFINE s == thread[t]
<1>1. Shape(s) /\ Linked(s)
  BY Prepared
<1>2. PICK next : next = [s EXCEPT !.stage = "settle", !.status = status, !.issue = None]
  OBVIOUS
<1>3. /\ DOMAIN next = DOMAIN Rest /\ next.stage = "settle" /\ next.issue = None
      /\ next.action = s.action /\ next.route = s.route /\ next.job = s.job
      /\ next.rows = s.rows /\ next.status = status
  BY <1>1, <1>2, RestFields DEF Shape
<1>4. Shape(next)
  BY <1>1, <1>3, StagesOfActions DEF Shape, Reading, Claiming, Launching, Ending, Statuses
<1>5. Linked(next)
  BY <1>1, <1>3, StagesOfActions DEF Linked, Marking
<1>6. GoesOn(s, next)
  BY <1>3, StagesOfActions DEF GoesOn, Claiming, Launching
<1>7. thread' = [thread EXCEPT ![t] = next]
  BY <1>2, Prepared DEF Settle
<1>8. Moves(t, next)
  BY <1>4, <1>5, <1>6, <1>7, LinkedStays DEF Moves
<1>9. QED BY <1>8

\* A goroutine that goes on with its job before it is charged.
LEMMA ClaimMoves ==
  ASSUME ThreadsOK, WorldGrows, NEW t \in Threads, NEW next,
         thread' = [thread EXCEPT ![t] = next], Claiming(thread[t]),
         DOMAIN next = DOMAIN Rest, next.stage \in {"recheck", "scope", "charge"},
         next.issue \in Issue, next.action = thread[t].action, next.route = thread[t].route,
         next.job = thread[t].job, next.rows = thread[t].rows,
         next.stage = "charge" =>
           next.charge \in Charges /\ next.charge.route = next.job.route /\ Gated(next.charge)
  PROVE  Moves(t, next)
<1> DEFINE s == thread[t]
<1>1. Shape(s) /\ Linked(s)
  BY Prepared
<1>2. Shape(next)
  BY <1>1, StagesOfActions DEF Shape, Reading, Claiming, Launching, Ending
<1>3. Linked(next)
  BY <1>1, StagesOfActions DEF Linked, Marking
<1>4. GoesOn(s, next)
  BY StagesOfActions DEF GoesOn, Claiming, Launching
<1>5. QED BY <1>2, <1>3, <1>4, LinkedStays DEF Moves

\* The route of a job in hand is one of the configuration.
LEMMA RouteInHand ==
  ASSUME RowsOK, NEW key \in DOMAIN jobs
  PROVE  \E n \in DOMAIN Routes :
           RouteNamed(key.route) = Routes[n] /\ Routes[n].name = key.route
<1>1. key \in Keys
  BY DEF RowsOK
<1>2. key.route \in RouteNames
  BY <1>1 DEF Keys
<1>3. QED BY <1>2, NamesAreOfRoutes

\* What an attempt is charged to is a budget of the job's route, and if that is a
\* handoff, one its gate accepts.
LEMMA ScopeIsCharged ==
  ASSUME IssueOK, RowsOK, NEW key \in DOMAIN jobs, NEW issue \in Issue,
         LET route == RouteNamed(key.route)  decision == EvaluateGate(route, issue) IN
         ~ \/ route.scope # "legacy" /\ decision.blocked # None
           \/ route.scope = "handoff" /\ decision.handoff = None
  PROVE  LET route  == RouteNamed(key.route)
             charge == [route |-> route.name,
                        scope |-> AttemptScope(route, issue, EvaluateGate(route, issue))]
         IN  charge \in Charges /\ charge.route = key.route /\ Gated(charge)
<1> DEFINE route == RouteNamed(key.route)  decision == EvaluateGate(route, issue)
           scope == AttemptScope(route, issue, decision)
           charge == [route |-> route.name, scope |-> scope]
<1>1. PICK n \in DOMAIN Routes : route = Routes[n] /\ Routes[n].name = key.route
  BY RouteInHand
<1>2. route.name = key.route /\ key.route \in RouteNames
  BY <1>1 DEF RouteNames
<1>t. HasTarget(route.scope, decision.handoff) => route.scope \in {"pr_head", "ci_head"}
  BY DEF HasTarget, TargetKinds
<1>3. CASE route.scope = "handoff"
  <2>1. /\ decision.handoff \in DOMAIN Handoffs /\ Accepts(route, decision.handoff)
    BY <1>3, OpenGateAccepts
  <2>2. scope = <<"handoff", decision.handoff>>
    BY <1>3, <1>t DEF AttemptScope
  <2> HIDE DEF decision, route
  <2>3. scope \in {"handoff"} \X DOMAIN Handoffs /\ scope[2] = decision.handoff
    BY <2>1, <2>2
  <2> HIDE DEF scope
  <2>4. charge \in Charges /\ charge.route = key.route /\ charge.scope = scope
    BY <1>2, <2>3 DEF Charges
  <2> HIDE DEF charge
  <2>5. Gated(charge)
    BY <2>1, <2>3, <2>4 DEF Gated, route
  <2>6. QED BY <2>4, <2>5 DEF charge, scope, decision, route
<1>4. CASE route.scope # "handoff"
  <2>1. /\ scope \in ({"issue"} \X Nat \X Bodies) \cup {<<"legacy">>}
                       \cup ((DOMAIN TargetKinds) \X {Handoffs[h].target : h \in DOMAIN Handoffs})
        /\ scope[1] # "handoff"
    <3>1. issue.updated \in Nat /\ issue.body \in Bodies
      BY DEF Issue
    <3>2. DOMAIN TargetKinds = {"pr_head", "ci_head"}
      BY DEF TargetKinds
    <3>3. CASE HasTarget(route.scope, decision.handoff)
      <4>1. route.scope \in {"pr_head", "ci_head"} /\ decision.handoff # None
        BY <1>t, <3>3 DEF HasTarget
      <4>2. decision.blocked = None
        BY <4>1
      <4>3. decision.handoff \in DOMAIN Handoffs
        BY <4>1, <4>2, OpenGateAccepts
      <4>4. scope = <<route.scope, Handoffs[decision.handoff].target>>
        BY <1>4, <1>t, <3>3 DEF AttemptScope
      <4> HIDE DEF scope, decision, route
      <4>5. QED BY <3>2, <4>1, <4>3, <4>4
    <3>4. CASE ~HasTarget(route.scope, decision.handoff)
      <4>1. scope = <<"issue", issue.updated, issue.body>> \/ scope = <<"legacy">>
        BY <1>4, <1>t, <3>4 DEF AttemptScope
      <4> HIDE DEF scope, decision, route
      <4>2. QED BY <3>1, <4>1
    <3>5. QED BY <3>3, <3>4
  <2> HIDE DEF scope, route, decision
  <2>2. charge \in Charges /\ charge.route = key.route /\ charge.scope = scope
    BY <1>2, <2>1 DEF Charges
  <2> HIDE DEF charge
  <2>3. Gated(charge)
    BY <2>1, <2>2 DEF Gated
  <2>4. QED BY <2>2, <2>3 DEF charge, scope, decision, route
<1>5. QED BY <1>3, <1>4

LEMMA PreparingMoves ==
  ASSUME ThreadsOK, IssueOK, RowsOK, WorldGrows, NEW t \in Threads,
         RefreshClaimed(t) \/ RouteStillMatches(t) \/ AttemptScopeHash(t)
  PROVE  \E next : Moves(t, next)
<1> DEFINE s == thread[t]
<1>g. Shape(s) /\ Linked(s) /\ github \in Issue
  BY Prepared DEF IssueOK
<1>f. DOMAIN s = DOMAIN Rest
  BY <1>g DEF Shape
<1>j. Claiming(s) => s.job # None /\ s.job \in DOMAIN jobs
  BY <1>g DEF Shape, Linked
<1>1. CASE RefreshClaimed(t)
  <2>1. PICK next : next = [s EXCEPT !.issue = github, !.stage = "recheck"]
    OBVIOUS
  <2>2. thread' = [thread EXCEPT ![t] = next] /\ Claiming(s)
    BY <1>1, <2>1, Prepared DEF RefreshClaimed, Claiming, At
  <2>3. /\ DOMAIN next = DOMAIN Rest /\ next.stage = "recheck" /\ next.issue = github
        /\ next.action = s.action /\ next.route = s.route /\ next.job = s.job
        /\ next.rows = s.rows
    BY <1>f, <2>1, RestFields
  <2>4. Moves(t, next)
    BY <1>g, <2>2, <2>3, ClaimMoves
  <2>5. QED BY <2>4
<1>2. CASE RouteStillMatches(t)
  <2>s. Claiming(s) /\ s.issue \in Issue
    BY <1>2, <1>g DEF RouteStillMatches, At, Claiming, Shape, Reading
  <2>1. CASE Become(t, Settle(s, "skipped"))
    BY <1>j, <2>s, <2>1, SettleMoves DEF Statuses
  <2>2. CASE Become(t, [s EXCEPT !.stage = "scope"])
    <3>1. PICK next : next = [s EXCEPT !.stage = "scope"]
      OBVIOUS
    <3>2. thread' = [thread EXCEPT ![t] = next]
      BY <2>2, <3>1, Prepared
    <3>3. /\ DOMAIN next = DOMAIN Rest /\ next.stage = "scope" /\ next.issue = s.issue
          /\ next.action = s.action /\ next.route = s.route /\ next.job = s.job
          /\ next.rows = s.rows
      BY <1>f, <3>1, RestFields
    <3>4. Moves(t, next)
      BY <2>s, <3>2, <3>3, ClaimMoves
    <3>5. QED BY <3>4
  <2>3. QED BY <1>2, <2>1, <2>2 DEF RouteStillMatches
<1>3. CASE AttemptScopeHash(t)
  <2>s. Claiming(s) /\ s.issue \in Issue
    BY <1>3, <1>g DEF AttemptScopeHash, At, Claiming, Shape, Reading
  <2>1. PICK charge : charge = [route |-> RouteOf(t).name,
          scope |-> AttemptScope(RouteOf(t), s.issue, EvaluateGate(RouteOf(t), s.issue))]
    OBVIOUS
  <2>2. CASE Become(t, Settle(s, "skipped"))
    BY <1>j, <2>s, <2>2, SettleMoves DEF Statuses
  <2>3. CASE ~Become(t, Settle(s, "skipped"))
    <3>1. PICK next : next = [s EXCEPT !.stage = "charge", !.charge = charge]
      OBVIOUS
    <3>2. /\ thread' = [thread EXCEPT ![t] = next]
          /\ ~ \/ RouteOf(t).scope # "legacy" /\ EvaluateGate(RouteOf(t), s.issue).blocked # None
               \/ RouteOf(t).scope = "handoff" /\ EvaluateGate(RouteOf(t), s.issue).handoff = None
      BY <1>3, <2>1, <2>3, <3>1, Prepared DEF AttemptScopeHash
    <3>3. /\ DOMAIN next = DOMAIN Rest /\ next.stage = "charge" /\ next.issue = s.issue
          /\ next.action = s.action /\ next.route = s.route /\ next.job = s.job
          /\ next.rows = s.rows /\ next.charge = charge
      BY <1>f, <3>1, RestFields
    <3>4. charge \in Charges /\ charge.route = s.job.route /\ Gated(charge)
      BY <1>j, <2>s, <2>1, <3>2, ScopeIsCharged DEF RouteOf
    <3>5. Moves(t, next)
      BY <2>s, <3>2, <3>3, <3>4, ClaimMoves
    <3>6. QED BY <3>5
  <2>4. QED BY <2>2, <2>3
<1>4. QED BY <1>1, <1>2, <1>3

\* An action begun for a job.
LEMMA ActionForJob ==
  ASSUME WorldGrows, NEW s, DOMAIN s = DOMAIN Rest, s.issue \in Issue \cup {None},
         s.job # None, s.job \in DOMAIN jobs, s.rows \subseteq Posted, s.route \in 0..Len(Routes),
         NEW action, action.add \subseteq Labels, NEW cause,
         NEW then \in {"started", "finished", "settle"}, then # "started" => s.status \in Statuses
  PROVE  LET next == Applying(s, action, cause, then, "settle") IN
         /\ Shape(next) /\ Linked(next)'
         /\ next.job = s.job /\ ~Claiming(next) /\ (Launching(next) => then = "started")
<1>1. PICK next : next = Applying(s, action, cause, then, "settle")
  OBVIOUS
<1>2. /\ DOMAIN next = DOMAIN Rest /\ next.stage = "actionRead" /\ next.action = action
      /\ next.then = then /\ next.orElse = "settle" /\ next.issue = s.issue
      /\ next.job = s.job /\ next.rows = s.rows /\ next.route = s.route
      /\ next.status = s.status
  BY <1>1, ApplyingFields
<1>3. Shape(next)
  BY <1>2, StagesOfActions DEF Shape, Reading, Claiming, Launching, Ending, Statuses
<1>4. Linked(next)
  BY <1>2, StagesOfActions DEF Linked, Marking
<1>5. Linked(next)'
  BY <1>4, LinkedStays
<1>6. ~Claiming(next) /\ (Launching(next) => then = "started")
  BY <1>2, StagesOfActions DEF Claiming, Launching
<1>7. QED BY <1>1, <1>2, <1>3, <1>5, <1>6

LEMMA CountingMoves ==
  ASSUME ThreadsOK, WorldGrows, NEW t \in Threads,
         ActionDone(t) \/ IncrementTransitionsForJob(t) \/ LaunchFails(t) \/ RefreshFails(t)
  PROVE  \E next : Moves(t, next)
<1> DEFINE s == thread[t]
<1>g. Shape(s) /\ Linked(s)
  BY Prepared
<1>f. /\ DOMAIN s = DOMAIN Rest /\ s.issue \in Issue \cup {None} /\ s.action.add \subseteq Labels
      /\ s.route \in 0..Len(Routes) /\ (s.job # None => s.job \in DOMAIN jobs)
      /\ s.rows \subseteq Posted
  BY <1>g DEF Shape, Linked
<1>j. Claiming(s) \/ Launching(s) \/ Ending(s) => s.job # None
  BY <1>g DEF Shape
<1>1. CASE ActionDone(t)
  <2>1. PICK then : then = IF s.stage = "started" THEN "launch" ELSE "settle"
    OBVIOUS
  <2>2. PICK stage : stage = IF ~SameLabelSet(s.before, s.issue.labels) THEN "count" ELSE then
    OBVIOUS
  <2>3. PICK next : next = [s EXCEPT !.stage = stage, !.then = then, !.issue = None, !.before = {}]
    OBVIOUS
  <2>4. thread' = [thread EXCEPT ![t] = next] /\ s.stage \in {"started", "finished"}
    BY <1>1, <2>1, <2>2, <2>3, Prepared DEF ActionDone, At
  <2>5. /\ DOMAIN next = DOMAIN Rest /\ next.stage = stage /\ next.issue = None
        /\ next.action = s.action /\ next.route = s.route /\ next.job = s.job
        /\ next.rows = s.rows /\ next.then = then /\ next.status = s.status
    BY <1>f, <2>3, RestFields
  <2>6. \/ s.stage = "started" /\ Launching(s) /\ then = "launch" /\ stage \in {"count", "launch"}
        \/ s.stage = "finished" /\ Ending(s) /\ then = "settle" /\ stage \in {"count", "settle"}
    BY <2>1, <2>2, <2>4 DEF Launching, Ending
  <2>7. s.job # None /\ (Ending(s) => s.status \in Outcomes \cup {"skipped", "dead"})
    BY <1>g, <1>j, <2>6 DEF Shape
  <2>8. Shape(next)
    BY <1>f, <2>5, <2>6, <2>7, StagesOfActions DEF Shape, Reading, Claiming, Launching, Ending
  <2>9. Linked(next)
    BY <1>f, <2>5, <2>6, StagesOfActions DEF Linked, Marking
  <2>10. GoesOn(s, next)
    BY <2>5, <2>6, StagesOfActions DEF GoesOn, Claiming, Launching
  <2>11. Moves(t, next)
    BY <2>4, <2>8, <2>9, <2>10, LinkedStays DEF Moves
  <2>12. QED BY <2>11
<1>2. CASE IncrementTransitionsForJob(t)
  <2>s. /\ s.stage = "count" /\ s.then \in {"launch", "settle"} /\ s.job # None
        /\ s.then = "launch" => Launching(s)
        /\ s.then = "settle" => s.status \in Statuses
    <3>1. s.stage = "count" /\ s.then \in {"launch", "settle"}
      BY <1>2, <1>g DEF IncrementTransitionsForJob, At, Shape
    <3>2. (s.then = "launch" => Launching(s)) /\ (s.then = "settle" => Ending(s))
      BY <3>1 DEF Launching, Ending
    <3>3. QED BY <1>g, <1>j, <3>1, <3>2 DEF Shape, Statuses
  <2>1. PICK dead : dead = [s EXCEPT !.status = "dead"]
    OBVIOUS
  <2>2. PICK cause : cause = <<"on_transitions_exceeded", s.job>>
    OBVIOUS
  <2>3. PICK on : on = [s EXCEPT !.stage = s.then]
    OBVIOUS
  <2>4. \/ Become(t, Applying(dead, OnTransitionsExceeded, cause, "settle", "settle"))
        \/ Become(t, on)
    BY <1>2, <2>1, <2>2, <2>3 DEF IncrementTransitionsForJob
  <2>5. CASE Become(t, Applying(dead, OnTransitionsExceeded, cause, "settle", "settle"))
    <3>1. /\ DOMAIN dead = DOMAIN Rest /\ dead.issue = s.issue /\ dead.route = s.route
          /\ dead.job = s.job /\ dead.rows = s.rows /\ dead.status \in Statuses
      BY <1>f, <2>1, RestFields DEF Statuses
    <3>2. PICK next : next = Applying(dead, OnTransitionsExceeded, cause, "settle", "settle")
      OBVIOUS
    <3>3. Shape(next) /\ Linked(next)' /\ ~Claiming(next) /\ ~Launching(next)
      BY <1>f, <2>s, <3>1, <3>2, ActionForJob, WorkflowAssumption
    <3>4. Moves(t, next)
      BY <2>5, <3>2, <3>3, Prepared DEF Moves, GoesOn
    <3>5. QED BY <3>4
  <2>6. CASE Become(t, on)
    <3>1. /\ DOMAIN on = DOMAIN Rest /\ on.stage = s.then /\ on.issue = s.issue
          /\ on.action = s.action /\ on.route = s.route /\ on.job = s.job
          /\ on.rows = s.rows /\ on.then = s.then /\ on.status = s.status
      BY <1>f, <2>3, RestFields
    <3>2. Shape(on)
      BY <1>f, <2>s, <3>1, StagesOfActions
      DEF Shape, Reading, Claiming, Launching, Ending, Statuses
    <3>3. Linked(on)
      BY <1>f, <2>s, <3>1, StagesOfActions DEF Linked, Marking
    <3>4. GoesOn(s, on)
      BY <2>s, <3>1, StagesOfActions DEF GoesOn, Claiming, Launching
    <3>5. Moves(t, on)
      BY <2>6, <3>2, <3>3, <3>4, LinkedStays, Prepared DEF Moves
    <3>6. QED BY <3>5
  <2>7. QED BY <2>4, <2>5, <2>6
<1>3. CASE LaunchFails(t) \/ RefreshFails(t)
  <2>1. Become(t, Settle(s, "failed")) /\ (Claiming(s) \/ Launching(s))
    BY <1>3 DEF LaunchFails, RefreshFails, At, Claiming, Launching
  <2>2. QED BY <1>j, <2>1, SettleMoves DEF Statuses, Outcomes
<1>4. QED BY <1>1, <1>2, <1>3

LEMMA FinishingMoves ==
  ASSUME ThreadsOK, RowsOK, WorldGrows, NEW t \in Threads, FinalizeOwnedObservation(t)
  PROVE  \E next : Moves(t, next)
<1>0. PICK key \in DOMAIN jobs :
        /\ jobs[key].outcome # "none"
        /\ Become(t, Applying([Rest EXCEPT !.job = key, !.status = jobs[key].outcome],
                     Merge(IF jobs[key].outcome = "succeeded" THEN RouteNamed(key.route).onSuccess
                           ELSE RouteNamed(key.route).onFailure, jobs[key].result),
                     <<"final", key>>, "finished", "settle"))
  BY DEF FinalizeOwnedObservation, Running
<1>1. PICK action, cause :
        /\ action = Merge(IF jobs[key].outcome = "succeeded" THEN RouteNamed(key.route).onSuccess
                          ELSE RouteNamed(key.route).onFailure, jobs[key].result)
        /\ cause = <<"final", key>>
  OBVIOUS
<1>2. jobs[key].outcome \in Outcomes /\ jobs[key].result \in Results
  BY <1>0 DEF RowsOK, RowOK
<1>3. PICK n \in DOMAIN Routes : RouteNamed(key.route) = Routes[n]
  BY RowsOK, RouteInHand
<1>4. action.add \subseteq Labels
  <2>1. jobs[key].result.add \subseteq Labels
    BY <1>2, WorkflowAssumption
  <2>2. RouteNamed(key.route).onSuccess.add \subseteq Labels
    BY <1>3, WorkflowAssumption
  <2>3. RouteNamed(key.route).onFailure.add \subseteq Labels
    BY <1>3, WorkflowAssumption
  <2>4. PICK base : /\ base.add \subseteq Labels
                    /\ action = Merge(base, jobs[key].result)
    BY <1>1, <2>2, <2>3
  <2>5. action.add = (base.add \cup jobs[key].result.add) \ Range(jobs[key].result.remove)
    BY <2>4 DEF Merge
  <2>6. QED BY <2>1, <2>4, <2>5
<1>5. PICK s : s = [Rest EXCEPT !.job = key, !.status = jobs[key].outcome]
  OBVIOUS
<1>6. /\ DOMAIN s = DOMAIN Rest /\ s.issue = None /\ s.route = 0 /\ s.job = key
      /\ s.rows = {} /\ s.status \in Statuses
  BY <1>2, <1>5, RestFields DEF Statuses
<1>7. key # None
  BY RoutingAssumption DEF RowsOK
<1>8. PICK next : next = Applying(s, action, cause, "finished", "settle")
  OBVIOUS
<1>9. Shape(next) /\ Linked(next)' /\ ~Claiming(next) /\ ~Launching(next)
  <2>1. PICK then \in {"started", "finished", "settle"} : then = "finished"
    OBVIOUS
  <2>2. next = Applying(s, action, cause, then, "settle")
    BY <1>8, <2>1
  <2>3. s.issue \in Issue \cup {None} /\ s.rows \subseteq Posted /\ s.route \in 0..Len(Routes)
    BY <1>6, RoutesAreListed
  <2>4. Shape(next) /\ Linked(next)' /\ ~Claiming(next) /\ (Launching(next) => then = "started")
    BY <1>4, <1>6, <1>7, <2>2, <2>3, ActionForJob
  <2>5. QED BY <2>1, <2>4
<1>10. Moves(t, next)
  BY <1>0, <1>1, <1>5, <1>8, <1>9, Prepared DEF Moves, GoesOn
<1>11. QED BY <1>10

LEMMA QuietMoves ==
  ASSUME ThreadsOK, IssueOK, RowsOK, WorldGrows, NEW t \in Threads, Quiet(t)
  PROVE  UNCHANGED jobs /\ \E next : Moves(t, next)
<1>1. \E next : Moves(t, next)
  <2>1. CASE ActionStep(t)
    BY <2>1, ActionMoves
  <2>2. CASE ActionFails(t)
    BY <2>2, ActionFailureMoves
  <2>3. CASE Refused(t)
    BY <2>3, DropMoves DEF Refused
  <2>4. QED BY <2>1, <2>2, <2>3, PollingMoves, RoutingMoves, PreparingMoves, CountingMoves,
               FinishingMoves DEF Quiet
<1>2. UNCHANGED jobs
  <2>1. CASE ActionStep(t) \/ ActionFails(t)
    BY <2>1 DEF ActionStep, ActionRead, ActionRemove, ActionAdd, ActionComment, ActionReread,
       ActionStore, ActionRefused, ActionFails
  <2>2. CASE ~(ActionStep(t) \/ ActionFails(t))
    BY <2>2 DEF Quiet, ListOpenIssues, UpsertIssue, ListIssueComments, UpsertHandoff,
       ListRoutableIssues, CheckGate, RecordGateBlock, MarkGateBlockActionApplied, PollFails,
       RefreshClaimed, RefreshFails, RouteStillMatches, AttemptScopeHash, ActionDone,
       IncrementTransitionsForJob, LaunchFails, FinalizeOwnedObservation, Refused
  <2>3. QED BY <2>1, <2>2
<1>3. QED BY <1>1, <1>2

-----------------------------------------------------------------------------
(* Claims and budgets *)

\* Only a stored job is held.
LEMMA HeldJobs ==
  ASSUME ThreadsOK, NEW u \in Threads, Claiming(thread[u]) \/ Launching(thread[u])
  PROVE  /\ thread[u].job \in DOMAIN jobs
         /\ Holds(u) <=> /\ jobs[thread[u].job].status = "running"
                         /\ jobs[thread[u].job].owner = u
BY DEF ThreadsOK, Shape, Linked, Holds

\* Goroutines go on with what they had, and gain no job.
NoGain ==
  \A u \in Threads :
    /\ GoesOn(thread[u], thread'[u])
    /\ \A key \in DOMAIN jobs :
         jobs'[key].status = "running" /\ jobs'[key].owner = u
           => jobs[key].status = "running" /\ jobs[key].owner = u

LEMMA ClaimsStay ==
  ASSUME ThreadsOK, ThreadsOK', RowsOK, NoGain, NEW u \in Threads, Claiming(thread'[u]), Holds(u)',
         \A key \in DOMAIN jobs : jobs'[key].phase = jobs[key].phase
  PROVE  jobs'[thread'[u].job].phase = "claimed"
<1> DEFINE key == thread[u].job
<1>1. Claiming(thread[u]) /\ thread'[u].job = key
  BY DEF NoGain, GoesOn
<1>2. key \in DOMAIN jobs /\ key # None
  BY <1>1, HeldJobs DEF ThreadsOK, Shape
<1>3. jobs'[key].status = "running" /\ jobs'[key].owner = u
  BY <1>1, <1>2 DEF Holds
<1>4. jobs[key].status = "running" /\ jobs[key].owner = u
  BY <1>2, <1>3 DEF NoGain
<1>5. Holds(u)
  BY <1>1, <1>4, HeldJobs
<1>6. QED BY <1>1, <1>2, <1>5 DEF RowsOK

LEMMA PassedStays ==
  ASSUME ThreadsOK, ThreadsOK', NEW key \in DOMAIN jobs,
         jobs'[key].phase = "launched" => jobs[key].phase = "launched",
         \A u \in Threads :
           Launching(thread'[u]) /\ thread'[u].job = key /\ jobs'[key].status = "running"
             /\ jobs'[key].owner = u
             => /\ Launching(thread[u]) /\ thread[u].job = key
                /\ jobs[key].status = "running" /\ jobs[key].owner = u,
         Passed(key)'
  PROVE  Passed(key)
<1>1. CASE jobs'[key].phase = "launched"
  BY <1>1 DEF Passed
<1>2. CASE jobs'[key].phase # "launched"
  <2>1. PICK u \in Threads : thread'[u].job = key /\ Holds(u)' /\ Launching(thread'[u])
    BY <1>2 DEF Passed
  <2>2. key # None
    BY <2>1 DEF ThreadsOK, Shape
  <2>3. jobs'[key].status = "running" /\ jobs'[key].owner = u
    BY <2>1, <2>2 DEF Holds
  <2>4. /\ Launching(thread[u]) /\ thread[u].job = key
        /\ jobs[key].status = "running" /\ jobs[key].owner = u
    BY <2>1, <2>3
  <2>5. Holds(u)
    BY <2>4, HeldJobs
  <2>6. QED BY <2>4, <2>5 DEF Passed
<1>3. QED BY <1>1, <1>2

LEMMA NothingPassesOn ==
  ASSUME ThreadsOK, ThreadsOK', NoGain, NEW key \in DOMAIN jobs,
         jobs'[key].phase = "launched" => jobs[key].phase = "launched"
  PROVE  Passed(key)' => Passed(key)
BY PassedStays DEF NoGain, GoesOn

\* The budgets hold as long as nothing is charged and nothing new passes.
LEMMA ChargesAreCounted ==
  ASSUME RowsOK, NEW charge
  PROVE  /\ IsFiniteSet(ChargedBy(charge)) /\ Cardinality(ChargedBy(charge)) \in Nat
         /\ IsFiniteSet({key \in ChargedBy(charge) : Passed(key)})
         /\ Cardinality({key \in ChargedBy(charge) : Passed(key)}) \in Nat
<1>1. IsFiniteSet(DOMAIN jobs) /\ ChargedBy(charge) \subseteq DOMAIN jobs
  BY DEF RowsOK, ChargedBy
<1>2. IsFiniteSet(ChargedBy(charge))
  BY <1>1, FS_Subset
<1>3. IsFiniteSet({key \in ChargedBy(charge) : Passed(key)})
  BY <1>2, FS_Subset
<1>4. QED BY <1>2, <1>3, FS_CardinalityType

LEMMA BudgetStays ==
  ASSUME RowsOK, NEW charge, NEW n \in Nat, NEW m \in Nat,
         Cardinality(ChargedBy(charge)) <= n,
         Cardinality({key \in ChargedBy(charge) : Passed(key)}) <= m,
         ChargedBy(charge)' \subseteq ChargedBy(charge),
         \A key \in ChargedBy(charge)' : Passed(key)' => Passed(key)
  PROVE  /\ Cardinality(ChargedBy(charge)') <= n
         /\ Cardinality({key \in ChargedBy(charge) : Passed(key)}') <= m
<1> DEFINE old == ChargedBy(charge)
           new == ChargedBy(charge)'
           oldPassed == {key \in ChargedBy(charge) : Passed(key)}
           newPassed == {key \in ChargedBy(charge)' : Passed(key)'}
<1>1. IsFiniteSet(old) /\ IsFiniteSet(oldPassed) /\ Cardinality(old) \in Nat
      /\ Cardinality(oldPassed) \in Nat
  BY ChargesAreCounted
<1>2. new \subseteq old /\ newPassed \subseteq oldPassed
  OBVIOUS
<1>3. Cardinality(old) <= n /\ Cardinality(oldPassed) <= m
  OBVIOUS
<1>4. {key \in ChargedBy(charge) : Passed(key)}' = newPassed
  OBVIOUS
<1> HIDE DEF old, new, oldPassed, newPassed
<1>5. /\ IsFiniteSet(new) /\ Cardinality(new) <= Cardinality(old)
      /\ IsFiniteSet(newPassed) /\ Cardinality(newPassed) <= Cardinality(oldPassed)
  BY <1>1, <1>2, FS_Subset
<1>6. Cardinality(new) \in Nat /\ Cardinality(newPassed) \in Nat
  BY <1>5, FS_CardinalityType
<1>7. Cardinality(new) <= n /\ Cardinality(newPassed) <= m
  BY <1>1, <1>3, <1>5, <1>6
<1>8. QED BY <1>4, <1>7 DEF new

\* The limit of a budget is a number.
LEMMA LimitsAreNumbers ==
  ASSUME NEW charge \in Charges
  PROVE  RouteNamed(charge.route).maxAttempts \in Nat /\ charge # None
<1>1. charge.route \in RouteNames
  BY DEF Charges
<1>2. QED BY <1>1, NamesAreOfRoutes, WorkflowAssumption

LEMMA BudgetsStay ==
  ASSUME RowsOK, BudgetsOK, WorldGrows, UNCHANGED attempts, transitions' \in Nat,
         \A key \in DOMAIN jobs :
           jobs'[key].charge = jobs[key].charge /\ (Passed(key)' => Passed(key)),
         \A key \in DOMAIN jobs' \ DOMAIN jobs : jobs'[key].charge = None
  PROVE  BudgetsOK'
<1>1. ASSUME NEW charge \in DOMAIN attempts
      PROVE  /\ attempts[charge] \in Nat /\ Gated(charge)'
             /\ Cardinality(ChargedBy(charge)') <= attempts[charge]
             /\ Cardinality({key \in ChargedBy(charge) : Passed(key)}')
                  <= RouteNamed(charge.route).maxAttempts
  <2>1. /\ attempts[charge] \in Nat /\ Gated(charge) /\ charge \in Charges
        /\ Cardinality(ChargedBy(charge)) <= attempts[charge]
        /\ Cardinality({key \in ChargedBy(charge) : Passed(key)})
             <= RouteNamed(charge.route).maxAttempts
    BY <1>1 DEF BudgetsOK
  <2>2. RouteNamed(charge.route).maxAttempts \in Nat /\ charge # None
    BY <2>1, LimitsAreNumbers
  <2>3. /\ ChargedBy(charge)' \subseteq ChargedBy(charge)
        /\ \A key \in ChargedBy(charge)' : Passed(key)' => Passed(key)
    BY <2>2 DEF ChargedBy
  <2>4. Gated(charge)'
    BY <2>1, GatedStays
  <2>5. QED BY <2>1, <2>2, <2>3, <2>4, BudgetStays
<1>2. \A key \in DOMAIN jobs' : jobs'[key].charge \in DOMAIN attempts \cup {None}
  BY DEF BudgetsOK
<1>3. DOMAIN attempts \subseteq Charges
  BY DEF BudgetsOK
<1>4. QED BY <1>1, <1>2, <1>3 DEF BudgetsOK

-----------------------------------------------------------------------------
(* Steps that write no job, or store a new one *)

\* All but the claims of RowsOK.
RowsStored ==
  /\ IsFiniteSet(DOMAIN jobs) /\ DOMAIN jobs \subseteq Keys
  /\ \A key \in DOMAIN jobs : RowOK(jobs[key]) /\ GateOpen(RouteNamed(key.route))

LEMMA RowsStoredStay ==
  ASSUME RowsOK, WorldGrows, DOMAIN jobs' = DOMAIN jobs, \A key \in DOMAIN jobs : RowOK(jobs'[key])
  PROVE  RowsStored'
<1>1. \A key \in DOMAIN jobs : GateOpen(RouteNamed(key.route))'
  BY AcceptanceStays DEF RowsOK
<1>2. IsFiniteSet(DOMAIN jobs) /\ DOMAIN jobs \subseteq Keys
  BY DEF RowsOK
<1>3. QED BY <1>1, <1>2 DEF RowsStored, RowOK

LEMMA WrittenRow ==
  ASSUME NEW key \in DOMAIN jobs, NEW row, SetJob(key, row)
  PROVE  /\ DOMAIN jobs' = DOMAIN jobs /\ jobs'[key] = row
         /\ \A k \in DOMAIN jobs \ {key} : jobs'[k] = jobs[k]
BY DEF SetJob

\* The goroutine t goes on and all others stay where they are.
LEMMA OneMoves ==
  ASSUME ThreadsOK, WorldGrows, NEW t \in Threads, NEW next, Moves(t, next)
  PROVE  ThreadsOK' /\ \A u \in Threads : GoesOn(thread[u], thread'[u])
<1>1. ThreadsOK' /\ thread'[t] = next /\ \A u \in Threads \ {t} : thread'[u] = thread[u]
  BY ThreadsMove DEF Moves
<1>2. \A s : GoesOn(s, s)
  BY DEF GoesOn
<1>3. QED BY <1>1, <1>2 DEF Moves

LEMMA TransitionsCount ==
  ASSUME BudgetsOK, NEW t \in Threads, Quiet(t), IncrementTransitionsForJob(t) \/ UNCHANGED budgetVars
  PROVE  UNCHANGED attempts /\ transitions' \in Nat
BY DEF BudgetsOK, IncrementTransitionsForJob, budgetVars

LEMMA QuietSteps ==
  ASSUME WorkInvariant, WorldGrows, NEW t \in Threads, Quiet(t),
         IncrementTransitionsForJob(t) \/ UNCHANGED budgetVars
  PROVE  ThreadsOK' /\ RowsOK' /\ BudgetsOK'
<1>g. ThreadsOK /\ IssueOK /\ RowsOK /\ BudgetsOK
  BY DEF WorkInvariant
<1>1. jobs' = jobs
  BY <1>g, QuietMoves
<1>2. ThreadsOK' /\ \A u \in Threads : GoesOn(thread[u], thread'[u])
  BY <1>g, QuietMoves, OneMoves
<1>3. NoGain
  BY <1>1, <1>2 DEF NoGain
<1>4. RowsStored'
  BY <1>1, <1>g, RowsStoredStay DEF RowsOK
<1>5. \A u \in Threads :
        Claiming(thread'[u]) /\ Holds(u)' => jobs'[thread'[u].job].phase = "claimed"
  BY <1>1, <1>2, <1>3, <1>g, ClaimsStay
<1>6. \A key \in DOMAIN jobs : Passed(key)' => Passed(key)
  BY <1>1, <1>2, <1>3, <1>g, NothingPassesOn
<1>7. BudgetsOK'
  BY <1>1, <1>6, <1>g, BudgetsStay, TransitionsCount
<1>8. QED BY <1>2, <1>4, <1>5, <1>7 DEF RowsOK, RowsStored

LEMMA NewRow ==
  /\ RowOK(NewJob) /\ NewJob.charge = None
BY DEF RowOK, NewJob, Outcomes

LEMMA EnqueueSteps ==
  ASSUME WorkInvariant, WorldGrows, NEW t \in Threads, EnqueueJob(t), UNCHANGED budgetVars
  PROVE  ThreadsOK' /\ RowsOK' /\ BudgetsOK'
<1> DEFINE s == thread[t]
<1>g. ThreadsOK /\ IssueOK /\ RowsOK /\ BudgetsOK
  BY DEF WorkInvariant
<1>s. /\ s.stage = "enqueue" /\ s.issue \in Issue /\ s.route \in 1..Len(Routes)
      /\ GateOpen(Routes[s.route])
  <2>1. Shape(s) /\ Linked(s) /\ s.stage = "enqueue"
    BY <1>g, Prepared DEF EnqueueJob, At
  <2>2. QED BY <2>1, RoutesAreListed DEF Shape, Linked, Reading
<1>i. PICK issue \in Issue, n \in 1..Len(Routes) : issue = s.issue /\ n = s.route
  BY <1>s
<1>1. PICK key : key = DedupeKey(issue, Routes[n])
  OBVIOUS
<1>2. /\ jobs' = [k \in DOMAIN jobs \cup {key} |-> IF k \in DOMAIN jobs THEN jobs[k] ELSE NewJob]
      /\ Become(t, Continue(issue, n))
  BY <1>1, <1>i DEF EnqueueJob
<1>3. key \in Keys /\ RouteNamed(key.route) = Routes[n]
  <2>1. n \in DOMAIN Routes
    BY RoutesAreListed
  <2>2. issue.labels \in SUBSET Labels /\ issue.updated \in Nat
    BY DEF Issue
  <2>3. QED BY <1>1, <2>1, <2>2, RoutesAreNamed DEF DedupeKey, Keys
<1>4. /\ DOMAIN jobs' = DOMAIN jobs \cup {key}
      /\ \A k \in DOMAIN jobs : jobs'[k] = jobs[k]
      /\ \A k \in DOMAIN jobs' \ DOMAIN jobs : k = key /\ jobs'[k] = NewJob
  BY <1>2
<1>5. Moves(t, Continue(issue, n))
  BY <1>2, <1>g, ContinueMoves
<1>6. ThreadsOK' /\ \A u \in Threads : GoesOn(thread[u], thread'[u])
  BY <1>5, <1>g, OneMoves
<1>7. NoGain
  BY <1>4, <1>6 DEF NoGain
<1>8. \A k \in DOMAIN jobs' : RowOK(jobs'[k]) /\ GateOpen(RouteNamed(k.route))'
  <2>1. GateOpen(Routes[n])'
    <3>1. GateOpen(Routes[n])
      BY <1>i, <1>s
    <3>2. QED BY <3>1, AcceptanceStays
  <2>2. \A k \in DOMAIN jobs : RowOK(jobs[k]) /\ GateOpen(RouteNamed(k.route))'
    BY <1>g, AcceptanceStays DEF RowsOK
  <2>3. GateOpen(RouteNamed(key.route))'
    BY <1>3, <2>1
  <2>4. QED BY <1>4, <2>2, <2>3, NewRow
<1>9. IsFiniteSet(DOMAIN jobs') /\ DOMAIN jobs' \subseteq Keys
  BY <1>3, <1>4, <1>g, FS_AddElement DEF RowsOK
<1>10. \A u \in Threads :
         Claiming(thread'[u]) /\ Holds(u)' => jobs'[thread'[u].job].phase = "claimed"
  BY <1>4, <1>6, <1>7, <1>g, ClaimsStay
<1>11. \A k \in DOMAIN jobs : Passed(k)' => Passed(k)
  BY <1>4, <1>6, <1>7, <1>g, NothingPassesOn
<1>12. BudgetsOK'
  <2>1. UNCHANGED attempts /\ transitions' \in Nat
    BY <1>g DEF BudgetsOK, budgetVars
  <2>2. QED BY <1>4, <1>11, <1>g, <2>1, BudgetsStay, NewRow
<1>13. QED BY <1>6, <1>8, <1>9, <1>10, <1>12 DEF RowsOK, RowOK

-----------------------------------------------------------------------------
(* Steps that write the row of a job *)

\* The fields of a row that an update leaves.
LEMMA RowFields ==
  /\ DOMAIN NewJob = {"status", "owner", "phase", "outcome", "result", "charge"}
  /\ \A row : RowOK(row) =>
       /\ DOMAIN row = DOMAIN NewJob /\ row.owner \in Threads \cup {None, Gone}
       /\ row.phase \in {"new", "claimed", "launched"} /\ row.outcome \in Outcomes \cup {"none"}
       /\ row.outcome \in Outcomes => row.result \in Results
BY DEF NewJob, RowOK

\* The claims of the goroutines that do not get the row in hand.
LEMMA OtherClaimsStay ==
  ASSUME ThreadsOK, RowsOK, NEW u \in Threads, thread'[u] = thread[u],
         Claiming(thread'[u]), Holds(u)', NEW key \in DOMAIN jobs, jobs'[key].owner # u,
         \A k \in DOMAIN jobs \ {key} : jobs'[k] = jobs[k]
  PROVE  jobs'[thread'[u].job].phase = "claimed"
<1>1. thread[u].job \in DOMAIN jobs /\ thread[u].job # None
  BY HeldJobs DEF ThreadsOK, Shape
<1>2. jobs'[thread[u].job].owner = u /\ jobs'[thread[u].job].status = "running"
  BY <1>1 DEF Holds
<1>3. thread[u].job # key
  BY <1>2
<1>4. Holds(u)
  BY <1>1, <1>2, <1>3 DEF Holds
<1>5. QED BY <1>1, <1>3, <1>4 DEF RowsOK

LEMMA ClaimSteps ==
  ASSUME WorkInvariant, WorldGrows, NEW t \in Threads, Claim(t)
  PROVE  ThreadsOK' /\ RowsOK' /\ BudgetsOK'
<1>g. ThreadsOK /\ RowsOK /\ BudgetsOK
  BY DEF WorkInvariant
<1>1. PICK key \in DOMAIN jobs :
        /\ jobs[key].status = "pending"
        /\ SetJob(key, [jobs[key] EXCEPT !.status = "running", !.owner = t, !.phase = "claimed"])
        /\ Become(t, [Rest EXCEPT !.stage = "refresh", !.job = key])
  BY DEF Claim
<1>2. PICK row : row = [jobs[key] EXCEPT !.status = "running", !.owner = t, !.phase = "claimed"]
  OBVIOUS
<1>3. RowOK(jobs[key]) /\ key # None
  BY <1>g, RoutingAssumption DEF RowsOK
<1>4. /\ DOMAIN row = DOMAIN NewJob /\ row.status = "running" /\ row.owner = t
      /\ row.phase = "claimed" /\ row.outcome = jobs[key].outcome
      /\ row.result = jobs[key].result /\ row.charge = jobs[key].charge
  BY <1>2, <1>3, RowFields
<1>5. RowOK(row)
  BY <1>3, <1>4, RowFields DEF RowOK
<1>6. /\ DOMAIN jobs' = DOMAIN jobs /\ jobs'[key] = row
      /\ \A k \in DOMAIN jobs \ {key} : jobs'[k] = jobs[k]
  BY <1>1, <1>2, WrittenRow
<1>7. RowsStored'
  BY <1>5, <1>6, <1>g, RowsStoredStay DEF RowsOK
<1>8. PICK next : next = [Rest EXCEPT !.stage = "refresh", !.job = key]
  OBVIOUS
<1>9. /\ DOMAIN next = DOMAIN Rest /\ next.stage = "refresh" /\ next.issue = None
      /\ next.action = NoAction /\ next.route = 0 /\ next.job = key /\ next.rows = {}
  BY <1>8, RestFields
<1>10. Shape(next)
  BY <1>3, <1>9, NoActionAddsNothing, RoutesAreListed, StagesOfActions
  DEF Shape, Reading, Claiming, Launching, Ending
<1>11. Linked(next)'
  <2>1. Linked(next)
    BY <1>9, StagesOfActions DEF Linked, Marking
  <2>2. QED BY <2>1, LinkedStays
<1>12. ThreadsOK' /\ thread'[t] = next /\ \A u \in Threads \ {t} : thread'[u] = thread[u]
  BY <1>1, <1>8, <1>10, <1>11, <1>g, Prepared, ThreadsMove
<1>13. ~Launching(next)
  BY <1>9, StagesOfActions DEF Launching
<1>14. \A k \in DOMAIN jobs : Passed(k)' => Passed(k)
  <2> TAKE k \in DOMAIN jobs
  <2>1. jobs'[k].phase = "launched" => jobs[k].phase = "launched"
    BY <1>4, <1>6
  <2>2. ASSUME NEW u \in Threads, Launching(thread'[u]), thread'[u].job = k,
               jobs'[k].status = "running", jobs'[k].owner = u
        PROVE  /\ Launching(thread[u]) /\ thread[u].job = k
               /\ jobs[k].status = "running" /\ jobs[k].owner = u
    <3>1. u # t
      BY <1>12, <1>13, <2>2
    <3>2. k # key
      BY <1>4, <1>6, <2>2, <3>1
    <3>3. QED BY <1>6, <1>12, <2>2, <3>1, <3>2
  <2>3. QED BY <1>12, <1>g, <2>1, <2>2, PassedStays
<1>15. BudgetsOK'
  <2>1. UNCHANGED attempts /\ transitions' \in Nat
    BY <1>g DEF BudgetsOK, budgetVars, Claim
  <2>2. QED BY <1>4, <1>6, <1>14, <1>g, <2>1, BudgetsStay
<1>16. ASSUME NEW u \in Threads, Claiming(thread'[u]), Holds(u)'
       PROVE  jobs'[thread'[u].job].phase = "claimed"
  <2>1. CASE u = t
    BY <1>4, <1>6, <1>9, <1>12, <2>1
  <2>2. CASE u # t
    BY <1>4, <1>6, <1>12, <1>16, <1>g, <2>2, OtherClaimsStay
  <2>3. QED BY <2>1, <2>2
<1>17. QED BY <1>7, <1>12, <1>15, <1>16 DEF RowsOK, RowsStored

\* A goroutine that ends with its job leaves no claim and no launch of its own.
LEMMA Dropped ==
  ASSUME ThreadsOK, WorldGrows, NEW t \in Threads, Drop(t)
  PROVE  /\ ThreadsOK' /\ thread'[t] = Rest /\ \A u \in Threads \ {t} : thread'[u] = thread[u]
         /\ ~Claiming(thread'[t]) /\ ~Launching(thread'[t])
<1>1. Linked(Rest)' /\ ~Claiming(Rest) /\ ~Launching(Rest)
  BY RestIsFine, LinkedStays, RestFields, StagesOfActions DEF Claiming, Launching
<1>2. QED BY <1>1, ThreadsMove, Prepared, RestIsFine DEF Drop

LEMMA LaunchSteps ==
  ASSUME WorkInvariant, WorldGrows, NEW t \in Threads, Launch(t)
  PROVE  ThreadsOK' /\ RowsOK' /\ BudgetsOK'
<1>g. ThreadsOK /\ RowsOK /\ BudgetsOK
  BY DEF WorkInvariant
<1>1. PICK key : key = thread[t].job
  OBVIOUS
<1>2. Launching(thread[t]) /\ Holds(t)
  BY DEF Launch, At, Launching
<1>3. key \in DOMAIN jobs /\ jobs[key].status = "running" /\ jobs[key].owner = t
  BY <1>1, <1>2, <1>g, HeldJobs
<1>4. PICK row : row = [jobs[key] EXCEPT !.phase = "launched"]
  OBVIOUS
<1>5. RowOK(jobs[key])
  BY <1>3, <1>g DEF RowsOK
<1>6. /\ DOMAIN row = DOMAIN NewJob /\ row.status = jobs[key].status /\ row.owner = jobs[key].owner
      /\ row.phase = "launched" /\ row.outcome = jobs[key].outcome
      /\ row.result = jobs[key].result /\ row.charge = jobs[key].charge
  BY <1>4, <1>5, RowFields
<1>7. RowOK(row)
  BY <1>5, <1>6 DEF RowOK
<1>8. /\ DOMAIN jobs' = DOMAIN jobs /\ jobs'[key] = row
      /\ \A k \in DOMAIN jobs \ {key} : jobs'[k] = jobs[k]
  BY <1>1, <1>3, <1>4, WrittenRow DEF Launch
<1>9. RowsStored'
  BY <1>7, <1>8, <1>g, RowsStoredStay DEF RowsOK
<1>10. /\ ThreadsOK' /\ \A u \in Threads \ {t} : thread'[u] = thread[u]
       /\ ~Claiming(thread'[t]) /\ ~Launching(thread'[t])
  BY <1>g, Dropped DEF Launch
<1>11. Passed(key)
  BY <1>1, <1>2 DEF Passed
<1>12. \A k \in DOMAIN jobs : Passed(k)' => Passed(k)
  <2> TAKE k \in DOMAIN jobs
  <2>1. CASE k = key
    BY <1>11, <2>1
  <2>2. CASE k # key
    BY <1>8, <1>10, <1>g, <2>2, PassedStays
  <2>3. QED BY <2>1, <2>2
<1>13. BudgetsOK'
  <2>1. UNCHANGED attempts /\ transitions' \in Nat
    BY <1>g DEF BudgetsOK, budgetVars, Launch
  <2>2. QED BY <1>6, <1>8, <1>12, <1>g, <2>1, BudgetsStay
<1>14. ASSUME NEW u \in Threads, Claiming(thread'[u]), Holds(u)'
       PROVE  jobs'[thread'[u].job].phase = "claimed"
  <2>1. u # t /\ thread'[u] = thread[u]
    BY <1>10, <1>14
  <2>2. QED BY <1>3, <1>6, <1>8, <1>14, <1>g, <2>1, OtherClaimsStay
<1>15. QED BY <1>9, <1>10, <1>13, <1>14 DEF RowsOK, RowsStored

LEMMA AdoptSteps ==
  ASSUME WorkInvariant, WorldGrows, NEW t \in Threads, NEW key \in DOMAIN jobs, Adopt(t, key)
  PROVE  ThreadsOK' /\ RowsOK' /\ BudgetsOK'
<1>g. ThreadsOK /\ RowsOK /\ BudgetsOK
  BY DEF WorkInvariant
<1>1. thread' = thread /\ thread[t].stage = "idle"
  BY DEF Adopt, At
<1>2. PICK row : row = [jobs[key] EXCEPT !.owner = t]
  OBVIOUS
<1>3. RowOK(jobs[key])
  BY <1>g DEF RowsOK
<1>4. /\ DOMAIN row = DOMAIN NewJob /\ row.status = jobs[key].status /\ row.owner = t
      /\ row.phase = jobs[key].phase /\ row.outcome = jobs[key].outcome
      /\ row.result = jobs[key].result /\ row.charge = jobs[key].charge
  BY <1>2, <1>3, RowFields
<1>5. RowOK(row)
  BY <1>3, <1>4 DEF RowOK
<1>6. /\ DOMAIN jobs' = DOMAIN jobs /\ jobs'[key] = row
      /\ \A k \in DOMAIN jobs \ {key} : jobs'[k] = jobs[k]
  BY <1>2, WrittenRow DEF Adopt
<1>7. RowsStored'
  BY <1>5, <1>6, <1>g, RowsStoredStay DEF RowsOK
<1>8. ThreadsOK'
  <2>1. \A u \in Threads : Shape(thread[u]) /\ Linked(thread[u])'
    <3>1. ASSUME NEW u \in Threads, NEW s, s = thread[u] PROVE Shape(s) /\ Linked(s)'
      BY <1>g, <3>1, LinkedStays DEF ThreadsOK
    <3>2. QED BY <1>1, <3>1
  <2>2. QED BY <1>1, <1>g, <2>1 DEF ThreadsOK
<1>9. ~Claiming(thread[t]) /\ ~Launching(thread[t])
  BY <1>1, StagesOfActions DEF Claiming, Launching
<1>10. \A k \in DOMAIN jobs : Passed(k)' => Passed(k)
  <2> TAKE k \in DOMAIN jobs
  <2>1. ASSUME NEW u \in Threads, Launching(thread'[u]), thread'[u].job = k,
               jobs'[k].status = "running", jobs'[k].owner = u
        PROVE  /\ Launching(thread[u]) /\ thread[u].job = k
               /\ jobs[k].status = "running" /\ jobs[k].owner = u
    <3>1. u # t
      BY <1>1, <1>9, <2>1
    <3>2. k # key
      BY <1>4, <1>6, <2>1, <3>1
    <3>3. QED BY <1>1, <1>6, <2>1, <3>2
  <2>2. jobs'[k].phase = jobs[k].phase
    BY <1>4, <1>6
  <2>3. QED BY <1>8, <1>g, <2>1, <2>2, PassedStays
<1>11. BudgetsOK'
  <2>1. UNCHANGED attempts /\ transitions' \in Nat
    BY <1>g DEF BudgetsOK, budgetVars, Adopt
  <2>2. QED BY <1>4, <1>6, <1>10, <1>g, <2>1, BudgetsStay
<1>12. ASSUME NEW u \in Threads, Claiming(thread'[u]), Holds(u)'
       PROVE  jobs'[thread'[u].job].phase = "claimed"
  <2>1. u # t
    BY <1>1, <1>9, <1>12
  <2>2. QED BY <1>1, <1>4, <1>6, <1>12, <1>g, <2>1, OtherClaimsStay
<1>13. QED BY <1>7, <1>8, <1>11, <1>12 DEF RowsOK, RowsStored

\* A budget is charged by one job more, which passes only within the limit.
LEMMA OneMoreCharge ==
  ASSUME RowsOK, NEW charge, NEW key, NEW n \in Nat, NEW max \in Nat,
         Cardinality(ChargedBy(charge)) <= n,
         Cardinality({k \in ChargedBy(charge) : Passed(k)}) <= max,
         ChargedBy(charge)' \subseteq ChargedBy(charge) \cup {key},
         \A k \in ChargedBy(charge)' : Passed(k)' => Passed(k) \/ k = key,
         n + 1 > max => (Passed(key)' => Passed(key) /\ key \in ChargedBy(charge))
  PROVE  /\ Cardinality(ChargedBy(charge)') <= n + 1
         /\ Cardinality({k \in ChargedBy(charge) : Passed(k)}') <= max
<1> DEFINE old == ChargedBy(charge)
           new == ChargedBy(charge)'
           oldPassed == {k \in ChargedBy(charge) : Passed(k)}
           newPassed == {k \in ChargedBy(charge)' : Passed(k)'}
<1>1. IsFiniteSet(old) /\ IsFiniteSet(oldPassed) /\ Cardinality(old) \in Nat
      /\ Cardinality(oldPassed) \in Nat
  BY ChargesAreCounted
<1>2. /\ new \subseteq old \cup {key} /\ newPassed \subseteq new
      /\ n + 1 > max => newPassed \subseteq oldPassed
  <2>1. ASSUME n + 1 > max, NEW k \in newPassed PROVE k \in oldPassed
    <3>1. k \in ChargedBy(charge) \cup {key} /\ Passed(k)'
      OBVIOUS
    <3>2. CASE k = key
      BY <2>1, <3>1, <3>2
    <3>3. CASE k # key
      BY <3>1, <3>3
    <3>4. QED BY <3>2, <3>3
  <2>2. QED BY <2>1
<1>3. Cardinality(old) <= n /\ Cardinality(oldPassed) <= max
  OBVIOUS
<1>4. {k \in ChargedBy(charge) : Passed(k)}' = newPassed
  OBVIOUS
<1> HIDE DEF old, new, oldPassed, newPassed
<1>5. IsFiniteSet(old \cup {key}) /\ Cardinality(old \cup {key}) <= n + 1
  <2>1. /\ IsFiniteSet(old \cup {key})
        /\ \/ Cardinality(old \cup {key}) = Cardinality(old)
           \/ Cardinality(old \cup {key}) = Cardinality(old) + 1
    BY <1>1, FS_AddElement
  <2>2. QED BY <1>1, <1>3, <2>1
<1>6. IsFiniteSet(new) /\ Cardinality(new) \in Nat /\ Cardinality(new) <= n + 1
  <2>1. IsFiniteSet(new) /\ Cardinality(new) <= Cardinality(old \cup {key})
    BY <1>2, <1>5, FS_Subset
  <2>2. Cardinality(new) \in Nat /\ Cardinality(old \cup {key}) \in Nat
    BY <1>5, <2>1, FS_CardinalityType
  <2>3. QED BY <1>5, <2>1, <2>2
<1>7. Cardinality(newPassed) <= max
  <2>1. CASE n + 1 > max
    <3>1. Cardinality(newPassed) <= Cardinality(oldPassed) /\ IsFiniteSet(newPassed)
      BY <1>1, <1>2, <2>1, FS_Subset
    <3>2. Cardinality(newPassed) \in Nat
      BY <3>1, FS_CardinalityType
    <3>3. QED BY <1>1, <1>3, <3>1, <3>2
  <2>2. CASE ~(n + 1 > max)
    <3>1. Cardinality(newPassed) <= Cardinality(new) /\ IsFiniteSet(newPassed)
      BY <1>2, <1>6, FS_Subset
    <3>2. Cardinality(newPassed) \in Nat
      BY <3>1, FS_CardinalityType
    <3>3. QED BY <1>6, <2>2, <3>1, <3>2
  <2>3. QED BY <2>1, <2>2
<1>8. QED BY <1>4, <1>6, <1>7 DEF new

LEMMA ChargeSteps ==
  ASSUME WorkInvariant, WorldGrows, NEW t \in Threads, IncrementAttemptsForJob(t)
  PROVE  ThreadsOK' /\ RowsOK' /\ BudgetsOK'
<1> DEFINE s == thread[t]
<1>g. ThreadsOK /\ RowsOK /\ BudgetsOK
  BY DEF WorkInvariant
<1>s. Shape(s) /\ Linked(s) /\ s.stage = "charge" /\ Claiming(s) /\ Holds(t)
  BY <1>g, Prepared DEF IncrementAttemptsForJob, At, Claiming
<1>1. PICK key, charge, route, n :
        key = s.job /\ charge = s.charge /\ route = RouteOf(t) /\ n = AttemptsOf(charge) + 1
  OBVIOUS
<1>2. /\ key \in DOMAIN jobs /\ jobs[key].status = "running" /\ jobs[key].owner = t
      /\ jobs[key].phase = "claimed" /\ key # None
      /\ charge \in Charges /\ charge.route = key.route /\ Gated(charge)
  BY <1>1, <1>s, <1>g, HeldJobs DEF RowsOK, Shape, Linked
<1>3. /\ route = RouteNamed(charge.route) /\ route.maxAttempts \in Nat /\ charge # None
      /\ route.onStart.add \subseteq Labels /\ route.onAttemptsExceeded.add \subseteq Labels
  <2>1. route = RouteNamed(key.route)
    BY <1>1 DEF RouteOf
  <2>2. PICK m \in DOMAIN Routes : RouteNamed(key.route) = Routes[m]
    BY <1>2, <1>g, RouteInHand
  <2>3. Routes[m].onStart.add \subseteq Labels /\ Routes[m].onAttemptsExceeded.add \subseteq Labels
    BY WorkflowAssumption
  <2>4. QED BY <1>2, <2>1, <2>2, <2>3, LimitsAreNumbers
<1>4. AttemptsOf(charge) \in Nat /\ n \in Nat
  <2>1. \A c \in DOMAIN attempts : attempts[c] \in Nat
    BY <1>g DEF BudgetsOK
  <2>2. AttemptsOf(charge) \in Nat
    BY <2>1 DEF AttemptsOf
  <2>3. QED BY <1>1, <2>2
\* The row.
<1>5. PICK row : row = [jobs[key] EXCEPT !.charge = charge]
  OBVIOUS
<1>6. RowOK(jobs[key])
  BY <1>2, <1>g DEF RowsOK
<1>7. /\ DOMAIN row = DOMAIN NewJob /\ row.status = jobs[key].status /\ row.owner = jobs[key].owner
      /\ row.phase = jobs[key].phase /\ row.outcome = jobs[key].outcome
      /\ row.result = jobs[key].result /\ row.charge = charge
  BY <1>5, <1>6, RowFields
<1>8. RowOK(row)
  BY <1>6, <1>7 DEF RowOK
<1>9. /\ DOMAIN jobs' = DOMAIN jobs /\ jobs'[key] = row
      /\ \A k \in DOMAIN jobs \ {key} : jobs'[k] = jobs[k]
  <2>1. SetJob(key, row)
    BY <1>1, <1>5 DEF IncrementAttemptsForJob
  <2>2. QED BY <1>2, <2>1, WrittenRow
<1>10. RowsStored'
  BY <1>8, <1>9, <1>g, RowsStoredStay DEF RowsOK
\* The goroutine.
<1>11. PICK dead, go, deadCause, startCause :
         /\ dead = [s EXCEPT !.status = "dead", !.charge = None]
         /\ go = [s EXCEPT !.charge = None]
         /\ deadCause = <<"on_attempts_exceeded", s.job>> /\ startCause = <<"on_start", s.job>>
  OBVIOUS
<1>12. Become(t, IF n > route.maxAttempts
                 THEN Applying(dead, route.onAttemptsExceeded, deadCause, "settle", "settle")
                 ELSE Applying(go, route.onStart, startCause, "started", "settle"))
  <2>1. Become(t, IF AttemptsOf(s.charge) + 1 > RouteOf(t).maxAttempts
                  THEN Applying([s EXCEPT !.status = "dead", !.charge = None],
                                RouteOf(t).onAttemptsExceeded,
                                <<"on_attempts_exceeded", s.job>>, "settle", "settle")
                  ELSE Applying([s EXCEPT !.charge = None], RouteOf(t).onStart,
                                <<"on_start", s.job>>, "started", "settle"))
    BY DEF IncrementAttemptsForJob, Exceeds
  <2>2. QED BY <1>1, <1>11, <2>1
<1>13. /\ DOMAIN s = DOMAIN Rest /\ s.issue \in Issue \cup {None} /\ s.job = key
       /\ s.rows \subseteq Posted /\ s.route \in 0..Len(Routes)
  BY <1>1, <1>s DEF Shape, Linked
<1>14. /\ DOMAIN dead = DOMAIN Rest /\ dead.issue = s.issue /\ dead.job = key
       /\ dead.rows = s.rows /\ dead.route = s.route /\ dead.status \in Statuses
       /\ DOMAIN go = DOMAIN Rest /\ go.issue = s.issue /\ go.job = key
       /\ go.rows = s.rows /\ go.route = s.route
  BY <1>11, <1>13, RestFields DEF Statuses
<1>15. PICK next : next = IF n > route.maxAttempts
         THEN Applying(dead, route.onAttemptsExceeded, deadCause, "settle", "settle")
         ELSE Applying(go, route.onStart, startCause, "started", "settle")
  OBVIOUS
<1>16. /\ Shape(next) /\ Linked(next)' /\ next.job = key /\ ~Claiming(next)
       /\ Launching(next) => ~(n > route.maxAttempts)
  <2>1. CASE n > route.maxAttempts
    <3>1. next = Applying(dead, route.onAttemptsExceeded, deadCause, "settle", "settle")
      BY <1>15, <2>1
    <3>2. /\ Shape(next) /\ Linked(next)' /\ next.job = dead.job /\ ~Claiming(next)
          /\ Launching(next) => "settle" = "started"
      BY <1>2, <1>3, <1>13, <1>14, <3>1, ActionForJob
    <3>3. QED BY <1>14, <3>2
  <2>2. CASE ~(n > route.maxAttempts)
    <3>1. next = Applying(go, route.onStart, startCause, "started", "settle")
      BY <1>15, <2>2
    <3>2. Shape(next) /\ Linked(next)' /\ next.job = go.job /\ ~Claiming(next)
      BY <1>2, <1>3, <1>13, <1>14, <3>1, ActionForJob
    <3>3. QED BY <1>14, <2>2, <3>2
  <2>3. QED BY <2>1, <2>2
<1>17. ThreadsOK' /\ thread'[t] = next /\ \A u \in Threads \ {t} : thread'[u] = thread[u]
  BY <1>12, <1>15, <1>16, <1>g, Prepared, ThreadsMove
\* What passes.
<1>18. \A k \in DOMAIN jobs : k # key \/ n > route.maxAttempts => (Passed(k)' => Passed(k))
  <2> TAKE k \in DOMAIN jobs
  <2> HAVE k # key \/ n > route.maxAttempts
  <2>1. k = key => ~Launching(next)
    BY <1>16
  <2>2. \A u \in Threads :
          Launching(thread'[u]) /\ thread'[u].job = k /\ jobs'[k].status = "running"
            /\ jobs'[k].owner = u
          => /\ Launching(thread[u]) /\ thread[u].job = k
             /\ jobs[k].status = "running" /\ jobs[k].owner = u
    <3> SUFFICES ASSUME NEW u \in Threads, Launching(thread'[u]), thread'[u].job = k,
                        jobs'[k].status = "running", jobs'[k].owner = u
                 PROVE  /\ Launching(thread[u]) /\ thread[u].job = k
                        /\ jobs[k].status = "running" /\ jobs[k].owner = u
      OBVIOUS
    <3>1. u # t
      BY <1>16, <1>17, <2>1
    <3>2. thread'[u] = thread[u]
      BY <1>17, <3>1
    <3>3. k # key
      BY <1>2, <1>7, <1>9, <3>1
    <3>4. QED BY <1>9, <3>2, <3>3
  <2>3. jobs'[k].phase = jobs[k].phase
    BY <1>7, <1>9
  <2>4. QED BY <1>17, <1>g, <2>2, <2>3, PassedStays
\* The budget.
<1>20. /\ DOMAIN attempts' = DOMAIN attempts \cup {charge} /\ attempts'[charge] = n
       /\ \A c \in DOMAIN attempts \ {charge} : attempts'[c] = attempts[c]
  BY <1>1 DEF IncrementAttemptsForJob
<1>21. ASSUME NEW c \in DOMAIN attempts \ {charge}
       PROVE  /\ attempts'[c] \in Nat /\ Gated(c)'
              /\ Cardinality(ChargedBy(c)') <= attempts'[c]
              /\ Cardinality({k \in ChargedBy(c) : Passed(k)}') <= RouteNamed(c.route).maxAttempts
  <2>1. /\ attempts[c] \in Nat /\ Gated(c) /\ c \in Charges /\ attempts'[c] = attempts[c]
        /\ Cardinality(ChargedBy(c)) <= attempts[c]
        /\ Cardinality({k \in ChargedBy(c) : Passed(k)}) <= RouteNamed(c.route).maxAttempts
    BY <1>20, <1>g DEF BudgetsOK
  <2>2. RouteNamed(c.route).maxAttempts \in Nat
    BY <2>1, LimitsAreNumbers
  <2>3. /\ ChargedBy(c)' \subseteq ChargedBy(c)
        /\ \A k \in ChargedBy(c)' : k \in DOMAIN jobs /\ k # key
    BY <1>7, <1>9, <1>21 DEF ChargedBy
  <2>4. QED BY <1>18, <1>g, <2>1, <2>2, <2>3, BudgetStays, GatedStays
<1>22. /\ Cardinality(ChargedBy(charge)') <= n
       /\ Cardinality({k \in ChargedBy(charge) : Passed(k)}') <= route.maxAttempts
  <2>1. /\ Cardinality(ChargedBy(charge)) <= AttemptsOf(charge)
        /\ Cardinality({k \in ChargedBy(charge) : Passed(k)}) <= route.maxAttempts
    <3>1. CASE charge \in DOMAIN attempts
      BY <1>3, <1>g, <3>1 DEF AttemptsOf, BudgetsOK
    <3>2. CASE charge \notin DOMAIN attempts
      <4>1. ChargedBy(charge) = {}
        BY <1>3, <1>g, <3>2 DEF ChargedBy, BudgetsOK
      <4>2. {k \in ChargedBy(charge) : Passed(k)} = {}
        BY <4>1
      <4>3. QED BY <1>3, <1>4, <4>1, <4>2, FS_EmptySet DEF AttemptsOf
    <3>3. QED BY <3>1, <3>2
  <2>2. ChargedBy(charge)' \subseteq ChargedBy(charge) \cup {key}
    BY <1>7, <1>9 DEF ChargedBy
  <2>3. \A k \in ChargedBy(charge)' : Passed(k)' => Passed(k) \/ k = key
    BY <1>9, <1>18 DEF ChargedBy
  <2>4. Passed(key) => FALSE
    <3>1. SUFFICES ASSUME Passed(key) PROVE FALSE
      OBVIOUS
    <3>2. PICK u \in Threads : thread[u].job = key /\ Holds(u) /\ Launching(thread[u])
      BY <1>2, <3>1 DEF Passed
    <3>3. u = t
      BY <1>2, <1>g, <3>2, HeldJobs
    <3>4. ~Launching(thread[t])
      BY <1>s, StagesOfActions DEF Launching
    <3>5. QED BY <3>2, <3>3, <3>4
  <2>5. n > route.maxAttempts => ~Passed(key)'
    BY <1>2, <1>18, <2>4
  <2> QED
    <3>1. n = AttemptsOf(charge) + 1
      BY <1>1
    <3>2. QED BY <1>3, <1>4, <1>g, <2>1, <2>2, <2>3, <2>5, <3>1, OneMoreCharge
<1>23. BudgetsOK'
  <2>1. Gated(charge)'
    BY <1>2, GatedStays
  <2>2. DOMAIN attempts' \subseteq Charges /\ transitions' \in Nat
    BY <1>2, <1>20, <1>g DEF BudgetsOK, IncrementAttemptsForJob
  <2>3. \A k \in DOMAIN jobs' : jobs'[k].charge \in DOMAIN attempts' \cup {None}
    BY <1>7, <1>9, <1>20, <1>g DEF BudgetsOK
  <2>4. \A c \in DOMAIN attempts' :
          /\ attempts'[c] \in Nat /\ Gated(c)'
          /\ Cardinality(ChargedBy(c)') <= attempts'[c]
          /\ Cardinality({k \in ChargedBy(c) : Passed(k)}') <= RouteNamed(c.route).maxAttempts
    BY <1>3, <1>4, <1>20, <1>21, <1>22, <2>1
  <2>5. QED BY <2>2, <2>3, <2>4 DEF BudgetsOK
<1>24. ASSUME NEW u \in Threads, Claiming(thread'[u]), Holds(u)'
       PROVE  jobs'[thread'[u].job].phase = "claimed"
  <2>1. u # t /\ thread'[u] = thread[u]
    BY <1>16, <1>17, <1>24
  <2>2. QED BY <1>2, <1>7, <1>9, <1>24, <1>g, <2>1, OtherClaimsStay
<1>25. QED BY <1>10, <1>17, <1>23, <1>24 DEF RowsOK, RowsStored

\* A job gives its attempt back.
LEMMA OneChargeLess ==
  ASSUME RowsOK, NEW charge, NEW key \in ChargedBy(charge), NEW n \in Nat,
         Cardinality(ChargedBy(charge)) <= n, ChargedBy(charge)' \subseteq ChargedBy(charge) \ {key}
  PROVE  n - 1 \in Nat /\ Cardinality(ChargedBy(charge)') <= n - 1
<1> DEFINE old == ChargedBy(charge)
           new == ChargedBy(charge)'
<1>1. IsFiniteSet(old) /\ Cardinality(old) \in Nat /\ Cardinality(old) <= n /\ key \in old
  BY ChargesAreCounted
<1>2. new \subseteq old \ {key}
  OBVIOUS
<1> HIDE DEF old, new
<1>3. IsFiniteSet(old \ {key}) /\ Cardinality(old \ {key}) = Cardinality(old) - 1
  BY <1>1, FS_RemoveElement
<1>4. Cardinality(old \ {key}) \in Nat
  BY <1>3, FS_CardinalityType
<1>5. IsFiniteSet(new) /\ Cardinality(new) <= Cardinality(old \ {key})
  BY <1>2, <1>3, FS_Subset
<1>6. Cardinality(new) \in Nat
  BY <1>5, FS_CardinalityType
<1>7. n - 1 \in Nat /\ Cardinality(new) <= n - 1
  BY <1>1, <1>3, <1>4, <1>5, <1>6
<1>8. QED BY <1>7 DEF new

LEMMA SettleSteps ==
  ASSUME WorkInvariant, WorldGrows, NEW t \in Threads, FinalizeJobOwned(t)
  PROVE  ThreadsOK' /\ RowsOK' /\ BudgetsOK'
<1> DEFINE s == thread[t]
<1>g. ThreadsOK /\ RowsOK /\ BudgetsOK
  BY DEF WorkInvariant
<1>s. Shape(s) /\ Linked(s) /\ s.stage = "settle" /\ Ending(s) /\ Holds(t)
  BY <1>g, Prepared DEF FinalizeJobOwned, At, Ending
<1>1. PICK key, charge, refund :
        /\ key = s.job /\ charge = jobs[key].charge
        /\ refund = (jobs[key].phase = "launched" /\ jobs[key].result.workStarted = "no"
                     /\ charge # None)
  OBVIOUS
<1>2. /\ key \in DOMAIN jobs /\ jobs[key].status = "running" /\ jobs[key].owner = t
      /\ s.status \in Statuses
  BY <1>1, <1>s DEF Shape, Linked, Holds, Statuses
<1>3. PICK left : left = IF refund THEN None ELSE charge
  OBVIOUS
<1>4. RowOK(jobs[key])
  BY <1>2, <1>g DEF RowsOK
<1>5. PICK row : row = [jobs[key] EXCEPT !.status = s.status, !.owner = None, !.charge = left]
  OBVIOUS
<1>6. /\ DOMAIN row = DOMAIN NewJob /\ row.status = s.status /\ row.owner = None
      /\ row.phase = jobs[key].phase /\ row.outcome = jobs[key].outcome
      /\ row.result = jobs[key].result /\ row.charge = left
  BY <1>4, <1>5, RowFields
<1>7. RowOK(row)
  BY <1>2, <1>4, <1>6, RowFields DEF RowOK, Statuses
<1>8. /\ SetJob(key, row) /\ Drop(t)
      /\ attempts' = IF refund THEN [attempts EXCEPT ![charge] = @ - 1] ELSE attempts
  <2>1. "charge" \in DOMAIN jobs[key]
    BY <1>4, RowFields
  <2>2. SetJob(key, [jobs[key] EXCEPT !.status = s.status, !.owner = None,
                       !.charge = IF refund THEN None ELSE @])
    BY <1>1 DEF FinalizeJobOwned
  <2>3. [jobs[key] EXCEPT !.status = s.status, !.owner = None,
           !.charge = IF refund THEN None ELSE @] = row
    BY <1>1, <1>3, <1>5, <2>1
  <2>4. attempts' = IF refund THEN [attempts EXCEPT ![charge] = @ - 1] ELSE attempts
    BY <1>1 DEF FinalizeJobOwned
  <2>5. QED BY <2>2, <2>3, <2>4 DEF FinalizeJobOwned
<1>9. /\ DOMAIN jobs' = DOMAIN jobs /\ jobs'[key] = row
      /\ \A k \in DOMAIN jobs \ {key} : jobs'[k] = jobs[k]
  BY <1>2, <1>8, WrittenRow
<1>10. RowsStored'
  BY <1>7, <1>9, <1>g, RowsStoredStay DEF RowsOK
<1>11. /\ ThreadsOK' /\ \A u \in Threads \ {t} : thread'[u] = thread[u]
       /\ ~Claiming(thread'[t]) /\ ~Launching(thread'[t])
  BY <1>8, <1>g, Dropped
<1>n. None \notin Threads
  BY RoutingAssumption
<1>12. \A k \in DOMAIN jobs : Passed(k)' => Passed(k)
  <2> TAKE k \in DOMAIN jobs
  <2>1. jobs'[k].phase = jobs[k].phase
    BY <1>6, <1>9
  <2>2. \A u \in Threads :
          Launching(thread'[u]) /\ thread'[u].job = k /\ jobs'[k].status = "running"
            /\ jobs'[k].owner = u
          => /\ Launching(thread[u]) /\ thread[u].job = k
             /\ jobs[k].status = "running" /\ jobs[k].owner = u
    BY <1>6, <1>9, <1>11, <1>n
  <2>3. QED BY <1>11, <1>g, <2>1, <2>2, PassedStays
<1>13. transitions' \in Nat
  BY <1>g DEF BudgetsOK, FinalizeJobOwned
<1>14. ASSUME ~refund PROVE BudgetsOK'
  <2>1. attempts' = attempts /\ left = charge
    BY <1>3, <1>8, <1>14
  <2>2. \A k \in DOMAIN jobs : jobs'[k].charge = jobs[k].charge
    BY <1>1, <1>6, <1>9, <2>1
  <2>3. QED BY <1>9, <1>12, <1>13, <1>g, <2>1, <2>2, BudgetsStay
<1>15. ASSUME refund PROVE BudgetsOK'
  <2>1. /\ attempts' = [attempts EXCEPT ![charge] = @ - 1] /\ left = None
        /\ charge # None
    BY <1>1, <1>3, <1>8, <1>15
  <2>2. charge \in DOMAIN attempts /\ charge \in Charges /\ key \in ChargedBy(charge)
    BY <1>1, <1>2, <1>g, <2>1 DEF BudgetsOK, ChargedBy
  <2>3. /\ DOMAIN attempts' = DOMAIN attempts /\ attempts'[charge] = attempts[charge] - 1
        /\ \A c \in DOMAIN attempts \ {charge} : attempts'[c] = attempts[c]
    BY <2>1, <2>2
  <2>4. \A c \in DOMAIN attempts :
          /\ ChargedBy(c)' \subseteq ChargedBy(c) \ {key}
          /\ \A k \in ChargedBy(c)' : k \in DOMAIN jobs
    <3>1. \A c \in DOMAIN attempts : c # None
      BY <1>g, LimitsAreNumbers DEF BudgetsOK
    <3>2. QED BY <1>6, <1>9, <2>1, <3>1 DEF ChargedBy
  <2>5. ASSUME NEW c \in DOMAIN attempts
        PROVE  /\ attempts'[c] \in Nat /\ Gated(c)'
               /\ Cardinality(ChargedBy(c)') <= attempts'[c]
               /\ Cardinality({k \in ChargedBy(c) : Passed(k)}')
                    <= RouteNamed(c.route).maxAttempts
    <3>1. /\ attempts[c] \in Nat /\ Gated(c) /\ c \in Charges
          /\ Cardinality(ChargedBy(c)) <= attempts[c]
          /\ Cardinality({k \in ChargedBy(c) : Passed(k)}) <= RouteNamed(c.route).maxAttempts
      BY <1>g, <2>5 DEF BudgetsOK
    <3>2. RouteNamed(c.route).maxAttempts \in Nat
      BY <3>1, LimitsAreNumbers
    <3>3. /\ Cardinality(ChargedBy(c)') <= attempts[c]
          /\ Cardinality({k \in ChargedBy(c) : Passed(k)}') <= RouteNamed(c.route).maxAttempts
      BY <1>12, <1>g, <2>4, <3>1, <3>2, BudgetStays
    <3>4. attempts'[c] \in Nat /\ Cardinality(ChargedBy(c)') <= attempts'[c]
      <4>1. CASE c = charge
        BY <1>g, <2>2, <2>3, <2>4, <3>1, <4>1, OneChargeLess
      <4>2. CASE c # charge
        BY <2>3, <3>1, <3>3, <4>2
      <4>3. QED BY <4>1, <4>2
    <3>5. QED BY <3>1, <3>3, <3>4, GatedStays
  <2>6. \A k \in DOMAIN jobs' : jobs'[k].charge \in DOMAIN attempts' \cup {None}
    BY <1>6, <1>9, <1>g, <2>1, <2>3 DEF BudgetsOK
  <2>7. DOMAIN attempts' \subseteq Charges
    BY <1>g, <2>3 DEF BudgetsOK
  <2>8. QED BY <1>13, <2>3, <2>5, <2>6, <2>7 DEF BudgetsOK
<1>16. ASSUME NEW u \in Threads, Claiming(thread'[u]), Holds(u)'
       PROVE  jobs'[thread'[u].job].phase = "claimed"
  <2>1. u # t /\ thread'[u] = thread[u] /\ jobs'[key].owner # u
    BY <1>6, <1>9, <1>11, <1>16, <1>n
  <2>2. QED BY <1>2, <1>9, <1>16, <1>g, <2>1, OtherClaimsStay
<1>17. BudgetsOK'
  BY <1>14, <1>15
<1>18. QED BY <1>10, <1>11, <1>16, <1>17 DEF RowsOK, RowsStored

-----------------------------------------------------------------------------
(* Crashes, steps without a goroutine, and the whole *)

LEMMA CrashSteps ==
  ASSUME WorkInvariant, WorldGrows, NEW t \in Threads, Crash(t)
  PROVE  ThreadsOK' /\ RowsOK' /\ BudgetsOK'
<1>g. ThreadsOK /\ RowsOK /\ BudgetsOK
  BY DEF WorkInvariant
<1>1. /\ ThreadsOK' /\ \A u \in Threads \ {t} : thread'[u] = thread[u]
      /\ ~Claiming(thread'[t]) /\ ~Launching(thread'[t])
  BY <1>g, Dropped DEF Crash
<1>2. /\ DOMAIN jobs' = DOMAIN jobs
      /\ \A key \in DOMAIN jobs :
           jobs'[key] = IF jobs[key].owner = t THEN [jobs[key] EXCEPT !.owner = Gone] ELSE jobs[key]
  BY DEF Crash
<1>3. ASSUME NEW key \in DOMAIN jobs
      PROVE  /\ RowOK(jobs'[key]) /\ jobs'[key].phase = jobs[key].phase
             /\ jobs'[key].charge = jobs[key].charge /\ jobs'[key].status = jobs[key].status
             /\ jobs'[key].owner \in {jobs[key].owner, Gone}
  <2>1. RowOK(jobs[key])
    BY <1>g DEF RowsOK
  <2>2. CASE jobs[key].owner = t
    <3>1. PICK row : row = [jobs[key] EXCEPT !.owner = Gone]
      OBVIOUS
    <3>2. /\ DOMAIN row = DOMAIN NewJob /\ row.status = jobs[key].status /\ row.owner = Gone
          /\ row.phase = jobs[key].phase /\ row.outcome = jobs[key].outcome
          /\ row.result = jobs[key].result /\ row.charge = jobs[key].charge
      BY <2>1, <3>1, RowFields
    <3>3. RowOK(row)
      BY <2>1, <3>2 DEF RowOK
    <3>4. jobs'[key] = row
      BY <1>2, <2>2, <3>1
    <3>5. QED BY <3>2, <3>3, <3>4
  <2>3. CASE jobs[key].owner # t
    BY <1>2, <2>1, <2>3
  <2>4. QED BY <2>2, <2>3
<1>4. Gone \notin Threads
  BY WorkflowAssumption
<1>5. NoGain
  <2>1. \A u \in Threads : GoesOn(thread[u], thread'[u])
    BY <1>1 DEF GoesOn
  <2>2. \A u \in Threads, key \in DOMAIN jobs :
          jobs'[key].status = "running" /\ jobs'[key].owner = u
            => jobs[key].status = "running" /\ jobs[key].owner = u
    BY <1>3, <1>4
  <2>3. QED BY <2>1, <2>2 DEF NoGain
<1>6. RowsStored'
  BY <1>2, <1>3, <1>g, RowsStoredStay
<1>7. \A u \in Threads :
        Claiming(thread'[u]) /\ Holds(u)' => jobs'[thread'[u].job].phase = "claimed"
  BY <1>1, <1>3, <1>5, <1>g, ClaimsStay
<1>8. \A key \in DOMAIN jobs : Passed(key)' => Passed(key)
  BY <1>1, <1>3, <1>5, <1>g, NothingPassesOn
<1>9. UNCHANGED attempts /\ transitions' \in Nat
  BY <1>g DEF BudgetsOK, budgetVars, Crash
<1>10. BudgetsOK'
  BY <1>2, <1>3, <1>8, <1>9, <1>g, BudgetsStay
<1>11. QED BY <1>1, <1>6, <1>7, <1>10 DEF RowsOK, RowsStored

LEMMA OutsideSteps ==
  ASSUME WorkInvariant, WorldGrows, Outside \/ UNCHANGED workVars
  PROVE  ThreadsOK' /\ RowsOK' /\ BudgetsOK'
<1>g. ThreadsOK /\ RowsOK /\ BudgetsOK
  BY DEF WorkInvariant
<1>1. thread' = thread /\ UNCHANGED <<attempts, transitions>>
  BY DEF Outside, CommandEnds, LoseJob, Requeue, Edit, workVars, budgetVars
<1>2. ThreadsOK'
  <2>1. ASSUME NEW u \in Threads, NEW s, s = thread[u] PROVE Shape(s) /\ Linked(s)'
    BY <1>g, <2>1, LinkedStays DEF ThreadsOK
  <2>2. QED BY <1>1, <1>g, <2>1 DEF ThreadsOK
\* Of a job: its outcome, the loss of its owner, or its return to the queue.
<1>3. /\ DOMAIN jobs' = DOMAIN jobs
      /\ \A key \in DOMAIN jobs :
           \/ jobs'[key] = jobs[key]
           \/ \E r \in Results :
                jobs'[key] = [jobs[key] EXCEPT !.outcome = r.outcome, !.result = r]
           \/ jobs'[key] = [jobs[key] EXCEPT !.owner = Gone]
           \/ jobs'[key] = [jobs[key] EXCEPT !.status = "pending", !.owner = None, !.phase = "new"]
  BY DEF Outside, CommandEnds, LoseJob, Requeue, Edit, workVars, SetJob
<1>4. ASSUME NEW key \in DOMAIN jobs
      PROVE  /\ RowOK(jobs'[key]) /\ jobs'[key].charge = jobs[key].charge
             /\ jobs'[key].phase = "launched" => jobs[key].phase = "launched"
             /\ jobs'[key].status = "running" => /\ jobs[key].status = "running"
                                                 /\ jobs'[key].phase = jobs[key].phase
             /\ jobs'[key].owner \in {jobs[key].owner, Gone, None}
  <2>1. RowOK(jobs[key])
    BY <1>g DEF RowsOK
  <2>2. ASSUME NEW r \in Results, NEW row,
               row = [jobs[key] EXCEPT !.outcome = r.outcome, !.result = r]
        PROVE  /\ RowOK(row) /\ row.charge = jobs[key].charge /\ row.phase = jobs[key].phase
               /\ row.status = jobs[key].status /\ row.owner = jobs[key].owner
    <3>1. r.outcome \in Outcomes
      BY WorkflowAssumption DEF Outcomes
    <3>2. /\ DOMAIN row = DOMAIN NewJob /\ row.status = jobs[key].status
          /\ row.owner = jobs[key].owner /\ row.phase = jobs[key].phase
          /\ row.outcome = r.outcome /\ row.result = r /\ row.charge = jobs[key].charge
      BY <2>1, <2>2, RowFields
    <3>3. QED BY <2>1, <3>1, <3>2 DEF RowOK
  <2>3. ASSUME NEW row, row = [jobs[key] EXCEPT !.owner = Gone]
        PROVE  /\ RowOK(row) /\ row.charge = jobs[key].charge /\ row.phase = jobs[key].phase
               /\ row.status = jobs[key].status /\ row.owner = Gone
    <3>1. /\ DOMAIN row = DOMAIN NewJob /\ row.status = jobs[key].status /\ row.owner = Gone
          /\ row.phase = jobs[key].phase /\ row.outcome = jobs[key].outcome
          /\ row.result = jobs[key].result /\ row.charge = jobs[key].charge
      BY <2>1, <2>3, RowFields
    <3>2. QED BY <2>1, <3>1 DEF RowOK
  <2>4. ASSUME NEW row,
               row = [jobs[key] EXCEPT !.status = "pending", !.owner = None, !.phase = "new"]
        PROVE  /\ RowOK(row) /\ row.charge = jobs[key].charge /\ row.phase = "new"
               /\ row.status = "pending" /\ row.owner = None
    <3>1. /\ DOMAIN row = DOMAIN NewJob /\ row.status = "pending" /\ row.owner = None
          /\ row.phase = "new" /\ row.outcome = jobs[key].outcome
          /\ row.result = jobs[key].result /\ row.charge = jobs[key].charge
      BY <2>1, <2>4, RowFields
    <3>2. QED BY <2>1, <3>1 DEF RowOK
  <2>5. CASE jobs'[key] = jobs[key]
    BY <2>1, <2>5
  <2>6. CASE \E r \in Results :
               jobs'[key] = [jobs[key] EXCEPT !.outcome = r.outcome, !.result = r]
    BY <2>2, <2>6
  <2>7. CASE jobs'[key] = [jobs[key] EXCEPT !.owner = Gone]
    BY <2>3, <2>7
  <2>8. CASE jobs'[key] = [jobs[key] EXCEPT !.status = "pending", !.owner = None, !.phase = "new"]
    BY <2>4, <2>8
  <2>9. QED BY <1>3, <2>5, <2>6, <2>7, <2>8
<1>5. Gone \notin Threads /\ None \notin Threads
  BY RoutingAssumption, WorkflowAssumption
<1>6. \A u \in Threads, key \in DOMAIN jobs :
        jobs'[key].status = "running" /\ jobs'[key].owner = u
          => /\ jobs[key].status = "running" /\ jobs[key].owner = u
             /\ jobs'[key].phase = jobs[key].phase
  BY <1>4, <1>5
<1>7. RowsStored'
  BY <1>3, <1>4, <1>g, RowsStoredStay
<1>8. ASSUME NEW u \in Threads, Claiming(thread'[u]), Holds(u)'
      PROVE  jobs'[thread'[u].job].phase = "claimed"
  <2>1. thread[u].job \in DOMAIN jobs /\ thread[u].job # None
    BY <1>1, <1>8, <1>g, HeldJobs DEF ThreadsOK, Shape
  <2>2. jobs'[thread[u].job].owner = u /\ jobs'[thread[u].job].status = "running"
    BY <1>1, <1>8, <2>1 DEF Holds
  <2>3. Holds(u) /\ jobs'[thread[u].job].phase = jobs[thread[u].job].phase
    BY <1>6, <2>1, <2>2 DEF Holds
  <2>4. QED BY <1>1, <1>8, <1>g, <2>3 DEF RowsOK
<1>9. \A key \in DOMAIN jobs : Passed(key)' => Passed(key)
  BY <1>1, <1>2, <1>4, <1>6, <1>g, PassedStays
<1>10. UNCHANGED attempts /\ transitions' \in Nat
  BY <1>1, <1>g DEF BudgetsOK, budgetVars
<1>11. BudgetsOK'
  BY <1>3, <1>4, <1>9, <1>10, <1>g, BudgetsStay
<1>12. QED BY <1>2, <1>7, <1>8, <1>11 DEF RowsOK, RowsStored

LEMMA InitHolds == Init => WorkInvariant
<1> SUFFICES ASSUME Init PROVE WorkInvariant
  OBVIOUS
<1>1. ThreadsOK
  BY RestIsFine DEF Init, ThreadsOK
<1>2. IssueOK
  <2>1. comments = <<>> /\ Len(comments) = 0
    BY DEF Init
  <2>2. comments \in Seq(Range(comments))
    BY <2>1
  <2>3. handoffs \in [DOMAIN Handoffs -> 0..Len(comments)]
    BY <2>1 DEF Init
  <2>4. QED BY <2>2, <2>3, IssueAssumption DEF Init, IssueOK
<1>3. DOMAIN jobs = {} /\ DOMAIN attempts = {} /\ transitions = 0
  BY DEF Init
<1>4. \A t \in Threads : ~Claiming(thread[t])
  BY RestFields DEF Init, Claiming
<1>5. RowsOK
  BY <1>3, <1>4, FS_EmptySet DEF RowsOK
<1>6. BudgetsOK
  BY <1>3 DEF BudgetsOK
<1>7. QED BY <1>1, <1>2, <1>5, <1>6 DEF WorkInvariant

LEMMA StepKeepsWorkInvariant == WorkInvariant /\ [Next]_workVars => WorkInvariant'
<1> SUFFICES ASSUME WorkInvariant, [Next]_workVars PROVE WorkInvariant'
  OBVIOUS
<1>1. WorldGrows /\ IssueOK'
  BY StepGrows
<1>2. ThreadsOK' /\ RowsOK' /\ BudgetsOK'
  BY <1>1, KindsOfSteps, QuietSteps, EnqueueSteps, ClaimSteps, ChargeSteps, LaunchSteps,
     SettleSteps, AdoptSteps, CrashSteps, OutsideSteps DEF Writes
<1>3. QED BY <1>1, <1>2 DEF WorkInvariant

LEMMA WorkInvariantHolds == Spec => []WorkInvariant
BY InitHolds, StepKeepsWorkInvariant, PTL DEF Spec

-----------------------------------------------------------------------------
(* What the runs check on small instances *)

\* The variables of one issue's life keep their types, whatever the goroutines,
\* people and commands do.
THEOREM WorkflowTypeCorrect == Spec => []TypeOK
<1>1. WorkInvariant => TypeOK
  <2> SUFFICES ASSUME WorkInvariant PROVE TypeOK
    OBVIOUS
  <2>g. ThreadsOK /\ IssueOK /\ RowsOK /\ BudgetsOK
    BY DEF WorkInvariant
  <2>1. \A t \in Threads : thread[t].issue \in Issue \cup {None}
    BY <2>g DEF ThreadsOK, Shape
  <2>2. /\ DOMAIN jobs \subseteq Keys
        /\ \A key \in DOMAIN jobs :
             /\ jobs[key].status \in {"pending", "running", "succeeded", "failed", "skipped", "dead"}
             /\ jobs[key].owner \in Threads \cup {None, Gone}
             /\ jobs[key].phase \in {"new", "claimed", "launched"}
    BY <2>g DEF RowsOK, RowOK, Outcomes
  <2>3. /\ github \in Issue /\ snapshot \in Issue \cup {None} /\ applied \subseteq blocks
        /\ handoffs \in [DOMAIN Handoffs -> Nat]
    <3>1. comments \in Seq(Range(comments)) /\ handoffs \in [DOMAIN Handoffs -> 0..Len(comments)]
      BY <2>g DEF IssueOK
    <3>2. 0..Len(comments) \subseteq Nat
      BY <3>1
    <3>3. QED BY <2>g, <3>1, <3>2 DEF IssueOK
  <2>4. /\ DOMAIN attempts \subseteq Charges /\ transitions \in Nat
        /\ \A charge \in DOMAIN attempts : attempts[charge] \in Nat
    BY <2>g DEF BudgetsOK
  <2>5. QED BY <2>1, <2>2, <2>3, <2>4 DEF TypeOK
<1>2. QED BY <1>1, WorkInvariantHolds, PTL

\* However jobs are requeued, adopted, refunded or made anew by relabelling, the
\* commands launched for one scope and not refunded stay within the route's limit
\* (sqlite.go IncrementAttemptsForJob, FinalizeJobOwned; launch.go).
THEOREM AttemptsAreBounded == Spec => []AttemptsBoundCommands
<1>1. WorkInvariant => AttemptsBoundCommands
  <2> SUFFICES ASSUME WorkInvariant, NEW charge \in DOMAIN attempts
               PROVE  Cardinality({key \in Launched : jobs[key].charge = charge})
                        <= RouteNamed(charge.route).maxAttempts
    BY DEF AttemptsBoundCommands
  <2> DEFINE launched == {key \in Launched : jobs[key].charge = charge}
             passed   == {key \in ChargedBy(charge) : Passed(key)}
  <2>g. RowsOK /\ BudgetsOK
    BY DEF WorkInvariant
  <2>1. launched \subseteq passed
    BY DEF Launched, ChargedBy, Passed
  <2>2. IsFiniteSet(passed) /\ Cardinality(passed) \in Nat
    BY <2>g, ChargesAreCounted
  <2>3. /\ Cardinality(passed) <= RouteNamed(charge.route).maxAttempts
        /\ charge \in Charges
    BY <2>g DEF BudgetsOK
  <2>4. RouteNamed(charge.route).maxAttempts \in Nat
    BY <2>3, LimitsAreNumbers
  <2> HIDE DEF launched, passed
  <2>5. IsFiniteSet(launched) /\ Cardinality(launched) <= Cardinality(passed)
    BY <2>1, <2>2, FS_Subset
  <2>6. Cardinality(launched) \in Nat
    BY <2>5, FS_CardinalityType
  <2>7. Cardinality(launched) <= RouteNamed(charge.route).maxAttempts
    BY <2>2, <2>3, <2>4, <2>5, <2>6
  <2>8. QED BY <2>7 DEF launched
<1>2. QED BY <1>1, WorkInvariantHolds, PTL

\* Every job of a route that requires a handoff, and every attempt scoped to one,
\* follows a stored handoff that the gate accepts (router.go evaluateGate,
\* launch.go attemptScopeHash).
THEOREM GatesAreKept == Spec => []WorkIsGated
<1>1. WorkInvariant => WorkIsGated
  BY DEF WorkInvariant, RowsOK, BudgetsOK, GateOpen, Gated, WorkIsGated
<1>2. QED BY <1>1, WorkInvariantHolds, PTL

=============================================================================
