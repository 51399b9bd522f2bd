---------------------------- MODULE IssueWorkflow ----------------------------
(***************************************************************************)
(* The life of one issue under issueq: people edit it, the poll/route       *)
(* goroutines turn it into jobs, and the reconcile goroutines prepare,      *)
(* launch and finish these jobs and move the issue on by its labels         *)
(* (internal/workflow/lifecycle.go).                                        *)
(*                                                                          *)
(* Supervision models how a job is owned, launched, lost and recovered.     *)
(* Here it is only: owned by a reconcile goroutine, or by nobody alive      *)
(* (Gone) after a crash or an expired lease, until it is requeued (not      *)
(* launched yet) or adopted.  Errors of the store are modelled there, those *)
(* of GitHub here.                                                          *)
(***************************************************************************)
EXTENDS Routing

CONSTANTS
  Workers,        \* threads that run the reconcile goroutine
  Gone,           \* the owner of a job whose owner's lease has run out
  MaxGlobal,
  MaxTransitions, \* workflow.max_transitions_per_issue
  OnTransitionsExceeded,
  Results,        \* what commands may leave: status, result file
  UserLabels, UserComments, UserStates    \* what people may add, post, set

\* The kinds of target that a scope of its own is made of.
TargetKinds ==
  [pr_head |-> {"github_pr", "github_pull_request", "pull_request"},
   ci_head |-> {"github_ci", "github_check_run", "ci_run"}]

\* Keys of route_attempts: a route and its scope.
Charges ==
  [route : RouteNames,
   scope : ({"handoff"} \X DOMAIN Handoffs) \cup ({"issue"} \X Nat \X Bodies) \cup {<<"legacy">>}
             \cup ((DOMAIN TargetKinds) \X {Handoffs[h].target : h \in DOMAIN Handoffs})]

ASSUME WorkflowAssumption ==
  /\ Workers \subseteq Threads /\ Workers \cap Routers = {}
  /\ Gone \notin Threads \cup {None}
  /\ MaxGlobal \in Nat \ {0} /\ MaxTransitions \in Nat \ {0}
  /\ None \notin Charges
  /\ \A n \in DOMAIN Routes :
       /\ Routes[n].maxAttempts \in Nat
       /\ \A action \in {Routes[n].onStart, Routes[n].onSuccess, Routes[n].onFailure,
                         Routes[n].onAttemptsExceeded} : action.add \subseteq Labels
  /\ OnTransitionsExceeded.add \subseteq Labels
  /\ \A r \in Results : r.outcome \in {"succeeded", "failed"} /\ r.add \subseteq Labels
  /\ UserLabels \subseteq Labels /\ UserStates \subseteq {"open", "closed"}

VARIABLES
  attempts,     \* route_attempts: a function on the pairs charged so far
  transitions   \* issue_state.transition_count

budgetVars == <<attempts, transitions, edits>>
workVars   == <<issueVars, snapshot, jobs, thread, troubles, routingVars, budgetVars>>

RouteNamed(name) ==
  CHOOSE route \in Range(Routes) : route.name = name

RouteOf(t) == RouteNamed(thread[t].job.route)

Unsettled == {key \in DOMAIN jobs : jobs[key].status \in {"pending", "running"}}
Running   == {key \in DOMAIN jobs : jobs[key].status = "running"}
Launched  == {key \in DOMAIN jobs : jobs[key].phase = "launched"}
AtWork    == {key \in Launched \cap Running : jobs[key].outcome = "none"}

SetJob(key, job) == jobs' = [jobs EXCEPT ![key] = job]

-----------------------------------------------------------------------------
(* Prepare a claimed job *)

Claim(t) ==
  /\ At(t, "idle")
  /\ Cardinality(Running) < MaxGlobal
  /\ \E key \in DOMAIN jobs :
       /\ jobs[key].status = "pending"
       /\ SetJob(key, [jobs[key] EXCEPT !.status = "running", !.owner = t, !.phase = "claimed"])
       /\ Become(t, [Rest EXCEPT !.stage = "refresh", !.job = key])
  /\ UNCHANGED <<issueVars, snapshot, troubles, routingVars, budgetVars>>

RefreshClaimed(t) ==
  /\ At(t, "refresh") /\ Holds(t)
  /\ Become(t, [thread[t] EXCEPT !.issue = github, !.stage = "recheck"])
  /\ UNCHANGED <<issueVars, snapshot, jobs, troubles, routingVars, budgetVars>>

Settle(s, status) == [s EXCEPT !.stage = "settle", !.status = status, !.issue = None]

RefreshFails(t) ==
  /\ At(t, "refresh")
  /\ Trouble
  /\ Become(t, Settle(thread[t], "failed"))
  /\ UNCHANGED <<issueVars, snapshot, jobs, routingVars, budgetVars>>

\* Fault: it is enough that the issue is still open.
StillOpen(route, issue) == issue.state = "open"

StillMatches(route, issue) == Matches(route, issue)

\* The refreshed issue is stored, and the route must still match it.
RouteStillMatches(t) ==
  LET s == thread[t] IN
  /\ At(t, "recheck") /\ Holds(t)
  /\ snapshot' = s.issue
  /\ Become(t, IF StillMatches(RouteOf(t), s.issue)
               THEN [s EXCEPT !.stage = "scope"] ELSE Settle(s, "skipped"))
  /\ UNCHANGED <<issueVars, jobs, troubles, routingVars, budgetVars>>

\* The attempts of a route may be counted for the pull request or the check run
\* that its handoff is about; without one they are the route's.
HasTarget(scope, h) ==
  /\ scope \in DOMAIN TargetKinds /\ h # None
  /\ Handoffs[h].target.kind \in TargetKinds[scope] /\ Handoffs[h].target.key # None

AttemptScope(route, issue, decision) ==
  CASE route.scope = "handoff" -> <<"handoff", decision.handoff>>
    [] route.scope = "issue"   -> <<"issue", issue.updated, issue.body>>
    [] HasTarget(route.scope, decision.handoff) -> <<route.scope, Handoffs[decision.handoff].target>>
    [] OTHER -> <<"legacy">>

\* A scope other than legacy evaluates the gate once more.
AttemptScopeHash(t) ==
  LET s == thread[t]  route == RouteOf(t)  decision == EvaluateGate(route, s.issue)
      blocked == \/ route.scope # "legacy" /\ decision.blocked # None
                 \/ route.scope = "handoff" /\ decision.handoff = None
  IN
  /\ At(t, "scope")
  /\ Become(t, IF blocked THEN Settle(s, "skipped")
               ELSE [s EXCEPT !.stage = "charge",
                       !.charge = [route |-> route.name,
                                   scope |-> AttemptScope(route, s.issue, decision)]])
  /\ UNCHANGED <<issueVars, snapshot, jobs, troubles, routingVars, budgetVars>>

\* Fault: the limit is noticed one too late.
ExceedsLate(count, limit) == count > limit + 1

Exceeds(count, limit) == count > limit

AttemptsOf(charge) == IF charge \in DOMAIN attempts THEN attempts[charge] ELSE 0

IncrementAttemptsForJob(t) ==
  LET s == thread[t]  route == RouteOf(t)  n == AttemptsOf(s.charge) + 1 IN
  /\ At(t, "charge") /\ Holds(t)
  /\ attempts' = [c \in DOMAIN attempts \cup {s.charge} |->
                    IF c = s.charge THEN n ELSE attempts[c]]
  /\ SetJob(s.job, [jobs[s.job] EXCEPT !.charge = s.charge])
  /\ Become(t, IF Exceeds(n, route.maxAttempts)
               THEN Applying([s EXCEPT !.status = "dead", !.charge = None],
                             route.onAttemptsExceeded,
                             <<"on_attempts_exceeded", s.job>>, "settle", "settle")
               ELSE Applying([s EXCEPT !.charge = None], route.onStart,
                             <<"on_start", s.job>>, "started", "settle"))
  /\ UNCHANGED <<issueVars, snapshot, troubles, routingVars, transitions, edits>>

\* Fault: only their number is compared.
SameNumber(before, after) == Cardinality(before) = Cardinality(after)

SameLabelSet(before, after) == before = after

\* ApplyResult.Changed: other labels than before the action.
ActionDone(t) ==
  LET s == thread[t]  changed == ~SameLabelSet(s.before, s.issue.labels)
      next == IF At(t, "started") THEN "launch" ELSE "settle"
  IN
  /\ s.stage \in {"started", "finished"}
  /\ Become(t, [s EXCEPT !.stage = IF changed THEN "count" ELSE next, !.then = next,
                         !.issue = None, !.before = {}])
  /\ UNCHANGED <<issueVars, snapshot, jobs, troubles, routingVars, budgetVars>>

IncrementTransitionsForJob(t) ==
  LET s == thread[t] IN
  /\ At(t, "count") /\ Holds(t)
  /\ transitions' = transitions + 1
  /\ Become(t, IF Exceeds(transitions', MaxTransitions)
               THEN Applying([s EXCEPT !.status = "dead"], OnTransitionsExceeded,
                             <<"on_transitions_exceeded", s.job>>, "settle", "settle")
               ELSE [s EXCEPT !.stage = s.then])
  /\ UNCHANGED <<issueVars, snapshot, jobs, troubles, routingVars, attempts, edits>>

\* LaunchClaimedWrapper as a whole: see Supervision.
Launch(t) ==
  LET s == thread[t] IN
  /\ At(t, "launch") /\ Holds(t)
  /\ SetJob(s.job, [jobs[s.job] EXCEPT !.phase = "launched"])
  /\ Drop(t)
  /\ UNCHANGED <<issueVars, snapshot, troubles, routingVars, budgetVars>>

LaunchFails(t) ==
  /\ At(t, "launch") /\ Holds(t)
  /\ Trouble
  /\ Become(t, Settle(thread[t], "failed"))
  /\ UNCHANGED <<issueVars, snapshot, jobs, routingVars, budgetVars>>

-----------------------------------------------------------------------------
(* Finish a job whose command has ended *)

\* The final actions of the route, with what the result file adds.
FinalizeOwnedObservation(t) ==
  /\ At(t, "idle")
  /\ \E key \in Launched \cap Running :
       LET job == jobs[key]  route == RouteNamed(key.route)
           action == Merge(IF job.outcome = "succeeded" THEN route.onSuccess ELSE route.onFailure,
                           job.result)
       IN
       /\ job.owner = t /\ job.outcome # "none"
       /\ Become(t, Applying([Rest EXCEPT !.job = key, !.status = job.outcome], action,
                             <<"final", key>>, "finished", "settle"))
  /\ UNCHANGED <<issueVars, snapshot, jobs, troubles, routingVars, budgetVars>>

\* FinalizeJobOwned.  A command that reports work_started false gets its attempt
\* back.
FinalizeJobOwned(t) ==
  LET s == thread[t]  job == jobs[s.job]
      refund == job.phase = "launched" /\ job.result.workStarted = "no" /\ job.charge # None
  IN
  /\ At(t, "settle") /\ Holds(t)
  /\ SetJob(s.job, [job EXCEPT !.status = s.status, !.owner = None,
                               !.charge = IF refund THEN None ELSE @])
  /\ attempts' = IF refund THEN [attempts EXCEPT ![job.charge] = @ - 1] ELSE attempts
  /\ Drop(t)
  /\ UNCHANGED <<issueVars, snapshot, troubles, routingVars, transitions, edits>>

\* A job that was lost is dropped at the next call made for it.
Refused(t) ==
  /\ thread[t].stage \in {"refresh", "recheck", "charge", "count", "launch", "settle"}
  /\ ~Holds(t)
  /\ Drop(t)
  /\ UNCHANGED <<issueVars, snapshot, jobs, troubles, routingVars, budgetVars>>

-----------------------------------------------------------------------------
(* Around the goroutines *)

\* The command of a job ends, not cancelled and with its report on disk; its result
\* file may hold labels and a comment.
CommandEnds(key) ==
  /\ key \in AtWork
  /\ \E r \in Results :
       SetJob(key, [jobs[key] EXCEPT !.outcome = r.outcome, !.result = r])
  /\ UNCHANGED <<issueVars, snapshot, thread, troubles, routingVars, budgetVars>>

\* The lease of a job and the heartbeat of its owner run out while the owner works.
LoseJob(key) ==
  /\ Trouble
  /\ key \in Running /\ jobs[key].owner # Gone
  /\ SetJob(key, [jobs[key] EXCEPT !.owner = Gone])
  /\ UNCHANGED <<issueVars, snapshot, thread, routingVars, budgetVars>>

\* A goroutine ends between two steps with its daemon, and the daemon is restarted.
Crash(t) ==
  /\ Trouble
  /\ thread[t] # Rest /\ Drop(t)
  /\ jobs' = [key \in DOMAIN jobs |->
       IF jobs[key].owner = t THEN [jobs[key] EXCEPT !.owner = Gone] ELSE jobs[key]]
  /\ UNCHANGED <<issueVars, snapshot, routingVars, budgetVars>>

\* Recovery by a live daemon: a job that was not launched is claimed again later,
\* a launched one is adopted.
Requeue(key) ==
  /\ key \in Running \ Launched /\ jobs[key].owner = Gone
  /\ SetJob(key, [jobs[key] EXCEPT !.status = "pending", !.owner = None, !.phase = "new"])
  /\ UNCHANGED <<issueVars, snapshot, thread, troubles, routingVars, budgetVars>>

\* Fault: a job whose command has ended meanwhile is not adopted.
AdoptAtWork(t, key) ==
  /\ At(t, "idle")
  /\ key \in AtWork /\ jobs[key].owner = Gone
  /\ SetJob(key, [jobs[key] EXCEPT !.owner = t])
  /\ UNCHANGED <<issueVars, snapshot, thread, troubles, routingVars, budgetVars>>

Adopt(t, key) ==
  /\ At(t, "idle")
  /\ key \in Running \cap Launched /\ jobs[key].owner = Gone
  /\ SetJob(key, [jobs[key] EXCEPT !.owner = t])
  /\ UNCHANGED <<issueVars, snapshot, thread, troubles, routingVars, budgetVars>>

\* People label, rewrite, comment on, close or reopen the issue.
Edit ==
  /\ troubles + edits < MaxTroubles /\ edits' = edits + 1
  /\ \/ \E label \in UserLabels \ github.labels :
          SetLabels(github.labels \cup {label}) /\ UNCHANGED comments
     \/ \E body \in Bodies \ {github.body} :
          /\ github' = [github EXCEPT !.body = body, !.updated = @ + 1]
          /\ UNCHANGED comments
     \/ \E state \in UserStates \ {github.state} :
          /\ github' = [github EXCEPT !.state = state, !.updated = @ + 1]
          /\ UNCHANGED comments
     \/ \E text \in UserComments : Comment(text, <<"user">>)
  /\ UNCHANGED <<snapshot, jobs, thread, troubles, routingVars, attempts, transitions>>

-----------------------------------------------------------------------------

RouterStep(t) ==
  \/ ListOpenIssues(t) \/ UpsertIssue(t) \/ ListIssueComments(t) \/ UpsertHandoff(t)
  \/ ListRoutableIssues(t) \/ CheckGate(t) \/ EnqueueJob(t) \/ RecordGateBlock(t)
  \/ MarkGateBlockActionApplied(t)
  \/ ActionStep(t) /\ UNCHANGED routingVars

PrepareStep(t) ==
  \/ Claim(t) \/ RefreshClaimed(t) \/ RouteStillMatches(t) \/ AttemptScopeHash(t)
  \/ IncrementAttemptsForJob(t) \/ ActionDone(t) \/ IncrementTransitionsForJob(t) \/ Launch(t)

WorkerStep(t) ==
  \/ PrepareStep(t) \/ FinalizeOwnedObservation(t) \/ FinalizeJobOwned(t) \/ Refused(t)
  \/ (\E key \in DOMAIN jobs : Adopt(t, key))
  \/ ActionStep(t) /\ UNCHANGED <<routingVars, budgetVars>>

Init ==
  /\ github = InitialIssue /\ comments = <<>> /\ snapshot = None
  /\ jobs = <<>>
  /\ thread = [t \in Threads |-> Rest]
  /\ troubles = 0 /\ edits = 0
  /\ handoffs = [h \in DOMAIN Handoffs |-> 0]
  /\ blocks = {} /\ applied = {}
  /\ attempts = <<>> /\ transitions = 0

Next ==
  \/ \E t \in Routers :
       \/ RouterStep(t) /\ UNCHANGED budgetVars
       \/ PollFails(t) /\ UNCHANGED budgetVars
  \/ \E t \in Workers : WorkerStep(t) \/ RefreshFails(t) \/ LaunchFails(t)
  \/ \E t \in Threads :
       \/ ActionFails(t) /\ UNCHANGED <<routingVars, budgetVars>>
       \/ Crash(t)
  \/ \E key \in DOMAIN jobs : CommandEnds(key) \/ LoseJob(key) \/ Requeue(key)
  \/ Edit

\* The goroutines of live daemons go on, a command ends (its wrapper enforces the
\* timeout), and expired jobs are recovered by a daemon (see SupervisionTime).
Fairness ==
  /\ \A t \in Routers : WF_workVars(RouterStep(t) /\ UNCHANGED budgetVars)
  /\ \A t \in Workers : WF_workVars(WorkerStep(t))
  /\ WF_workVars(\E key \in DOMAIN jobs : CommandEnds(key) \/ Requeue(key))

Spec == Init /\ [][Next]_workVars /\ Fairness

-----------------------------------------------------------------------------
(* Properties *)

TypeOK ==
  /\ github \in Issue
  /\ snapshot \in Issue \cup {None}
  /\ \A t \in Threads : thread[t].issue \in Issue \cup {None}
  /\ DOMAIN jobs \subseteq Keys
  /\ \A key \in DOMAIN jobs :
       /\ jobs[key].status \in {"pending", "running", "succeeded", "failed", "skipped", "dead"}
       /\ jobs[key].owner \in Threads \cup {None, Gone}
       /\ jobs[key].phase \in {"new", "claimed", "launched"}
  /\ handoffs \in [DOMAIN Handoffs -> Nat]
  /\ applied \subseteq blocks
  /\ DOMAIN attempts \subseteq Charges
  /\ \A charge \in DOMAIN attempts : attempts[charge] \in Nat
  /\ transitions \in Nat

\* docs/v1-spec.md:565: "If incremented attempts exceed max_attempts, no subprocess
\* is spawned."  However the jobs of a route are requeued, adopted, refunded or
\* created anew by relabelling, the commands launched for one scope and not
\* refunded are never more than the route's max_attempts.
AttemptsBoundCommands ==
  \A charge \in DOMAIN attempts :
    Cardinality({key \in Launched : jobs[key].charge = charge})
      <= RouteNamed(charge.route).maxAttempts

\* Where one daemon runs routes that exclude the label their on_start adds, the
\* transition limit cuts every loop of the workflow, also the one of commands
\* that give their attempt back.
TransitionsBoundCommands == Cardinality(Launched) <= MaxTransitions

\* One daemon has one command at a time at work on an issue whose routes exclude
\* the label that on_start adds, although edits make new jobs while one is pending.
\* A crash, a lost job or a failed call costs one more command at most: final
\* actions applied again remove the label of the command that works meanwhile.
OneCommandPerIssue == Cardinality(AtWork) <= 1 + troubles

\* docs/handoff-gates-spec.md:213: "Gate block actions should be deduped"; likewise
\* a job's start and final actions.  The comment of one cause is posted again only
\* after a crash, a lost job or a failed call.
CommentedOnce ==
  \A n \in DOMAIN comments :
    LET cause == comments[n].cause IN
    cause # <<"user">> =>
      Cardinality({m \in DOMAIN comments : comments[m].cause = cause}) <= 1 + troubles

Accepts(route, h) ==
  /\ handoffs[h] > 0
  /\ route.gate.from # {} => Handoffs[h].from \in route.gate.from
  /\ route.gate.decisions # {} => Handoffs[h].decision \in route.gate.decisions
  /\ route.gate.nextRoute # None => Handoffs[h].next = route.gate.nextRoute

\* docs/handoff-gates-implementation-plan.md:110: "A matching route with a failing
\* gate does not enqueue a job."  Work on a route that requires a handoff always
\* follows a stored one that the gate accepts, and an attempt scoped to a handoff
\* is charged to such a one.
WorkIsGated ==
  /\ \A key \in DOMAIN jobs :
       LET route == RouteNamed(key.route) IN
       route.gate.required => \E h \in DOMAIN Handoffs : Accepts(route, h)
  /\ \A charge \in DOMAIN attempts :
       charge.scope[1] = "handoff" => Accepts(RouteNamed(charge.route), charge.scope[2])

\* docs/v1-spec.md:772: "If label removal fails because the label is absent, treat
\* it as success."  An action that went through leaves none of the labels it removes.
RemovalsTakeEffect ==
  \A t \in Threads :
    At(t, "actionStore") =>
      Range(thread[t].action.remove) \cap thread[t].issue.labels = {}

\* docs/handoff-gates-implementation-plan.md:112: "Duplicate gate blocks do not spam
\* identical comments."  While nobody edits the issue and no call fails, a route that stays blocked for
\* one reason is commented on once.
BlocksDoNotSpam ==
  troubles = 0 /\ edits = 0 =>
    \A m, n \in DOMAIN comments :
      LET a == comments[m].cause  b == comments[n].cause IN
      m # n /\ a[1] = "block" /\ b[1] = "block"
        => a[2].route # b[2].route \/ a[2].reason # b[2].reason

Answered(route) ==
  \/ \E key \in DOMAIN jobs : key.route = route.name /\ key.updated = github.updated
  \/ \E block \in applied :
       block.route = route.name /\ block.scope \in {<<"issue", github.updated>>}
                                                  \cup {<<"handoff", h>> : h \in DOMAIN Handoffs}

\* A route that matches the issue is answered by a job or a block, or stops
\* matching: no stale snapshot, stored by whoever was slowest, hides it for good.
MatchesAreAnswered ==
  \A n \in DOMAIN Routes :
    Matches(Routes[n], github) ~> ~Matches(Routes[n], github) \/ Answered(Routes[n])

\* Every job comes to an end, and so does the making of jobs, if every command does:
\* none is cancelled, or lost with no proof of how it ended (see Supervision).
WorkComesToRest == <>[](Unsettled = {})

=============================================================================
