---------------------------- MODULE CommandProofs ----------------------------
(***************************************************************************)
(* TLAPS: where one daemon runs routes that a label keeps apart, which      *)
(* their on_start actions add and which they exclude, the commands at work  *)
(* on an issue are at most one more than there were crashes, lost jobs and  *)
(* failed calls; and if nobody else adds the label, the limit of            *)
(* transitions bounds the commands ever launched.  For any routes, results, *)
(* handoffs, edits and number of daemons that only poll.                    *)
(***************************************************************************)
EXTENDS IssueProofs

OneWorker == \A a, b \in Workers : a = b

\* Every route excludes the label, its on_start adds it, its on_block leaves it.
Separates(label) ==
  \A n \in DOMAIN Routes :
    /\ label \in Routes[n].exclude
    /\ label \in Routes[n].onStart.add
    /\ Routes[n].onBlock.remove \in Seq(Labels \ {label})

\* Nobody but the jobs' own actions adds the label.
Private(label) ==
  /\ label \notin UserLabels
  /\ \A n \in DOMAIN Routes : label \notin Routes[n].onBlock.add

\* The jobs launched and not settled yet, and whether there may be one more.
Out   == Launched \cap Running
Spare == Cardinality(Out) <= troubles

\* A worker is about to settle a job of these.
Finishing(t) == Ending(thread[t]) /\ Holds(t) /\ thread[t].job \in Launched

\* Stages of a worker after the on_start action added its labels.
Raised(s) ==
  \/ s.stage \in {"started", "launch"}
  \/ s.stage = "count" /\ s.then = "launch"
  \/ s.stage \in {"actionComment", "actionReread", "actionStore"} /\ s.then = "started"

\* A goroutine that polls has no job, and its actions leave the label alone.
RouterOK(s, label) ==
  /\ s.job = None
  /\ s.stage \in ActionStages => s.then = "markApplied" /\ s.left \in Seq(Labels \ {label})
  /\ s.stage = "actionRemove" => s.left # <<>>
  /\ Private(label) /\ s.stage \in ActionStages => label \notin s.action.add

\* While the label is off there is room for one more command, or a job about to be
\* settled; and there is room from the check of the route to the launch.
WorkerOK(t, label) ==
  LET s == thread[t] IN
  /\ s.stage \in {"scope", "charge"} \/ Launching(s) => Spare
  /\ s.stage = "recheck" /\ label \notin s.issue.labels => Spare
  /\ Ending(s) /\ s.stage # "settle" => Spare \/ Finishing(t)
  /\ label \notin github.labels => Spare \/ Finishing(t)
  /\ s.stage \in ActionStages =>
       s.then # "markApplied" /\ (s.then = "started" => label \in s.action.add)
  /\ Raised(s) => label \in github.labels

CommandsOK(label) ==
  /\ troubles \in Nat /\ Cardinality(Out) <= troubles + 1
  /\ \A t \in Threads \ Workers : RouterOK(thread[t], label)
  /\ \A t \in Workers : WorkerOK(t, label)

\* A worker that prepares a job saw the issue without the label and sees it with
\* the label, so that it counts a transition before the launch.
LabelOK(t, label) ==
  LET s == thread[t] IN
  /\ s.stage = "recheck" /\ label \notin s.issue.labels => label \notin github.labels
  /\ s.stage \in {"scope", "charge"} => label \notin github.labels
  /\ s.stage = "actionRead" /\ s.then = "started" => label \notin github.labels
  /\ s.stage = "started" \/ (s.stage \in ActionStages \ {"actionRead"} /\ s.then = "started")
       => label \notin s.before
  /\ s.stage = "started" \/ (s.stage = "actionStore" /\ s.then = "started")
       => label \in s.issue.labels
  /\ s.stage = "launch" =>
       Cardinality(Launched) < transitions /\ Cardinality(Launched) < MaxTransitions

LaunchesOK(label) ==
  /\ Cardinality(Launched) <= transitions /\ Cardinality(Launched) <= MaxTransitions
  /\ \A t \in Workers : LabelOK(t, label)

CommandInvariant(label) ==
  WorkInvariant /\ CommandsOK(label) /\ (Private(label) => LaunchesOK(label))

-----------------------------------------------------------------------------
(* Counts and labels *)

LEMMA CommandsAreCounted ==
  ASSUME RowsOK
  PROVE  /\ IsFiniteSet(Out) /\ Cardinality(Out) \in Nat
         /\ IsFiniteSet(Launched) /\ Cardinality(Launched) \in Nat
<1>1. Out \subseteq DOMAIN jobs /\ Launched \subseteq DOMAIN jobs /\ IsFiniteSet(DOMAIN jobs)
  BY DEF RowsOK, Out, Launched
<1>2. IsFiniteSet(Out) /\ IsFiniteSet(Launched)
  BY <1>1, FS_Subset
<1>3. QED BY <1>2, FS_CardinalityType

LEMMA FewerCommands ==
  ASSUME RowsOK
  PROVE  /\ Out' \subseteq Out =>
              Cardinality(Out)' \in Nat /\ Cardinality(Out)' <= Cardinality(Out)
         /\ Launched' \subseteq Launched =>
              Cardinality(Launched)' \in Nat /\ Cardinality(Launched)' <= Cardinality(Launched)
<1>1. \A S, T : IsFiniteSet(S) /\ T \subseteq S =>
        Cardinality(T) \in Nat /\ Cardinality(T) <= Cardinality(S)
  BY FS_Subset, FS_CardinalityType
<1>2. QED BY <1>1, CommandsAreCounted

\* The labels after a change and after a comment.
LEMMA LabelsAfter ==
  ASSUME IssueOK
  PROVE  /\ \A labels : SetLabels(labels) => github'.labels = labels
         /\ \A text, cause : Comment(text, cause) => github'.labels = github.labels
         /\ UNCHANGED github => github'.labels = github.labels
<1>1. DOMAIN github = {"state", "labels", "body", "updated"}
  BY DEF IssueOK, Issue
<1>2. \A n, labels : [github EXCEPT !.labels = labels, !.updated = n].labels = labels
  BY <1>1
<1>3. \A n : [github EXCEPT !.updated = n].labels = github.labels
  BY <1>1
<1>4. \A labels : SetLabels(labels) => github'.labels = labels
  BY <1>2, Zenon DEF SetLabels
<1>5. \A text, cause : Comment(text, cause) => github'.labels = github.labels
  BY <1>3, Zenon DEF Comment
<1>6. UNCHANGED github => github'.labels = github.labels
  OBVIOUS
<1>7. QED BY <1>4, <1>5, <1>6

\* The loop over the routes works for no job.
LEMMA ContinueRests ==
  ASSUME NEW issue, NEW k
  PROVE  Continue(issue, k).job = None /\ Continue(issue, k).stage \in {"idle", "gate"}
BY RestFields DEF Continue

-----------------------------------------------------------------------------
(* Goroutines that poll *)

\* A goroutine that is not in an action, for no job.
LEMMA RestingRouter ==
  ASSUME NEW s, NEW label, s.job = None, s.stage \notin ActionStages
  PROVE  RouterOK(s, label)
BY StagesOfActions DEF RouterOK

LEMMA RouterPolls ==
  ASSUME ThreadsOK, NEW t \in Threads, NEW label, RouterOK(thread[t], label),
         \/ ListOpenIssues(t) \/ UpsertIssue(t) \/ ListIssueComments(t) \/ UpsertHandoff(t)
         \/ ListRoutableIssues(t) \/ CheckGate(t) \/ EnqueueJob(t)
         \/ MarkGateBlockActionApplied(t) \/ PollFails(t)
  PROVE  /\ \E next : thread' = [thread EXCEPT ![t] = next] /\ RouterOK(next, label)
         /\ UNCHANGED github
<1> DEFINE s == thread[t]
<1>f. DOMAIN s = DOMAIN Rest /\ s.job = None
  BY Prepared DEF Shape, RouterOK
\* Whatever it does next, for no job.
<1>1. ASSUME NEW next, Become(t, next), next.job = None, next.stage \notin ActionStages
      PROVE  \E n : thread' = [thread EXCEPT ![t] = n] /\ RouterOK(n, label)
  BY <1>1, RestingRouter, Prepared
<1>2. ASSUME NEW stage \in {"upsert", "listComments", "listRoutable", "parse"}, NEW next,
             Become(t, next),
             \/ \E issue : next = [Rest EXCEPT !.stage = stage, !.issue = issue]
             \/ \E rows : next = [Rest EXCEPT !.stage = stage, !.rows = rows]
             \/ next = [Rest EXCEPT !.stage = stage]
             \/ next = [s EXCEPT !.stage = stage]
      PROVE  \E n : thread' = [thread EXCEPT ![t] = n] /\ RouterOK(n, label)
  <2>1. next.job = None /\ next.stage = stage
    BY <1>f, <1>2, RestFields
  <2>2. QED BY <1>1, <1>2, <2>1, StagesOfActions
<1>3. CASE ListOpenIssues(t)
  <2>1. UNCHANGED github
    BY <1>3 DEF ListOpenIssues, issueVars
  <2>2. CASE Become(t, [Rest EXCEPT !.stage = "upsert", !.issue = github])
    BY <1>2, <2>1, <2>2
  <2>3. CASE Become(t, [Rest EXCEPT !.stage = "listRoutable"])
    BY <1>2, <2>1, <2>3
  <2>4. QED BY <1>3, <2>2, <2>3 DEF ListOpenIssues
<1>9. CASE ListIssueComments(t)
  <2>1. Become(t, [Rest EXCEPT !.stage = "parse", !.rows = Posted]) /\ UNCHANGED github
    BY <1>9 DEF ListIssueComments, issueVars, Posted
  <2>2. QED BY <1>2, <2>1
<1>g. ASSUME NEW stage \in {"listComments", "listRoutable"}, GoTo(t, stage)
      PROVE  \E n : thread' = [thread EXCEPT ![t] = n] /\ RouterOK(n, label)
  <2>1. Become(t, [s EXCEPT !.stage = stage])
    BY <1>g, Prepared DEF Become
  <2>2. QED BY <1>2, <2>1
<1>4. CASE UpsertIssue(t)
  BY <1>g, <1>4 DEF UpsertIssue, issueVars
<1>5. CASE UpsertHandoff(t)
  <2>1. CASE s.rows = {}
    BY <1>g, <1>5, <2>1 DEF UpsertHandoff, issueVars
  <2>2. CASE s.rows # {}
    <3>1. PICK rows : rows = s.rows \ {Min(s.rows)}
      OBVIOUS
    <3>2. PICK next : next = [s EXCEPT !.rows = rows]
      OBVIOUS
    <3>3. s.stage = "parse" /\ Become(t, next) /\ UNCHANGED github
      BY <1>f, <1>5, <2>2, <3>1, <3>2, RestFields DEF UpsertHandoff, At, issueVars
    <3>4. next.job = None /\ next.stage = "parse"
      BY <1>f, <3>2, <3>3, RestFields
    <3>5. QED BY <1>1, <3>3, <3>4, StagesOfActions
  <2>3. QED BY <2>1, <2>2
<1>6. CASE ListRoutableIssues(t) \/ EnqueueJob(t) \/ MarkGateBlockActionApplied(t) \/ PollFails(t)
  <2>1. /\ UNCHANGED github
        /\ \E next : /\ Become(t, next)
                     /\ next = Rest \/ \E issue, k : next = Continue(issue, k)
    BY <1>6 DEF ListRoutableIssues, EnqueueJob, MarkGateBlockActionApplied, PollFails, issueVars
  <2>2. QED BY <1>1, <2>1, ContinueRests, RestFields, StagesOfActions
<1>7. CASE CheckGate(t)
  <2>0. PICK decision : decision = EvaluateGate(Routes[s.route], s.issue)
    OBVIOUS
  <2>1. PICK stage : stage = IF decision.blocked = None THEN "enqueue" ELSE "block"
    OBVIOUS
  <2>2. PICK next : next = [s EXCEPT !.decision = decision, !.stage = stage]
    OBVIOUS
  <2>3. next.job = None /\ next.stage = stage
    BY <1>f, <2>2, RestFields
  <2>4. Become(t, next) /\ UNCHANGED github
    BY <1>7, <2>0, <2>1, <2>2 DEF CheckGate, issueVars
  <2>5. QED BY <1>1, <2>1, <2>3, <2>4, StagesOfActions
<1>8. QED BY <1>3, <1>4, <1>5, <1>6, <1>7, <1>9

\* A block's action is one of the configuration.
LEMMA RouterBlocks ==
  ASSUME ThreadsOK, NEW t \in Threads, NEW label, Separates(label), RouterOK(thread[t], label),
         RecordGateBlock(t)
  PROVE  /\ \E next : thread' = [thread EXCEPT ![t] = next] /\ RouterOK(next, label)
         /\ UNCHANGED github
<1> DEFINE s == thread[t]
<1>f. DOMAIN s = DOMAIN Rest /\ s.job = None /\ s.route \in 1..Len(Routes)
  BY Prepared, RoutesAreListed DEF Shape, RouterOK, RecordGateBlock, At
<1>1. PICK block : block = GateBlock(Routes[s.route], s.issue, s.decision)
  OBVIOUS
<1>2. PICK action : action = Routes[s.route].onBlock
  OBVIOUS
<1>3. PICK marking : marking = [s EXCEPT !.stage = "markApplied", !.decision = None,
                                         !.cause = <<"block", block>>]
  OBVIOUS
<1>4. PICK doing : doing = Applying(marking, action, marking.cause, "markApplied", "idle")
  OBVIOUS
<1>5. /\ \/ Become(t, Continue(s.issue, s.route)) \/ Become(t, marking) \/ Become(t, doing)
      /\ UNCHANGED github
  BY <1>1, <1>2, <1>3, <1>4 DEF RecordGateBlock, Recorded, issueVars
<1>6. DOMAIN marking = DOMAIN Rest /\ marking.stage = "markApplied" /\ marking.job = None
  BY <1>f, <1>3, RestFields
<1>7. /\ doing.stage = "actionRead" /\ doing.action = action /\ doing.then = "markApplied"
      /\ doing.job = None
  BY <1>4, <1>6, ApplyingFields
<1>8. doing.left = action.remove
  BY <1>4, <1>6, RestFields DEF Applying
<1>9. action.remove \in Seq(Labels \ {label}) /\ (Private(label) => label \notin action.add)
  BY <1>f, <1>2, RoutesAreListed DEF Separates, Private
<1>10. RouterOK(doing, label)
  BY <1>7, <1>8, <1>9 DEF RouterOK
<1>11. RouterOK(marking, label) /\ RouterOK(Continue(s.issue, s.route), label)
  BY <1>6, ContinueRests, RestingRouter, StagesOfActions
<1>12. QED BY <1>5, <1>10, <1>11, Prepared


\* Its actions take away other labels only.
LEMMA RouterActs ==
  ASSUME ThreadsOK, IssueOK, NEW t \in Threads, NEW label, RouterOK(thread[t], label),
         ActionStep(t) \/ ActionFails(t)
  PROVE  /\ \E next : thread' = [thread EXCEPT ![t] = next] /\ RouterOK(next, label)
         /\ label \in github.labels => label \in github'.labels
         /\ Private(label) /\ label \in github'.labels => label \in github.labels
<1> DEFINE s == thread[t]
           Same == github'.labels = github.labels
<1>a. s.stage \in ActionStages
  BY StagesOfActions DEF ActionStep, ActionRead, ActionRemove, ActionAdd, ActionComment,
     ActionReread, ActionStore, ActionRefused, ActionFails, At, ActionStages
<1>f. /\ DOMAIN s = DOMAIN Rest /\ s.job = None /\ s.then = "markApplied" /\ s.orElse = "idle"
      /\ s.left \in Seq(Labels \ {label}) /\ (s.stage = "actionRemove" => s.left # <<>>)
      /\ Private(label) => label \notin s.action.add
  BY <1>a, Prepared DEF Shape, RouterOK
\* The action goes on.
<1>m. ASSUME NEW next, Become(t, next), next.job = None, next.then = "markApplied",
             next.action = s.action, next.left \in Seq(Labels \ {label}),
             next.stage = "actionRemove" => next.left # <<>>
      PROVE  \E n : thread' = [thread EXCEPT ![t] = n] /\ RouterOK(n, label)
  BY <1>f, <1>m, Prepared DEF RouterOK
<1>n. ASSUME NEW next, Become(t, next), next.job = None, next.stage \notin ActionStages
      PROVE  \E n : thread' = [thread EXCEPT ![t] = n] /\ RouterOK(n, label)
  BY <1>n, RestingRouter, Prepared
<1>u. UNCHANGED github => Same
  OBVIOUS
<1>1. CASE ActionRead(t)
  <2>1. PICK stage : stage = IF s.left # <<>> THEN "actionRemove" ELSE AfterRemove(s.action)
    OBVIOUS
  <2>2. PICK next : next = [s EXCEPT !.before = github.labels, !.issue = github, !.stage = stage]
    OBVIOUS
  <2>3. Become(t, next) /\ UNCHANGED github
    BY <1>1, <2>1, <2>2 DEF ActionRead, issueVars
  <2>4. /\ next.job = None /\ next.then = "markApplied" /\ next.action = s.action
        /\ next.left = s.left /\ next.stage = stage
    BY <1>f, <2>2, RestFields
  <2>5. stage = "actionRemove" => s.left # <<>>
    BY <2>1, LaterStages
  <2>6. QED BY <1>f, <1>m, <1>u, <2>3, <2>4, <2>5
<1>2. CASE ActionRemove(t)
  <2>0. s.stage = "actionRemove" /\ s.left # <<>>
    BY <1>2, <1>f DEF ActionRemove, At
  <2>1. PICK removed : removed = Head(s.left)
    OBVIOUS
  <2>2. removed # label /\ Tail(s.left) \in Seq(Labels \ {label})
    BY <1>f, <2>0, <2>1
  <2>3. PICK left : left = IF removed \in github.labels THEN Tail(s.left) ELSE <<>>
    OBVIOUS
  <2>4. left \in Seq(Labels \ {label})
    BY <2>2, <2>3
  <2>5. PICK stage : stage = IF left # <<>> THEN s.stage ELSE AfterRemove(s.action)
    OBVIOUS
  <2>6. PICK next : next = [s EXCEPT !.left = left, !.stage = stage]
    OBVIOUS
  <2>7. Become(t, [s EXCEPT !.left = left, !.stage = IF left # <<>> THEN @ ELSE AfterRemove(s.action)])
        /\ SetLabels(github.labels \ {removed})
    BY <1>2, <2>1, <2>3, Zenon DEF ActionRemove
  <2>8. Become(t, next)
    BY <2>5, <2>6, <2>7
  <2>9. /\ next.job = None /\ next.then = "markApplied" /\ next.action = s.action
        /\ next.left = left /\ next.stage = stage
    BY <1>f, <2>6, RestFields
  <2>10. stage = "actionRemove" => left # <<>>
    BY <2>5, LaterStages
  <2>11. github'.labels = github.labels \ {removed}
    BY <2>7, LabelsAfter
  <2>12. QED BY <1>m, <2>2, <2>4, <2>8, <2>9, <2>10, <2>11
<1>3. CASE ActionAdd(t) \/ ActionComment(t)
  <2>1. PICK stage \in {"actionComment", "actionReread"} : GoTo(t, stage)
    BY <1>3, LaterStages DEF ActionAdd, ActionComment
  <2>2. PICK next : next = [s EXCEPT !.stage = stage]
    OBVIOUS
  <2>3. Become(t, next)
    BY <2>1, <2>2, Prepared DEF Become
  <2>4. /\ next.job = None /\ next.then = "markApplied" /\ next.action = s.action
        /\ next.left = s.left /\ next.stage = stage
    BY <1>f, <2>2, RestFields
  <2>5. Same \/ github'.labels = github.labels \cup s.action.add
    BY <1>3, LabelsAfter DEF ActionAdd, ActionComment
  <2>6. QED BY <1>f, <1>m, <2>3, <2>4, <2>5
<1>4. CASE ActionReread(t)
  <2>1. PICK next : next = [s EXCEPT !.issue = github, !.stage = "actionStore"]
    OBVIOUS
  <2>2. Become(t, next) /\ UNCHANGED github
    BY <1>4, <2>1 DEF ActionReread, issueVars
  <2>3. /\ next.job = None /\ next.then = "markApplied" /\ next.action = s.action
        /\ next.left = s.left /\ next.stage = "actionStore"
    BY <1>f, <2>1, RestFields
  <2>4. QED BY <1>f, <1>m, <1>u, <2>2, <2>3
<1>5. CASE ActionStore(t)
  <2>1. PICK next : next = [s EXCEPT !.stage = s.then, !.action = NoAction]
    OBVIOUS
  <2>2. Become(t, next) /\ UNCHANGED github
    BY <1>5, <2>1 DEF ActionStore, issueVars
  <2>3. next.job = None /\ next.stage = "markApplied"
    BY <1>f, <2>1, RestFields
  <2>4. QED BY <1>n, <1>u, <2>2, <2>3, StagesOfActions
<1>6. CASE ActionRefused(t)
  BY <1>6, <1>n, <1>u, RestFields, StagesOfActions DEF ActionRefused, Drop, issueVars
<1>7. CASE ActionFails(t)
  <2>1. Become(t, Rest)
    BY <1>7, <1>f DEF ActionFails
  <2>2. Same
    BY <1>7, LabelsAfter DEF ActionFails, issueVars
  <2>3. QED BY <1>n, <2>1, <2>2, RestFields, StagesOfActions
<1>8. QED BY <1>1, <1>2, <1>3, <1>4, <1>5, <1>6, <1>7 DEF ActionStep

-----------------------------------------------------------------------------
(* Steps that are not of a worker *)

SameCommands ==
  \A key \in Launched :
    /\ key \in DOMAIN jobs'
    /\ jobs'[key].status = jobs[key].status
    /\ jobs'[key].owner = jobs[key].owner
    /\ jobs'[key].phase = jobs[key].phase

NoMoreCommands == Out' \subseteq Out /\ Launched' \subseteq Launched

Beside(label) ==
  /\ \A t \in Workers : thread'[t] = thread[t]
  /\ \A t \in Threads \ Workers : RouterOK(thread'[t], label)
  /\ NoMoreCommands /\ transitions' = transitions
  /\ label \in github.labels => label \in github'.labels
  /\ Private(label) /\ label \in github'.labels => label \in github.labels
  /\ (troubles' = troubles /\ SameCommands) \/ troubles' = troubles + 1

\* No row is launched, or runs again.
LEMMA RowsDoNotLaunch ==
  ASSUME \A key \in DOMAIN jobs' :
           /\ jobs'[key].phase = "launched" => key \in Launched
           /\ jobs'[key].phase = "launched" /\ jobs'[key].status = "running" => key \in Running
  PROVE  NoMoreCommands
BY DEF NoMoreCommands, Out, Launched, Running

\* One row is written, all others stay.
LEMMA OneRowWritten ==
  ASSUME RowsOK, NEW key \in DOMAIN jobs, NEW row, SetJob(key, row),
         row.phase = "launched" => jobs[key].phase = "launched",
         row.status = "running" => jobs[key].status = "running" \/ row.phase # "launched"
  PROVE  /\ NoMoreCommands
         /\ \/ key \notin Launched
            \/ /\ row.status = jobs[key].status /\ row.owner = jobs[key].owner
               /\ row.phase = jobs[key].phase
            => SameCommands
<1>1. /\ DOMAIN jobs' = DOMAIN jobs /\ jobs'[key] = row
      /\ \A k \in DOMAIN jobs \ {key} : jobs'[k] = jobs[k]
  BY WrittenRow
<1>2. NoMoreCommands
  BY <1>1, RowsDoNotLaunch DEF Launched, Running
<1>3. QED BY <1>1, <1>2 DEF SameCommands, Launched

LEMMA JobsAlone ==
  ASSUME jobs' = jobs
  PROVE  NoMoreCommands /\ SameCommands
BY DEF NoMoreCommands, SameCommands, Out, Launched, Running

LEMMA FinishingStays ==
  ASSUME NEW t \in Threads, Finishing(t), thread'[t] = thread[t], SameCommands
  PROVE  Finishing(t)'
<1>1. jobs'[thread[t].job].phase = "launched" /\ thread[t].job \in DOMAIN jobs'
  BY DEF Finishing, SameCommands, Launched
<1>2. Holds(t)'
  BY DEF Finishing, Holds, SameCommands
<1>3. QED BY <1>1, <1>2 DEF Finishing, Launched

\* After a trouble there is room for one more.
LEMMA TroubleSpares ==
  ASSUME RowsOK, NEW label, CommandsOK(label), Out' \subseteq Out, troubles' = troubles + 1
  PROVE  troubles' \in Nat /\ Spare' /\ Cardinality(Out)' <= troubles' + 1
<1>1. Cardinality(Out)' \in Nat /\ Cardinality(Out)' <= Cardinality(Out) /\ Cardinality(Out) \in Nat
  BY FewerCommands, CommandsAreCounted
<1>2. troubles \in Nat /\ Cardinality(Out) <= troubles + 1
  BY DEF CommandsOK
<1>3. QED BY <1>1, <1>2 DEF Spare

\* Without one, what room there was is left.
LEMMA RoomStays ==
  ASSUME RowsOK, NEW label, CommandsOK(label), Out' \subseteq Out, troubles' = troubles
  PROVE  troubles' \in Nat /\ (Spare => Spare') /\ Cardinality(Out)' <= troubles' + 1
<1>1. Cardinality(Out)' \in Nat /\ Cardinality(Out)' <= Cardinality(Out) /\ Cardinality(Out) \in Nat
  BY FewerCommands, CommandsAreCounted
<1>2. troubles \in Nat /\ Cardinality(Out) <= troubles + 1
  BY DEF CommandsOK
<1>3. QED BY <1>1, <1>2 DEF Spare

\* With room to spare only a worker that launches matters.
LEMMA SpareFits ==
  ASSUME NEW t, NEW label, Spare',
         thread'[t].stage \in ActionStages =>
           /\ thread'[t].then # "markApplied"
           /\ thread'[t].then = "started" => label \in thread'[t].action.add,
         Raised(thread'[t]) => label \in github'.labels
  PROVE  WorkerOK(t, label)'
BY DEF WorkerOK

LEMMA BesideKeepsCommands ==
  ASSUME RowsOK, NEW label, CommandsOK(label), Beside(label)
  PROVE  CommandsOK(label)'
<1>1. \A t \in Workers : thread'[t] = thread[t] /\ WorkerOK(t, label)
  BY DEF Beside, CommandsOK
<1>l. label \notin github'.labels => label \notin github.labels
  BY DEF Beside
<1>2. CASE troubles' = troubles /\ SameCommands
  <2>1. troubles' \in Nat /\ (Spare => Spare') /\ Cardinality(Out)' <= troubles' + 1
    BY <1>2, RoomStays DEF Beside, NoMoreCommands
  <2>2. ASSUME NEW t \in Workers PROVE WorkerOK(t, label)'
    <3>1. Finishing(t) => Finishing(t)'
      BY <1>1, <1>2, FinishingStays, WorkflowAssumption
    <3>2. CASE Spare
      BY <1>1, <1>l, <2>1, <3>2, SpareFits DEF WorkerOK, Beside
    <3>3. CASE ~Spare
      <4>1. thread'[t] = thread[t] /\ WorkerOK(t, label)
        BY <1>1
      <4>2. QED BY <1>l, <2>1, <3>1, <3>3, <4>1 DEF WorkerOK, Beside
    <3>4. QED BY <3>2, <3>3
  <2>3. QED BY <2>1, <2>2 DEF CommandsOK, Beside
<1>3. CASE troubles' = troubles + 1
  <2>1. troubles' \in Nat /\ Spare' /\ Cardinality(Out)' <= troubles' + 1
    BY <1>3, TroubleSpares DEF Beside, NoMoreCommands
  <2>2. ASSUME NEW t \in Workers PROVE WorkerOK(t, label)'
    BY <1>1, <2>1, SpareFits DEF WorkerOK, Beside
  <2>3. QED BY <2>1, <2>2 DEF CommandsOK, Beside
<1>4. QED BY <1>2, <1>3 DEF Beside

LEMMA BesideKeepsLaunches ==
  ASSUME RowsOK, BudgetsOK, NEW label, Private(label), LaunchesOK(label), Beside(label)
  PROVE  LaunchesOK(label)'
<1>1. \A t \in Workers : thread'[t] = thread[t] /\ LabelOK(t, label)
  BY DEF Beside, LaunchesOK
<1>2. label \in github'.labels <=> label \in github.labels
  BY DEF Beside
<1>3. /\ Cardinality(Launched)' \in Nat /\ Cardinality(Launched)' <= Cardinality(Launched)
      /\ Cardinality(Launched) \in Nat /\ transitions' = transitions /\ transitions \in Nat
  BY FewerCommands, CommandsAreCounted DEF Beside, NoMoreCommands, BudgetsOK
<1>m. MaxTransitions \in Nat
  BY WorkflowAssumption
<1>4. \A t \in Workers : LabelOK(t, label)'
  BY <1>1, <1>2, <1>3, <1>m DEF LabelOK
<1>5. QED BY <1>3, <1>4, <1>m DEF LaunchesOK

\* A goroutine that polls takes a step.
LEMMA RouterIsBeside ==
  ASSUME ThreadsOK, IssueOK, RowsOK, NEW label, CommandsOK(label), Separates(label),
         NEW t \in Threads \ Workers,
         \/ (RouterStep(t) \/ PollFails(t)) /\ UNCHANGED budgetVars
         \/ ActionFails(t) /\ UNCHANGED <<routingVars, budgetVars>>
         \/ Crash(t)
  PROVE  Beside(label)
<1>r. \A u \in Threads \ Workers : RouterOK(thread[u], label)
  BY DEF CommandsOK
<1>w. Workers \subseteq Threads /\ DOMAIN thread = Threads
  BY WorkflowAssumption DEF ThreadsOK
\* It moves, and the rows stay as they were.
<1>1. ASSUME NEW next, thread' = [thread EXCEPT ![t] = next], RouterOK(next, label),
             NoMoreCommands, transitions' = transitions,
             label \in github.labels => label \in github'.labels,
             Private(label) /\ label \in github'.labels => label \in github.labels,
             (troubles' = troubles /\ SameCommands) \/ troubles' = troubles + 1
      PROVE  Beside(label)
  BY <1>1, <1>r, <1>w DEF Beside
<1>2. CASE (ActionStep(t) \/ ActionFails(t)) /\ UNCHANGED budgetVars
  <2>1. UNCHANGED jobs /\ (UNCHANGED troubles \/ troubles' = troubles + 1)
    BY <1>2 DEF ActionStep, ActionRead, ActionRemove, ActionAdd, ActionComment, ActionReread,
       ActionStore, ActionRefused, ActionFails, Trouble
  <2>2. QED BY <1>1, <1>2, <1>r, <2>1, RouterActs, JobsAlone DEF budgetVars
<1>3. CASE EnqueueJob(t) /\ UNCHANGED budgetVars
  <2>1. PICK next : thread' = [thread EXCEPT ![t] = next] /\ RouterOK(next, label)
                    /\ UNCHANGED github
    BY <1>3, <1>r, RouterPolls
  <2>2. PICK key : jobs' = [k \in DOMAIN jobs \cup {key} |->
                              IF k \in DOMAIN jobs THEN jobs[k] ELSE NewJob]
    BY <1>3 DEF EnqueueJob
  <2>3. NewJob.phase = "new"
    BY DEF NewJob
  <2>4. NoMoreCommands
    BY <2>2, <2>3, RowsDoNotLaunch DEF Launched, Running
  <2>5. SameCommands /\ troubles' = troubles
    BY <1>3, <2>2 DEF SameCommands, Launched, EnqueueJob
  <2>6. QED BY <1>1, <1>3, <2>1, <2>4, <2>5 DEF budgetVars
<1>4. CASE /\ \/ ListOpenIssues(t) \/ UpsertIssue(t) \/ ListIssueComments(t) \/ UpsertHandoff(t)
              \/ ListRoutableIssues(t) \/ CheckGate(t) \/ RecordGateBlock(t)
              \/ MarkGateBlockActionApplied(t) \/ PollFails(t)
           /\ UNCHANGED budgetVars
  <2>1. UNCHANGED jobs /\ (UNCHANGED troubles \/ troubles' = troubles + 1)
    BY <1>4 DEF ListOpenIssues, UpsertIssue, ListIssueComments, UpsertHandoff, ListRoutableIssues,
       CheckGate, RecordGateBlock, MarkGateBlockActionApplied, PollFails, Trouble
  <2>2. PICK next : thread' = [thread EXCEPT ![t] = next] /\ RouterOK(next, label)
                    /\ UNCHANGED github
    BY <1>4, <1>r, RouterPolls, RouterBlocks
  <2>3. QED BY <1>1, <1>4, <2>1, <2>2, JobsAlone DEF budgetVars
<1>5. CASE Crash(t)
  <2>1. thread' = [thread EXCEPT ![t] = Rest] /\ RouterOK(Rest, label)
    BY <1>5, RestingRouter, RestFields, StagesOfActions DEF Crash, Drop, Become
  <2>2. /\ DOMAIN jobs' = DOMAIN jobs
        /\ \A key \in DOMAIN jobs : jobs'[key] = jobs[key]
                                    \/ jobs'[key] = [jobs[key] EXCEPT !.owner = Gone]
    BY <1>5 DEF Crash
  <2>3. \A row : [row EXCEPT !.owner = Gone].status = row.status
                 /\ [row EXCEPT !.owner = Gone].phase = row.phase
    OBVIOUS
  <2>4. NoMoreCommands
    BY <2>2, <2>3, RowsDoNotLaunch DEF Launched, Running
  <2>5. troubles' = troubles + 1 /\ UNCHANGED <<github, transitions>>
    BY <1>5 DEF Crash, Trouble, issueVars, budgetVars
  <2>6. QED BY <1>1, <2>1, <2>4, <2>5
<1>6. QED BY <1>2, <1>3, <1>4, <1>5 DEF RouterStep

\* A step of nobody, or of people.
LEMMA OutsideIsBeside ==
  ASSUME ThreadsOK, IssueOK, RowsOK, NEW label, CommandsOK(label), Outside
  PROVE  Beside(label)
<1>r. \A u \in Threads \ Workers : RouterOK(thread[u], label)
  BY DEF CommandsOK
<1>1. ASSUME thread' = thread, NoMoreCommands, transitions' = transitions,
             label \in github.labels => label \in github'.labels,
             Private(label) /\ label \in github'.labels => label \in github.labels,
             (troubles' = troubles /\ SameCommands) \/ troubles' = troubles + 1
      PROVE  Beside(label)
  BY <1>1, <1>r DEF Beside
<1>2. CASE Edit
  <2>1. \/ \E added \in UserLabels : github'.labels = github.labels \cup {added}
        \/ github'.labels = github.labels
    <3>1. DOMAIN github = {"state", "labels", "body", "updated"}
      BY DEF IssueOK, Issue
    <3>2. \A n, x : [github EXCEPT !.body = x, !.updated = n].labels = github.labels
                    /\ [github EXCEPT !.state = x, !.updated = n].labels = github.labels
      BY <3>1
    <3>3. QED BY <1>2, <3>2, LabelsAfter DEF Edit
  <2>2. thread' = thread /\ jobs' = jobs /\ troubles' = troubles /\ transitions' = transitions
    BY <1>2 DEF Edit
  <2>3. QED BY <1>1, <2>1, <2>2, JobsAlone DEF Private
<1>3. ASSUME NEW key \in DOMAIN jobs, NEW row, SetJob(key, row), thread' = thread,
             UNCHANGED <<github, transitions>>,
             row.phase = "launched" => jobs[key].phase = "launched",
             row.status = "running" => jobs[key].status = "running",
             \/ /\ troubles' = troubles
                /\ \/ key \notin Launched
                   \/ /\ row.status = jobs[key].status /\ row.owner = jobs[key].owner
                      /\ row.phase = jobs[key].phase
             \/ troubles' = troubles + 1
      PROVE  Beside(label)
  BY <1>1, <1>3, OneRowWritten
<1>4. ASSUME NEW key \in DOMAIN jobs, CommandEnds(key)
      PROVE  Beside(label)
  <2>1. PICK r, row : row = [jobs[key] EXCEPT !.outcome = r.outcome, !.result = r]
                      /\ SetJob(key, row)
    BY <1>4 DEF CommandEnds
  <2>2. row.phase = jobs[key].phase /\ row.status = jobs[key].status /\ row.owner = jobs[key].owner
    BY <2>1
  <2>3. QED BY <1>3, <1>4, <2>1, <2>2 DEF CommandEnds, issueVars, budgetVars
<1>5. ASSUME NEW key \in DOMAIN jobs, LoseJob(key)
      PROVE  Beside(label)
  <2>1. PICK row : row = [jobs[key] EXCEPT !.owner = Gone] /\ SetJob(key, row)
    BY <1>5 DEF LoseJob
  <2>2. row.phase = jobs[key].phase /\ row.status = jobs[key].status
    BY <2>1
  <2>3. QED BY <1>3, <1>5, <2>1, <2>2 DEF LoseJob, issueVars, budgetVars, Trouble
<1>6. ASSUME NEW key \in DOMAIN jobs, Requeue(key)
      PROVE  Beside(label)
  <2>1. PICK row : row = [jobs[key] EXCEPT !.status = "pending", !.owner = None, !.phase = "new"]
                   /\ SetJob(key, row)
    BY <1>6 DEF Requeue
  <2>2. key \notin Launched /\ row.phase = "new" /\ row.status = "pending"
    <3>1. RowOK(jobs[key])
      BY DEF RowsOK
    <3>2. QED BY <1>6, <2>1, <3>1, RowFields DEF Requeue
  <2>3. QED BY <1>3, <1>6, <2>1, <2>2 DEF Requeue, issueVars, budgetVars
<1>7. QED BY <1>2, <1>4, <1>5, <1>6 DEF Outside

LEMMA NothingIsBeside ==
  ASSUME NEW label, CommandsOK(label), UNCHANGED workVars
  PROVE  Beside(label)
BY JobsAlone DEF Beside, CommandsOK, workVars, issueVars, budgetVars

-----------------------------------------------------------------------------
(* Workers *)

\* What holds of the worker after its step, and of the counts.
Fits(t, label) ==
  /\ WorkerOK(t, label) /\ troubles \in Nat /\ Cardinality(Out) <= troubles + 1
LaunchFits(t, label) ==
  /\ LabelOK(t, label)
  /\ Cardinality(Launched) <= transitions /\ Cardinality(Launched) <= MaxTransitions

LEMMA RestingFits ==
  ASSUME NEW t, NEW label, thread'[t].stage \in {"idle", "refresh"},
         label \notin github'.labels => Spare'
  PROVE  WorkerOK(t, label)'
BY StagesOfActions DEF WorkerOK, Launching, Ending, Raised

LEMMA EndingFits ==
  ASSUME NEW t, NEW label, Ending(thread'[t]), ~Launching(thread'[t]),
         thread'[t].stage \in ActionStages => thread'[t].then # "markApplied",
         label \notin github'.labels \/ thread'[t].stage # "settle" => Spare' \/ Finishing(t)'
  PROVE  WorkerOK(t, label)'
BY StagesOfActions DEF WorkerOK, Launching, Ending, Raised

\* Before a job is prepared, and when it ends, nothing is asked of the label.
LEMMA RestingLaunchFits ==
  ASSUME NEW t, NEW label,
         thread'[t].stage \in {"idle", "refresh"} \/ (Ending(thread'[t]) /\ ~Launching(thread'[t]))
  PROVE  LabelOK(t, label)'
BY StagesOfActions DEF LabelOK, Launching, Ending

\* Most steps count nothing.
LEMMA CountsStay ==
  ASSUME RowsOK, BudgetsOK, NEW label, LaunchesOK(label), NoMoreCommands,
         transitions' = transitions
  PROVE  /\ Cardinality(Launched)' <= transitions' /\ Cardinality(Launched)' <= MaxTransitions
         /\ Cardinality(Launched)' \in Nat /\ Cardinality(Launched)' <= Cardinality(Launched)
<1>1. /\ Cardinality(Launched)' \in Nat /\ Cardinality(Launched)' <= Cardinality(Launched)
      /\ Cardinality(Launched) \in Nat /\ transitions \in Nat
  BY FewerCommands, CommandsAreCounted DEF NoMoreCommands, BudgetsOK
<1>2. MaxTransitions \in Nat
  BY WorkflowAssumption
<1>3. QED BY <1>1, <1>2 DEF LaunchesOK

\* A call fails, or the daemon: the worker settles its job, or it starts anew.
LEMMA TroubleFits ==
  ASSUME ThreadsOK, RowsOK, BudgetsOK, NEW label, CommandsOK(label), NEW t \in Workers,
         RefreshFails(t) \/ LaunchFails(t) \/ ActionFails(t) \/ Crash(t),
         UNCHANGED transitions
  PROVE  /\ \A u \in Threads \ {t} : thread'[u] = thread[u]
         /\ Fits(t, label)' /\ (LaunchesOK(label) => LaunchFits(t, label)')
<1> DEFINE s == thread[t]
<1>w. t \in Threads /\ DOMAIN thread = Threads
  BY WorkflowAssumption DEF ThreadsOK
<1>f. DOMAIN s = DOMAIN Rest
  BY <1>w, Prepared DEF Shape
<1>1. PICK next : Become(t, next) /\ next.stage \in {"idle", "settle"}
  <2>1. CASE RefreshFails(t) \/ LaunchFails(t)
    <3>1. Become(t, Settle(s, "failed"))
      BY <2>1 DEF RefreshFails, LaunchFails
    <3>2. Settle(s, "failed").stage = "settle"
      BY <1>f, RestFields DEF Settle
    <3>3. QED BY <3>1, <3>2
  <2>2. CASE Crash(t)
    BY <2>2, RestFields DEF Crash, Drop
  <2>3. CASE ActionFails(t)
    <3>1. PICK failed : failed = [s EXCEPT !.stage = s.orElse, !.action = NoAction,
                                           !.left = <<>>, !.status = "failed"]
      OBVIOUS
    <3>2. s.stage \in ActionStages /\ Become(t, IF s.orElse = "idle" THEN Rest ELSE failed)
      BY <2>3, <3>1 DEF ActionFails, ActionStages
    <3>3. s.orElse \in {"idle", "settle"} /\ failed.stage = s.orElse
      BY <1>f, <1>w, <3>1, <3>2, Prepared, RestFields DEF Shape
    <3>4. CASE s.orElse = "idle"
      BY <3>2, <3>4, RestFields
    <3>5. CASE s.orElse = "settle"
      BY <3>2, <3>3, <3>5
    <3>6. QED BY <3>3, <3>4, <3>5
  <2>4. QED BY <2>1, <2>2, <2>3
<1>2. thread'[t] = next /\ thread' = [thread EXCEPT ![t] = next]
  BY <1>1, <1>w DEF Become
<1>3. NoMoreCommands
  <2>1. CASE Crash(t)
    <3>1. /\ DOMAIN jobs' = DOMAIN jobs
          /\ \A key \in DOMAIN jobs : jobs'[key] = jobs[key]
                                      \/ jobs'[key] = [jobs[key] EXCEPT !.owner = Gone]
      BY <2>1 DEF Crash
    <3>2. \A row : [row EXCEPT !.owner = Gone].status = row.status
                   /\ [row EXCEPT !.owner = Gone].phase = row.phase
      OBVIOUS
    <3>3. QED BY <3>1, <3>2, RowsDoNotLaunch DEF Launched, Running
  <2>2. CASE RefreshFails(t) \/ LaunchFails(t) \/ ActionFails(t)
    BY <2>2, JobsAlone DEF RefreshFails, LaunchFails, ActionFails
  <2>3. QED BY <2>1, <2>2
<1>4. troubles' = troubles + 1
  BY DEF RefreshFails, LaunchFails, ActionFails, Crash, Trouble
<1>5. troubles' \in Nat /\ Spare' /\ Cardinality(Out)' <= troubles' + 1
  BY <1>3, <1>4, TroubleSpares DEF NoMoreCommands
<1>6. next.stage \notin ActionStages /\ ~Raised(next)
  BY <1>1, StagesOfActions DEF Raised
<1>7. Fits(t, label)'
  BY <1>2, <1>5, <1>6, SpareFits DEF Fits
<1>8. LabelOK(t, label)'
  BY <1>1, <1>2, <1>6, StagesOfActions DEF LabelOK
<1>9. QED BY <1>2, <1>3, <1>7, <1>8, <1>w, CountsStay DEF LaunchFits

\* A step that leaves the jobs and the counts alone.
LEMMA CalmFits ==
  ASSUME RowsOK, BudgetsOK, NEW label, CommandsOK(label), NEW t \in Workers,
         jobs' = jobs, troubles' = troubles, WorkerOK(t, label)'
  PROVE  /\ Fits(t, label)'
         /\ LaunchesOK(label) /\ LabelOK(t, label)' /\ transitions' = transitions
              => LaunchFits(t, label)'
<1>1. NoMoreCommands
  BY JobsAlone
<1>2. troubles' \in Nat /\ Cardinality(Out)' <= troubles' + 1
  BY <1>1, RoomStays DEF NoMoreCommands
<1>3. QED BY <1>1, <1>2, CountsStay DEF Fits, LaunchFits

LEMMA JobsAloneRoom ==
  ASSUME jobs' = jobs, troubles' = troubles
  PROVE  /\ Spare' = Spare
         /\ \A t : Finishing(t) /\ Ending(thread'[t]) /\ thread'[t].job = thread[t].job
                     => Finishing(t)'
BY DEF Spare, Out, Finishing, Launched, Running, Holds

\* One call of an action of a job.
LEMMA WorkerActs ==
  ASSUME ThreadsOK, IssueOK, RowsOK, BudgetsOK, NEW label, CommandsOK(label), NEW t \in Workers,
         ActionStep(t), UNCHANGED transitions
  PROVE  /\ \A u \in Threads \ {t} : thread'[u] = thread[u]
         /\ Fits(t, label)' /\ (LaunchesOK(label) => LaunchFits(t, label)')
<1> DEFINE s == thread[t]
           Goal == /\ \A u \in Threads \ {t} : thread'[u] = thread[u]
                   /\ Fits(t, label)' /\ (LaunchesOK(label) => LaunchFits(t, label)')
<1>w. t \in Threads /\ DOMAIN thread = Threads
  BY WorkflowAssumption DEF ThreadsOK
<1>j. jobs' = jobs /\ troubles' = troubles
  BY DEF ActionStep, ActionRead, ActionRemove, ActionAdd, ActionComment, ActionReread,
     ActionStore, ActionRefused
<1>a. s.stage \in ActionStages
  BY StagesOfActions DEF ActionStep, ActionRead, ActionRemove, ActionAdd, ActionComment,
     ActionReread, ActionStore, ActionRefused, At, ActionStages
<1>o. WorkerOK(t, label) /\ (LaunchesOK(label) => LabelOK(t, label))
  BY DEF CommandsOK, LaunchesOK
<1>f. DOMAIN s = DOMAIN Rest /\ s.then \in {"started", "finished", "settle"}
  BY <1>a, <1>w, <1>o, Prepared DEF Shape, WorkerOK
<1>s. s.then = "started" => Spare /\ label \in s.action.add
  BY <1>a, <1>o DEF WorkerOK, Launching
<1>t. s.then # "started" => Spare \/ Finishing(t)
  BY <1>a, <1>f, <1>o, StagesOfActions DEF WorkerOK, Ending
<1>n. ASSUME NEW next, Become(t, next), WorkerOK(t, label)', LaunchesOK(label) => LabelOK(t, label)'
      PROVE  Goal
  BY <1>j, <1>n, <1>w, CalmFits, Prepared
\* A final action goes on or is over.
<1>e. ASSUME NEW next, Become(t, next), next.job = s.job, s.then # "started",
             next.then = s.then, next.stage \in ActionStages \/ next.stage = s.then
      PROVE  Goal
  <2>1. thread'[t] = next
    BY <1>e, <1>w DEF Become
  <2>2. Ending(next) /\ ~Launching(next)
    BY <1>e, <1>f, StagesOfActions DEF Ending, Launching
  <2>3. Spare' \/ Finishing(t)'
    BY <1>e, <1>j, <1>t, <2>1, <2>2, JobsAloneRoom
  <2>4. WorkerOK(t, label)'
    BY <1>e, <1>f, <2>1, <2>2, <2>3, EndingFits
  <2>5. LabelOK(t, label)'
    BY <2>1, <2>2, RestingLaunchFits
  <2>6. QED BY <1>e, <1>n, <2>4, <2>5
\* An action goes on.
<1>m. ASSUME NEW next, Become(t, next), next.job = s.job, next.then = s.then,
             next.action = s.action, next.stage \in ActionStages \ {"actionRead"},
             Raised(next) => label \in github'.labels,
             LaunchesOK(label) /\ s.then = "started" =>
               label \notin next.before
               /\ (next.stage = "actionStore" => label \in next.issue.labels)
      PROVE  Goal
  <2>1. thread'[t] = next
    BY <1>m, <1>w DEF Become
  <2>2. CASE s.then # "started"
    BY <1>e, <1>m, <2>2
  <2>3. CASE s.then = "started"
    <3>1. Spare'
      BY <1>j, <1>s, <2>3, JobsAloneRoom
    <3>2. WorkerOK(t, label)'
      BY <1>m, <1>s, <2>1, <2>3, <3>1, SpareFits
    <3>3. LaunchesOK(label) => LabelOK(t, label)'
      BY <1>m, <2>1, <2>3, StagesOfActions DEF LabelOK
    <3>4. QED BY <1>m, <1>n, <3>2, <3>3
  <2>4. QED BY <2>2, <2>3
<1>1. CASE ActionRead(t)
  <2>1. PICK stage : stage = IF s.left # <<>> THEN "actionRemove" ELSE AfterRemove(s.action)
    OBVIOUS
  <2>2. PICK next : next = [s EXCEPT !.before = github.labels, !.issue = github, !.stage = stage]
    OBVIOUS
  <2>3. Become(t, next) /\ UNCHANGED github /\ s.stage = "actionRead"
    BY <1>1, <2>1, <2>2 DEF ActionRead, issueVars, At
  <2>4. /\ next.job = s.job /\ next.then = s.then /\ next.action = s.action
        /\ next.before = github.labels /\ next.stage = stage
    BY <1>f, <2>2, RestFields
  <2>5. stage \in ActionStages \ {"actionRead"}
    BY <2>1, LaterStages, StagesOfActions
  <2>6. s.then = "started" => stage \in {"actionRemove", "actionAdd"}
    BY <1>s, <2>1 DEF AfterRemove
  <2>7. ~Raised(next)
    BY <2>4, <2>5, <2>6, StagesOfActions DEF Raised
  <2>8. LaunchesOK(label) /\ s.then = "started" => label \notin github.labels
    BY <1>o, <2>3 DEF LabelOK
  <2>9. QED BY <1>m, <2>3, <2>4, <2>5, <2>6, <2>7, <2>8
<1>2. CASE ActionRemove(t)
  <2>0. s.stage = "actionRemove"
    BY <1>2 DEF ActionRemove, At
  <2>1. PICK left : Become(t, [s EXCEPT !.left = left,
                                 !.stage = IF left # <<>> THEN @ ELSE AfterRemove(s.action)])
    BY <1>2, Zenon DEF ActionRemove
  <2>2. PICK stage : stage = IF left # <<>> THEN s.stage ELSE AfterRemove(s.action)
    OBVIOUS
  <2>3. PICK next : next = [s EXCEPT !.left = left, !.stage = stage]
    OBVIOUS
  <2>4. Become(t, next)
    BY <2>1, <2>2, <2>3
  <2>5. /\ next.job = s.job /\ next.then = s.then /\ next.action = s.action
        /\ next.before = s.before /\ next.stage = stage
    BY <1>f, <2>3, RestFields
  <2>6. stage \in ActionStages \ {"actionRead"}
    BY <2>0, <2>2, LaterStages, StagesOfActions
  <2>7. s.then = "started" => stage \in {"actionRemove", "actionAdd"}
    BY <1>s, <2>0, <2>2 DEF AfterRemove
  <2>8. ~Raised(next)
    BY <2>5, <2>6, <2>7, StagesOfActions DEF Raised
  <2>9. LaunchesOK(label) /\ s.then = "started" => label \notin s.before
    BY <1>o, <2>0, StagesOfActions DEF LabelOK
  <2>10. QED BY <1>m, <2>4, <2>5, <2>6, <2>7, <2>8, <2>9
<1>3. CASE ActionAdd(t) \/ ActionComment(t)
  <2>0. s.stage \in {"actionAdd", "actionComment"}
    BY <1>3 DEF ActionAdd, ActionComment, At
  <2>1. PICK stage \in {"actionComment", "actionReread"} : GoTo(t, stage)
    BY <1>3, LaterStages DEF ActionAdd, ActionComment
  <2>2. PICK next : next = [s EXCEPT !.stage = stage]
    OBVIOUS
  <2>3. Become(t, next)
    BY <1>w, <2>1, <2>2, Prepared DEF Become
  <2>4. /\ next.job = s.job /\ next.then = s.then /\ next.action = s.action
        /\ next.before = s.before /\ next.stage = stage
    BY <1>f, <2>2, RestFields
  <2>5. s.then = "started" => label \in github'.labels
    <3>1. CASE ActionAdd(t)
      BY <1>s, <3>1, LabelsAfter DEF ActionAdd
    <3>2. CASE ActionComment(t)
      <4>1. s.stage = "actionComment"
        BY <3>2 DEF ActionComment, At
      <4>2. s.then = "started" => label \in github.labels
        BY <1>o, <4>1 DEF WorkerOK, Raised
      <4>3. QED BY <3>2, <4>2, LabelsAfter DEF ActionComment
    <3>3. QED BY <1>3, <3>1, <3>2
  <2>6. LaunchesOK(label) /\ s.then = "started" => label \notin s.before
    BY <1>o, <2>0, StagesOfActions DEF LabelOK
  <2>7. Raised(next) => label \in github'.labels
    BY <2>4, <2>5 DEF Raised
  <2>8. stage \in ActionStages \ {"actionRead"} /\ stage # "actionStore"
    BY StagesOfActions
  <2>9. QED BY <1>m, <2>3, <2>4, <2>6, <2>7, <2>8
<1>4. CASE ActionReread(t)
  <2>1. PICK next : next = [s EXCEPT !.issue = github, !.stage = "actionStore"]
    OBVIOUS
  <2>2. Become(t, next) /\ UNCHANGED github /\ s.stage = "actionReread"
    BY <1>4, <2>1 DEF ActionReread, issueVars, At
  <2>3. /\ next.job = s.job /\ next.then = s.then /\ next.action = s.action
        /\ next.before = s.before /\ next.stage = "actionStore" /\ next.issue = github
    BY <1>f, <2>1, RestFields
  <2>4. s.then = "started" => label \in github.labels
    BY <1>o, <2>2 DEF WorkerOK, Raised
  <2>5. Raised(next) => label \in github'.labels
    BY <2>2, <2>3, <2>4 DEF Raised
  <2>6. LaunchesOK(label) /\ s.then = "started" => label \notin s.before
    BY <1>o, <2>2, StagesOfActions DEF LabelOK
  <2>7. QED BY <1>m, <2>2, <2>3, <2>4, <2>5, <2>6, StagesOfActions
<1>5. CASE ActionStore(t)
  <2>1. PICK next : next = [s EXCEPT !.stage = s.then, !.action = NoAction]
    OBVIOUS
  <2>2. Become(t, next) /\ UNCHANGED github /\ s.stage = "actionStore"
    BY <1>5, <2>1 DEF ActionStore, issueVars, At
  <2>3. /\ next.job = s.job /\ next.then = s.then /\ next.stage = s.then
        /\ next.before = s.before /\ next.issue = s.issue
    BY <1>f, <2>1, RestFields
  <2>4. CASE s.then # "started"
    BY <1>e, <2>2, <2>3, <2>4
  <2>5. CASE s.then = "started"
    <3>1. thread'[t] = next /\ label \in github'.labels
      BY <1>o, <1>w, <2>2, <2>5 DEF Become, WorkerOK, Raised
    <3>2. Spare'
      BY <1>j, <1>s, <2>5, JobsAloneRoom
    <3>3. WorkerOK(t, label)'
      BY <2>3, <2>5, <3>1, <3>2, SpareFits, StagesOfActions
    <3>4. LaunchesOK(label) => label \notin s.before /\ label \in s.issue.labels
      BY <1>o, <2>2, <2>5, StagesOfActions DEF LabelOK
    <3>5. LaunchesOK(label) => LabelOK(t, label)'
      BY <2>3, <2>5, <3>1, <3>4, StagesOfActions DEF LabelOK
    <3>6. QED BY <1>n, <2>2, <3>3, <3>5
  <2>6. QED BY <2>4, <2>5
<1>6. CASE ActionRefused(t)
  <2>1. Become(t, Rest) /\ UNCHANGED github /\ ~Holds(t)
    BY <1>6 DEF ActionRefused, Drop, issueVars
  <2>2. label \notin github.labels => Spare
    BY <1>o, <2>1 DEF WorkerOK, Finishing
  <2>3. thread'[t] = Rest /\ (label \notin github'.labels => Spare')
    BY <1>j, <1>w, <2>1, <2>2, JobsAloneRoom DEF Become
  <2>4. WorkerOK(t, label)' /\ LabelOK(t, label)'
    BY <2>3, RestFields, RestingFits, RestingLaunchFits
  <2>5. QED BY <1>n, <2>1, <2>4
<1>7. QED BY <1>1, <1>2, <1>3, <1>4, <1>5, <1>6 DEF ActionStep

\* A job is refreshed and checked, and what its actions changed is counted.
LEMMA WorkerPrepares ==
  ASSUME ThreadsOK, IssueOK, RowsOK, BudgetsOK, NEW label, Separates(label), CommandsOK(label),
         NEW t \in Workers,
         \/ RefreshClaimed(t) \/ RouteStillMatches(t) \/ AttemptScopeHash(t) \/ ActionDone(t)
         \/ FinalizeOwnedObservation(t) \/ Refused(t)
  PROVE  /\ \A u \in Threads \ {t} : thread'[u] = thread[u]
         /\ Fits(t, label)' /\ (LaunchesOK(label) => LaunchFits(t, label)')
<1> DEFINE s == thread[t]
           Goal == /\ \A u \in Threads \ {t} : thread'[u] = thread[u]
                   /\ Fits(t, label)' /\ (LaunchesOK(label) => LaunchFits(t, label)')
<1>w. t \in Threads /\ DOMAIN thread = Threads
  BY WorkflowAssumption DEF ThreadsOK
<1>j. jobs' = jobs /\ troubles' = troubles /\ github' = github /\ transitions' = transitions
  BY DEF RefreshClaimed, RouteStillMatches, AttemptScopeHash, ActionDone,
     FinalizeOwnedObservation, Refused, issueVars, budgetVars
<1>o. WorkerOK(t, label) /\ (LaunchesOK(label) => LabelOK(t, label))
  BY DEF CommandsOK, LaunchesOK
<1>f. Shape(s) /\ DOMAIN s = DOMAIN Rest
  BY <1>w, Prepared DEF Shape
<1>r. Spare' = Spare
  BY <1>j, JobsAloneRoom
<1>n. ASSUME NEW next, Become(t, next), WorkerOK(t, label)', LaunchesOK(label) => LabelOK(t, label)'
      PROVE  Goal
  BY <1>j, <1>n, <1>w, CalmFits, Prepared
\* It is over with the job, or its final action goes on.
<1>e. ASSUME NEW next, Become(t, next), next.job = s.job, Ending(next), ~Launching(next),
             next.stage \notin ActionStages,
             \/ Spare
             \/ Ending(s) /\ s.stage # "settle"
             \/ next.stage = "settle" /\ (label \notin github.labels => Spare)
      PROVE  Goal
  <2>1. thread'[t] = next
    BY <1>e, <1>w DEF Become
  <2>2. Finishing(t) => Finishing(t)'
    BY <1>e, <1>j, <2>1, JobsAloneRoom
  <2>3. label \notin github'.labels \/ next.stage # "settle" => Spare' \/ Finishing(t)'
    BY <1>e, <1>j, <1>o, <1>r, <2>2 DEF WorkerOK
  <2>4. WorkerOK(t, label)'
    BY <1>e, <2>1, <2>3, EndingFits
  <2>5. LabelOK(t, label)'
    BY <1>e, <2>1, RestingLaunchFits
  <2>6. QED BY <1>e, <1>n, <2>4, <2>5
\* It settles a job it has not launched.
<1>d. ASSUME NEW status, Become(t, Settle(s, status)), label \notin github.labels => Spare
      PROVE  Goal
  <2>1. PICK next : next = Settle(s, status)
    OBVIOUS
  <2>2. next.job = s.job /\ next.stage = "settle"
    BY <1>f, <2>1, RestFields DEF Settle
  <2>3. QED BY <1>d, <1>e, <2>1, <2>2, StagesOfActions DEF Ending, Launching
<1>1. CASE RefreshClaimed(t)
  <2>1. PICK next : next = [s EXCEPT !.issue = github, !.stage = "recheck"]
    OBVIOUS
  <2>2. Become(t, next) /\ s.stage = "refresh"
    BY <1>1, <2>1 DEF RefreshClaimed, At
  <2>3. thread'[t] = next /\ next.stage = "recheck" /\ next.issue = github
    BY <1>f, <1>w, <2>1, <2>2, RestFields DEF Become
  <2>4. label \notin github.labels => Spare
    BY <1>o, <2>2, StagesOfActions DEF WorkerOK, Finishing, Ending
  <2>5. WorkerOK(t, label)'
    BY <1>j, <1>r, <2>3, <2>4, StagesOfActions DEF WorkerOK, Ending, Launching, Raised
  <2>6. LabelOK(t, label)'
    BY <1>j, <2>3, StagesOfActions DEF LabelOK
  <2>7. QED BY <1>n, <2>2, <2>5, <2>6
<1>2. CASE RouteStillMatches(t)
  <2>1. s.stage = "recheck" /\ Claiming(s)
    BY <1>2 DEF RouteStillMatches, At, Claiming
  <2>2. CASE StillMatches(RouteOf(t), s.issue)
    <3>1. PICK next : next = [s EXCEPT !.stage = "scope"]
      OBVIOUS
    <3>2. Become(t, next)
      BY <1>2, <2>2, <3>1 DEF RouteStillMatches
    <3>3. thread'[t] = next /\ next.stage = "scope"
      BY <1>f, <1>w, <3>1, <3>2, RestFields DEF Become
    <3>4. label \notin s.issue.labels
      <4>1. s.job \in DOMAIN jobs
        BY <1>w, <2>1, HeldJobs
      <4>2. label \in RouteOf(t).exclude
        BY <4>1, RouteInHand DEF RouteOf, Separates
      <4>3. QED BY <2>2, <4>2 DEF StillMatches, Matches
    <3>5. Spare'
      BY <1>o, <1>r, <2>1, <3>4 DEF WorkerOK
    <3>6. WorkerOK(t, label)'
      BY <3>3, <3>5, SpareFits, StagesOfActions DEF Raised
    <3>7. LaunchesOK(label) => LabelOK(t, label)'
      BY <1>j, <1>o, <2>1, <3>3, <3>4, StagesOfActions DEF LabelOK
    <3>8. QED BY <1>n, <3>2, <3>6, <3>7
  <2>3. CASE ~StillMatches(RouteOf(t), s.issue)
    <3>1. label \notin github.labels => Spare
      BY <1>o, <2>1, StagesOfActions DEF WorkerOK, Finishing, Ending
    <3>2. QED BY <1>2, <1>d, <2>3, <3>1 DEF RouteStillMatches
  <2>4. QED BY <2>2, <2>3
<1>3. CASE AttemptScopeHash(t)
  <2>1. s.stage = "scope" /\ Spare
    BY <1>3, <1>o DEF AttemptScopeHash, At, WorkerOK
  <2>2. CASE Become(t, Settle(s, "skipped"))
    BY <1>d, <2>1, <2>2
  <2>3. CASE ~Become(t, Settle(s, "skipped"))
    <3>1. PICK charge, next : next = [s EXCEPT !.stage = "charge", !.charge = charge]
                              /\ Become(t, next)
      BY <1>3, <2>3, Zenon DEF AttemptScopeHash
    <3>2. thread'[t] = next /\ next.stage = "charge"
      BY <1>f, <1>w, <3>1, RestFields DEF Become
    <3>3. WorkerOK(t, label)'
      BY <1>r, <2>1, <3>2, SpareFits, StagesOfActions DEF Raised
    <3>4. LaunchesOK(label) => LabelOK(t, label)'
      BY <1>j, <1>o, <2>1, <3>2, StagesOfActions DEF LabelOK
    <3>5. QED BY <1>n, <3>1, <3>3, <3>4
  <2>4. QED BY <2>2, <2>3
<1>4. CASE ActionDone(t)
  <2>1. PICK then : then = IF s.stage = "started" THEN "launch" ELSE "settle"
    OBVIOUS
  <2>2. PICK stage : stage = IF s.before # s.issue.labels THEN "count" ELSE then
    OBVIOUS
  <2>3. PICK next : next = [s EXCEPT !.stage = stage, !.then = then, !.issue = None, !.before = {}]
    OBVIOUS
  <2>4. Become(t, next) /\ s.stage \in {"started", "finished"}
    BY <1>4, <2>1, <2>2, <2>3 DEF ActionDone, At, SameLabelSet
  <2>5. /\ thread'[t] = next /\ next.stage = stage /\ next.then = then /\ next.job = s.job
        /\ stage \notin ActionStages
    BY <1>f, <1>w, <2>1, <2>2, <2>3, <2>4, RestFields, StagesOfActions DEF Become
  <2>6. CASE s.stage = "finished"
    BY <1>e, <2>1, <2>2, <2>4, <2>5, <2>6, StagesOfActions DEF Ending, Launching
  <2>7. CASE s.stage = "started"
    <3>1. Spare' /\ label \in github'.labels
      BY <1>j, <1>o, <1>r, <2>7 DEF WorkerOK, Launching, Raised
    <3>2. WorkerOK(t, label)'
      BY <2>5, <3>1, SpareFits
    <3>3. LaunchesOK(label) => stage = "count"
      BY <1>o, <2>2, <2>7 DEF LabelOK
    <3>4. LaunchesOK(label) => LabelOK(t, label)'
      BY <2>5, <3>3, StagesOfActions DEF LabelOK
    <3>5. QED BY <1>n, <2>4, <3>2, <3>4
  <2>8. QED BY <2>4, <2>6, <2>7
<1>5. CASE FinalizeOwnedObservation(t)
  <2>a. PICK key \in Launched \cap Running :
          /\ jobs[key].owner = t
          /\ \E action, cause :
               Become(t, Applying([Rest EXCEPT !.job = key, !.status = jobs[key].outcome],
                                  action, cause, "finished", "settle"))
    BY <1>5, Zenon DEF FinalizeOwnedObservation
  <2>0. PICK action, cause :
          Become(t, Applying([Rest EXCEPT !.job = key, !.status = jobs[key].outcome],
                             action, cause, "finished", "settle"))
    BY <2>a
  <2>s. PICK start : start = [Rest EXCEPT !.job = key, !.status = jobs[key].outcome]
    OBVIOUS
  <2>1. PICK next : next = Applying(start, action, cause, "finished", "settle")
    OBVIOUS
  <2>b. Become(t, next) /\ jobs[key].owner = t
    BY <2>a, <2>0, <2>s, <2>1
  <2>2. DOMAIN start = DOMAIN Rest /\ start.job = key
    BY <2>s, RestFields
  <2>3. next.stage = "actionRead" /\ next.then = "finished" /\ next.job = key
    BY <2>1, <2>2, ApplyingFields
  <2>4. thread'[t] = next
    BY <1>w, <2>b DEF Become
  <2>5. Ending(next) /\ ~Launching(next)
    BY <2>3, StagesOfActions DEF Ending, Launching
  <2>6. Finishing(t)'
    BY <1>j, <2>b, <2>3, <2>4, <2>5 DEF Finishing, Holds, Launched, Running
  <2>7. WorkerOK(t, label)'
    BY <2>3, <2>4, <2>5, <2>6, EndingFits
  <2>8. LabelOK(t, label)'
    BY <2>4, <2>5, RestingLaunchFits
  <2>9. QED BY <1>n, <2>b, <2>7, <2>8
<1>6. CASE Refused(t)
  <2>1. Become(t, Rest) /\ ~Holds(t)
    BY <1>6 DEF Refused, Drop
  <2>2. label \notin github.labels => Spare
    BY <1>o, <2>1 DEF WorkerOK, Finishing
  <2>3. thread'[t] = Rest /\ (label \notin github'.labels => Spare')
    BY <1>j, <1>r, <1>w, <2>1, <2>2 DEF Become
  <2>4. WorkerOK(t, label)' /\ LabelOK(t, label)'
    BY <2>3, RestFields, RestingFits, RestingLaunchFits
  <2>5. QED BY <1>n, <2>1, <2>4
<1>7. QED BY <1>1, <1>2, <1>3, <1>4, <1>5, <1>6

\* Nothing is launched and the transitions do not go back.
LEMMA SlowerCounts ==
  ASSUME RowsOK, BudgetsOK, NEW label, LaunchesOK(label), jobs' = jobs,
         transitions' = transitions + 1
  PROVE  Cardinality(Launched)' <= transitions' /\ Cardinality(Launched)' <= MaxTransitions
<1>1. Cardinality(Launched)' = Cardinality(Launched) /\ Cardinality(Launched) \in Nat
  BY CommandsAreCounted DEF Launched
<1>2. QED BY <1>1 DEF LaunchesOK, BudgetsOK

\* A step that writes a row without a launch.
LEMMA RowFits ==
  ASSUME RowsOK, BudgetsOK, NEW label, CommandsOK(label), NEW t \in Workers,
         NoMoreCommands, troubles' = troubles, WorkerOK(t, label)'
  PROVE  /\ Fits(t, label)'
         /\ LaunchesOK(label) /\ LabelOK(t, label)' /\ transitions' = transitions
              => LaunchFits(t, label)'
<1>1. troubles' \in Nat /\ Cardinality(Out)' <= troubles' + 1
  BY RoomStays DEF NoMoreCommands
<1>2. QED BY <1>1, CountsStay DEF Fits, LaunchFits

\* A worker takes a job, charges it, or takes one over.
LEMMA WorkerWrites ==
  ASSUME ThreadsOK, RowsOK, BudgetsOK, NEW label, Separates(label), CommandsOK(label),
         NEW t \in Workers,
         Claim(t) \/ IncrementAttemptsForJob(t) \/ \E key \in DOMAIN jobs : Adopt(t, key)
  PROVE  /\ \A u \in Threads \ {t} : thread'[u] = thread[u]
         /\ Fits(t, label)' /\ (LaunchesOK(label) => LaunchFits(t, label)')
<1> DEFINE s == thread[t]
           Goal == /\ \A u \in Threads \ {t} : thread'[u] = thread[u]
                   /\ Fits(t, label)' /\ (LaunchesOK(label) => LaunchFits(t, label)')
<1>w. t \in Threads /\ DOMAIN thread = Threads
  BY WorkflowAssumption DEF ThreadsOK
<1>j. troubles' = troubles /\ github' = github /\ transitions' = transitions
  BY DEF Claim, IncrementAttemptsForJob, Adopt, issueVars, budgetVars
<1>o. WorkerOK(t, label) /\ (LaunchesOK(label) => LabelOK(t, label))
  BY DEF CommandsOK, LaunchesOK
<1>f. Shape(s) /\ Linked(s) /\ DOMAIN s = DOMAIN Rest
  BY <1>w, Prepared DEF Shape
<1>n. ASSUME NEW next, thread' = [thread EXCEPT ![t] = next], NoMoreCommands,
             WorkerOK(t, label)', LaunchesOK(label) => LabelOK(t, label)'
      PROVE  Goal
  BY <1>j, <1>n, <1>w, RowFits
<1>i. s.stage = "idle" => (label \notin github.labels => Spare)
  BY <1>o, StagesOfActions DEF WorkerOK, Finishing, Ending
<1>r. NoMoreCommands => (Spare => Spare')
  BY <1>j, RoomStays DEF NoMoreCommands
<1>1. CASE Claim(t)
  <2>1. PICK key \in DOMAIN jobs :
          /\ SetJob(key, [jobs[key] EXCEPT !.status = "running", !.owner = t, !.phase = "claimed"])
          /\ Become(t, [Rest EXCEPT !.stage = "refresh", !.job = key])
    BY <1>1 DEF Claim
  <2>2. PICK row : row = [jobs[key] EXCEPT !.status = "running", !.owner = t, !.phase = "claimed"]
    OBVIOUS
  <2>3. row.phase = "claimed"
    BY <2>2, RowFields DEF RowsOK
  <2>4. NoMoreCommands
    BY <2>1, <2>2, <2>3, OneRowWritten
  <2>5. PICK next : next = [Rest EXCEPT !.stage = "refresh", !.job = key]
    OBVIOUS
  <2>6. thread' = [thread EXCEPT ![t] = next] /\ thread'[t] = next /\ next.stage = "refresh"
    BY <1>w, <2>1, <2>5, RestFields DEF Become
  <2>7. s.stage = "idle"
    BY <1>1 DEF Claim, At
  <2>8. WorkerOK(t, label)' /\ LabelOK(t, label)'
    BY <1>i, <1>j, <1>r, <2>4, <2>6, <2>7, RestingFits, RestingLaunchFits
  <2>9. QED BY <1>n, <2>4, <2>6, <2>8
<1>2. CASE IncrementAttemptsForJob(t)
  <2>0. s.stage = "charge" /\ Claiming(s) /\ Spare
    BY <1>2, <1>o DEF IncrementAttemptsForJob, At, Claiming, WorkerOK
  <2>1. s.job \in DOMAIN jobs
    BY <1>w, <2>0, HeldJobs
  <2>2. PICK row : row = [jobs[s.job] EXCEPT !.charge = s.charge] /\ SetJob(s.job, row)
    BY <1>2 DEF IncrementAttemptsForJob
  <2>3. row.phase = jobs[s.job].phase /\ row.status = jobs[s.job].status
    BY <2>2
  <2>4. NoMoreCommands
    BY <2>1, <2>2, <2>3, OneRowWritten
  <2>5. Spare'
    BY <1>r, <2>0, <2>4
  <2>6. PICK over, start : /\ over = [s EXCEPT !.status = "dead", !.charge = None]
                           /\ start = [s EXCEPT !.charge = None]
    OBVIOUS
  <2>7. PICK late, cause : late = RouteOf(t).onAttemptsExceeded
                           /\ cause = <<"on_attempts_exceeded", s.job>>
    OBVIOUS
  <2>8. PICK go, for : go = RouteOf(t).onStart /\ for = <<"on_start", s.job>>
    OBVIOUS
  <2>9. \/ Become(t, Applying(over, late, cause, "settle", "settle"))
        \/ Become(t, Applying(start, go, for, "started", "settle"))
    BY <1>2, <2>6, <2>7, <2>8, Zenon DEF IncrementAttemptsForJob
  <2>10. DOMAIN over = DOMAIN Rest /\ DOMAIN start = DOMAIN Rest
    BY <1>f, <2>6
  <2>11. label \in go.add
    BY <2>1, <2>8, RouteInHand DEF RouteOf, Separates
  <2>12. PICK next : /\ Become(t, next) /\ next.stage = "actionRead"
                     /\ next.then = "settle" \/ (next.then = "started" /\ next.action = go)
    BY <2>9, <2>10, ApplyingFields
  <2>13. thread' = [thread EXCEPT ![t] = next] /\ thread'[t] = next
    BY <1>w, <2>12 DEF Become
  <2>14. WorkerOK(t, label)'
    BY <2>5, <2>11, <2>12, <2>13, SpareFits, StagesOfActions DEF Raised
  <2>15. LaunchesOK(label) => label \notin github.labels
    BY <1>o, <2>0 DEF LabelOK
  <2>16. LaunchesOK(label) => LabelOK(t, label)'
    BY <1>j, <2>12, <2>13, <2>15, StagesOfActions DEF LabelOK
  <2>17. QED BY <1>n, <2>4, <2>13, <2>14, <2>16
<1>3. ASSUME NEW key \in DOMAIN jobs, Adopt(t, key)
      PROVE  Goal
  <2>1. PICK row : row = [jobs[key] EXCEPT !.owner = t] /\ SetJob(key, row)
    BY <1>3 DEF Adopt
  <2>2. row.phase = jobs[key].phase /\ row.status = jobs[key].status
    BY <2>1
  <2>3. NoMoreCommands
    BY <2>1, <2>2, OneRowWritten
  <2>4. thread' = thread /\ s.stage = "idle"
    BY <1>3 DEF Adopt, At
  <2>5. thread'[t].stage = "idle"
    BY <2>4
  <2>6. WorkerOK(t, label)' /\ LabelOK(t, label)'
    BY <1>i, <1>j, <1>r, <2>3, <2>4, <2>5, RestingFits, RestingLaunchFits
  <2>7. QED BY <1>j, <2>3, <2>4, <2>6, RowFits
<1>4. QED BY <1>1, <1>2, <1>3

\* A job is settled: if its command was among those at work, there is room for another.
LEMMA WorkerSettles ==
  ASSUME ThreadsOK, RowsOK, BudgetsOK, NEW label, CommandsOK(label), NEW t \in Workers,
         FinalizeJobOwned(t)
  PROVE  /\ \A u \in Threads \ {t} : thread'[u] = thread[u]
         /\ Fits(t, label)' /\ (LaunchesOK(label) => LaunchFits(t, label)')
<1> DEFINE s == thread[t]
<1>w. t \in Threads /\ DOMAIN thread = Threads
  BY WorkflowAssumption DEF ThreadsOK
<1>j. troubles' = troubles /\ github' = github /\ transitions' = transitions
  BY DEF FinalizeJobOwned, issueVars
<1>o. WorkerOK(t, label)
  BY DEF CommandsOK
<1>s. s.stage = "settle" /\ Ending(s) /\ Holds(t)
  BY DEF FinalizeJobOwned, At, Ending
<1>f. s.status \in Statuses /\ s.job # None /\ s.job \in DOMAIN jobs
  BY <1>s, <1>w, Prepared DEF Shape, Linked, Statuses
<1>1. PICK charge, row : row = [jobs[s.job] EXCEPT !.status = s.status, !.owner = None,
                                                   !.charge = charge]
                         /\ SetJob(s.job, row)
  BY Zenon DEF FinalizeJobOwned
<1>2. row.phase = jobs[s.job].phase /\ row.status = s.status
  BY <1>1, <1>f, RowFields DEF RowsOK
<1>3. row.status # "running"
  BY <1>2, <1>f DEF Statuses, Outcomes
<1>4. NoMoreCommands
  BY <1>1, <1>2, <1>3, <1>f, OneRowWritten
<1>5. thread' = [thread EXCEPT ![t] = Rest] /\ thread'[t] = Rest
  BY <1>w DEF FinalizeJobOwned, Drop, Become
<1>6. s.job \notin Out'
  BY <1>1, <1>3, <1>f, WrittenRow DEF Out, Running
<1>7. Finishing(t) => s.job \in Out
  BY <1>s, <1>f DEF Finishing, Holds, Out, Running
<1>8. Finishing(t) => Spare'
  <2>1. HAVE Finishing(t)
  <2>2. IsFiniteSet(Out) /\ Cardinality(Out) \in Nat /\ s.job \in Out
    BY <1>7, <2>1, CommandsAreCounted
  <2>3. /\ IsFiniteSet(Out \ {s.job})
        /\ Cardinality(Out \ {s.job}) = Cardinality(Out) - 1
    BY <2>2, FS_RemoveElement
  <2>4. Out' \subseteq Out \ {s.job}
    BY <1>4, <1>6 DEF NoMoreCommands
  <2>5. Cardinality(Out)' \in Nat /\ Cardinality(Out)' <= Cardinality(Out) - 1
    BY <2>3, <2>4, FS_Subset, FS_CardinalityType
  <2>6. troubles \in Nat /\ Cardinality(Out) <= troubles + 1
    BY DEF CommandsOK
  <2>7. QED BY <1>j, <2>2, <2>5, <2>6 DEF Spare
<1>9. Spare => Spare'
  BY <1>4, <1>j, RoomStays DEF NoMoreCommands
<1>10. label \notin github'.labels => Spare'
  BY <1>8, <1>9, <1>j, <1>o DEF WorkerOK
<1>11. WorkerOK(t, label)' /\ LabelOK(t, label)'
  BY <1>5, <1>10, RestFields, RestingFits, RestingLaunchFits
<1>12. QED BY <1>4, <1>5, <1>11, <1>j, <1>w, RowFits

\* One more transition; past the limit the job ends.
LEMMA WorkerCounts ==
  ASSUME ThreadsOK, RowsOK, BudgetsOK, NEW label, CommandsOK(label), NEW t \in Workers,
         IncrementTransitionsForJob(t)
  PROVE  /\ \A u \in Threads \ {t} : thread'[u] = thread[u]
         /\ Fits(t, label)' /\ (LaunchesOK(label) => LaunchFits(t, label)')
<1> DEFINE s == thread[t]
<1>w. t \in Threads /\ DOMAIN thread = Threads
  BY WorkflowAssumption DEF ThreadsOK
<1>j. jobs' = jobs /\ troubles' = troubles /\ github' = github /\ transitions' = transitions + 1
  BY DEF IncrementTransitionsForJob, issueVars
<1>o. WorkerOK(t, label)
  BY DEF CommandsOK
<1>s. s.stage = "count" /\ s.then \in {"launch", "settle"} /\ DOMAIN s = DOMAIN Rest
  BY <1>w, Prepared DEF IncrementTransitionsForJob, At, Shape
<1>m. MaxTransitions \in Nat /\ transitions \in Nat
  BY WorkflowAssumption DEF BudgetsOK
<1>1. PICK over, cause : /\ over = [s EXCEPT !.status = "dead"]
                         /\ cause = <<"on_transitions_exceeded", s.job>>
  OBVIOUS
<1>2. PICK late : late = Applying(over, OnTransitionsExceeded, cause, "settle", "settle")
  OBVIOUS
<1>3. PICK on : on = [s EXCEPT !.stage = s.then]
  OBVIOUS
<1>4. /\ late.stage = "actionRead" /\ late.then = "settle" /\ late.job = s.job
      /\ on.stage = s.then /\ on.job = s.job
  <2>1. DOMAIN over = DOMAIN Rest /\ over.job = s.job
    BY <1>1, <1>s, RestFields
  <2>2. QED BY <1>2, <1>3, <1>s, <2>1, ApplyingFields, RestFields
<1>5. \/ Become(t, late)
      \/ Become(t, on) /\ transitions + 1 <= MaxTransitions
  BY <1>1, <1>2, <1>3, <1>j, <1>m DEF IncrementTransitionsForJob, Exceeds
<1>6. PICK next : Become(t, next) /\ (next = late \/ (next = on /\ transitions + 1 <= MaxTransitions))
  BY <1>5
<1>7. thread' = [thread EXCEPT ![t] = next] /\ thread'[t] = next
  BY <1>6, <1>w DEF Become
<1>8. Spare' = Spare /\ (Finishing(t) /\ Ending(next) => Finishing(t)')
  BY <1>4, <1>6, <1>7, <1>j, JobsAloneRoom
<1>9. CASE s.then = "settle"
  <2>1. \/ Ending(next) /\ ~Launching(next) /\ next.then # "markApplied"
        \/ next.stage = "settle"
    BY <1>4, <1>6, <1>9, StagesOfActions DEF Ending, Launching
  <2>2. Ending(next) /\ ~Launching(next)
        /\ (next.stage \in ActionStages => next.then # "markApplied")
    BY <2>1, StagesOfActions DEF Ending, Launching
  <2>3. Spare' \/ Finishing(t)'
    BY <1>8, <1>9, <1>o, <1>s, <2>2 DEF WorkerOK, Ending
  <2>4. WorkerOK(t, label)' /\ LabelOK(t, label)'
    BY <1>7, <2>2, <2>3, EndingFits, RestingLaunchFits
  <2>5. QED BY <1>7, <1>j, <1>w, <2>4, CalmFits, SlowerCounts DEF LaunchFits
<1>10. CASE s.then = "launch"
  <2>1. Spare' /\ label \in github'.labels
    BY <1>8, <1>10, <1>j, <1>o, <1>s DEF WorkerOK, Launching, Raised
  <2>2. next.stage \in ActionStages => next.then = "settle"
    BY <1>4, <1>6, <1>10, StagesOfActions
  <2>3. WorkerOK(t, label)'
    BY <1>7, <2>1, <2>2, SpareFits
  <2>4. LaunchesOK(label) => LabelOK(t, label)'
    <3>1. HAVE LaunchesOK(label)
    <3>2. /\ Cardinality(Launched)' = Cardinality(Launched) /\ Cardinality(Launched) \in Nat
          /\ Cardinality(Launched) <= transitions
      BY <1>j, <3>1, CommandsAreCounted DEF Launched, LaunchesOK
    <3>3. CASE next = late
      BY <1>4, <1>7, <3>3, StagesOfActions DEF LabelOK
    <3>4. CASE next = on /\ transitions + 1 <= MaxTransitions
      <4>1. next.stage = "launch"
        BY <1>4, <1>10, <3>4
      <4>2. Cardinality(Launched)' < transitions' /\ Cardinality(Launched)' < MaxTransitions
        BY <1>j, <1>m, <3>2, <3>4
      <4>3. QED BY <1>7, <4>1, <4>2, StagesOfActions DEF LabelOK
    <3>5. QED BY <1>6, <3>3, <3>4
  <2>5. QED BY <1>7, <1>j, <1>w, <2>3, <2>4, CalmFits, SlowerCounts DEF LaunchFits
<1>11. QED BY <1>9, <1>10, <1>s

\* A command is launched while there is room for one more.
LEMMA WorkerLaunches ==
  ASSUME ThreadsOK, RowsOK, BudgetsOK, NEW label, CommandsOK(label), NEW t \in Workers, Launch(t)
  PROVE  /\ \A u \in Threads \ {t} : thread'[u] = thread[u]
         /\ Fits(t, label)' /\ (LaunchesOK(label) => LaunchFits(t, label)')
<1> DEFINE s == thread[t]
<1>w. t \in Threads /\ DOMAIN thread = Threads
  BY WorkflowAssumption DEF ThreadsOK
<1>j. troubles' = troubles /\ github' = github /\ transitions' = transitions
  BY DEF Launch, issueVars, budgetVars
<1>s. s.stage = "launch" /\ Launching(s)
  BY DEF Launch, At, Launching
<1>o. Spare /\ label \in github.labels
  BY <1>s DEF CommandsOK, WorkerOK, Raised
<1>1. PICK key : key = s.job /\ key \in DOMAIN jobs
  BY <1>s, <1>w, HeldJobs
<1>2. PICK row : row = [jobs[key] EXCEPT !.phase = "launched"] /\ SetJob(key, row)
  BY <1>1 DEF Launch
<1>3. row.status = jobs[key].status
  BY <1>2
<1>4. /\ DOMAIN jobs' = DOMAIN jobs /\ jobs'[key] = row
      /\ \A k \in DOMAIN jobs \ {key} : jobs'[k] = jobs[k]
  BY <1>1, <1>2, WrittenRow
<1>5. Out' \subseteq Out \cup {key} /\ Launched' \subseteq Launched \cup {key}
  BY <1>4 DEF Out, Launched, Running
<1>6. \A S, T : IsFiniteSet(S) /\ T \subseteq S \cup {key} =>
        Cardinality(T) \in Nat /\ Cardinality(T) <= Cardinality(S) + 1
  <2> SUFFICES ASSUME NEW S, NEW T, IsFiniteSet(S), T \subseteq S \cup {key}
               PROVE  Cardinality(T) \in Nat /\ Cardinality(T) <= Cardinality(S) + 1
    OBVIOUS
  <2>1. IsFiniteSet(S \cup {key}) /\ Cardinality(S) \in Nat
        /\ Cardinality(S \cup {key}) \in {Cardinality(S), Cardinality(S) + 1}
    BY FS_AddElement, FS_CardinalityType
  <2>2. Cardinality(T) \in Nat /\ Cardinality(T) <= Cardinality(S \cup {key})
    BY <2>1, FS_Subset, FS_CardinalityType
  <2>3. QED BY <2>1, <2>2
<1>7. /\ Cardinality(Out)' \in Nat /\ Cardinality(Out)' <= Cardinality(Out) + 1
      /\ Cardinality(Launched)' \in Nat /\ Cardinality(Launched)' <= Cardinality(Launched) + 1
  BY <1>5, <1>6, CommandsAreCounted
<1>8. troubles' \in Nat /\ Cardinality(Out)' <= troubles' + 1
  <2>1. troubles \in Nat /\ Cardinality(Out) \in Nat
    BY CommandsAreCounted DEF CommandsOK
  <2>2. QED BY <1>7, <1>j, <1>o, <2>1 DEF Spare
<1>9. thread' = [thread EXCEPT ![t] = Rest] /\ thread'[t] = Rest
  BY <1>w DEF Launch, Drop, Become
<1>10. WorkerOK(t, label)' /\ LabelOK(t, label)'
  BY <1>9, <1>j, <1>o, RestFields, RestingFits, RestingLaunchFits
<1>11. LaunchesOK(label) => Cardinality(Launched)' <= transitions'
                            /\ Cardinality(Launched)' <= MaxTransitions
  <2>1. HAVE LaunchesOK(label)
  <2>2. Cardinality(Launched) < transitions /\ Cardinality(Launched) < MaxTransitions
    BY <1>s, <2>1 DEF LaunchesOK, LabelOK
  <2>3. Cardinality(Launched) \in Nat /\ transitions \in Nat /\ MaxTransitions \in Nat
    BY CommandsAreCounted, WorkflowAssumption DEF BudgetsOK
  <2>4. QED BY <1>7, <1>j, <2>2, <2>3
<1>12. QED BY <1>8, <1>9, <1>10, <1>11, <1>w DEF Fits, LaunchFits

-----------------------------------------------------------------------------
(* The theorems *)

\* A step of the only worker.
LEMMA WorkerKeepsCommands ==
  ASSUME OneWorker, NEW label, CommandsOK(label), NEW t \in Workers,
         \A u \in Threads \ {t} : thread'[u] = thread[u], Fits(t, label)'
  PROVE  /\ CommandsOK(label)'
         /\ LaunchFits(t, label)' => LaunchesOK(label)'
<1>1. \A u \in Workers : u = t
  BY DEF OneWorker
<1>2. \A u \in Threads \ Workers : thread'[u] = thread[u] /\ RouterOK(thread[u], label)
  BY DEF CommandsOK
<1>3. troubles' \in Nat /\ Cardinality(Out)' <= troubles' + 1 /\ WorkerOK(t, label)'
  BY DEF Fits
<1>4. \A u \in Workers : WorkerOK(u, label)'
  BY <1>1, <1>3
<1>5. LaunchFits(t, label)' => \A u \in Workers : LabelOK(u, label)'
  BY <1>1 DEF LaunchFits
<1>6. QED BY <1>2, <1>3, <1>4, <1>5 DEF CommandsOK, LaunchesOK, LaunchFits

LEMMA WorkersKeepCommands ==
  ASSUME OneWorker, WorkInvariant, NEW label, Separates(label), CommandsOK(label),
         NEW t \in Workers,
         \/ WorkerStep(t) \/ RefreshFails(t) \/ LaunchFails(t) \/ Crash(t)
         \/ ActionFails(t) /\ UNCHANGED <<routingVars, budgetVars>>
  PROVE  CommandsOK(label)' /\ (LaunchesOK(label) => LaunchesOK(label)')
<1>g. ThreadsOK /\ IssueOK /\ RowsOK /\ BudgetsOK
  BY DEF WorkInvariant
<1>1. CASE \/ RefreshFails(t) \/ LaunchFails(t) \/ Crash(t)
           \/ ActionFails(t) /\ UNCHANGED <<routingVars, budgetVars>>
  <2>1. UNCHANGED transitions
    BY <1>1 DEF RefreshFails, LaunchFails, Crash, budgetVars
  <2>2. QED BY <1>1, <1>g, <2>1, TroubleFits, WorkerKeepsCommands
<1>2. CASE ActionStep(t) /\ UNCHANGED <<routingVars, budgetVars>>
  BY <1>2, <1>g, WorkerActs, WorkerKeepsCommands DEF budgetVars
<1>3. CASE \/ RefreshClaimed(t) \/ RouteStillMatches(t) \/ AttemptScopeHash(t) \/ ActionDone(t)
           \/ FinalizeOwnedObservation(t) \/ Refused(t)
  BY <1>3, <1>g, WorkerPrepares, WorkerKeepsCommands
<1>4. CASE Claim(t) \/ IncrementAttemptsForJob(t) \/ \E key \in DOMAIN jobs : Adopt(t, key)
  BY <1>4, <1>g, WorkerWrites, WorkerKeepsCommands
<1>5. CASE FinalizeJobOwned(t)
  BY <1>5, <1>g, WorkerSettles, WorkerKeepsCommands
<1>6. CASE IncrementTransitionsForJob(t)
  BY <1>6, <1>g, WorkerCounts, WorkerKeepsCommands
<1>7. CASE Launch(t)
  BY <1>7, <1>g, WorkerLaunches, WorkerKeepsCommands
<1>8. QED BY <1>1, <1>2, <1>3, <1>4, <1>5, <1>6, <1>7 DEF WorkerStep, PrepareStep

LEMMA StepKeepsCommands ==
  ASSUME OneWorker, NEW label, Separates(label), CommandInvariant(label), [Next]_workVars
  PROVE  CommandInvariant(label)'
<1>g. /\ WorkInvariant /\ ThreadsOK /\ IssueOK /\ RowsOK /\ BudgetsOK /\ CommandsOK(label)
      /\ Private(label) => LaunchesOK(label)
  BY DEF CommandInvariant, WorkInvariant
<1>w. WorkInvariant'
  BY <1>g, StepKeepsWorkInvariant
<1> SUFFICES CommandsOK(label)' /\ (Private(label) => LaunchesOK(label)')
  BY <1>w DEF CommandInvariant
<1>t. Routers \subseteq Threads \ Workers /\ Workers \subseteq Threads
  BY RoutingAssumption, WorkflowAssumption
<1>1. ASSUME Beside(label)
      PROVE  CommandsOK(label)' /\ (Private(label) => LaunchesOK(label)')
  BY <1>1, <1>g, BesideKeepsCommands, BesideKeepsLaunches
<1>2. ASSUME NEW t \in Threads \ Workers,
             \/ (RouterStep(t) \/ PollFails(t)) /\ UNCHANGED budgetVars
             \/ ActionFails(t) /\ UNCHANGED <<routingVars, budgetVars>>
             \/ Crash(t)
      PROVE  CommandsOK(label)' /\ (Private(label) => LaunchesOK(label)')
  BY <1>1, <1>2, <1>g, RouterIsBeside
<1>3. ASSUME NEW t \in Workers,
             \/ WorkerStep(t) \/ RefreshFails(t) \/ LaunchFails(t) \/ Crash(t)
             \/ ActionFails(t) /\ UNCHANGED <<routingVars, budgetVars>>
      PROVE  CommandsOK(label)' /\ (Private(label) => LaunchesOK(label)')
  BY <1>3, <1>g, WorkersKeepCommands
<1>4. CASE Outside
  BY <1>1, <1>4, <1>g, OutsideIsBeside
<1>5. CASE UNCHANGED workVars
  BY <1>1, <1>5, <1>g, NothingIsBeside
<1>6. CASE Next
  <2>1. \/ \E t \in Routers : (RouterStep(t) \/ PollFails(t)) /\ UNCHANGED budgetVars
        \/ \E t \in Workers : WorkerStep(t) \/ RefreshFails(t) \/ LaunchFails(t)
        \/ \E t \in Threads :
             (ActionFails(t) /\ UNCHANGED <<routingVars, budgetVars>>) \/ Crash(t)
        \/ Outside
    BY <1>6 DEF Next, Outside
  <2>2. \/ \E t \in Threads \ Workers :
             \/ (RouterStep(t) \/ PollFails(t)) /\ UNCHANGED budgetVars
             \/ ActionFails(t) /\ UNCHANGED <<routingVars, budgetVars>>
             \/ Crash(t)
        \/ \E t \in Workers :
             \/ WorkerStep(t) \/ RefreshFails(t) \/ LaunchFails(t) \/ Crash(t)
             \/ ActionFails(t) /\ UNCHANGED <<routingVars, budgetVars>>
        \/ Outside
    BY <1>t, <2>1
  <2>3. QED BY <1>2, <1>3, <1>4, <2>2
<1>7. QED BY <1>5, <1>6

LEMMA CommandsBegin ==
  ASSUME NEW label, Init
  PROVE  CommandInvariant(label)
<1>1. WorkInvariant
  BY InitHolds
<1>2. Out = {} /\ Launched = {}
  BY DEF Init, Out, Launched, Running
<1>3. Cardinality(Out) = 0 /\ Cardinality(Launched) = 0
  BY <1>2, FS_EmptySet
<1>4. \A t \in Threads : thread[t] = Rest
  BY DEF Init
<1>5. troubles = 0 /\ transitions = 0 /\ MaxTransitions \in Nat
  BY WorkflowAssumption DEF Init
<1>6. Spare
  BY <1>3, <1>5 DEF Spare
<1>7. \A t \in Threads : RouterOK(thread[t], label)
  BY <1>4, RestingRouter, RestFields, StagesOfActions
<1>8. \A t \in Workers : WorkerOK(t, label) /\ LabelOK(t, label)
  <2> TAKE t \in Workers
  <2>1. thread[t] = Rest
    BY <1>4, WorkflowAssumption
  <2>2. WorkerOK(t, label)
    BY <1>6, <2>1, RestFields, StagesOfActions DEF WorkerOK, Raised
  <2>3. LabelOK(t, label)
    BY <2>1, RestFields, StagesOfActions DEF LabelOK
  <2>4. QED BY <2>2, <2>3
<1>9. QED BY <1>1, <1>3, <1>5, <1>7, <1>8 DEF CommandInvariant, CommandsOK, LaunchesOK

(* One daemon has one command at work on an issue whose routes are kept apart by a   *)
(* label, and one more for every crash, lost job and failed call: whatever the       *)
(* commands report, the handoffs say and people write or add, the label too.         *)
THEOREM OneDaemonRunsOneCommand ==
  ASSUME OneWorker, NEW label, Separates(label)
  PROVE  Spec => []OneCommandPerIssue
<1>1. Init => CommandInvariant(label)
  BY CommandsBegin
<1>2. CommandInvariant(label) /\ [Next]_workVars => CommandInvariant(label)'
  BY StepKeepsCommands
<1>3. CommandInvariant(label) => OneCommandPerIssue
  <2>1. HAVE CommandInvariant(label)
  <2>2. RowsOK /\ troubles \in Nat /\ Cardinality(Out) <= troubles + 1
    BY <2>1 DEF CommandInvariant, WorkInvariant, CommandsOK
  <2>3. AtWork \subseteq Out
    BY DEF AtWork, Out
  <2>4. Cardinality(AtWork) \in Nat /\ Cardinality(AtWork) <= Cardinality(Out)
        /\ Cardinality(Out) \in Nat
    BY <2>2, <2>3, CommandsAreCounted, FS_Subset, FS_CardinalityType
  <2>5. QED BY <2>2, <2>4 DEF OneCommandPerIssue
<1>4. QED BY <1>1, <1>2, <1>3, PTL DEF Spec

(* Where nobody else adds the label, every launch is a change of labels that the     *)
(* transition limit counts: it bounds the commands ever launched on the issue, also  *)
(* those that gave their attempt back, whatever crashes and is lost.                 *)
THEOREM TransitionsCutLoops ==
  ASSUME OneWorker, NEW label, Separates(label), Private(label)
  PROVE  Spec => []TransitionsBoundCommands
<1>1. Init => CommandInvariant(label)
  BY CommandsBegin
<1>2. CommandInvariant(label) /\ [Next]_workVars => CommandInvariant(label)'
  BY StepKeepsCommands
<1>3. CommandInvariant(label) => TransitionsBoundCommands
  BY DEF CommandInvariant, LaunchesOK, TransitionsBoundCommands
<1>4. QED BY <1>1, <1>2, <1>3, PTL DEF Spec

=============================================================================
