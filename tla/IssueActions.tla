---------------------------- MODULE IssueActions ----------------------------
(***************************************************************************)
(* One GitHub issue, its local snapshot, and the goroutines of issueq that  *)
(* read and change it (internal/actions, internal/github).                  *)
(*                                                                          *)
(* An action of the configuration removes labels, adds labels and posts a   *)
(* comment, in this order, one HTTP call each (one per removed label), then *)
(* reads the issue back and stores it.  Anything may happen between two     *)
(* calls: edits of people, another goroutine, the loss of the job on whose  *)
(* behalf the action runs.                                                  *)
(***************************************************************************)
EXTENDS Naturals, FiniteSets, Sequences, SequencesExt, Functions, TLC

CONSTANTS
  None,
  Labels,
  Bodies,        \* versions of the issue's text
  Handoffs,      \* issueq-handoff blocks a comment may hold: id |-> fields
  Threads,       \* goroutines: poll/route of each daemon, reconcile of each
  InitialIssue,
  MaxTroubles    \* bound on failed calls, lost jobs, crashes and edits by people

Issue == [state : {"open", "closed"}, labels : SUBSET Labels, body : Bodies, updated : Nat]

ASSUME IssueAssumption == InitialIssue \in Issue

VARIABLES
  github,      \* the issue as GitHub has it
  comments,    \* its comments, oldest first
  snapshot,    \* row of the issues table
  jobs,        \* jobs of the issue by dedupe key
  thread,      \* what each goroutine is doing
  troubles,    \* failed calls, lost jobs and crashes so far
  edits        \* edits by people so far

issueVars  == <<github, comments>>

NoAction == [remove |-> <<>>, add |-> {}, comment |-> None]

Empty(action) == action.remove = <<>> /\ action.add = {} /\ action.comment = None

\* issue: the snapshot in hand; left: labels still to remove; before: labels
\* seen by the refresh; then, orElse: stages after the action and after an error
\* of it; charge: key of route_attempts; rows: numbers of the comments still to parse; route:
\* index of the router's loop.
Rest ==
  [stage |-> "idle", issue |-> None, job |-> None, action |-> NoAction,
   left |-> <<>>, before |-> {}, cause |-> <<"user">>, charge |-> None,
   then |-> "idle", orElse |-> "idle", rows |-> {}, route |-> 0, decision |-> None, status |-> "none"]

At(t, stage)   == thread[t].stage = stage
Become(t, s)   == thread' = [thread EXCEPT ![t] = s]
GoTo(t, stage) == thread' = [thread EXCEPT ![t].stage = stage]

\* RenewJobLease and the other owned operations of a job lost to another runner
\* are refused; the router works for no job.
Holds(t) ==
  LET key == thread[t].job IN
  key # None => jobs[key].status = "running" /\ jobs[key].owner = t

Drop(t) == Become(t, Rest)

Trouble == troubles + edits < MaxTroubles /\ troubles' = troubles + 1

-----------------------------------------------------------------------------
(* GitHub, as issueq uses it: a change moves updated_at, a no-op does not.   *)
(* Two changes within the second that is updated_at's resolution are taken   *)
(* to be told apart.                                                         *)

SetLabels(labels) ==
  IF labels = github.labels THEN UNCHANGED github
  ELSE github' = [github EXCEPT !.labels = labels, !.updated = @ + 1]

\* A comment remembers who posted it, for the properties: <<"user">>, or the kind
\* of action and the job or gate block it was for.
Comment(text, cause) ==
  /\ comments' = Append(comments, [text |-> text, cause |-> cause])
  /\ github' = [github EXCEPT !.updated = @ + 1]

-----------------------------------------------------------------------------
(* Apply *)

Applying(s, action, cause, then, orElse) ==
  [s EXCEPT !.stage = "actionRead", !.action = action, !.left = action.remove,
            !.cause = cause, !.then = then, !.orElse = orElse]

\* The next call of an action, those it does not need left out.
AfterRemove(action) ==
  IF action.add # {} THEN "actionAdd"
  ELSE IF action.comment # None THEN "actionComment"
  ELSE IF action.remove # <<>> THEN "actionReread" ELSE "actionStore"

AfterAdd(action) ==
  IF action.comment # None THEN "actionComment" ELSE "actionReread"

ActionRead(t) ==
  LET s == thread[t] IN
  /\ At(t, "actionRead") /\ Holds(t)
  /\ Become(t, [s EXCEPT !.before = github.labels, !.issue = github,
       !.stage = IF s.left # <<>> THEN "actionRemove" ELSE AfterRemove(s.action)])
  /\ UNCHANGED <<issueVars, snapshot, jobs, troubles>>

\* RemoveLabels deletes one label per request and returns the first error.  An
\* absent label is such an error; ApplyWithHooks takes it for success, and the
\* labels after it are not tried.
ActionRemove(t) ==
  LET s == thread[t]  label == Head(s.left)
      present == label \in github.labels
      left == IF present THEN Tail(s.left) ELSE <<>>
  IN
  /\ At(t, "actionRemove")
  /\ s.left = s.action.remove => Holds(t)     \* one renewal for all labels
  /\ SetLabels(github.labels \ {label})
  /\ Become(t, [s EXCEPT !.left = left,
       !.stage = IF left # <<>> THEN @ ELSE AfterRemove(s.action)])
  /\ UNCHANGED <<comments, snapshot, jobs, troubles>>

ActionAdd(t) ==
  LET s == thread[t] IN
  /\ At(t, "actionAdd") /\ Holds(t)
  /\ SetLabels(github.labels \cup s.action.add)
  /\ GoTo(t, AfterAdd(s.action))
  /\ UNCHANGED <<comments, snapshot, jobs, troubles>>

ActionComment(t) ==
  LET s == thread[t] IN
  /\ At(t, "actionComment") /\ Holds(t)
  /\ Comment(s.action.comment, s.cause)
  /\ GoTo(t, "actionReread")
  /\ UNCHANGED <<snapshot, jobs, troubles>>

ActionReread(t) ==
  /\ At(t, "actionReread") /\ Holds(t)
  /\ Become(t, [thread[t] EXCEPT !.issue = github, !.stage = "actionStore"])
  /\ UNCHANGED <<issueVars, snapshot, jobs, troubles>>

\* UpsertIssue of what was read, which may be old by now.
ActionStore(t) ==
  LET s == thread[t] IN
  /\ At(t, "actionStore") /\ Holds(t)
  /\ snapshot' = s.issue
  /\ Become(t, [s EXCEPT !.stage = s.then, !.action = NoAction])
  /\ UNCHANGED <<issueVars, jobs, troubles>>

ActionCalls ==
  {"actionRead", "actionRemove", "actionAdd", "actionComment", "actionReread"}

\* A renewal that is refused ends the action, whatever was done of it.
ActionRefused(t) ==
  /\ thread[t].stage \in ActionCalls \cup {"actionStore"}
  /\ At(t, "actionRemove") => thread[t].left = thread[t].action.remove
  /\ ~Holds(t)
  /\ Drop(t)
  /\ UNCHANGED <<issueVars, snapshot, jobs, troubles>>

\* A call to GitHub fails; a comment may have been posted although the answer
\* was lost.
ActionFails(t) ==
  LET s == thread[t]
      failed == [s EXCEPT !.stage = s.orElse, !.action = NoAction, !.left = <<>>,
                          !.status = "failed"]
  IN
  /\ s.stage \in ActionCalls
  /\ Trouble
  /\ \/ UNCHANGED issueVars
     \/ At(t, "actionComment") /\ Comment(s.action.comment, s.cause)
  /\ Become(t, IF s.orElse = "idle" THEN Rest ELSE failed)
  /\ UNCHANGED <<snapshot, jobs>>

ActionStep(t) ==
  \/ ActionRead(t) \/ ActionRemove(t) \/ ActionAdd(t) \/ ActionComment(t)
  \/ ActionReread(t) \/ ActionStore(t) \/ ActionRefused(t)

-----------------------------------------------------------------------------
(* Merge: what a command's result file adds to the configured action.  The   *)
(* result wins over the configuration, and its removals over its additions.  *)
(* The code joins two comments; the result's stands for both, for only it may *)
(* hold a handoff.                                                            *)

Merge(base, result) ==
  [add     |-> (base.add \cup result.add) \ Range(result.remove),
   remove  |-> SelectSeq(base.remove, LAMBDA l : l \notin result.add)
               \o SelectSeq(result.remove, LAMBDA l :
                    l \notin Range(base.remove) \/ l \in result.add),
   comment |-> IF result.comment # None THEN result.comment ELSE base.comment]

=============================================================================
