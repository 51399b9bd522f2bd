--------------------------- MODULE MCIssueWorkflow ---------------------------
(* Small instances of IssueWorkflow for TLC: a triage route whose command may  *)
(* hand over to a gated fix route, both with retry by label.                   *)
EXTENDS IssueWorkflow

CONSTANTS p, w

Note == "note"
Act(remove, add, comment) == [remove |-> remove, add |-> add, comment |-> comment]

Gate(required, freshness) ==
  [required |-> required, from |-> {"triage"}, decisions |-> {"accept"},
   nextRoute |-> None, freshness |-> freshness]

Busy == {"running", "human"}

Triage ==
  [name |-> "triage", include |-> {"new"}, exclude |-> Busy,
   gate |-> Gate(FALSE, None), onBlock |-> Act(<<>>, {}, Note), scope |-> "legacy", maxAttempts |-> 1,
   onStart |-> Act(<<"new">>, {"running"}, None),
   onSuccess |-> Act(<<"running">>, {"ready"}, None),
   onFailure |-> Act(<<"running">>, {"new"}, None),
   onAttemptsExceeded |-> Act(<<>>, {"human"}, None)]

Fix ==
  [name |-> "fix", include |-> {"ready"}, exclude |-> Busy,
   gate |-> Gate(TRUE, "source_unchanged"), onBlock |-> Act(<<"ready">>, {"human"}, Note),
   scope |-> "handoff", maxAttempts |-> 1,
   onStart |-> Act(<<"ready">>, {"running"}, None),
   onSuccess |-> Act(<<"running">>, {}, Note),
   onFailure |-> Act(<<"running">>, {"ready"}, None),
   onAttemptsExceeded |-> Act(<<>>, {"human"}, None)]

Pipeline    == <<Triage, Fix>>
FixOnly     == <<Fix>>
TriageTwice == <<[Triage EXCEPT !.maxAttempts = 2]>>
CommentOnly == <<[Fix EXCEPT !.onBlock = Act(<<>>, {}, Note)]>>

\* Handoffs of triage about the text of the issue.
Block(decision, next, kind, key) ==
  [from |-> "triage", decision |-> decision, next |-> next, ofIssue |-> TRUE,
   source |-> <<"body", "text">>, target |-> [kind |-> kind, key |-> key]]

HandoffBlocks ==
  [accept |-> Block("accept", "fix", "github_pr", "#2"),
   reject |-> Block("reject", None, "github_issue", "#1")]

Result(outcome, remove, add, comment, workStarted) ==
  [outcome |-> outcome, remove |-> remove, add |-> add, comment |-> comment,
   workStarted |-> workStarted]

PipelineResults ==
  {Result("succeeded", <<>>, {}, "accept", "yes"),
   Result("failed", <<>>, {}, None, "yes"), Result("failed", <<>>, {}, None, "no")}

RetryResults ==
  {Result("succeeded", <<>>, {}, "accept", "yes"), Result("failed", <<>>, {}, None, "no")}

LabelsOf(labels) == [state |-> "open", labels |-> labels, body |-> "text", updated |-> 0]
NewIssue   == LabelsOf({"new"})
ReadyIssue == LabelsOf({"ready"})
StopByHuman == Act(<<"new", "ready">>, {"human"}, None)

=============================================================================
