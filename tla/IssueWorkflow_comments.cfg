SPECIFICATION Spec
CONSTANTS
  None = None
  Gone = Gone
  p = p
  w = w
  Labels = {"new", "ready", "running", "human"}
  Bodies = {"text"}
  Handoffs <- HandoffBlocks
  Threads = {p, w}
  Routers = {p}
  Workers = {w}
  Routes <- CommentOnly
  Results <- PipelineResults
  InitialIssue <- ReadyIssue
  OnTransitionsExceeded <- StopByHuman
  MaxGlobal = 2
  MaxTransitions = 2
  MaxTroubles = 0
  UserLabels = {"new"}
  UserComments = {"reject"}
  UserStates = {"closed"}
CHECK_DEADLOCK FALSE

INVARIANT BlocksDoNotSpam
