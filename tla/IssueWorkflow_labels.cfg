SPECIFICATION Spec
CONSTANTS
  None = None
  Gone = Gone
  p = p
  w = w
  Labels = {"new", "ready", "running", "human"}
  Bodies = {"text"}
  Handoffs <- HandoffBlocks
  Threads = {p, w}
  Routers = {p}
  Workers = {w}
  Routes <- Pipeline
  Results <- PipelineResults
  InitialIssue <- NewIssue
  OnTransitionsExceeded <- StopByHuman
  MaxGlobal = 2
  MaxTransitions = 1
  MaxTroubles = 0
  UserLabels = {}
  UserComments = {"reject"}
  UserStates = {"closed"}
CHECK_DEADLOCK FALSE

INVARIANT RemovalsTakeEffect
