SPECIFICATION HistorySpec
CONSTANTS
  None = None
  Gone = Gone
  p = p
  w = w
  Labels = {"new", "ready", "running", "human"}
  Bodies = {"text", "edited"}
  Handoffs <- HandoffBlocks
  Threads = {p, w}
  Routers = {p}
  Workers = {w}
  Routes <- FixOnly
  Results <- PipelineResults
  InitialIssue <- ReadyIssue
  OnTransitionsExceeded <- StopByHuman
  MaxGlobal = 2
  MaxTransitions = 2
  MaxTroubles = 2
  UserLabels = {}
  UserComments = {"accept", "reject"}
  UserStates = {}
CHECK_DEADLOCK FALSE

INVARIANT TypeOK
INVARIANT AttemptsBoundCommands
INVARIANT WorkIsGated
INVARIANT WorkFollowsLatestHandoff
