SPECIFICATION Spec
CONSTANTS
  None = None
  Gone = Gone
  p = p
  w = w
  Labels = {"new", "ready", "running", "human"}
  Bodies = {"text"}
  Handoffs <- HandoffBlocks
  Threads = {p, w}
  Routers = {p}
  Workers = {w}
  Routes <- TriageTwice
  Results <- RetryResults
  InitialIssue <- NewIssue
  OnTransitionsExceeded <- StopByHuman
  MaxGlobal = 3
  MaxTransitions = 5
  MaxTroubles = 1
  UserLabels = {}
  UserComments = {"reject"}
  UserStates = {"closed"}
CHECK_DEADLOCK FALSE

PROPERTY MatchesAreAnswered
PROPERTY WorkComesToRest
INVARIANT CommentedOnce
INVARIANT TransitionsBoundCommands
INVARIANT OneCommandPerIssue
