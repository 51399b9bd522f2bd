SPECIFICATION ShutdownSpec
CONSTANTS
  a = a
  b = b
  r1 = r1
  None = None
  Jobs = {1}
  Instances = {a, b}
  Routes = {r1}
  Budgets = {}
  RouteOf <- OneRoute
  Priority <- SameRank
  Accepts <- OnlyStoppers
  RouteLimit <- Unlimited
  MaxGlobal = 1
  Lease = 1
  MaxTime = 2
  MaxDelay = 2
  MaxTokens = 1
  MaxAttempts = 0
  StartGrace = 1
  Reports = {"succeeded"}
  Mortal = {a}
  MaxSuspends = 0
  MaxFaults = 0
  Stoppers = {a}
CHECK_DEADLOCK FALSE

INVARIANT StopTypeOK
INVARIANT CleanStopLeavesNoLease
INVARIANT NoStrayWrapper
