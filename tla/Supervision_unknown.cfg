SPECIFICATION SupSpec
CONSTANTS
  a = a
  b = b
  r1 = r1
  None = None
  Jobs = {1}
  Instances = {a, b}
  Routes = {r1}
  Budgets = {}
  RouteOf <- OneRoute
  Priority <- SameRank
  Accepts <- AllKinds
  RouteLimit <- Unlimited
  MaxGlobal = 1
  Lease = 1
  MaxTime = 3
  MaxDelay = 3
  MaxTokens = 2
  MaxAttempts = 0
  StartGrace = 1
  Reports = {"succeeded", "failed"}
  Mortal = {}
  MaxSuspends = 0
  MaxFaults = 0
CHECK_DEADLOCK FALSE

PROPERTY UnknownIsUnproven
