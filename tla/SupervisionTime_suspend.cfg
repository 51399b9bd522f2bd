SPECIFICATION SuspendedSpec
CONSTANTS
  a = a
  b = b
  r1 = r1
  None = None
  Jobs = {1}
  Instances = {a}
  Routes = {r1}
  Budgets = {}
  RouteOf <- OneRoute
  Priority <- SameRank
  Accepts <- AllKinds
  RouteLimit <- Unlimited
  MaxGlobal = 1
  Lease = 3
  MaxTime = 8
  MaxDelay = 8
  MaxTokens = 2
  MaxAttempts = 0
  StartGrace = 0
  Reports = {"succeeded"}
  Mortal = {}
  MaxSuspends = 1
  MaxFaults = 0
CHECK_DEADLOCK FALSE

PROPERTY CompletedJobsAreSettled
