SPECIFICATION TimedSpec
CONSTANTS
  a = a
  b = b
  r1 = r1
  None = None
  Jobs = {1}
  Instances = {a, b}
  Routes = {r1}
  Budgets = {}
  RouteOf <- OneRoute
  Priority <- SameRank
  Accepts <- AllKinds
  RouteLimit <- Unlimited
  MaxGlobal = 1
  Lease = 3
  MaxTime = 8
  MaxDelay = 8
  MaxTokens = 2
  MaxAttempts = 0
  StartGrace = 0
  Reports = {"succeeded"}
  Mortal = {a}
  MaxSuspends = 0
  MaxFaults = 1
CHECK_DEADLOCK FALSE

PROPERTY CompletedJobsAreSettled
PROPERTY ClaimsAreNotStuck
PROPERTY DeadOwnersAreRelieved
