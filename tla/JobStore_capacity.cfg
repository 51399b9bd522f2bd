SPECIFICATION Spec
CONSTANTS
  a = a
  b = b
  r1 = r1
  r2 = r2
  scope1 = scope1
  None = None
  Jobs = {1, 2, 3}
  Instances = {a, b}
  Routes = {r1, r2}
  Budgets = {scope1}
  RouteOf <- TwoRoutes
  Priority <- Urgent2
  Accepts <- AllKinds
  RouteLimit <- R1AtMostOne
  MaxGlobal = 2
  Lease = 1
  MaxTime = 2
  MaxDelay = 0
  MaxTokens = 0
  MaxAttempts = 2
SYMMETRY InstanceSymmetry
INVARIANT CapacityRespected
INVARIANT ChargesCovered
