SPECIFICATION Spec
CONSTANTS
  a = a
  b = b
  r1 = r1
  r2 = r2
  scope1 = scope1
  None = None
  Jobs = {1}
  Instances = {a, b}
  Routes = {r1}
  Budgets = {}
  RouteOf <- TwoRoutes
  Priority <- Urgent2
  Accepts <- AllKinds
  RouteLimit <- Unlimited
  MaxGlobal = 1
  Lease = 1
  MaxTime = 4
  MaxDelay = 1
  MaxTokens = 2
  MaxAttempts = 0
INVARIANT TypeOK
INVARIANT RowShape
INVARIANT LaunchedOnce
INVARIANT NoOrphan
PROPERTY OwnerKeepsJob
PROPERTY ImplementsLifecycle
