SPECIFICATION FairWaveSpec
CONSTANTS
  a = a
  b = b
  r1 = r1
  None = None
  Jobs = {1}
  Instances = {a, b}
  Routes = {r1}
  Budgets = {}
  RouteOf <- OneRoute
  Priority <- SameRank
  Accepts <- OnlyWaves
  RouteLimit <- Unlimited
  MaxGlobal = 1
  Lease = 1
  MaxTime = 2
  MaxDelay = 2
  MaxTokens = 1
  MaxAttempts = 0
  StartGrace = 1
  Reports = {"succeeded"}
  Mortal = {a}
  MaxSuspends = 0
  MaxFaults = 1
  Waves = {a}
CHECK_DEADLOCK FALSE

INVARIANT WaveTypeOK
INVARIANT WaveLeavesNoLease
INVARIANT NoStrayWrapper
PROPERTY WaveReturns
