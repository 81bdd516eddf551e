\* Two relays whose claims may overlap.
CONSTANTS
  Deliveries = {d1}
  TenantOf <- OneTenant
  Policies <- OnlyShort
  Sessions = {s1, s2}
  BatchSize = 1
  PerTenant = 1
  ReconcileBatch = 1
  RetryAfters = {0}
  None = None
  Skew = 0
  PublishHorizon = 0
  MaxTime = 2
  MaxAttemptRows = 2
  Lag = 0
  OverlappingClaims = TRUE
SYMMETRY Interchangeable
SPECIFICATION RelaySpec
CHECK_DEADLOCK FALSE
INVARIANTS
  SuccessHasEffect
  TasksFollowClaims
PROPERTIES
  ImplementsLedger
