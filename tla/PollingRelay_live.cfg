\* One relay, with clock skew, that crashes, is stopped and restarted.
CONSTANTS
  Deliveries = {d1}
  TenantOf <- OneTenant
  Policies <- OnlyRoomy
  Sessions = {s1}
  BatchSize = 1
  PerTenant = 1
  ReconcileBatch = 1
  RetryAfters = {0}
  None = None
  Skew = 1
  PublishHorizon = 0
  MaxTime = 5
  MaxAttemptRows = 2
  Lag = 0
  OverlappingClaims = FALSE
SPECIFICATION RelayFairSpec
CHECK_DEADLOCK FALSE
INVARIANTS
  ExecutionHoldsLease
PROPERTIES
  EventuallyTerminal
  StopReturns
