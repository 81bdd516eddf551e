\* Two concurrent claim sessions against the promise that a terminal row is final.
CONSTANTS
  Deliveries = {d1}
  TenantOf <- OneTenant
  Policies <- OnlyShort
  Sessions = {s1, s2}
  BatchSize = 1
  PerTenant = 1
  ReconcileBatch = 1
  RetryAfters = {0}
  None = None
  Skew = 0
  PublishHorizon = 0
  MaxTime = 1
  MaxAttemptRows = 3
SPECIFICATION Spec
CHECK_DEADLOCK FALSE
PROPERTIES
  TerminalImmutable
