\* Claims are serialized: one claim session.
CONSTANTS
  Deliveries = {d1, d2}
  TenantOf <- OneTenant
  Policies <- OnlyTwice
  Sessions = {s1}
  BatchSize = 1
  PerTenant = 2
  ReconcileBatch = 1
  RetryAfters = {0, 2}
  None = None
  Skew = 1
  PublishHorizon = 0
  MaxTime = 5
  MaxAttemptRows = 2
SYMMETRY Interchangeable
SPECIFICATION Spec
CHECK_DEADLOCK FALSE
INVARIANTS
  StoredRowsSound
  WithinDeadlines
  SerialClaims
PROPERTIES
  AttemptsAppendOnly
  TerminalImmutable
  LiveLeaseExclusive
