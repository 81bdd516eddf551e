\* Lost and duplicated messages, readmission after a short execution timeout,
\* vanishing sinks and workers; one claim session and equal clocks.
CONSTANTS
  Deliveries = {d1}
  TenantOf <- OneTenant
  Policies <- TwiceOrShort
  Sessions = {s1}
  BatchSize = 1
  PerTenant = 1
  ReconcileBatch = 1
  RetryAfters = {0}
  None = None
  Skew = 0
  PublishHorizon = 0
  MaxTime = 5
  MaxAttemptRows = 2
  ExecutionTimeout = 1
  EnqueueTimeout = 1
  Lag = 1
  ConnectorErrors = FALSE
  MaxExecutions = 2
SPECIFICATION HandoffFairSpec
CHECK_DEADLOCK FALSE
INVARIANTS
  OneStory
  ExecutesOnce
  WorkerHoldsLease
PROPERTIES
  SettledIsFinal
  HandoffImplementsLedger
  HandoffSettles
