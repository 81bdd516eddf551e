\* Two requests of one identity, or a request and a unit of work, beside
\* pruning, subscriptions that come and go, and webhook retention.
CONSTANTS
  Sessions = {s1, s2}
  EventIds = {e1}
  DedupeKeys = {k1}
  Contents <- TwoContents
  Declared <- Redeclared
  Provided <- Hooks
  None = None
  Identities = {i1}
  LockOf <- OneLock
  Forms = {f1, f2}
  Responses = {r1}
  Ttls = {1}
  Pruners = {p1, p2}
  PruneBatch = 1
  CutoffLead = 0
  MaxTime = 2
SYMMETRY Interchangeable
SPECIFICATION Spec
CHECK_DEADLOCK FALSE
INVARIANTS
  DurableTogether
  EmitIsBacked
  OneDeliverySet
PROPERTIES
  KeepsPromise
