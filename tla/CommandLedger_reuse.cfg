\* Two overlapping pruning transactions, one of which rolls back.
CONSTANTS
  Sessions = {s1, s2}
  EventIds = {e1}
  DedupeKeys = {k1}
  Contents <- OneContent
  Declared <- Elsewhere
  Provided <- NoProvider
  None = None
  Identities = {i1}
  LockOf <- OneLock
  Forms = {f1}
  Responses = {r1}
  Ttls = {1}
  Pruners = {p1, p2}
  PruneBatch = 1
  CutoffLead = 0
  MaxTime = 2
SYMMETRY Interchangeable
SPECIFICATION Spec
CHECK_DEADLOCK FALSE
INVARIANTS
  ExpiryPermitsNewGeneration
