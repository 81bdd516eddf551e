\* Retention against the overlap that a rotation was granted.
CONSTANTS
  SecretSets = {k1, k2}
  Overlaps = {1}
  MaxTime = 2
  None = None
  Subscriptions = {s1}
  Managers = {m1, m2}
  EventTypes = {"invoice.paid"}
  Thresholds = {1}
  MaxChanges = 4
  Attempts = {a1}
  Addresses = {p1, p2}
  Public = {p1}
  MaximumAddresses = 1
  MaximumRedirects = 1
  MaximumInformational = 1
  RetryAfters <- DateOrDelay
  MaximumDelay = 2
  Sessions = {w1}
  EventIds = {e1}
  DedupeKeys = {}
  Contents <- OneContent
  Declared <- NoRoutes
  Provided <- NoProvided
  Remaining = {1}
SYMMETRY Interchangeable
SPECIFICATION Spec
CHECK_DEADLOCK FALSE
INVARIANTS
  OverlapSigns
