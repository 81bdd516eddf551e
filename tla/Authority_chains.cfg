\* Chains of delegations and handlers with key rotation and revocation.
CONSTANTS
  c1 = c1
  c2 = c2
  read = read
  write = write
  Components = {c1, c2}
  Keys = {k1, k2}
  Scopes = {read, write}
  tenant = tenant
  Tenants = {tenant}
  Hosts <- HostOf
  Offset <- OffsetOf
  PerSecond = 2
  Ttls = {2}
  MaximumTtl = 2
  MaximumDepth = 2
  Skew = 2
  BridgeScopes = {read}
  Routes <- RouteOf
  Policies <- PolicyOf
  Overlap = 2
  RingSize = 2
  Managed = {c2}
  MaxTime = 3
  MaxTokens = 1
  MaxEvents = 1
  MaxServing = 1
  None = None
SPECIFICATION Spec
SYMMETRY KeySymmetry
CHECK_DEADLOCK FALSE
INVARIANTS
  AuthorityNeverExpands
  LifetimeNeverGrows
PROPERTIES
  SnapshotAuthorityEnds
  RevokedStaysRevoked
