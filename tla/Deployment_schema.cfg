\* Migrations, installers, transactions of two tenants and the doctor.
CONSTANTS
  a1 = a1
  r1 = r1
  Tenants = {t1, t2}
  Probe = Probe
  Other = Other
  Pool = {a1, r1}
  RoleOf <- RolesOfPool
  Exercised = {"events", "webhook_audit"}
  Targets = {0, 4, 5}
  MaxRuns = 3
  MaxTurns = 2
  None = None
SPECIFICATION Spec
SYMMETRY TenantSymmetry
CHECK_DEADLOCK FALSE
INVARIANTS
  GateTells
  VersionTellsCatalogue
  TenantIsolation
  DoctorHarmless
  DowngradeKeepsWhatItFound
