\* Two processes through pairs of releases over the programs, and batches of mixed releases.
CONSTANTS
  read = read
  f = f
  g = g
  None = None
  Processes = {p1, p2}
  Histories <- RetainingHistories
  Load <- Loads
  MaxCrashes = 1
  BatchSize = 2
  max_attempts = 2
SPECIFICATION FairSpec
CHECK_DEADLOCK FALSE
INVARIANTS
  PublishedIsExecutable
  RoutesRunAsDeclared
PROPERTIES
  EveryDeliveryEnds
