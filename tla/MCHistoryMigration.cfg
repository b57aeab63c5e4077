SPECIFICATION MFairSpec
CONSTANTS
  t1 = t1
  i1 = i1
  c1 = c1
  None = None
  Texts = {t1}
  Images = {i1}
  Clients = {c1}
  MaxItems = 2
  InitRows <- TwoLegacyCopies
  Ops = {"delete", "toggle"}
  Faults = {"lose", "crash", "db"}
  MaxClock = 3
  MaxRev = 2
  MaxLost = 1
INVARIANTS
  MTypeOK
  NoDanglingImage
  UniqueIdentity
  MigrationComplete
PROPERTIES
  MigrationLosesNothing
  MEveryChangeAnnounced
  MigrationEnds
  SaveEnds
