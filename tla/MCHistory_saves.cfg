SPECIFICATION Spec
CONSTANTS
  t1 = t1
  t2 = t2
  i1 = i1
  i2 = i2
  c1 = c1
  c2 = c2
  None = None
  Texts = {t1, t2}
  Images = {i1}
  Clients = {c1, c2}
  MaxItems = 2
  InitRows <- ImageAndText
  Ops = {"delete", "promote"}
  Faults = {"lose"}
  MaxClock = 5
  MaxRev = 4
  MaxLost = 1
CHECK_DEADLOCK FALSE
SYMMETRY ClientSymmetry
INVARIANTS
  NoOrphanWhenIdle
  CapacityKept
PROPERTIES
  PinKept
