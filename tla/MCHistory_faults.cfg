SPECIFICATION Spec
CONSTANTS
  t1 = t1
  t2 = t2
  i1 = i1
  i2 = i2
  c1 = c1
  c2 = c2
  None = None
  Texts = {t1}
  Images = {i1}
  Clients = {c1, c2}
  MaxItems = 2
  InitRows <- ImageAndText
  Ops = {"delete", "clear", "toggle", "promote"}
  Faults = {"crash", "write", "unlink", "db", "lose"}
  MaxClock = 4
  MaxRev = 3
  MaxLost = 1
SYMMETRY ClientSymmetry
INVARIANTS
  TypeOK
  NoDanglingImage
  UniqueIdentity
PROPERTIES
  EveryChangeAnnounced
