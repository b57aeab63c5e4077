SPECIFICATION Spec
CONSTANTS
  t1 = t1
  t2 = t2
  i1 = i1
  i2 = i2
  c1 = c1
  c2 = c2
  None = None
  Texts = {t1}
  Images = {i1}
  Clients = {c1}
  MaxItems = 2
  InitRows <- OneText
  Ops = {"clear"}
  Faults = {}
  MaxClock = 3
  MaxRev = 4
  MaxLost = 0
INVARIANTS
  NoOrphanWhenIdle
