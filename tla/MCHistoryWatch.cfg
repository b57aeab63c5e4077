SPECIFICATION WFairSpec
CONSTANTS
  A = A
  B = B
  save = save
  delete = delete
  p1 = p1
  Nothing = Nothing
  Tables = {A, B}
  Tasks = {save, delete}
  Popups = {p1}
  MaxRev = 3
  MaxEpoch = 2
INVARIANTS
  WTypeOK
  TrackedIsCurrent
PROPERTIES
  Converges
CHECK_DEADLOCK FALSE
