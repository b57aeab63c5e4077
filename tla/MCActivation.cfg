SPECIFICATION AFairSpec
CONSTANTS
  a = a
  crlf = crlf
  b = b
  r = r
  c1 = c1
  c2 = c2
  w1 = w1
  w2 = w2
  NoContent = NoContent
  NoTarget = NoTarget
  Copies = {a, crlf, b, r}
  Instances <- MCInstances
  Normal <- Normalized
  Clients = {c1, c2}
  Windows = {w1, w2}
  MaxOwned = 3
  MaxIds = 2
INVARIANTS
  ATypeOK
  LastCopyKept
  OutcomeHonest
  OneDropPerWrite
  MarkerIsLastWrite
PROPERTIES
  ActivationEnds
CHECK_DEADLOCK FALSE
