SPECIFICATION ASpec
CONSTANTS
  a = a
  crlf = crlf
  b = b
  r = r
  c1 = c1
  c2 = c2
  w1 = w1
  w2 = w2
  NoContent = NoContent
  NoTarget = NoTarget
  Copies = {a}
  Instances <- MCOne
  Normal <- Normalized
  Clients = {c1}
  Windows = {w1, w2}
  MaxOwned = 3
  MaxIds = 2
INVARIANTS
  NoReentry
CHECK_DEADLOCK FALSE
