SPECIFICATION SFairSpec
CONSTANTS
  w1 = w1
  w2 = w2
  d1 = d1
  d2 = d2
  d3 = d3
  Windows = {w1, w2}
  Popup = Popup
  NoWindow = NoWindow
  Daemons = {d1, d2, d3}
  NoSocket = NoSocket
  Instances <- MCInstances
INVARIANTS
  ServiceTypeOK
  TypedInItsSession
  NoKeyLeftDown
  ReadyIsReady
  OneDaemon
PROPERTIES
  RightWindow
  PopupComesBack
CHECK_DEADLOCK FALSE
