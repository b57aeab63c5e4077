SPECIFICATION SSpec
CONSTANTS
  super = super
  v = v
  b = b
  Modifiers = {super}
  Keys = {v, b}
  DefaultShortcut <- SuperV
  BadText = BadText
  None = None
  Missing = Missing
  Malformed = Malformed
  Contested <- MCContested
  LayoutKeys = {v, b}
  Keycode <- MCKeycode
  MaxEvents = 2
  Omitted = Omitted
  MaxPending = 2
  Instances <- MCInstances
  Bindings <- MCBindings
  Edits <- MCEdits
INVARIANTS
  ActiveIsHeard
CHECK_DEADLOCK FALSE
