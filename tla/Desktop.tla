------------------------------ MODULE Desktop -------------------------------
(***************************************************************************)
(* What the delivery of an item happens on: the windows of the user and the *)
(* one that has the focus, and the keys that are down because Pookie sent   *)
(* their presses.                                                          *)
(*                                                                         *)
(* The initial state chooses an instance: the environment, from which       *)
(* Platform derives the backends, whether popups are opened, and how often   *)
(* each disturbance happens.                                                *)
(* Popup stands for the popup's window: two popups are never alive at once. *)
(***************************************************************************)
EXTENDS Naturals, Sequences, FiniteSets, Platform

CONSTANTS
  Windows,   \* of the user's applications
  Popup,
  NoWindow,
  Instances

Disturbances ==
  {"move",    \* the user goes to another window or closes one
   "late",    \* a call is given up before its answer comes
   "fault",   \* a call on a connection fails
   "pause",   \* the compositor takes the virtual keyboard away
   "stop"}    \* the daemon is told to stop

ASSUME DesktopAssumption ==
  /\ Popup \notin Windows /\ NoWindow \notin Windows /\ Popup # NoWindow
  /\ \A i \in Instances :
       /\ i.environment \in Environment
       /\ i.bound \in [Disturbances -> Nat]
       /\ i.popups \in BOOLEAN

VARIABLES
  instance,
  left,     \* the bounds, counted down
  open,     \* the user's windows
  active,   \* the window with the focus
  asked,    \* the last activation requested of the window manager
  moves,    \* how often the user or the window manager moved the focus
  keys      \* virtual keys that are down

focus == FocusBackend(instance.environment)

paste == PasteBackend(instance.environment)

dismisses == DismissesOnFocusLoss(instance.environment)

desktopVars == <<instance, left, open, active, asked, moves, keys>>

Targets == Windows \cup {Popup, NoWindow}

DesktopInit ==
  /\ instance \in Instances
  /\ left = instance.bound
  /\ open = Windows
  /\ active \in Windows
  /\ asked = NoWindow
  /\ moves = 0
  /\ keys = {}

\* A disturbance of that kind happens.
Spend(kind) ==
  /\ left[kind] > 0
  /\ left' = [left EXCEPT ![kind] = @ - 1]

-----------------------------------------------------------------------------
(* The user and the window manager *)

UserFocus(w) ==
  /\ w \in open \ {active}
  /\ Spend("move")
  /\ active' = w
  /\ moves' = moves + 1
  /\ UNCHANGED <<instance, open, asked, keys>>

CloseWindow(w) ==
  /\ w \in open
  /\ Spend("move")
  /\ open' = open \ {w}
  /\ IF active = w
     THEN /\ active' \in open' \cup {NoWindow}
          /\ moves' = moves + 1
     ELSE UNCHANGED <<active, moves>>
  /\ UNCHANGED <<instance, asked, keys>>

\* The window manager activates what it was asked to, shown is what it can.
GrantFocus(shown) ==
  /\ asked \in shown
  /\ active' = asked
  /\ asked' = NoWindow
  /\ UNCHANGED <<instance, left, open, moves, keys>>

DesktopTypeOK ==
  /\ instance \in Instances
  /\ left \in [Disturbances -> Nat]
  /\ open \subseteq Windows
  /\ active \in Targets
  /\ asked \in Targets
  /\ moves \in Nat
  /\ keys \subseteq {"ctrl", "v"}
=============================================================================
