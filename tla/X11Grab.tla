------------------------------ MODULE X11Grab ------------------------------
(***************************************************************************)
(* The shortcut backend of X11 (daemon/src/x11_shortcut_backend.rs): passive*)
(* grabs of one key with every lock modifier, and the key events the server *)
(* sends for them.                                                         *)
(*                                                                         *)
(* The operators that change the backend are steps of ShortcutListener's    *)
(* worker; the keyboard and the other clients are external.                 *)
(*                                                                         *)
(* Data.  A grab is of a combination, the modifiers and the code of a key,  *)
(* and a lock state.  The layout of the keyboard is fixed: Keycode is what  *)
(* find_keycode resolves a key to, and two keys may have one code.          *)
(*                                                                         *)
(* The release and the press of an auto-repeat are taken to arrive          *)
(* together: the code looks one event ahead and no further.                 *)
(***************************************************************************)
EXTENDS ShortcutConfig, Naturals, Sequences, FiniteSets

CONSTANTS
  Contested,  \* masks some other client may grab
  LayoutKeys, \* keys the keyboard has
  Keycode,    \* find_keycode: a function on LayoutKeys
  MaxEvents   \* bound: events the backend has not read

LockStates == <<"none", "caps">>

\* What the server knows of a shortcut whose key the keyboard has.
Combination(s) == [modifiers |-> s.modifiers, code |-> Keycode[s.key]]

Mask ==
  {Combination(s) : s \in {t \in Shortcut : t.key \in LayoutKeys}}
    \X {LockStates[i] : i \in DOMAIN LockStates}

ASSUME X11Assumption ==
  /\ Contested \subseteq Mask
  /\ LayoutKeys \subseteq Keys
  /\ Keycode = [k \in LayoutKeys |-> Keycode[k]]
  /\ MaxEvents \in Nat

VARIABLES
  grabs,      \* the server: who holds each mask
  server,     \* whether the connection stands
  held,       \* the combination that is pressed, and whether it is sent to us
  xevents,    \* events sent and not read
  registered, \* registered_grab: a shortcut and its masks
  keyDown,
  wakePipe    \* a byte is in the self-pipe

x11Vars == <<grabs, server, held, xevents, registered, keyDown, wakePipe>>

NoGrab == [shortcut |-> None, masks |-> {}]

NotHeld == [combination |-> None, ours |-> FALSE]

X11Init ==
  /\ grabs \in [Mask -> {"free", "other"}]
  /\ \A m \in Mask \ Contested : grabs[m] = "free"
  /\ server = TRUE
  /\ held = NotHeld
  /\ xevents = <<>>
  /\ registered = NoGrab
  /\ keyDown = FALSE
  /\ wakePipe = FALSE

Free == {m \in Mask : grabs[m] = "free"}

Ours == {m \in Mask : grabs[m] = "us"}

-----------------------------------------------------------------------------
(* The server *)

OtherGrabs(m) ==
  /\ m \in Contested
  /\ grabs[m] = "free"
  /\ grabs' = [grabs EXCEPT ![m] = "other"]
  /\ UNCHANGED <<server, held, xevents, registered, keyDown, wakePipe>>

OtherReleases(m) ==
  /\ grabs[m] = "other"
  /\ grabs' = [grabs EXCEPT ![m] = "free"]
  /\ UNCHANGED <<server, held, xevents, registered, keyDown, wakePipe>>

\* repeat: the event has the time of the event before it.
KeyEvent(type, c, repeat) == [type |-> type, code |-> c.code, repeat |-> repeat]

\* A press activates the grab that has its mask, until the release.
Press(m) ==
  /\ server
  /\ held = NotHeld
  /\ Len(xevents) < MaxEvents
  /\ held' = [combination |-> m[1], ours |-> m \in Ours]
  /\ xevents' = IF m \in Ours
                THEN Append(xevents, KeyEvent("press", m[1], FALSE))
                ELSE xevents
  /\ UNCHANGED <<grabs, server, registered, keyDown, wakePipe>>

AutoRepeat ==
  /\ server
  /\ held.ours
  /\ Len(xevents) + 2 <= MaxEvents
  /\ xevents' = xevents \o <<KeyEvent("release", held.combination, FALSE),
                             KeyEvent("press", held.combination, TRUE)>>
  /\ UNCHANGED <<grabs, server, held, registered, keyDown, wakePipe>>

Release ==
  /\ server
  /\ held # NotHeld
  /\ Len(xevents) < MaxEvents
  /\ held' = NotHeld
  /\ xevents' = IF held.ours
                THEN Append(xevents, KeyEvent("release", held.combination, FALSE))
                ELSE xevents
  /\ UNCHANGED <<grabs, server, registered, keyDown, wakePipe>>

\* The server drops the grabs of a client that is gone.
HangUp ==
  /\ server
  /\ server' = FALSE
  /\ grabs' = [m \in Mask |-> IF grabs[m] = "us" THEN "free" ELSE grabs[m]]
  /\ held' = NotHeld
  /\ UNCHANGED <<xevents, registered, keyDown, wakePipe>>

-----------------------------------------------------------------------------
(* The backend *)

ModifierMasks(s) == {<<Combination(s), LockStates[i]>> : i \in DOMAIN LockStates}

Ungrabbed(masks) ==
  [m \in Mask |-> IF m \in masks /\ grabs[m] # "other" THEN "free" ELSE grabs[m]]

\* The place of the first mask of s the server refuses, past the end if none.
\* What the backend holds already it is given again.
FirstRefused(s) ==
  CHOOSE i \in 1 .. Len(LockStates) + 1 :
    /\ i \in DOMAIN LockStates => grabs[<<Combination(s), LockStates[i]>>] = "other"
    /\ \A j \in 1 .. i - 1 : grabs[<<Combination(s), LockStates[j]>>] # "other"

\* As ExecuteGrab, keeping the masks acquired before the refused one.
ExecuteGrabNoRollback(s) ==
  [m \in Mask |-> IF \E i \in 1 .. FirstRefused(s) - 1 : m = <<Combination(s), LockStates[i]>>
                  THEN "us" ELSE grabs[m]]

\* execute_grab, mask by mask.  When one is refused those acquired before it
\* are released.
ExecuteGrab(s) ==
  IF FirstRefused(s) \in DOMAIN LockStates
  THEN Ungrabbed({<<Combination(s), LockStates[i]>> : i \in 1 .. FirstRefused(s) - 1})
  ELSE [m \in Mask |-> IF m \in ModifierMasks(s) THEN "us" ELSE grabs[m]]

X11RegisterResult(s) ==
  IF registered.shortcut = s THEN "Active"
  ELSE IF s.key \notin LayoutKeys \/ ~server THEN "Failed"
  ELSE IF FirstRefused(s) \in DOMAIN LockStates THEN "Conflict"
  ELSE "Active"

\* register: the new grab is acquired before the old one is released, mask by
\* mask of the old one, those they share included.
X11Register(s) ==
  IF registered.shortcut = s \/ s.key \notin LayoutKeys \/ ~server
  THEN UNCHANGED <<grabs, registered, keyDown>>
  ELSE IF FirstRefused(s) \in DOMAIN LockStates
  THEN /\ grabs' = ExecuteGrab(s)
       /\ UNCHANGED <<registered, keyDown>>
  ELSE /\ grabs' = [m \in Mask |->
                     IF m \in registered.masks /\ ExecuteGrab(s)[m] = "us"
                     THEN "free" ELSE ExecuteGrab(s)[m]]
       /\ registered' = [shortcut |-> s, masks |-> ModifierMasks(s)]
       /\ keyDown' = FALSE

\* Drop: release_grab.
X11Drop ==
  /\ grabs' = Ungrabbed(registered.masks)
  /\ registered' = NoGrab
  /\ keyDown' = FALSE
  /\ UNCHANGED <<server, held, xevents, wakePipe>>

RegisteredCode == Keycode[registered.shortcut.key]

\* As X11Event, every release re-arming.
X11EventRearming(answer) ==
  /\ xevents # <<>>
  /\ LET e == Head(xevents) IN
       /\ xevents' = Tail(xevents)
       /\ keyDown' = IF e.code # RegisteredCode THEN keyDown ELSE e.type = "press"
       /\ answer = IF e.code = RegisteredCode /\ e.type = "press" /\ ~keyDown
                   THEN "activation" ELSE "none"
  /\ UNCHANGED <<grabs, server, held, registered, wakePipe>>

\* wait_for_activation reads an event.  A release followed by a press of the
\* same time is a repeat, and both are dropped; the event a release is
\* followed by is otherwise read next.
X11Event(answer) ==
  /\ xevents # <<>>
  /\ LET e == Head(xevents)
         ours == e.code = RegisteredCode
         repeated == /\ e.type = "release"
                     /\ Len(xevents) > 1
                     /\ xevents[2].type = "press"
                     /\ xevents[2].code = e.code
                     /\ xevents[2].repeat IN
       /\ xevents' = IF ours /\ repeated THEN Tail(Tail(xevents)) ELSE Tail(xevents)
       /\ keyDown' = IF ~ours \/ repeated THEN keyDown ELSE e.type = "press"
       /\ answer = IF ours /\ e.type = "press" /\ ~keyDown
                   THEN "activation" ELSE "none"
  /\ UNCHANGED <<grabs, server, held, registered, wakePipe>>

\* next_event finds a byte in the self-pipe.
X11Woken ==
  /\ wakePipe
  /\ wakePipe' = FALSE
  /\ UNCHANGED <<grabs, server, held, xevents, registered, keyDown>>
=============================================================================
