--------------------------- MODULE PortalSession ---------------------------
(***************************************************************************)
(* The shortcut backend of the desktop portal                              *)
(* (daemon/src/wayland_shortcut_backend.rs): a GlobalShortcuts session, the *)
(* two tasks that read its signals, and the channels from them to the       *)
(* worker.  The portal and the user's choices in it are external.           *)
(*                                                                         *)
(* Data.  A trigger is a shortcut or None.  Of the requests' two phases, a  *)
(* call and a Response signal subscribed to before the call, the outcome is *)
(* kept.  Signals of other sessions and shortcuts are dropped unseen.       *)
(***************************************************************************)
EXTENDS ShortcutConfig, Naturals, Sequences

CONSTANTS
  Omitted,     \* a ShortcutsChanged signal without our shortcut
  MaxPending   \* bound: messages in each channel

ASSUME PortalAssumption ==
  /\ \A s \in Shortcut \cup {None} : s # Omitted
  /\ MaxPending \in Nat

VARIABLES
  trigger,    \* the portal: what the user assigned
  version,    \* of its GlobalShortcuts interface
  session,    \* "none", "open", "unheard" when its activation task has ended,
              \* "lost" when the portal forgot it
  effective,  \* effective_trigger
  subscribed, \* the ShortcutsChanged task: "no", "spawned", "yes", "ended"
  signals,    \* ShortcutsChanged signals it has not read
  events,     \* backend events the worker has not read
  chan,       \* the activation channel
  missed      \* a change the tasks had no means to see, and no list made good

portalVars ==
  <<trigger, version, session, effective, subscribed, signals, events,
    chan, missed>>

Triggers == {None} \cup Shortcut

PortalInit ==
  /\ trigger = None
  /\ version \in {1, 2}
  /\ session = "none"
  /\ effective = None
  /\ subscribed = "no"
  /\ signals = <<>>
  /\ events = <<>>
  /\ chan = <<>>
  /\ missed = FALSE

\* The portal knows the session.
Known == session \in {"open", "unheard"}

-----------------------------------------------------------------------------
(* The portal *)

\* The user assigns or removes the trigger.
PortalChange(t, payload) ==
  /\ Known
  /\ t # trigger
  /\ payload \in {t, Omitted}
  /\ Len(signals) < MaxPending
  /\ trigger' = t
  /\ signals' = IF subscribed = "yes" THEN Append(signals, payload) ELSE signals
  /\ missed' = IF subscribed = "yes" THEN missed ELSE TRUE
  /\ UNCHANGED <<version, session, effective, subscribed, events, chan>>

\* The user presses the trigger: run_activation_loop forwards the signal.
PortalActivated ==
  /\ session = "open"
  /\ trigger # None
  /\ Len(chan) < MaxPending
  /\ chan' = Append(chan, "activation")
  /\ UNCHANGED <<trigger, version, session, effective, subscribed, signals,
                 events, missed>>

\* The portal service restarts.  The tasks' streams do not end.
PortalRestart ==
  /\ Known
  /\ session' = "lost"
  /\ missed' = TRUE
  /\ UNCHANGED <<trigger, version, effective, subscribed, signals, events,
                 chan>>

\* The activation task ends and its error goes down the channel: the
\* connection to the bus breaks, or an Activated signal cannot be decoded, in
\* a session that goes on.
StreamEnds ==
  /\ session = "open"
  /\ Len(chan) < MaxPending
  /\ chan' = Append(chan, "failed")
  /\ \/ session' = "lost" /\ missed' = TRUE
     \/ session' = "unheard" /\ UNCHANGED missed
  /\ UNCHANGED <<trigger, version, effective, subscribed, signals, events>>

-----------------------------------------------------------------------------
(* The ShortcutsChanged task *)

\* ensure_changed_listener_started spawned it after registration succeeded.
Subscribe(next) ==
  /\ subscribed = "spawned"
  /\ next \in {"yes", "ended"}
  /\ subscribed' = next
  /\ missed' = (missed \/ next = "ended")
  /\ UNCHANGED <<trigger, version, session, effective, signals, events, chan>>

\* ListShortcuts may be answered; a call of it may fail all the same.
Lists == Known /\ version >= 2

\* As ReadChanged, taking a signal without our shortcut for its removal.
ReadChangedOmittedIsRemoved ==
  /\ signals # <<>>
  /\ Len(events) < MaxPending
  /\ Len(chan) < MaxPending
  /\ signals' = Tail(signals)
  /\ events' = Append(events, IF Head(signals) = Omitted THEN None ELSE Head(signals))
  /\ chan' = Append(chan, "interrupted")
  /\ UNCHANGED <<trigger, version, session, effective, subscribed, missed>>

\* A signal without our shortcut makes it ask the portal; when the portal
\* does not list, what is known stays.
ReadChanged ==
  /\ signals # <<>>
  /\ Len(events) < MaxPending
  /\ Len(chan) < MaxPending
  /\ signals' = Tail(signals)
  /\ \/ /\ Head(signals) = Omitted
        /\ missed' = TRUE
        /\ UNCHANGED <<events, chan>>
     \/ /\ Head(signals) = Omitted => Lists
        /\ events' = Append(events, IF Head(signals) = Omitted THEN trigger
                                    ELSE Head(signals))
        /\ chan' = Append(chan, "interrupted")
        /\ UNCHANGED missed
  /\ UNCHANGED <<trigger, version, session, effective, subscribed>>

-----------------------------------------------------------------------------
(* The backend *)

\* evaluate_bound_shortcuts
Assigned(t) == IF t = None THEN "Unconfigured" ELSE "Active"

\* The outcomes and errors of register, which rebind calls without a session,
\* and of rebind with one, from what the portal lists or what was known.
PortalResults ==
  IF session = "none" THEN {"Unavailable", "Failed", "Active", "Unconfigured"}
  ELSE {Assigned(effective)} \cup (IF Lists THEN {Assigned(trigger)} ELSE {})

\* When register fails the session is closed and nothing is kept; its dialog
\* lets the user choose the trigger.
PortalRegister(result) ==
  IF session # "none"
  THEN /\ \/ /\ result = Assigned(effective)
             /\ UNCHANGED <<effective, missed>>
          \/ /\ Lists
             /\ result = Assigned(trigger)
             /\ effective' = trigger
             /\ missed' = (missed /\ (subscribed # "yes" \/ events # <<>>))
       /\ UNCHANGED <<trigger, version, session, subscribed, signals, events, chan>>
  ELSE IF result \in {"Unavailable", "Failed"}
  THEN UNCHANGED portalVars
  ELSE /\ session' = "open"
       /\ trigger' \in IF result = "Active" THEN Shortcut ELSE {None}
       /\ effective' = trigger'
       /\ subscribed' = "spawned"
       /\ UNCHANGED <<version, signals, events, chan, missed>>

ConfigureResult ==
  IF Lists THEN "Ok" ELSE IF session = "none" THEN "Failed" ELSE "Unavailable"
=============================================================================
