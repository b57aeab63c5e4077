-------------------------- MODULE ShortcutListener --------------------------
(***************************************************************************)
(* The worker thread of the global shortcut (daemon/src/shortcut_listener.rs)*)
(* over the backend of the session: it registers the shortcut, waits for    *)
(* activations, and between them obeys the commands of its handles and      *)
(* keeps the status they read.                                             *)
(*                                                                         *)
(* The initial state chooses the instance: the platform, "x11", "portal",   *)
(* "sway", "hyprland", "unknown" (a session without a backend) or "none"    *)
(* (the backend could not be made), whether a popup is opened, and the      *)
(* bounds of what users and coordinators do.  What other platforms work on  *)
(* is then idle.                                                           *)
(***************************************************************************)
EXTENDS X11Grab, PortalSession, CompositorBinding

CONSTANTS
  Instances,
  Bindings   \* what a compositor or its file may hold: sequences of bindings

ASSUME ListenerAssumption ==
  /\ \A i \in Instances :
       /\ i.platform \in {"x11", "portal", "sway", "hyprland", "unknown", "none"}
       /\ i.popup \in BOOLEAN
       /\ i.bound \in [calls : Nat, edits : Nat, presses : Nat, disturbances : Nat]
  /\ Bindings \subseteq Seq(Binding)

VARIABLES
  instance,
  ipc,         \* the compositor's socket: "up", "down", "garbled"
  live,        \* the bindings it has
  file,        \* those of its configuration file
  inspected,   \* registered_shortcut of the compositor's backend
  checked,     \* what there was to see at the last CheckConflict (the
               \* properties read it, no action)
  config,      \* config.toml
  pc,          \* the worker
  current,     \* current_shortcut
  wakeSet,     \* wake_trigger is Some
  cmds,        \* command_rx
  reply,       \* the answer the coordinator awaits, NoReply before it
  status,
  activations, \* sent to the main task
  presses,     \* of the shortcut's keys
  disturbed    \* what other programs and the user did to the platform

platform == instance.platform

compositorVars == <<ipc, live, file, inspected, checked>>

workerVars == <<pc, current, wakeSet, cmds, reply, status, activations>>

boundVars == <<instance, presses, disturbed>>

lvars == <<x11Vars, portalVars, compositorVars, workerVars, boundVars, config>>

WorkerPcs == {"start", "drain", "events", "wait", "parked", "serve", "gone"}

Compositor == platform \in {"sway", "hyprland"}

\* Sway's replies are parsed or an error, as if there were none.
IpcStates == {"up", "down"} \cup IF platform = "hyprland" THEN {"garbled"} ELSE {}

BindingStates == {"Verified", "BoundUnverified", "Unbound", "BindingConflict"}

States == BindingStates \cup
  {"Initializing", "Active", "Unconfigured", "Conflict", "Unavailable", "Failed"}

NoReply == "none"

Status(s, e, state) == [configured |-> s, effective |-> e, state |-> state]

\* What s runs in the compositor, whether or not its reply can be read.
Bound(s) == [shortcut |-> s, ipc |-> ipc, found |-> LiveDiagnosis(platform, "up", live, s)]

NotChecked == [shortcut |-> None, ipc |-> "down", found |-> "NotFound"]

\* A command and whether somebody still awaits its answer.
Command(kind, s) == [kind |-> kind, shortcut |-> s, awaited |-> TRUE]

LInit ==
  /\ X11Init
  /\ PortalInit
  /\ instance \in Instances
  /\ platform = "x11" \/ Free = Mask
  /\ platform = "portal" \/ version = 1
  /\ ipc \in IpcStates
  /\ live \in Bindings
  /\ file \in Bindings
  /\ live = file
  /\ Compositor \/ (ipc = "down" /\ live = <<>>)
  /\ inspected = None
  /\ checked = NotChecked
  /\ current = LoadOrDefault(config)
  /\ pc = IF platform = "none" THEN "gone" ELSE "start"
  /\ wakeSet = (platform = "x11")
  /\ cmds = <<>>
  /\ reply = NoReply
  /\ status = Status(current, None,
                     IF platform = "none" THEN "Unavailable" ELSE "Initializing")
  /\ activations = 0
  /\ presses = 0
  /\ disturbed = 0

-----------------------------------------------------------------------------
(* The compositor *)

\* The user edits its file, which it loads at once or at the next reload.
EditBindings(b, loads) ==
  /\ Compositor
  /\ b \in Bindings
  /\ b # file \/ loads
  /\ file' = b
  /\ live' = IF loads THEN b ELSE live
  /\ UNCHANGED <<ipc, inspected, checked>>

IpcChanges(next) ==
  /\ Compositor
  /\ next \in IpcStates \ {ipc}
  /\ ipc' = next
  /\ UNCHANGED <<live, file, inspected, checked>>

-----------------------------------------------------------------------------
(* The backend of the platform *)

\* What register and rebind may answer: outcomes and errors.
Results(s) ==
  CASE platform = "x11" -> {X11RegisterResult(s)}
    [] platform = "portal" -> PortalResults
    [] Compositor -> {CompositorStatus(platform, ipc, live, file, s)}
    [] OTHER -> {"Unavailable"}

\* register and rebind, with that answer.
Register(s, result) ==
  \/ /\ platform = "x11"
     /\ X11Register(s)
     /\ UNCHANGED <<server, held, xevents, wakePipe, portalVars, compositorVars>>
  \/ /\ platform = "portal"
     /\ PortalRegister(result)
     /\ UNCHANGED <<x11Vars, compositorVars>>
  \/ /\ Compositor
     /\ inspected' = s
     /\ UNCHANGED <<ipc, live, file, checked, x11Vars, portalVars>>
  \/ /\ platform = "unknown"
     /\ UNCHANGED <<x11Vars, portalVars, compositorVars>>

Ok(result) == result \in BindingStates \cup {"Active", "Unconfigured"}

\* apply_outcome_to_status; only a native grab has an effective shortcut
\* that is the configured one.
OutcomeStatus(s, result) ==
  Status(s,
         CASE platform = "portal" /\ result = "Active" -> effective'
           [] platform = "x11" /\ result = "Active" -> s
           [] OTHER -> None,
         result)

-----------------------------------------------------------------------------
(* The worker *)

\* The first registration.  An error becomes the status.
Start ==
  /\ pc = "start"
  /\ \E result \in Results(current) :
       /\ Register(current, result)
       /\ status' = IF Ok(result) THEN OutcomeStatus(current, result)
                    ELSE Status(current, None, result)
       /\ wakeSet' = IF platform = "portal" THEN Ok(result) ELSE wakeSet
  /\ pc' = IF Compositor THEN "serve" ELSE "drain"
  /\ UNCHANGED <<current, cmds, reply, activations, boundVars, config>>

\* As RebindStatus, recording every failure.
RebindStatusOverwrites(s, result) ==
  IF Ok(result) THEN OutcomeStatus(s, result) ELSE Status(s, None, result)

\* What handle_rebind does with a failure of a native or portal backend:
\* the status of the shortcut that still runs is kept.
RebindStatus(s, result) ==
  IF Ok(result) THEN OutcomeStatus(s, result) ELSE status

\* An answer, to the coordinator if it still waits.
Answer(c, value) == reply' = IF c.awaited THEN value ELSE reply

Listening == pc \in {"drain", "parked", "serve"} /\ cmds # <<>>

Takes(kind) ==
  /\ Listening
  /\ Head(cmds).kind = kind
  /\ cmds' = Tail(cmds)

\* handle_rebind
Rebind ==
  /\ Takes("Rebind")
  /\ LET s == Head(cmds).shortcut IN
       \E result \in Results(s) :
         /\ Register(s, result)
         /\ status' = RebindStatus(s, result)
         /\ current' = IF Ok(result) THEN s ELSE current
         /\ Answer(Head(cmds), IF Ok(result) THEN "Ok" ELSE result)
         /\ wakeSet' = (wakeSet \/ (platform = "portal" /\ Ok(result)))
  /\ UNCHANGED <<pc, activations, boundVars, config>>

\* handle_recheck: only a compositor is inspected again.
Recheck ==
  /\ Takes("Recheck")
  /\ IF Compositor
     THEN \E result \in Results(current) :
            /\ Register(current, result)
            /\ status' = OutcomeStatus(current, result)
     ELSE UNCHANGED <<x11Vars, portalVars, compositorVars, status>>
  /\ Answer(Head(cmds), "Ok")
  /\ UNCHANGED <<pc, current, wakeSet, activations, boundVars, config>>

\* handle_configure_portal opens the portal's dialog and does not wait for it.
ConfigurePortal ==
  /\ Takes("ConfigurePortal")
  /\ Answer(Head(cmds), IF platform = "portal" THEN ConfigureResult ELSE "Unavailable")
  /\ UNCHANGED <<x11Vars, portalVars, compositorVars, pc, current, wakeSet, status,
                 activations, boundVars, config>>

Check(s) == CheckConflict(platform, ipc, live, inspected, s)

CheckCommand ==
  /\ Takes("CheckConflict")
  /\ Answer(Head(cmds), Check(Head(cmds).shortcut))
  /\ checked' = Bound(Head(cmds).shortcut)
  /\ UNCHANGED <<x11Vars, portalVars, ipc, live, file, inspected, pc, current, wakeSet,
                 status, activations, boundVars, config>>

\* The thread ends; the backend and the commands not read are dropped.
Shutdown ==
  /\ Takes("Shutdown")
  /\ pc' = "gone"
  /\ IF platform = "x11" THEN X11Drop ELSE UNCHANGED x11Vars
  /\ UNCHANGED <<portalVars, compositorVars, current, wakeSet, reply, status,
                 activations, boundVars, config>>

\* The commands have been drained; only the portal has events of its own.
Drained ==
  /\ pc = "drain"
  /\ cmds = <<>>
  /\ pc' = IF platform = "portal" THEN "events" ELSE "wait"
  /\ UNCHANGED <<x11Vars, portalVars, compositorVars, current, wakeSet, cmds, reply,
                 status, activations, boundVars, config>>

\* process_backend_event
BackendEvent ==
  /\ pc = "events"
  /\ events # <<>>
  /\ events' = Tail(events)
  /\ effective' = Head(events)
  /\ status' = [status EXCEPT !.effective = Head(events),
                              !.state = Assigned(Head(events))]
  /\ UNCHANGED <<trigger, version, session, subscribed, signals, chan, missed,
                 x11Vars, compositorVars, pc, current, wakeSet, cmds, reply, activations,
                 boundVars, config>>

EventsDrained ==
  /\ pc = "events"
  /\ events = <<>>
  /\ pc' = "wait"
  /\ UNCHANGED <<x11Vars, portalVars, compositorVars, current, wakeSet, cmds, reply,
                 status, activations, boundVars, config>>

-----------------------------------------------------------------------------
(* wait_for_activation *)

\* A key event of X11; an activation goes to the main task.
WaitKey(answer) ==
  /\ pc = "wait"
  /\ platform = "x11"
  /\ registered # NoGrab
  /\ X11Event(answer)
  /\ pc' = IF answer = "activation" THEN "drain" ELSE "wait"
  /\ activations' = IF answer = "activation" THEN activations + 1 ELSE activations
  /\ UNCHANGED <<portalVars, compositorVars, current, wakeSet, cmds, reply, status,
                 boundVars, config>>

\* Interrupted: the loop goes back to the commands.
WaitWoken ==
  /\ pc = "wait"
  /\ platform = "x11"
  /\ registered # NoGrab
  /\ X11Woken
  /\ pc' = "drain"
  /\ UNCHANGED <<portalVars, compositorVars, current, wakeSet, cmds, reply, status,
                 activations, boundVars, config>>

\* A message of the activation channel.
WaitPortal ==
  /\ pc = "wait"
  /\ platform = "portal"
  /\ session # "none"
  /\ chan # <<>>
  /\ chan' = Tail(chan)
  /\ pc' = IF Head(chan) = "failed" THEN "parked" ELSE "drain"
  /\ status' = IF Head(chan) = "failed" THEN [status EXCEPT !.state = "Failed"]
               ELSE status
  /\ activations' = IF Head(chan) = "activation" THEN activations + 1 ELSE activations
  /\ UNCHANGED <<trigger, version, session, effective, subscribed, signals,
                 events, missed, x11Vars, compositorVars, current, wakeSet, cmds, reply,
                 boundVars, config>>

\* Nothing is registered, the X server is gone or there is no backend: from
\* then on the thread only obeys commands.
WaitFails ==
  /\ pc = "wait"
  /\ \/ /\ platform = "x11"
        /\ registered = NoGrab \/ ~server
     \/ /\ platform = "portal"
        /\ session = "none"
     \/ platform = "unknown"
  /\ pc' = "parked"
  /\ status' = [status EXCEPT !.state = IF platform = "unknown" THEN "Unavailable"
                                        ELSE "Failed"]
  /\ UNCHANGED <<x11Vars, portalVars, compositorVars, current, wakeSet, cmds, reply,
                 activations, boundVars, config>>

WorkerStep ==
  \/ Start
  \/ Rebind
  \/ Recheck
  \/ ConfigurePortal
  \/ CheckCommand
  \/ Shutdown
  \/ Drained
  \/ BackendEvent
  \/ EventsDrained
  \/ \E answer \in {"activation", "none"} : WaitKey(answer)
  \/ WaitWoken
  \/ WaitPortal
  \/ WaitFails

ChangedStep ==
  /\ \/ \E next \in {"yes", "ended"} : Subscribe(next)
     \/ ReadChanged
  /\ UNCHANGED <<x11Vars, compositorVars, workerVars, boundVars, config>>

\* What other programs and the user do to the platform.
Disturbance ==
  /\ disturbed < instance.bound.disturbances
  /\ disturbed' = disturbed + 1
  /\ \/ /\ platform = "x11"
        /\ HangUp \/ \E m \in Mask : OtherGrabs(m) \/ OtherReleases(m)
        /\ UNCHANGED <<portalVars, compositorVars>>
     \/ /\ platform = "portal"
        /\ \/ \E t \in Triggers : \E p \in {t, Omitted} : PortalChange(t, p)
           \/ PortalRestart
           \/ StreamEnds
        /\ UNCHANGED <<x11Vars, compositorVars>>
     \/ /\ Compositor
        /\ \/ \E b \in Bindings, loads \in BOOLEAN : EditBindings(b, loads)
           \/ \E next \in IpcStates : IpcChanges(next)
        /\ UNCHANGED <<x11Vars, portalVars>>
  /\ UNCHANGED <<workerVars, config, instance, presses>>

Keyboard ==
  /\ \/ /\ presses < instance.bound.presses
        /\ presses' = presses + 1
        /\ \/ /\ platform = "x11"
              /\ \E m \in Mask : Press(m)
              /\ UNCHANGED portalVars
           \/ /\ platform = "portal"
              /\ PortalActivated
              /\ UNCHANGED x11Vars
     \/ /\ platform = "x11"
        /\ AutoRepeat \/ Release
        /\ UNCHANGED <<portalVars, presses>>
  /\ UNCHANGED <<compositorVars, workerVars, config, instance, disturbed>>

-----------------------------------------------------------------------------
(* The handles *)

\* As Send, without the wake.
SendNoWake(kind, s) ==
  /\ pc # "gone"
  /\ cmds' = Append(cmds, Command(kind, s))
  /\ UNCHANGED <<grabs, server, held, xevents, registered, keyDown, wakePipe,
                 trigger, version, session, effective, subscribed, signals,
                 events, chan, missed, compositorVars, pc, current, wakeSet, status,
                 activations, boundVars>>

\* send, and wake: of X11 and of the portal, it interrupts the wait.  With
\* MaxPending messages unread the next one does as well.
Send(kind, s) ==
  /\ pc # "gone"
  /\ cmds' = Append(cmds, Command(kind, s))
  /\ wakePipe' = (wakePipe \/ platform = "x11")
  /\ chan' = IF platform = "portal" /\ wakeSet /\ Len(chan) < MaxPending
             THEN Append(chan, "interrupted") ELSE chan
  /\ UNCHANGED <<grabs, server, held, xevents, registered, keyDown,
                 trigger, version, session, effective, subscribed, signals,
                 events, missed, compositorVars, pc, current, wakeSet, status,
                 activations, boundVars>>

\* Drop, when the daemon stops.
Drop ==
  /\ \A i \in DOMAIN cmds : cmds[i].kind # "Shutdown"
  /\ Send("Shutdown", None)
  /\ UNCHANGED <<reply, config>>
=============================================================================
