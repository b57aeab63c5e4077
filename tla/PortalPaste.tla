---------------------------- MODULE PortalPaste -----------------------------
(***************************************************************************)
(* Direct paste through the RemoteDesktop portal and EIS                    *)
(* (daemon/src/portal_eis_paste_backend.rs): a worker with a session that    *)
(* holds a virtual keyboard, the events the compositor sends about it, the   *)
(* commands of callers, and a health that callers read without the worker.  *)
(* Whatever ends a session makes the worker wait, connect and try again,     *)
(* and refuse pastes meanwhile.                                            *)
(*                                                                         *)
(* While it types the worker reads neither events nor commands: what it      *)
(* believes of the keyboard may be out of date.  The two waits and the      *)
(* attempts of a reconnection are one state each.  Timeouts may happen at    *)
(* any point; a caller's checks of the health and its command are one step,  *)
(* for nothing blocks between them and a reconnection takes a second.       *)
(***************************************************************************)
EXTENDS Desktop

VARIABLES
  health,    \* the atomic PortalEisHealth
  worker,    \* "run", "typing", "delay", "connect" or "dead"
  resumed,   \* the session's fields
  emulating,
  keyboard,  \* the device at the compositor
  events,    \* those the worker has not read
  requests,  \* WorkerCommand, not received yet
  typing,    \* the paste being typed and its next frame
  pasted     \* what the caller of a paste is answered, "none" before

portalVars == <<health, worker, resumed, emulating, keyboard, events, requests,
                typing, pasted>>

sessionVars == <<resumed, emulating, keyboard, events>>

\* A command, whether its caller waits, and whether the session in which it
\* was sent has ended (ghost).
PasteRequest(kind) == [kind |-> kind, awaited |-> TRUE, stale |-> FALSE]

\* The frames of paste_ctrl_v: what is down after each.
Frames == <<{"ctrl"}, {"ctrl", "v"}, {"ctrl"}, {}>>

NotTyping == [frame |-> 0, request |-> PasteRequest("none")]

PortalInit ==
  /\ health = IF paste = "Portal" THEN "Ready" ELSE "Failed"
  /\ worker = IF paste = "Portal" THEN "run" ELSE "dead"
  /\ resumed = (paste = "Portal")
  /\ emulating = (paste = "Portal")
  /\ keyboard = IF paste = "Portal" THEN "emulating" ELSE "gone"
  /\ events = <<>>
  /\ requests = <<>>
  /\ typing = NotTyping
  /\ pasted = "none"

-----------------------------------------------------------------------------
(* The compositor *)

Connected == keyboard \in {"emulating", "resumed", "paused"}

\* A paused device is neutral until it is resumed and emulation starts anew.
PauseKeyboard ==
  /\ keyboard \in {"emulating", "resumed"}
  /\ Spend("pause")
  /\ keyboard' = "paused"
  /\ keys' = {}
  /\ events' = Append(events, "DevicePaused")
  /\ UNCHANGED <<instance, open, active, asked, moves, health, worker, resumed,
                 emulating, requests, typing, pasted>>

ResumeKeyboard ==
  /\ keyboard = "paused"
  /\ keyboard' = "resumed"
  /\ events' = Append(events, "DeviceResumed")
  /\ UNCHANGED <<desktopVars, health, worker, resumed, emulating, requests,
                 typing, pasted>>

\* The device is removed, or the connection ends.
LoseKeyboard ==
  /\ Connected
  /\ Spend("fault")
  /\ keyboard' = "gone"
  /\ keys' = {}
  /\ \E e \in {"DeviceRemoved", "Disconnected"} : events' = Append(events, e)
  /\ UNCHANGED <<instance, open, active, asked, moves, health, worker, resumed,
                 emulating, requests, typing, pasted>>

-----------------------------------------------------------------------------
(* The end of a session *)

\* Outcome r for request q, if it has a caller.
Replied(q, r) == IF q.awaited /\ q.kind = "Paste" THEN r ELSE pasted

\* The session is dropped, and with it the compositor's device.
Reconnect ==
  /\ health' = "Recovering"
  /\ worker' = "delay"
  /\ resumed' = FALSE
  /\ emulating' = FALSE
  /\ keyboard' = "gone"
  /\ keys' = {}
  /\ events' = <<>>
  /\ requests' = [i \in DOMAIN requests |-> [requests[i] EXCEPT !.stale = TRUE]]

\* The worker returns: commands it had not received lose their channels.
Stop(rest) ==
  /\ health' = "Failed"
  /\ worker' = "dead"
  /\ resumed' = FALSE
  /\ emulating' = FALSE
  /\ keyboard' = "gone"
  /\ keys' = {}
  /\ events' = <<>>
  /\ requests' = <<>>
  /\ pasted' = IF \E i \in DOMAIN rest : rest[i].awaited /\ rest[i].kind = "Paste"
               THEN "Unavailable" ELSE pasted

-----------------------------------------------------------------------------
(* session.run: a command or an event, whichever comes first *)

ReceivePaste ==
  /\ worker = "run"
  /\ requests # <<>>
  /\ Head(requests).kind = "Paste"
  /\ requests' = Tail(requests)
  /\ \/ /\ resumed /\ emulating
        /\ worker' = "typing"
        /\ typing' = [frame |-> 1, request |-> Head(requests)]
        /\ UNCHANGED pasted
     \/ /\ ~resumed \/ ~emulating
        /\ pasted' = Replied(Head(requests), "Unavailable")
        /\ UNCHANGED <<worker, typing>>
  /\ UNCHANGED <<desktopVars, health, sessionVars>>

ReceiveShutdown ==
  /\ worker = "run"
  /\ requests # <<>>
  /\ Head(requests).kind = "Shutdown"
  /\ Stop(Tail(requests))
  /\ UNCHANGED <<instance, left, open, active, asked, moves, typing>>

\* send_key_frame: a frame that is flushed counts if the device emulates.
TypeFrame ==
  /\ worker = "typing"
  /\ keys' = IF keyboard = "emulating" THEN Frames[typing.frame] ELSE keys
  /\ \/ /\ typing.frame < 4
        /\ typing' = [typing EXCEPT !.frame = @ + 1]
        /\ UNCHANGED <<worker, pasted>>
     \/ /\ typing.frame = 4
        /\ pasted' = Replied(typing.request, "ok")
        /\ worker' = "run"
        /\ typing' = NotTyping
  /\ UNCHANGED <<instance, left, open, active, asked, moves, health, sessionVars,
                 requests>>

FlushFails ==
  \/ keyboard = "gone" /\ UNCHANGED left
  \/ Spend("fault")

\* As TypeFails, answering and staying in the session.
TypeFailsOnly ==
  /\ worker = "typing"
  /\ FlushFails
  /\ pasted' = Replied(typing.request, "Failed")
  /\ worker' = "run"
  /\ typing' = NotTyping
  /\ UNCHANGED <<instance, open, active, asked, moves, keys, health, sessionVars,
                 requests>>

\* A flush fails: the keys are released if they can be, and the session is
\* given up.
TypeFails ==
  /\ worker = "typing"
  /\ FlushFails
  /\ pasted' = Replied(typing.request, "Failed")
  /\ Reconnect
  /\ typing' = NotTyping
  /\ UNCHANGED <<instance, open, active, asked, moves>>

NextEvent(e) ==
  /\ worker = "run"
  /\ events # <<>>
  /\ Head(events) = e
  /\ UNCHANGED <<instance, open, active, asked, moves, typing, pasted>>

\* handle_event: emulation is started on a resumed device, if that can be
\* flushed.  A device paused again meanwhile ignores it.
DeviceResumed ==
  /\ NextEvent("DeviceResumed")
  /\ \/ /\ resumed' = TRUE
        /\ emulating' = TRUE
        /\ keyboard' = IF keyboard = "resumed" THEN "emulating" ELSE keyboard
        /\ health' = "Ready"
        /\ events' = Tail(events)
        /\ UNCHANGED <<left, keys, worker, requests>>
     \/ FlushFails /\ Reconnect

\* As DevicePaused, keeping the health.
DevicePausedQuietly ==
  /\ NextEvent("DevicePaused")
  /\ resumed' = FALSE
  /\ emulating' = FALSE
  /\ events' = Tail(events)
  /\ UNCHANGED <<left, keys, worker, keyboard, health, requests>>

DevicePaused ==
  /\ NextEvent("DevicePaused")
  /\ resumed' = FALSE
  /\ emulating' = FALSE
  /\ health' = "Paused"
  /\ events' = Tail(events)
  /\ UNCHANGED <<left, keys, worker, keyboard, requests>>

\* The device is removed, EIS disconnects, or the stream fails or ends.
SessionLost ==
  /\ \E e \in {"DeviceRemoved", "Disconnected"} : NextEvent(e)
  /\ Reconnect
  /\ UNCHANGED left

-----------------------------------------------------------------------------
(* run_worker: the recovery *)

\* handle_offline_command, in either wait
OfflinePaste ==
  /\ worker \in {"delay", "connect"}
  /\ requests # <<>>
  /\ Head(requests).kind = "Paste"
  /\ pasted' = Replied(Head(requests), "Unavailable")
  /\ requests' = Tail(requests)
  /\ UNCHANGED <<desktopVars, health, worker, sessionVars, typing>>

OfflineShutdown ==
  /\ worker \in {"delay", "connect"}
  /\ requests # <<>>
  /\ Head(requests).kind = "Shutdown"
  /\ Stop(Tail(requests))
  /\ UNCHANGED <<instance, left, open, active, asked, moves, typing>>

DelayEnds ==
  /\ worker = "delay"
  /\ worker' = "connect"
  /\ UNCHANGED <<desktopVars, health, sessionVars, requests, typing, pasted>>

ConnectFails ==
  /\ worker = "connect"
  /\ worker' = "delay"
  /\ health' = "Recovering"
  /\ UNCHANGED <<desktopVars, sessionVars, requests, typing, pasted>>

\* connect: a session whose keyboard is resumed and emulates
Established ==
  /\ resumed' = TRUE
  /\ emulating' = TRUE
  /\ keyboard' = "emulating"
  /\ health' = "Ready"
  /\ worker' = "run"

\* As Connects, leaving the commands that waited for the new session.
ConnectsKeepingCommands ==
  /\ worker = "connect"
  /\ Established
  /\ UNCHANGED <<desktopVars, events, requests, typing, pasted>>

\* reject_pending_commands, up to a shutdown, before the session is used
Connects ==
  /\ worker = "connect"
  /\ \/ /\ \A i \in DOMAIN requests : requests[i].kind = "Paste"
        /\ Established
        /\ requests' = <<>>
        /\ pasted' = IF \E i \in DOMAIN requests : requests[i].awaited
                     THEN "Unavailable" ELSE pasted
        /\ UNCHANGED <<keys, events>>
     \/ /\ \E i \in DOMAIN requests : requests[i].kind = "Shutdown"
        /\ Stop(requests)
  /\ UNCHANGED <<instance, left, open, active, asked, moves, typing>>

\* What the worker does unless its connections or the compositor fail it.
WorkerStep ==
  \/ ReceivePaste \/ ReceiveShutdown \/ TypeFrame
  \/ DeviceResumed \/ DevicePaused \/ SessionLost
  \/ OfflinePaste \/ OfflineShutdown \/ DelayEnds \/ Connects

CompositorStep == PauseKeyboard \/ ResumeKeyboard \/ LoseKeyboard

-----------------------------------------------------------------------------
(* The callers *)

\* capability, and paste up to its command
RequestPaste ==
  /\ health = "Ready"
  /\ requests' = Append(requests, PasteRequest("Paste"))
  /\ UNCHANGED <<desktopVars, health, worker, sessionVars, typing, pasted>>

TakePasted ==
  /\ pasted' = "none"
  /\ UNCHANGED <<desktopVars, health, worker, sessionVars, requests, typing>>

\* PASTE_COMMAND_TIMEOUT: the channel is dropped and the worker distrusted;
\* the command stays where it is.
PasteTimesOut ==
  /\ pasted = "none"
  /\ Spend("late")
  /\ health' = "Failed"
  /\ requests' = [i \in DOMAIN requests |-> [requests[i] EXCEPT !.awaited = FALSE]]
  /\ typing' = [typing EXCEPT !.request.awaited = FALSE]
  /\ UNCHANGED <<instance, open, active, asked, moves, keys, worker, sessionVars,
                 pasted>>

\* request_shutdown: its command.  Answered or given up, the health becomes
\* Failed; in the second case the process ends all the same.
RequestShutdown ==
  /\ worker # "dead"
  /\ \A i \in DOMAIN requests : requests[i].kind # "Shutdown"
  /\ requests' = Append(requests, PasteRequest("Shutdown"))
  /\ UNCHANGED <<health, worker, sessionVars, typing, pasted>>

PortalTypeOK ==
  LET request == [kind : {"Paste", "Shutdown", "none"}, awaited : BOOLEAN,
                  stale : BOOLEAN] IN
    /\ health \in {"Ready", "Paused", "Recovering", "Failed"}
    /\ worker \in {"run", "typing", "delay", "connect", "dead"}
    /\ resumed \in BOOLEAN
    /\ emulating \in BOOLEAN
    /\ keyboard \in {"emulating", "resumed", "paused", "gone"}
    /\ events \in
         Seq({"DevicePaused", "DeviceResumed", "DeviceRemoved", "Disconnected"})
    /\ requests \in Seq(request)
    /\ typing \in [frame : 0..4, request : request]
    /\ pasted \in {"none", "ok", "Unavailable", "Failed"}

-----------------------------------------------------------------------------
(* Properties *)

\* A paste is typed in the session in which it was requested: a command that
\* the loss of a session left behind is refused, never typed by the next.
\* (run_worker, reject_pending_commands.)
TypedInItsSession == worker = "typing" => ~typing.request.stale

\* Outside a paste the worker leaves no key down, whatever failed between the
\* four frames.  (paste_ctrl_v, cleanup_pressed_keys and the reconnection.)
NoKeyLeftDown == paste = "Portal" /\ worker # "typing" => keys = {}

\* While the health says Ready and the worker has read what it was sent, the
\* compositor takes its keys: pauses, removals, reconnections and timeouts
\* never leave a health that promises more.  (health_capability, handle_event.)
ReadyIsReady ==
  health = "Ready" /\ events = <<>> =>
    worker \in {"run", "typing"} /\ resumed /\ emulating /\ keyboard = "emulating"
=============================================================================
