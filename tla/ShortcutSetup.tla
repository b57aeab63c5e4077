---------------------------- MODULE ShortcutSetup ----------------------------
(***************************************************************************)
(* The setup view of the popup (ui/src/shortcut_view.rs and its part of     *)
(* ui/src/app.rs): it polls the daemon for the status of the shortcut,      *)
(* records another one and has it saved, and shows what came of it.  It     *)
(* calls ReloadCoordinator through the daemon's request handler.            *)
(*                                                                         *)
(* Data.  A request is made by a thread of its own: "get" reads the status  *)
(* the daemon keeps, the others are calls of the coordinator.  Of the       *)
(* recorder the combination captured is kept; the messages are left out.    *)
(***************************************************************************)
EXTENDS ReloadCoordinator

VARIABLES
  screen,    \* view_mode, "closed" without a popup
  recording, \* is_recording
  candidate,
  shown,     \* shortcut_status, None before the first
  poll,      \* the thread behind shortcut_receiver
  action     \* the thread behind shortcut_action_receiver

popupVars == <<screen, recording, candidate, shown, poll, action>>

svars == <<rvars, popupVars>>

\* stage: "idle", "sent", "begun" (in the coordinator), "answered"; status:
\* the one answered, None for an error.
Request(op, s) == [op |-> op, shortcut |-> s, stage |-> "sent", status |-> None]

NoRequest == [op |-> "none", shortcut |-> None, stage |-> "idle", status |-> None]

\* PookieApp::new, in either mode, asks for the status at once.
PopupInit ==
  /\ screen \in IF instance.popup THEN {"history", "setup"} ELSE {"closed"}
  /\ recording = FALSE
  /\ candidate = None
  /\ shown = None
  /\ poll = IF instance.popup THEN Request("get", None) ELSE NoRequest
  /\ action = NoRequest

SInit == RInit /\ PopupInit

-----------------------------------------------------------------------------
\* The process ends and its threads with it; a call that has begun goes on.
Close ==
  /\ screen # "closed"
  /\ screen' = "closed"
  /\ recording' = FALSE
  /\ candidate' = None
  /\ shown' = None
  /\ poll' = NoRequest
  /\ action' = NoRequest
  /\ UNCHANGED rvars

\* The header's button and the attention banner.
OpenSetup ==
  /\ screen = "history"
  /\ screen' = "setup"
  /\ UNCHANGED <<recording, candidate, shown, poll, action, rvars>>

\* The back button leaves a recording as it is.
BackToHistory ==
  /\ screen = "setup"
  /\ screen' = "history"
  /\ UNCHANGED <<recording, candidate, shown, poll, action, rvars>>

Escape ==
  /\ screen = "setup"
  /\ IF recording
     THEN recording' = FALSE /\ candidate' = None /\ UNCHANGED screen
     ELSE screen' = "history" /\ UNCHANGED <<recording, candidate>>
  /\ UNCHANGED <<shown, poll, action, rvars>>

-----------------------------------------------------------------------------
(* Recording and saving *)

\* What the view has a section for: a native grab or a compositor.
Settable == screen = "setup" /\ shown # None /\ (platform = "x11" \/ Compositor)

Change ==
  /\ Settable
  /\ ~recording
  /\ candidate = None
  /\ recording' = TRUE
  /\ UNCHANGED <<screen, candidate, shown, poll, action, rvars>>

\* process_recording_events: keys without a modifier are ignored.
Capture(s) ==
  /\ Settable
  /\ recording
  /\ recording' = FALSE
  /\ candidate' = s
  /\ UNCHANGED <<screen, shown, poll, action, rvars>>

CancelRecording ==
  /\ Settable
  /\ recording
  /\ recording' = FALSE
  /\ candidate' = None
  /\ UNCHANGED <<screen, shown, poll, action, rvars>>

Discard ==
  /\ Settable
  /\ ~recording
  /\ candidate # None
  /\ candidate' = None
  /\ UNCHANGED <<screen, recording, shown, poll, action, rvars>>

\* Asks for an action; while one is under way the click does nothing.
Act(request) ==
  /\ action = NoRequest
  /\ calls < instance.bound.calls
  /\ calls' = calls + 1
  /\ action' = request
  /\ UNCHANGED <<screen, recording, candidate, shown, poll, lvars, coord, temp, edits>>

\* start_save_shortcut; the candidate stays until the answer.
Save ==
  /\ Settable
  /\ ~recording
  /\ candidate # None
  /\ Act(Request("set", candidate))

\* start_configure_portal
AskPortal ==
  /\ screen = "setup"
  /\ shown # None
  /\ platform = "portal"
  /\ Act(Request("portal", None))

\* The compositor loads its file; the view then asks for a recheck, unless a
\* request is under way.
ReloadSway ==
  /\ screen = "setup"
  /\ platform = "sway"
  /\ shown # None
  /\ shown.state = "Unbound"
  /\ live = file \/ disturbed < instance.bound.disturbances
  /\ IF ipc = "up"
     THEN /\ live' = file
          /\ disturbed' = IF live = file THEN disturbed ELSE disturbed + 1
          /\ poll' = IF poll = NoRequest /\ action = NoRequest
                     THEN Request("recheck", None) ELSE poll
     ELSE UNCHANGED <<live, disturbed, poll>>
  /\ UNCHANGED <<screen, recording, candidate, shown, action, ipc, file,
                 inspected, checked, x11Vars, portalVars, workerVars, instance, presses, config, coord,
                 temp,
                 calls, edits>>

-----------------------------------------------------------------------------
(* The requests *)

NeedsRecheck ==
  /\ shown # None
  /\ \/ Compositor /\ shown.state \in {"Unbound", "BindingConflict"}
     \/ platform = "portal" /\ shown.state = "Unconfigured"

\* As StartPoll, until there is a status.
StartPollUntilKnown ==
  /\ screen = "setup"
  /\ shown = None
  /\ ~recording
  /\ poll = NoRequest
  /\ action = NoRequest
  /\ poll' = Request("get", None)
  /\ UNCHANGED <<screen, recording, candidate, shown, action, rvars>>

\* Every 1.5 s in the setup view.
StartPoll ==
  /\ screen = "setup"
  /\ ~recording
  /\ poll = NoRequest
  /\ action = NoRequest
  /\ poll' = Request(IF NeedsRecheck THEN "recheck" ELSE "get", None)
  /\ UNCHANGED <<screen, recording, candidate, shown, action, rvars>>

Answering(request, newStatus) == [request EXCEPT !.stage = "answered", !.status = newStatus]

\* GetShortcutStatus, which waits for nobody.
GetStatus ==
  /\ poll.op = "get"
  /\ poll.stage = "sent"
  /\ poll' = Answering(poll, status)
  /\ UNCHANGED <<screen, recording, candidate, shown, action, rvars>>

PollBegins ==
  /\ poll.op = "recheck"
  /\ poll.stage = "sent"
  /\ poll' = [poll EXCEPT !.stage = "begun"]
  /\ RecheckCall("poll")
  /\ UNCHANGED <<screen, recording, candidate, shown, action>>

ActionBegins ==
  /\ action.stage = "sent"
  /\ action' = [action EXCEPT !.stage = "begun"]
  /\ \/ action.op = "portal" /\ PortalCall("popup")
     \/ /\ action.op = "set"
        /\ \/ SetRefused("popup", action.shortcut)
           \/ SetNotPrepared("popup", action.shortcut)
           \/ SetNative("popup", action.shortcut)
           \/ SetCompositor("popup", action.shortcut)
  /\ UNCHANGED <<screen, recording, candidate, shown, poll>>

\* The call ends with the status it finds, or an error.
CallReturns ==
  /\ Return
  /\ LET found == IF coord.answer = "Ok" THEN status ELSE None IN
       /\ poll' = IF coord.caller = "poll" /\ poll.stage = "begun"
                  THEN Answering(poll, found) ELSE poll
       /\ action' = IF coord.caller = "popup" /\ action.stage = "begun"
                    THEN Answering(action, found) ELSE action
  /\ UNCHANGED <<screen, recording, candidate, shown>>

-----------------------------------------------------------------------------
(* The answers *)

\* poll_shortcut_status, of shortcut_receiver.
ReadPoll ==
  /\ poll.stage = "answered"
  /\ poll' = NoRequest
  /\ shown' = IF poll.status = None THEN shown ELSE poll.status
  /\ UNCHANGED <<screen, recording, candidate, action, rvars>>

\* Of shortcut_action_receiver: an error keeps the candidate.
ReadAction ==
  /\ action.stage = "answered"
  /\ action' = NoRequest
  /\ IF action.status = None
     THEN UNCHANGED <<recording, candidate, shown>>
     ELSE /\ recording' = FALSE
          /\ candidate' = None
          /\ shown' = action.status
  /\ UNCHANGED <<screen, poll, rvars>>

-----------------------------------------------------------------------------
Clicks ==
  \/ Close
  \/ OpenSetup
  \/ BackToHistory
  \/ Escape
  \/ Change
  \/ \E s \in Shortcut : Capture(s)
  \/ CancelRecording
  \/ Discard
  \/ Save
  \/ AskPortal
  \/ ReloadSway

\* What the popup's frames and threads do by themselves.
PopupWorks == StartPoll \/ GetStatus \/ ReadPoll \/ ReadAction

Begin == PollBegins \/ ActionBegins

\* The call that has the gate, or that gets it next.
Calls == Begin \/ CallReturns \/ (UNCHANGED popupVars /\ Advance)

SNext ==
  \/ Running /\ Clicks
  \/ PopupWorks
  \/ Calls
  \/ UNCHANGED popupVars /\ Happens

SSpec == SInit /\ [][SNext]_svars

\* The worker, the task that reads the portal's signals, the calls and the
\* popup's frames are threads and tasks that run as long as their process
\* does; between the repeats of a key the worker finds the self-pipe readable.
\* Users, portals and other clients may do nothing.
SFairSpec ==
  /\ SSpec
  /\ WF_svars(UNCHANGED popupVars /\ Worker)
  /\ WF_svars(UNCHANGED popupVars /\ Woken)
  /\ WF_svars(UNCHANGED popupVars /\ ReadSignals)
  /\ WF_svars(Calls)
  /\ WF_svars(PopupWorks)

-----------------------------------------------------------------------------
(* Properties *)

StatusType ==
  [configured : Shortcut, effective : Triggers, state : States]

RequestType ==
  [op : {"none", "get", "recheck", "set", "portal"}, shortcut : Triggers,
   stage : {"idle", "sent", "begun", "answered"}, status : {None} \cup StatusType]

\* The types of the worker, the coordinator, the two backends with a state and
\* the view; a compositor's status is never a grab's, and the reverse.
STypeOK ==
  /\ grabs \in [Mask -> {"free", "us", "other"}]
  /\ registered.shortcut \in Triggers
  /\ registered.masks \subseteq Mask
  /\ trigger \in Triggers
  /\ effective \in Triggers
  /\ inspected \in Triggers
  /\ session \in {"none", "open", "unheard", "lost"}
  /\ pc \in WorkerPcs
  /\ config \in File
  /\ temp \in {None} \cup Document
  /\ status \in StatusType
  /\ Compositor => status.state \in BindingStates \cup {"Initializing"}
  /\ status.state \in BindingStates => Compositor
  /\ coord.op \in Ops \cup {"none"}
  /\ coord.at \in Awaits \cup {"idle", "end"}
  /\ coord.answer \in CallAnswers
  /\ coord.target \in Triggers
  /\ candidate \in Triggers
  /\ shown \in {None} \cup StatusType
  /\ poll \in RequestType
  /\ action \in RequestType

\* Two keys of the layout have one code.
SharedKeycode == \E k, l \in LayoutKeys : k # l /\ Keycode[k] = Keycode[l]

\* While the X server is up it holds exactly the grabs the backend means to
\* have: a refused registration leaves none behind, and a new one none of the
\* old; only where two keys have one code may it hold none of them
\* (execute_grab, register, release_grab).
GrabsMatch ==
  platform = "x11" /\ server =>
    \/ Ours = registered.masks
    \/ SharedKeycode /\ Ours = {}

\* "The shortcut is actively grabbed or registered"
\* (docs/shortcuts/status-model.md:93): while the worker runs and the status
\* says Active the server holds the grab.
ActiveIsGrabbed ==
  platform = "x11" /\ server /\ pc # "gone" /\ status.state = "Active" => Ours # {}

\* On X11 the status names the shortcut that is grabbed, whatever failed since
\* (handle_rebind keeps the status of the shortcut that still runs).
StatusTellsGrab ==
  platform = "x11" /\ registered # NoGrab =>
    /\ status.configured = registered.shortcut
    /\ current = registered.shortcut
    /\ status.state = "Active" => status.effective = registered.shortcut

\* The daemon writes config.toml, other than by making a missing one again.
FileWritten == edits' = edits /\ config' \notin {config, EnsureExists(config)}

\* Setting a shortcut on X11 changes the grab and the file or neither, and
\* leaves no temporary file: done, both are the new shortcut; refused, the grab
\* is what it was; rolled back, it is what the file says.  The file is written
\* by the step that ends an accepted set and by no other, so a refused or
\* rolled back one leaves it as it is (set_shortcut's three phases).
SetAllOrNothing ==
  [][platform = "x11" =>
       /\ FileWritten =>
            /\ coord'.at = "end"
            /\ coord'.op = "set"
            /\ coord'.answer = "Ok"
            /\ LoadFromPath(config') = coord'.target
       /\ coord.at # "end" /\ coord'.at = "end" /\ coord'.op = "set" /\ pc' # "gone" =>
            /\ temp' = None
            /\ CASE coord'.answer = "Ok" ->
                      /\ registered'.shortcut = coord'.target
                      /\ LoadFromPath(config') = coord'.target
                 [] coord'.answer = "RolledBack" ->
                      edits = 0 => registered'.shortcut = LoadOrDefault(config')
                 [] coord'.answer = "DoubleFailure" -> TRUE
                 [] OTHER ->
                      coord'.before # None => registered'.shortcut = coord'.before]_svars

\* One press of the shortcut opens the popup once, however long the key is held
\* (wait_for_activation drops auto-repeat); a call that rebinds between the
\* halves of a repeat may open it once again.
OneActivationPerPress == activations <= presses + calls

\* A set writes to config.toml, under a compositor, the configured shortcut or
\* one the compositor was asked about in that call: it answered, and the
\* shortcut was free or Pookie's when it did.  A reply nobody can parse counts
\* for such an answer, and what the user binds after it goes unseen (the
\* preflight of set_shortcut).
OccupiedNotTaken ==
  [][Compositor /\ FileWritten =>
       \/ status.configured = coord'.target
       \/ /\ checked.shortcut = coord'.target
          /\ checked.ipc # "down"
          /\ checked.ipc = "up" => checked.found \in {"Matched", "NotFound"}]_svars

\* "Err(ShortcutError) if the check could not be performed", "to ensure backends
\* never falsely report availability without an authoritative check"
\* (shortcut_backend.rs:357-360): what was bound to something else when it was
\* checked is not written.
OccupiedNeverTaken ==
  [][Compositor /\ FileWritten /\ status.configured # coord'.target =>
       checked.found \in {"Matched", "NotFound"}]_svars

\* When nothing is on its way from the portal the status shows the trigger the
\* user assigned, unless a change went unseen for want of a subscription.
PortalConverges ==
  platform = "portal" /\ Known /\ subscribed = "yes" /\ ~missed
    /\ signals = <<>> /\ events = <<>> =>
    effective = trigger /\ status.effective = trigger

\* Every call that got the gate gives it back: no command waits for a worker
\* that waits for an event (wake_trigger, the self-pipe, the reply channels).
GateReturned == coord # NoCall ~> coord = NoCall

\* A popup left in its setup view comes to show the running daemon's status,
\* whatever answer overtook another (start_poll_shortcut_status, poll_shortcut_status).
ShownCatchesUp ==
  <>[](screen = "setup" /\ ~recording /\ Running) => []<>(shown = status)

\* "The listener thread wakes immediately, drains the pipe, processes pending
\* control commands, and resumes listening" (docs/shortcuts/platforms/x11.md):
\* while the status says Active the worker listens.
ActiveIsHeard == status.state = "Active" => pc # "parked"
=============================================================================
