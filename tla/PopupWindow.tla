---------------------------- MODULE PopupWindow -----------------------------
(***************************************************************************)
(* The popup as a process and as a window: the slot with which the daemon    *)
(* keeps it single (daemon/src/ui_launcher.rs), its start (ui/src/main.rs),   *)
(* the acquisition of the focus (ui/src/popup_focus.rs), and the frames in   *)
(* which it reads the keyboard and the outcome of an activation, hides,      *)
(* comes back and closes (ui/src/app.rs).                                   *)
(*                                                                         *)
(* A hidden window gets no frames of its own: only request_repaint wakes it. *)
(* Data.  The view is the history with an item selected and no menu;         *)
(* HistoryWatch and ShortcutSetup model what it shows.                      *)
(***************************************************************************)
EXTENDS Desktop

VARIABLES
  slot,   \* UiLauncher.popup_running
  popup   \* the process

popupVars == <<slot, popup>>

Outcomes == {"Pasted", "ClipboardUpdated", "PasteFailed", "NotFound",
             "UnsupportedContent", "Error"}

Inputs == {"none", "Enter", "Escape", "CloseButton"}

\* origin: the windows that had the focus while the target was captured (ghost)
NoProcess ==
  [pc |-> "none", target |-> NoWindow, origin |-> {}, visible |-> FALSE,
   hadFocus |-> FALSE, acquisition |-> "waiting", busy |-> FALSE,
   outcome |-> "none", wake |-> FALSE]

PopupInit ==
  /\ slot = FALSE
  /\ popup = NoProcess

-----------------------------------------------------------------------------
(* The launcher *)

\* launch_mode: the slot is claimed, or a popup is alive and nothing happens.
Launch ==
  /\ instance.popups
  /\ ~slot
  /\ slot' = TRUE
  /\ popup' = [NoProcess EXCEPT !.pc = "launching"]
  /\ UNCHANGED desktopVars

\* As LaunchFails, keeping the slot.
LaunchFailsKeepingSlot ==
  /\ popup.pc = "launching"
  /\ popup' = NoProcess
  /\ UNCHANGED <<slot, desktopVars>>

\* There is no binary, or it cannot be spawned.
LaunchFails ==
  /\ popup.pc = "launching"
  /\ slot' = FALSE
  /\ popup' = NoProcess
  /\ UNCHANGED desktopVars

Spawn ==
  /\ popup.pc = "launching"
  /\ popup' = [popup EXCEPT !.pc = "start"]
  /\ UNCHANGED <<slot, desktopVars>>

\* The thread that waits for the child
Reap ==
  /\ popup.pc = "exited"
  /\ slot' = FALSE
  /\ popup' = NoProcess
  /\ UNCHANGED desktopVars

-----------------------------------------------------------------------------
(* The window *)

Focused == active = Popup

\* The window manager gives the focus of a window that went to another.
LeavesScreen ==
  /\ active' \in IF Focused THEN open \cup {NoWindow} ELSE {active}
  /\ asked' = IF asked = Popup THEN NoWindow ELSE asked

\* The target is known, and the window is mapped.
Opens(target) ==
  /\ popup' = [popup EXCEPT !.pc = "open", !.target = target, !.visible = TRUE]
  /\ asked' = Popup

\* popup_focus.rs, poll: the window is found, and then activated for a while.
Acquisition ==
  IF Focused \/ popup.hadFocus \/ instance.environment.session # "x11"
  THEN {popup.acquisition}
  ELSE CASE popup.acquisition = "waiting" -> {"waiting", "activating"}
         [] OTHER -> {"activating", "timedOut"}

Failure == Outcomes \ {"Pasted", "ClipboardUpdated"}

\* PookieApp::ui, a frame with input i.  ensure_popup_focus asks for the focus
\* until it was had once; poll_activation reads an outcome; then the focus
\* lost, Escape or the button close the popup, or Enter starts an activation.
Frame(i) ==
  /\ popup.pc = "open"
  /\ popup.visible \/ popup.wake
  /\ i \in {"Enter", "Escape"} => popup.visible /\ Focused
  /\ i = "CloseButton" => popup.visible
  /\ LET hadFocus == popup.hadFocus \/ Focused
         failed == popup.outcome \in Failure
         busy == popup.busy /\ ~failed
         closes ==
           \/ popup.outcome \in Outcomes \ Failure
           \/ dismisses /\ hadFocus /\ ~Focused /\ ~busy
           \/ i \in {"Escape", "CloseButton"}
         starts == i = "Enter" /\ ~busy
         shown == popup.visible \/ failed
         read(p, acquisition) ==
           [p EXCEPT !.hadFocus = hadFocus, !.acquisition = acquisition,
                     !.busy = busy, !.outcome = "none", !.wake = FALSE] IN
       \E a \in Acquisition :
         \/ /\ closes
            /\ popup' = [popup EXCEPT !.pc = "exited", !.visible = FALSE]
            /\ LeavesScreen
         \/ /\ ~closes
            /\ starts
            /\ popup' = [read(popup, a) EXCEPT !.visible = FALSE, !.busy = TRUE]
            /\ LeavesScreen
         \/ /\ ~closes
            /\ ~starts
            /\ popup' = [read(popup, a) EXCEPT !.visible = shown]
            /\ asked' = IF ~hadFocus \/ (shown /\ ~popup.visible) THEN Popup ELSE asked
            /\ UNCHANGED active
  /\ UNCHANGED <<slot, instance, left, open, moves, keys>>

\* As Publish, without the repaint.
PublishOnly(o) == popup' = [popup EXCEPT !.outcome = o]

\* The thread of an activation: its result is sent, then a repaint requested.
Publish(o) == popup' = [popup EXCEPT !.outcome = o, !.wake = TRUE]

PopupTypeOK ==
  /\ slot = (popup.pc # "none")
  /\ popup \in
       [pc : {"none", "launching", "start", "capture", "open", "exited"},
        target : Targets, origin : SUBSET Targets, visible : BOOLEAN,
        hadFocus : BOOLEAN, acquisition : {"waiting", "activating", "timedOut"},
        busy : BOOLEAN, outcome : Outcomes \cup {"none"}, wake : BOOLEAN]
=============================================================================
