------------------------------ MODULE Delivery ------------------------------
(***************************************************************************)
(* How an item gets from the popup into the window the popup was opened      *)
(* over: the popup captures the target through the daemon, hides and asks     *)
(* for an activation; the daemon restores the target, waits until it sees it  *)
(* active, and lets the paste backend type Ctrl+V                            *)
(* (daemon/src/activation_service.rs, focus_service.rs, request_handler.rs,   *)
(* and the backends of focus and paste).                                    *)
(*                                                                         *)
(* Activation models the same activation up to its clipboard write and its    *)
(* promotion, whose outcomes are here a choice.  The backends of KDE are      *)
(* KWinFocus and PortalPaste; those of X11, Sway, Hyprland and wlroots answer *)
(* in the caller's thread.                                                   *)
(***************************************************************************)
EXTENDS KWinFocus, PortalPaste, PopupWindow

VARIABLE act \* the activation: its target, and moves when it last checked it

dvars == <<desktopVars, kwinVars, portalVars, popupVars, act>>

Idle == [pc |-> "idle", seen |-> 0, frame |-> 0]

DInit ==
  /\ DesktopInit
  /\ KWinInit
  /\ PortalInit
  /\ PopupInit
  /\ act = Idle

-----------------------------------------------------------------------------
(* Users, windows and processes *)

\* While the target is captured, every window that gets the focus may be it.
UserMoves ==
  /\ \E w \in open : UserFocus(w) \/ CloseWindow(w)
  /\ popup' = IF popup.pc = "capture"
              THEN [popup EXCEPT !.origin = @ \cup {active'}] ELSE popup
  /\ UNCHANGED <<kwinVars, portalVars, slot, act>>

Granted ==
  /\ GrantFocus(open \cup IF popup.visible THEN {Popup} ELSE {})
  /\ UNCHANGED <<kwinVars, portalVars, popupVars, act>>

PopupStep ==
  /\ Launch \/ LaunchFails \/ Spawn \/ Reap \/ \E i \in Inputs : Frame(i)
  /\ UNCHANGED <<kwinVars, portalVars, act>>

KWin ==
  /\ KWinStep
  /\ popup' = IF popup.pc = "capture"
              THEN [popup EXCEPT !.origin = @ \cup {active'}] ELSE popup
  /\ UNCHANGED <<portalVars, slot, act>>

Portal ==
  /\ WorkerStep \/ TypeFails \/ ConnectFails \/ CompositorStep
  /\ UNCHANGED <<kwinVars, popupVars, act>>

\* The daemon is told to stop: activation_service.shutdown, while a connection
\* may still be activating.
Shutdown ==
  /\ Spend("stop")
  /\ RequestShutdown
  /\ UNCHANGED <<instance, open, active, asked, moves, keys, kwinVars, popupVars,
                 act>>

-----------------------------------------------------------------------------
(* CaptureFocusTarget *)

SyncFocus == focus \in {"X11", "Sway", "Hyprland"}

\* The popup's first request, answered at once: the window with the focus, or
\* no target, because there is none or the call fails.
CaptureAtOnce ==
  /\ focus # "Kde"
  /\ popup.pc = "start"
  /\ \E target \in {NoWindow} \cup IF SyncFocus THEN {active} ELSE {} :
       /\ popup' = [popup EXCEPT !.pc = "open", !.target = target, !.visible = TRUE,
                                 !.origin = {active}]
       /\ asked' = Popup
  /\ UNCHANGED <<instance, left, open, active, moves, keys, kwinVars, portalVars,
                 slot, act>>

CaptureOnKWin ==
  /\ focus = "Kde"
  /\ popup.pc = "start"
  /\ Request("Capture", NoWindow)
  /\ popup' = [popup EXCEPT !.pc = "capture", !.origin = {active}]
  /\ UNCHANGED <<desktopVars, portalVars, slot, act>>

CaptureAnswered ==
  /\ popup.pc = "capture"
  /\ Answered
  /\ TakeReply
  /\ Opens(IF reply.result = "ok" THEN reply.window ELSE NoWindow)
  /\ UNCHANGED <<instance, left, open, active, moves, keys, portalVars, slot, act>>

CaptureTimesOut ==
  /\ popup.pc = "capture"
  /\ GiveUp
  /\ Opens(NoWindow)
  /\ UNCHANGED <<instance, open, active, moves, keys, portalVars, slot, act>>

-----------------------------------------------------------------------------
(* ActivateItem *)

Goto(pc) == act' = [act EXCEPT !.pc = pc]

\* The answer reaches the popup's thread.
Answer(o) ==
  /\ act' = Idle
  /\ Publish(o)

\* The item is written and promoted, or that ends the activation; without a
\* target nothing is pasted.
Activate ==
  /\ act.pc = "idle"
  /\ popup.pc = "open" /\ popup.busy /\ popup.outcome = "none"
  /\ \/ \E o \in {"NotFound", "UnsupportedContent", "Error"} : Answer(o)
     \/ popup.target = NoWindow /\ Answer("ClipboardUpdated")
     \/ popup.target # NoWindow /\ Goto("restore") /\ UNCHANGED popup
  /\ UNCHANGED <<desktopVars, kwinVars, portalVars, slot>>

\* backend.restore: X11 asks the window manager and knows no more, Sway and
\* Hyprland focus the window or say that it is gone, each call may fail.
RestoreAtOnce ==
  /\ act.pc = "restore"
  /\ focus # "Kde"
  /\ \/ /\ focus = "X11"
        /\ asked' = popup.target
        /\ Goto("check")
        /\ UNCHANGED <<left, active, popup>>
     \/ /\ focus \in {"Sway", "Hyprland"}
        /\ popup.target \in open
        /\ active' = popup.target
        /\ Goto("check")
        /\ UNCHANGED <<left, asked, popup>>
     \/ /\ focus \in {"Sway", "Hyprland"}
        /\ popup.target \notin open
        /\ Answer("PasteFailed")
        /\ UNCHANGED <<left, asked, active>>
     \/ /\ Spend("fault")
        /\ Answer("PasteFailed")
        /\ UNCHANGED <<asked, active>>
  /\ UNCHANGED <<instance, open, moves, keys, kwinVars, portalVars, slot>>

RestoreOnKWin ==
  /\ act.pc = "restore"
  /\ focus = "Kde"
  /\ Request("Restore", popup.target)
  /\ Goto("restoring")
  /\ UNCHANGED <<desktopVars, portalVars, popupVars>>

RestoreAnswered ==
  /\ act.pc = "restoring"
  /\ Answered
  /\ TakeReply
  /\ \/ reply.result = "ok" /\ Goto("check") /\ UNCHANGED popup
     \/ reply.result # "ok" /\ Answer("PasteFailed")
  /\ UNCHANGED <<desktopVars, portalVars, slot>>

\* is_active; between two tries the time may be up.
CheckAtOnce ==
  /\ act.pc = "check"
  /\ focus # "Kde"
  /\ \/ /\ act' = [act EXCEPT !.pc = IF active = popup.target THEN "paste" ELSE "again",
                              !.seen = moves]
        /\ UNCHANGED <<left, popup>>
     \/ Spend("fault") /\ Answer("PasteFailed")
  /\ UNCHANGED <<instance, open, active, asked, moves, keys, kwinVars, portalVars,
                 slot>>

CheckOnKWin ==
  /\ act.pc = "check"
  /\ focus = "Kde"
  /\ Request("IsActive", popup.target)
  /\ act' = [act EXCEPT !.pc = "checking", !.seen = moves]
  /\ UNCHANGED <<desktopVars, portalVars, popupVars>>

CheckAnswered ==
  /\ act.pc = "checking"
  /\ Answered
  /\ TakeReply
  /\ \/ reply.result = "true" /\ Goto("paste") /\ UNCHANGED popup
     \/ reply.result = "false" /\ Goto("again") /\ UNCHANGED popup
     \/ reply.result \notin {"true", "false"} /\ Answer("PasteFailed")
  /\ UNCHANGED <<desktopVars, portalVars, slot>>

\* COMMAND_TIMEOUT of either command
KWinTimesOut ==
  /\ act.pc \in {"restoring", "checking"}
  /\ GiveUp
  /\ Answer("PasteFailed")
  /\ UNCHANGED <<instance, open, active, asked, moves, keys, portalVars, slot>>

CheckAgain ==
  /\ act.pc = "again"
  /\ Goto("check")
  /\ UNCHANGED <<desktopVars, kwinVars, portalVars, popupVars>>

\* FOCUS_TIMEOUT
TimeIsUp ==
  /\ act.pc = "again"
  /\ Answer("PasteFailed")
  /\ UNCHANGED <<desktopVars, kwinVars, portalVars, slot>>

\* capability, and paste up to its first frame or its command; X11 may have
\* no keycode.
Paste ==
  /\ act.pc = "paste"
  /\ \/ /\ \/ paste = "Fallback"
           \/ paste = "Portal" /\ health # "Ready"
        /\ Answer("ClipboardUpdated")
        /\ UNCHANGED portalVars
     \/ /\ paste = "Portal"
        /\ RequestPaste
        /\ Goto("pasting")
        /\ UNCHANGED popup
     \/ /\ paste \in {"X11", "Wlroots"}
        /\ act' = [act EXCEPT !.pc = "typing", !.frame = 1]
        /\ UNCHANGED <<portalVars, popup>>
     \/ /\ paste = "X11"
        /\ Answer("PasteFailed")
        /\ UNCHANGED portalVars
  /\ UNCHANGED <<desktopVars, kwinVars, slot>>

\* The keys of X11 and wlroots, sent by the activation itself
TypeKey ==
  /\ act.pc = "typing"
  /\ keys' = Frames[act.frame]
  /\ \/ /\ act.frame < 4
        /\ act' = [act EXCEPT !.frame = @ + 1]
        /\ UNCHANGED popup
     \/ act.frame = 4 /\ Answer("Pasted")
  /\ UNCHANGED <<instance, left, open, active, asked, moves, kwinVars, portalVars, slot>>

\* What was pressed stays down.
TypeKeyFails ==
  /\ act.pc = "typing"
  /\ Spend("fault")
  /\ Answer("PasteFailed")
  /\ UNCHANGED <<instance, open, active, asked, moves, keys, kwinVars, portalVars, slot>>

PasteAnswered ==
  /\ act.pc = "pasting"
  /\ pasted # "none"
  /\ TakePasted
  /\ Answer(CASE pasted = "ok" -> "Pasted"
              [] pasted = "Unavailable" -> "ClipboardUpdated"
              [] pasted = "Failed" -> "PasteFailed")
  /\ UNCHANGED <<kwinVars, slot>>

PasteGivenUp ==
  /\ act.pc = "pasting"
  /\ PasteTimesOut
  /\ Answer("ClipboardUpdated")
  /\ UNCHANGED <<kwinVars, slot>>

CaptureStep == CaptureAtOnce \/ CaptureOnKWin \/ CaptureAnswered

ActStep ==
  \/ Activate \/ RestoreAtOnce \/ RestoreOnKWin \/ RestoreAnswered
  \/ CheckAtOnce \/ CheckOnKWin \/ CheckAnswered \/ CheckAgain
  \/ Paste \/ TypeKey \/ PasteAnswered

DNext ==
  \/ UserMoves \/ Granted \/ PopupStep \/ KWin \/ Portal \/ Shutdown
  \/ CaptureStep \/ CaptureTimesOut
  \/ ActStep \/ KWinTimesOut \/ TimeIsUp \/ TypeKeyFails \/ PasteGivenUp

DSpec == DInit /\ [][DNext]_dvars

\* Processes, threads and tasks run; KWin runs what is invoked; of an activation
\* the clock runs too, and a worker in its waits picks between its timer and
\* its commands at random.  Nothing obliges the user, the window manager, the
\* compositor or the connections.
DFairness ==
  /\ WF_dvars(PopupStep /\ (Spawn \/ LaunchFails \/ Reap \/ Frame("none")))
  /\ WF_dvars(KWin /\ (HelperRuns \/ TakeCommand \/ ReadCallback))
  /\ WF_dvars(Portal /\ WorkerStep)
  /\ WF_dvars(Portal /\ (OfflinePaste \/ OfflineShutdown))
  /\ WF_dvars(CaptureStep)
  /\ WF_dvars(ActStep)
  /\ SF_dvars(TimeIsUp)

DFairSpec == DSpec /\ DFairness

-----------------------------------------------------------------------------
(* Properties *)

DTypeOK ==
  /\ DesktopTypeOK
  /\ KWinTypeOK
  /\ PortalTypeOK
  /\ PopupTypeOK
  /\ act \in [pc : {"idle", "restore", "restoring", "check", "checking", "again",
                    "paste", "pasting", "typing"},
              seen : Nat, frame : 0..4]

TypesV == "v" \in keys' \ keys

Awaited == paste = "Portal" => typing.request.awaited

GivenUp == instance.bound.late - left.late

\* The V of an activation that waits for it goes into the popup's target,
\* unless others moved the focus since it was last checked: no timeout or two,
\* late callback, closed window or second activation makes an unconfirmed
\* window the one that is typed into.  And while no call was given up, the
\* target is a window that had the focus when the popup asked for it.  (After
\* one timeout it need not be, and after three the confirmation need not be of
\* this activation: the worker takes a late callback for the answer to the next
\* command of its kind.)  (docs/activation/overview.md, "Target Confirmation";
\* activation_service.rs:148; kde_focus_backend.rs:342.)
RightWindow ==
  [][TypesV /\ Awaited /\ moves = act.seen =>
       /\ GivenUp <= 2 => active = popup.target
       /\ GivenUp = 0 => active \in popup.origin]_dvars

\* "Item written to clipboard and promoted, but direct paste was not emitted"
\* (docs/activation/overview.md:123, of ClipboardUpdated): who waited for a
\* paste and was answered without it finds nothing typed afterwards.  Not so:
\* the worker goes on with a paste that was given up.
LateKeys == [][TypesV => Awaited]_dvars

\* The slot is taken and nothing is on the screen: a popup that is starting or
\* exits, or one that is hidden by an activation.
Unseen == slot /\ ~popup.visible

\* It does not stay so: a hidden popup comes back or exits, whatever becomes of
\* its activation, and the slot of a popup that failed to start or exited is
\* given back.  (ui_launcher.rs:75; app.rs:475, "explicitly wake egui".)
PopupComesBack == Unseen ~> ~Unseen
=============================================================================
