----------------------------- MODULE KWinFocus ------------------------------
(***************************************************************************)
(* Focus on KDE Plasma (daemon/src/kde_focus_backend.rs): callers send       *)
(* commands to a worker, which invokes an action of the helper script in     *)
(* KWin (extras/kwin) by D-Bus and waits for the method call with which the  *)
(* script answers.  KWin runs the actions in the order of the invocations,   *)
(* and D-Bus keeps the order of the script's calls.                          *)
(*                                                                         *)
(* Two timeouts may pass: the worker's for a callback, and the caller's.     *)
(* Neither takes back what was invoked.  One caller waits at a time, since   *)
(* only a popup captures and only its activation restores.                   *)
(***************************************************************************)
EXTENDS Desktop

VARIABLES
  captured,   \* capturedWindowId of the script
  invoked,    \* actions KWin has still to run
  callbacks,  \* calls of the script the worker has still to read
  commands,   \* WorkerCommand, not taken yet
  command,    \* the one the worker is on, or NoCommand
  reply       \* what the caller is answered, NoReply before

kwinVars == <<captured, invoked, callbacks, commands, command, reply>>

NoReply == [result |-> "none", window |-> NoWindow]

Reply(result, w) == [result |-> result, window |-> w]

Results == {"none", "ok", "true", "false", "Unavailable", "Failed"}

\* awaited: the caller has not given up.
Command(kind, w) == [kind |-> kind, target |-> w, awaited |-> TRUE]

NoCommand == [kind |-> "none", target |-> NoWindow, awaited |-> FALSE]

Callback(kind, w) == [kind |-> kind, window |-> w]

KWinInit ==
  /\ captured = NoWindow
  /\ invoked = <<>>
  /\ callbacks = <<>>
  /\ commands = <<>>
  /\ command = NoCommand
  /\ reply = NoReply

-----------------------------------------------------------------------------
(* The script *)

Says(kind, w) == callbacks' = Append(callbacks, Callback(kind, w))

CaptureActiveWindow ==
  \/ /\ active = NoWindow
     /\ Says("CaptureUnavailable", NoWindow)
     /\ UNCHANGED captured
  \/ /\ active # NoWindow
     /\ captured' = active
     /\ Says("Captured", active)

\* The popup that was captured is gone when its successor restores.
RestoreCapturedWindow ==
  /\ UNCHANGED captured
  /\ \/ captured = NoWindow /\ Says("RestoreNoTarget", NoWindow) /\ UNCHANGED active
     \/ /\ captured \in Targets \ (open \cup {NoWindow})
        /\ Says("RestoreNotFound", captured)
        /\ UNCHANGED active
     \/ /\ captured \in open
        /\ active' = captured
        /\ Says("RestoreRequested", captured)

ReportActiveWindow ==
  /\ UNCHANGED captured
  /\ IF active = NoWindow THEN Says("ActiveNone", NoWindow) ELSE Says("Active", active)

HelperRuns ==
  /\ invoked # <<>>
  /\ invoked' = Tail(invoked)
  /\ \/ Head(invoked) = "Capture" /\ CaptureActiveWindow /\ UNCHANGED active
     \/ Head(invoked) = "Restore" /\ RestoreCapturedWindow
     \/ Head(invoked) = "IsActive" /\ ReportActiveWindow /\ UNCHANGED active
  /\ UNCHANGED <<instance, left, open, asked, moves, keys, commands, command, reply>>

\* The script is loaded anew: its variable is null again.
HelperReloads ==
  /\ captured # NoWindow
  /\ Spend("fault")
  /\ captured' = NoWindow
  /\ UNCHANGED <<instance, open, active, asked, moves, keys, invoked, callbacks,
                 commands, command, reply>>

-----------------------------------------------------------------------------
(* The worker *)

\* Answer the command if anyone waits for it, and go on to the next.
Finish(r) ==
  /\ reply' = IF command.awaited THEN r ELSE reply
  /\ command' = NoCommand

\* receiver.recv, and the invocation, which may fail.
TakeCommand ==
  /\ command = NoCommand
  /\ commands # <<>>
  /\ commands' = Tail(commands)
  /\ \/ /\ command' = Head(commands)
        /\ invoked' = Append(invoked, Head(commands).kind)
        /\ UNCHANGED <<left, reply>>
     \/ /\ Spend("fault")
        /\ reply' = IF Head(commands).awaited THEN Reply("Failed", NoWindow) ELSE reply
        /\ UNCHANGED <<command, invoked>>
  /\ UNCHANGED <<instance, open, active, asked, moves, keys, captured, callbacks>>

\* As Answers, taking any report of a focus for the target's.
AnswersAny(c, r) ==
  CASE c.kind = "Capture" /\ r.kind = "Captured" -> {Reply("ok", r.window)}
    [] c.kind = "Restore" /\ r.kind = "RestoreRequested" -> {Reply("ok", NoWindow)}
    [] c.kind = "IsActive" /\ r.kind = "Active" -> {Reply("true", NoWindow)}
    [] OTHER -> {}

\* What callback r answers to command c; nothing if it belongs to another
\* kind of command.
Answers(c, r) ==
  CASE c.kind = "Capture" /\ r.kind = "Captured" -> {Reply("ok", r.window)}
    [] c.kind = "Capture" /\ r.kind = "CaptureUnavailable" ->
         {Reply("Unavailable", NoWindow)}
    [] c.kind = "Restore" /\ r.kind = "RestoreRequested" ->
         {Reply(IF r.window = c.target THEN "ok" ELSE "Failed", NoWindow)}
    [] c.kind = "Restore" /\ r.kind = "RestoreNoTarget" ->
         {Reply("Unavailable", NoWindow)}
    [] c.kind = "Restore" /\ r.kind = "RestoreNotFound" -> {Reply("Failed", NoWindow)}
    [] c.kind = "IsActive" /\ r.kind = "Active" ->
         {Reply(IF r.window = c.target THEN "true" ELSE "false", NoWindow)}
    [] c.kind = "IsActive" /\ r.kind = "ActiveNone" -> {Reply("false", NoWindow)}
    [] OTHER -> {}

\* A callback that answers the command, or is ignored.
ReadCallback ==
  /\ command # NoCommand
  /\ callbacks # <<>>
  /\ callbacks' = Tail(callbacks)
  /\ LET answers == Answers(command, Head(callbacks)) IN
       \/ answers = {} /\ UNCHANGED <<command, reply>>
       \/ \E r \in answers : Finish(r)
  /\ UNCHANGED <<desktopVars, captured, invoked, commands>>

\* CALLBACK_TIMEOUT: what was invoked still runs and answers.
CallbackTimesOut ==
  /\ command # NoCommand
  /\ Spend("late")
  /\ Finish(Reply("Failed", NoWindow))
  /\ UNCHANGED <<instance, open, active, asked, moves, keys, captured, invoked,
                 callbacks, commands>>

KWinStep == HelperRuns \/ HelperReloads \/ TakeCommand \/ ReadCallback \/ CallbackTimesOut

-----------------------------------------------------------------------------
(* The callers *)

\* request: a command with a channel for its answer
Request(kind, w) ==
  /\ commands' = Append(commands, Command(kind, w))
  /\ UNCHANGED <<captured, invoked, callbacks, command, reply>>

Answered == reply # NoReply

TakeReply ==
  /\ reply' = NoReply
  /\ UNCHANGED <<captured, invoked, callbacks, commands, command>>

\* COMMAND_TIMEOUT: the channel is dropped, the worker stays on the command.
GiveUp ==
  /\ ~Answered
  /\ Spend("late")
  /\ command' = [command EXCEPT !.awaited = FALSE]
  /\ commands' = [i \in DOMAIN commands |-> [commands[i] EXCEPT !.awaited = FALSE]]
  /\ UNCHANGED <<captured, invoked, callbacks, reply>>

KWinTypeOK ==
  LET kinds == {"Capture", "Restore", "IsActive"}
      command_ == [kind : kinds, target : Targets, awaited : BOOLEAN] IN
    /\ captured \in Targets
    /\ invoked \in Seq(kinds)
    /\ callbacks \in
         Seq([kind : {"Captured", "CaptureUnavailable", "RestoreRequested",
                      "RestoreNoTarget", "RestoreNotFound", "Active", "ActiveNone"},
              window : Targets])
    /\ commands \in Seq(command_)
    /\ command \in command_ \cup {NoCommand}
    /\ reply \in [result : Results, window : Targets]
=============================================================================
