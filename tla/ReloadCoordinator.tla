-------------------------- MODULE ReloadCoordinator --------------------------
(***************************************************************************)
(* Changing the shortcut at run time (daemon/src/reload_coordinator.rs): a  *)
(* call holds reload_gate, reads or writes config.toml and sends commands   *)
(* to the worker of ShortcutListener, whose answers it awaits.  The calls   *)
(* come from the requests of the popup, from those of the command line and  *)
(* of other popups, and from SIGHUP.                                       *)
(***************************************************************************)
EXTENDS ShortcutListener

CONSTANT Edits \* contents the user may save config.toml with

ASSUME CoordinatorAssumption == Edits \subseteq File

VARIABLES
  coord, \* the call that holds the gate
  temp,  \* the sibling of config.toml, None if there is none
  calls,
  edits

rvars == <<lvars, coord, temp, calls, edits>>

\* at: what the call awaits; target: the shortcut to set; before: the shortcut
\* that was grabbed when the call began (the properties read it, no action).
NoCall ==
  [caller |-> "none", op |-> "none", target |-> None, before |-> None, at |-> "idle",
   answer |-> "none"]

Ops == {"reload", "recheck", "portal", "set"}

Awaits == {"reload", "recheck", "portal", "rebind", "rollback", "check", "reprobe"}

CallAnswers ==
  States \cup
  {"none", "Ok", "ConfigError", "RolledBack", "DoubleFailure", "Refused", "Occupied",
   "Unchecked", "Gone"}

\* The worker starts with a file that exists.
RInit ==
  /\ config \in {Template} \cup (Edits \ {Missing})
  /\ LInit
  /\ instance.bound.edits = 0 => config = Template
  /\ coord = NoCall
  /\ temp = None
  /\ calls = 0
  /\ edits = 0

Idle == coord = NoCall

\* The worker and what it works on.
runtimeVars == <<x11Vars, portalVars, compositorVars, workerVars, boundVars>>

-----------------------------------------------------------------------------
\* The user saves config.toml.
EditConfig(new) ==
  /\ edits < instance.bound.edits
  /\ new \in Edits \ {config}
  /\ edits' = edits + 1
  /\ config' = new
  /\ UNCHANGED <<runtimeVars, coord, temp, calls>>

\* The callers whose calls instance.bound bounds here; the popup's are bounded where
\* they are asked for.
Counted == {"other", "toggle"}

\* A call of caller gets the gate.
Begins(caller) ==
  /\ Idle
  /\ caller \in Counted => calls < instance.bound.calls
  /\ calls' = IF caller \in Counted THEN calls + 1 ELSE calls
  /\ UNCHANGED edits

At(caller, op, s, at, answer) ==
  coord' = [caller |-> caller, op |-> op, target |-> s,
            before |-> IF Idle THEN registered.shortcut ELSE coord.before,
            at |-> at, answer |-> answer]

Ends(caller, op, s, answer) == At(caller, op, s, "end", answer)

End(answer) == Ends(coord.caller, coord.op, coord.target, answer)

\* Sends a command and awaits the answer; the send to a worker that is gone
\* is an error.
Asks(caller, op, s, at, kind, arg, gone) ==
  IF pc = "gone"
  THEN /\ Ends(caller, op, s, gone)
       /\ UNCHANGED runtimeVars
  ELSE /\ At(caller, op, s, at, "none")
       /\ reply' = NoReply
       /\ Send(kind, arg)

Return ==
  /\ coord.at = "end"
  /\ coord' = NoCall
  /\ UNCHANGED <<lvars, temp, calls, edits>>

\* The worker ends with the command unread: the reply channel closes.
Closed ==
  /\ pc = "gone"
  /\ coord.at \in Awaits
  /\ reply = NoReply
  /\ End(IF coord.at = "rollback" THEN "DoubleFailure" ELSE "Gone")
  /\ temp' = None
  /\ UNCHANGED <<lvars, calls, edits>>

-----------------------------------------------------------------------------
(* reload, recheck and configure_portal *)

\* load_strict: a missing file is made again, a bad one changes nothing.
Reload(caller) ==
  /\ Begins(caller)
  /\ config' = EnsureExists(config)
  /\ LET s == LoadFromPath(EnsureExists(config)) IN
       IF s = None
       THEN /\ Ends(caller, "reload", None, "ConfigError")
            /\ UNCHANGED runtimeVars
       ELSE Asks(caller, "reload", s, "reload", "Rebind", s, "Gone")
  /\ UNCHANGED temp

RecheckCall(caller) ==
  /\ Begins(caller)
  /\ Asks(caller, "recheck", None, "recheck", "Recheck", None, "Gone")
  /\ UNCHANGED <<config, temp>>

PortalCall(caller) ==
  /\ Begins(caller)
  /\ Asks(caller, "portal", None, "portal", "ConfigurePortal", None, "Gone")
  /\ UNCHANGED <<config, temp>>

Answered ==
  /\ coord.at \in {"reload", "recheck", "portal", "reprobe"}
  /\ reply # NoReply
  /\ End(reply)
  /\ UNCHANGED <<lvars, temp, calls, edits>>

\* ToggleUi and OpenShortcutSetup give a compositor's recheck 50 ms and then
\* drop it: the gate is released, the command stays.
RecheckTimesOut ==
  /\ coord.at = "recheck"
  /\ coord.caller = "toggle"
  /\ reply = NoReply
  /\ coord' = NoCall
  /\ cmds' = [i \in DOMAIN cmds |-> [cmds[i] EXCEPT !.awaited = FALSE]]
  /\ UNCHANGED <<x11Vars, portalVars, compositorVars, pc, current, wakeSet, reply, status,
                 activations, boundVars, config, temp, calls, edits>>

-----------------------------------------------------------------------------
(* set_shortcut *)

\* A portal and a session without a backend have nothing to set.
SetRefused(caller, s) ==
  /\ platform \in {"portal", "unknown", "none"}
  /\ Begins(caller)
  /\ Ends(caller, "set", s, "Refused")
  /\ UNCHANGED <<lvars, temp>>

\* The files cannot be written, or config.toml is not one to edit.
SetNotPrepared(caller, s) ==
  /\ platform = "x11"
  /\ Begins(caller)
  /\ config' = EnsureExists(config)
  /\ Ends(caller, "set", s, "ConfigError")
  /\ UNCHANGED <<runtimeVars, temp>>

\* X11, phases 1 and 2: the new file is prepared, the runtime rebound.
SetNative(caller, s) ==
  /\ platform = "x11"
  /\ Begins(caller)
  /\ PrepareNewConfig(config, s) # None
  /\ config' = EnsureExists(config)
  /\ temp' = IF pc = "gone" THEN None ELSE PrepareNewConfig(config, s)
  /\ Asks(caller, "set", s, "rebind", "Rebind", s, "Gone")

\* As RebindFailed, the rename made before the rebind.
RebindFailedRenamed ==
  /\ coord.at = "rebind"
  /\ reply \notin {NoReply, "Ok"}
  /\ config' = temp
  /\ temp' = None
  /\ End(reply)
  /\ UNCHANGED <<runtimeVars, calls, edits>>

RebindFailed ==
  /\ coord.at = "rebind"
  /\ reply \notin {NoReply, "Ok"}
  /\ temp' = None
  /\ End(reply)
  /\ UNCHANGED <<lvars, calls, edits>>

\* Phase 3: the rename.
Commit ==
  /\ coord.at = "rebind"
  /\ reply = "Ok"
  /\ config' = temp
  /\ temp' = None
  /\ End("Ok")
  /\ UNCHANGED <<runtimeVars, calls, edits>>

\* As CommitFailed, leaving the runtime as it is.
CommitFailedNoRollback ==
  /\ coord.at = "rebind"
  /\ reply = "Ok"
  /\ temp' = None
  /\ End("RolledBack")
  /\ UNCHANGED <<lvars, calls, edits>>

\* The rename fails: the runtime is to be what the file, untouched, says.
CommitFailed ==
  /\ coord.at = "rebind"
  /\ reply = "Ok"
  /\ temp' = None
  /\ Asks(coord.caller, "set", coord.target, "rollback", "Rebind", LoadOrDefault(config),
          "DoubleFailure")
  /\ UNCHANGED <<config, calls, edits>>

RollbackEnds ==
  /\ coord.at = "rollback"
  /\ reply # NoReply
  /\ End(IF reply = "Ok" THEN "RolledBack" ELSE "DoubleFailure")
  /\ UNCHANGED <<lvars, temp, calls, edits>>

\* As CommitCompositor, with whatever the file is made into.
CommitCompositorUnchecked(caller, s) ==
  /\ config' = PrepareNewConfig(config, s)
  /\ Asks(caller, "set", s, "reprobe", "Rebind", s, "Gone")
  /\ UNCHANGED temp

\* A compositor: the file is prepared and committed in one go, and the worker
\* inspects the compositor again.  Either may fail.
CommitCompositor(caller, s) ==
  /\ \/ /\ PrepareNewConfig(config, s) # None
        /\ config' = PrepareNewConfig(config, s)
        /\ Asks(caller, "set", s, "reprobe", "Rebind", s, "Gone")
     \/ /\ config' = EnsureExists(config)
        /\ Ends(caller, "set", s, "ConfigError")
        /\ UNCHANGED runtimeVars
  /\ UNCHANGED temp

\* The preflight is for another shortcut than the configured one.
SetCompositor(caller, s) ==
  /\ Compositor
  /\ Begins(caller)
  /\ IF status.configured = s
     THEN CommitCompositor(caller, s)
     ELSE /\ config' = EnsureExists(config)
          /\ Asks(caller, "set", s, "check", "CheckConflict", s, "Gone")
          /\ UNCHANGED temp

PreflightRefused ==
  /\ coord.at = "check"
  /\ reply \in {"occupied", "error"}
  /\ End(IF reply = "occupied" THEN "Occupied" ELSE "Unchecked")
  /\ UNCHANGED <<lvars, temp, calls, edits>>

PreflightCleared ==
  /\ coord.at = "check"
  /\ reply = "free"
  /\ CommitCompositor(coord.caller, coord.target)
  /\ UNCHANGED <<calls, edits>>

-----------------------------------------------------------------------------
\* The daemon stops, whatever is under way (bounded with the edits).
Stop ==
  /\ edits < instance.bound.edits
  /\ edits' = edits + 1
  /\ Drop
  /\ UNCHANGED <<coord, temp, calls>>

Call(caller) ==
  \/ Reload(caller)
  \/ RecheckCall(caller)
  \/ PortalCall(caller)
  \/ \E s \in Shortcut :
       \/ SetRefused(caller, s)
       \/ SetNotPrepared(caller, s)
       \/ SetNative(caller, s)
       \/ SetCompositor(caller, s)

\* What the calls do once they have the gate.
Advance ==
  \/ Closed
  \/ Answered
  \/ RebindFailed
  \/ Commit
  \/ CommitFailed
  \/ RollbackEnds
  \/ PreflightRefused
  \/ PreflightCleared

Worker == UNCHANGED <<coord, temp, calls, edits>> /\ WorkerStep

Woken == UNCHANGED <<coord, temp, calls, edits>> /\ WaitWoken

ReadSignals == UNCHANGED <<coord, temp, calls, edits>> /\ ChangedStep

World ==
  \/ (Disturbance \/ Keyboard) /\ UNCHANGED <<coord, temp, calls, edits>>
  \/ \E new \in Edits : EditConfig(new)
  \/ RecheckTimesOut
  \/ Stop

\* The command line and SIGHUP, and the two requests that open a popup under
\* a compositor.
OtherCall ==
  \/ Call("other")
  \/ Compositor /\ RecheckCall("toggle")

\* Nothing new comes to a daemon that stops.
Running == platform = "none" \/ pc # "gone"

Happens ==
  \/ Running /\ (World \/ OtherCall)
  \/ Worker
  \/ ReadSignals
=============================================================================
