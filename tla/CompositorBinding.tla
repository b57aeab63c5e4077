-------------------------- MODULE CompositorBinding --------------------------
(***************************************************************************)
(* What the Sway and Hyprland backends make of a compositor's key bindings *)
(* (daemon/src/sway_shortcut_backend.rs, hyprland_shortcut_backend.rs).     *)
(*                                                                         *)
(* Data.  A binding is its combination, what it runs ("pookie", "other", or *)
(* "lua" for Hyprland's opaque callbacks), whether it belongs to a mode or  *)
(* submap, and in a file the syntax it is written in.  Tokens, aliases of   *)
(* key names, variables and comments are resolved.                          *)
(***************************************************************************)
EXTENDS ShortcutConfig, Sequences, SequencesExt

Targets == {"pookie", "other", "lua"}

Binding ==
  [shortcut : Shortcut, runs : Targets, submap : BOOLEAN,
   syntax : {"lua", "hyprlang", "sway"}]

Hits(binds, s) == {b \in ToSet(binds) : b.shortcut = s}

\* diagnose_sway_config: any command but Pookie's is a conflict; blocks of
\* modes are read like the rest.
SwayDiagnosis(binds, s) ==
  LET hits == Hits(binds, s) IN
    IF \E b \in hits : b.runs # "pookie" THEN "Conflict"
    ELSE IF hits # {} THEN "Matched" ELSE "NotFound"

\* diagnose_hyprland_ipc_binds: bindings of the default submap, conflict
\* before Pookie before an opaque callback.
HyprlandDiagnosis(binds, s) ==
  LET hits == {b \in Hits(binds, s) : ~b.submap} IN
    IF \E b \in hits : b.runs = "other" THEN "Conflict"
    ELSE IF \E b \in hits : b.runs = "pookie" THEN "Matched"
    ELSE IF hits # {} THEN "Opaque" ELSE "NotFound"

\* The first binding of s in a file written in one syntax.
FirstIn(binds, s, syntax) ==
  LET of == SelectSeq(binds, LAMBDA b : b.shortcut = s /\ b.syntax = syntax) IN
    IF of = <<>> THEN "NotFound"
    ELSE IF Head(of).runs = "pookie" THEN "Matched" ELSE "Conflict"

\* diagnose_hyprland_config_text: literal Lua bindings, then Hyprlang's.
HyprlandFileDiagnosis(binds, s) ==
  IF FirstIn(binds, s, "lua") # "NotFound"
  THEN FirstIn(binds, s, "lua")
  ELSE FirstIn(binds, s, "hyprlang")

\* The diagnosis of what the compositor answers.  A reply of Hyprland's that
\* cannot be parsed is diagnosed NotFound; for Sway it is an error.
LiveDiagnosis(platform, ipc, live, s) ==
  IF platform = "sway" THEN SwayDiagnosis(live, s)
  ELSE IF ipc = "garbled" THEN "NotFound"
  ELSE HyprlandDiagnosis(live, s)

Answers(platform, ipc) ==
  \/ ipc = "up"
  \/ ipc = "garbled" /\ platform = "hyprland"

FileDiagnosis(platform, file, s) ==
  IF platform = "sway" THEN SwayDiagnosis(file, s)
  ELSE HyprlandFileDiagnosis(file, s)

LiveStatus(diagnosis) ==
  CASE diagnosis = "Matched" -> "Verified"
    [] diagnosis = "Conflict" -> "BindingConflict"
    [] diagnosis = "Opaque" -> "BoundUnverified"
    [] diagnosis = "NotFound" -> "Unbound"

\* A file never verifies.
FileStatus(diagnosis) ==
  IF diagnosis = "Matched" THEN "BoundUnverified" ELSE LiveStatus(diagnosis)

\* register and rebind: always Ok, from the compositor's answer or, without
\* one, from its configuration file.
CompositorStatus(platform, ipc, live, file, s) ==
  IF Answers(platform, ipc)
  THEN LiveStatus(LiveDiagnosis(platform, ipc, live, s))
  ELSE FileStatus(FileDiagnosis(platform, file, s))

\* As CheckConflict, falling back on the file when there is no answer.
CheckConflictFailOpen(platform, ipc, live, registered, s) ==
  IF registered = s \/ ~Answers(platform, ipc) THEN "free"
  ELSE IF LiveDiagnosis(platform, ipc, live, s) \in {"Conflict", "Opaque"}
       THEN "occupied" ELSE "free"

\* check_conflict: without an answer an error, except for the shortcut that
\* is registered already.
CheckConflict(platform, ipc, live, registered, s) ==
  IF registered = s THEN "free"
  ELSE IF ~Answers(platform, ipc) THEN "error"
  ELSE IF LiveDiagnosis(platform, ipc, live, s) \in {"Conflict", "Opaque"}
       THEN "occupied" ELSE "free"
=============================================================================
