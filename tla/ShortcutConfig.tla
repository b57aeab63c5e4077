--------------------------- MODULE ShortcutConfig ---------------------------
(***************************************************************************)
(* config.toml (daemon/src/shortcut_config.rs): how a shortcut is read from *)
(* it and written to it.                                                   *)
(*                                                                         *)
(* Data.  A file is Missing, Malformed (not TOML, of the wrong types or     *)
(* unreadable), or the shortcut section of a document, which has a table    *)
(* `primary', and `modifiers' and `key' beside it; comments and the other   *)
(* sections are not modelled.  Modifiers and keys are names; BadText is a   *)
(* name the parsers do not know.                                            *)
(***************************************************************************)

CONSTANTS
  Modifiers,
  Keys,
  DefaultShortcut, \* Super+V
  BadText,
  None,
  Missing,
  Malformed

Shortcut == [modifiers : SUBSET Modifiers \ {{}}, key : Keys]

ModifierText == SUBSET (Modifiers \cup {BadText})

KeyText == Keys \cup {BadText}

\* A [shortcut.primary] table: serde gives what it leaves out its default.
Table ==
  [modifiers : {None} \cup ModifierText, key : {None} \cup KeyText]

Document ==
  [primary : {None} \cup Table,
   modifiers : {None} \cup ModifierText,
   key : {None} \cup KeyText]

File == {Missing, Malformed} \cup Document

ASSUME ConfigAssumption ==
  /\ DefaultShortcut \in Shortcut
  /\ BadText \notin Modifiers \cup Keys
  /\ \A x \in ModifierText : x # None
  /\ \A x \in Table \cup KeyText \cup Shortcut : x # None
  /\ \A x \in Document \cup Shortcut \cup {None} : x \notin {Missing, Malformed}
  /\ Missing # Malformed

Primary(s) ==
  [primary |-> [modifiers |-> s.modifiers, key |-> s.key],
   modifiers |-> None, key |-> None]

\* The file a missing one is replaced by.
Template == Primary(DefaultShortcut)

Default(value, default) == IF value = None THEN default ELSE value

\* primary, else both fields beside it, else the default.
PrimaryBinding(doc) ==
  IF doc.primary # None
  THEN [modifiers |-> Default(doc.primary.modifiers, DefaultShortcut.modifiers),
        key |-> Default(doc.primary.key, DefaultShortcut.key)]
  ELSE IF doc.modifiers # None /\ doc.key # None
       THEN [modifiers |-> doc.modifiers, key |-> doc.key]
       ELSE DefaultShortcut

\* A bare key, an unknown modifier and an unknown key are errors.
ToShortcut(binding) == IF binding \in Shortcut THEN binding ELSE None

\* The shortcut of a file, None for an error.
LoadFromPath(file) ==
  IF file \in {Missing, Malformed} THEN None ELSE ToShortcut(PrimaryBinding(file))

LoadOrDefault(file) == Default(LoadFromPath(file), DefaultShortcut)

\* ensure_config_file_exists_at: what is there once it has returned.
EnsureExists(file) == IF file = Missing THEN Template ELSE file

\* Written where it will be read from: in `primary' if there is one or there
\* is no `key' beside it.
UpdateShortcut(doc, s) ==
  IF doc.primary # None \/ doc.key = None
  THEN [doc EXCEPT !.primary = [modifiers |-> s.modifiers, key |-> s.key]]
  ELSE [doc EXCEPT !.modifiers = s.modifiers, !.key = s.key]

\* The contents of the temporary file, None for an error.
PrepareNewConfig(file, s) ==
  IF file = Missing THEN UpdateShortcut(Template, s)
  ELSE IF file = Malformed THEN None
  ELSE UpdateShortcut(file, s)
=============================================================================
