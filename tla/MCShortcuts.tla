---------------------------- MODULE MCShortcuts ----------------------------
(* ShortcutSetup for TLC: two shortcuts with the same modifier, Super+V and  *)
(* Super+B, of which another client may grab the second with Caps Lock.      *)
EXTENDS ShortcutSetup, TLC

CONSTANTS super, v, b \* model values

SuperV == [modifiers |-> {super}, key |-> v]

SuperB == [modifiers |-> {super}, key |-> b]

\* A key each, and one key for both.
MCKeycode == [k \in {v, b} |-> k]

MCSharedKeycode == [k \in {v, b} |-> v]

MCContested == {<<Combination(SuperB), "caps">>}

\* What the user writes: an explicit table, the older fields, an error; or the
\* file is removed.
MCEdits ==
  {Primary(SuperV),
   [primary |-> None, modifiers |-> {super}, key |-> b],
   Malformed,
   Missing}

Bind(s, runs) ==
  [shortcut |-> s, runs |-> runs, submap |-> FALSE, syntax |-> "lua"]

\* Nothing; Pookie on Super+V and something else on Super+B; on Super+V a
\* callback that cannot be told.
MCBindings ==
  {<<>>,
   <<Bind(SuperV, "pookie"), Bind(SuperB, "other")>>,
   <<Bind(SuperV, "lua")>>}

Instance(on, popup, calls_, edits_, presses_, disturbances) ==
  [platform |-> on, popup |-> popup,
   bound |-> [calls |-> calls_, edits |-> edits_, presses |-> presses_,
              disturbances |-> disturbances]]

MCInstances ==
  {Instance("none", TRUE, 1, 1, 0, 0),
   Instance("unknown", FALSE, 2, 1, 0, 0),
   Instance("x11", FALSE, 2, 1, 0, 1),
   Instance("x11", FALSE, 1, 0, 2, 0),
   Instance("x11", TRUE, 1, 0, 0, 0),
   Instance("portal", FALSE, 1, 0, 1, 1),
   Instance("portal", FALSE, 1, 0, 0, 2),
   Instance("portal", TRUE, 0, 0, 0, 1),
   Instance("portal", TRUE, 1, 0, 0, 0),
   Instance("sway", FALSE, 2, 0, 0, 1),
   Instance("sway", TRUE, 0, 0, 0, 1),
   Instance("sway", TRUE, 1, 0, 0, 0),
   Instance("hyprland", FALSE, 1, 1, 0, 1)}
=============================================================================
