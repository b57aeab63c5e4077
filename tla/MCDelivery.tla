----------------------------- MODULE MCDelivery -----------------------------
EXTENDS Service, TLC

CONSTANTS w1, w2, d1, d2, d3 \* model values

Env(session_, desktop_, sway_, hyprland_, works) ==
  [session |-> session_, desktop |-> desktop_, swaysock |-> sway_,
   hyprland |-> hyprland_, kwinHelper |-> works, portal |-> works,
   virtualKeyboard |-> works]

Kde == Env("wayland", "kde", "unset", "unset", TRUE)

KdeNoPortal == [Kde EXCEPT !.portal = FALSE]

KdeNoHelper == [Kde EXCEPT !.kwinHelper = FALSE]

X11 == Env("x11", "other", "unset", "unset", TRUE)

Sway == Env("wayland", "sway", "there", "unset", TRUE)

Hyprland == Env("wayland", "hyprland", "unset", "there", TRUE)

NoVirtualKeyboard == [Hyprland EXCEPT !.virtualKeyboard = FALSE]

Instance(e, move_, late_, fault_, pause_, stop_) ==
  [environment |-> e, popups |-> TRUE, daemons |-> {},
   bound |-> [move |-> move_, late |-> late_, fault |-> fault_, pause |-> pause_,
              stop |-> stop_]]

\* Daemons start, nobody opens a popup.
Starts(n) == [Instance(KdeNoHelper, 0, 0, 0, 0, 0) EXCEPT !.popups = FALSE, !.daemons = n]

MCInstances ==
  {Instance(Kde, 1, 1, 0, 0, 0),
   Instance(Kde, 0, 2, 0, 0, 0),
   Instance(Kde, 0, 1, 1, 0, 0),
   Instance(Kde, 0, 1, 0, 1, 0),
   Instance(Kde, 1, 0, 1, 0, 0),
   Instance(Kde, 0, 0, 1, 1, 0),
   Instance(Kde, 0, 0, 1, 0, 1),
   Instance(KdeNoPortal, 1, 0, 1, 0, 0),
   Instance(KdeNoHelper, 1, 0, 0, 0, 0),
   Instance(X11, 1, 0, 1, 0, 0),
   Instance(Sway, 1, 0, 1, 0, 0),
   Instance(NoVirtualKeyboard, 1, 0, 1, 0, 0),
   Starts({d1, d2, d3})}

\* A paste that the portal types and its caller may give up
MCLate == {Instance(Kde, 0, 1, 0, 0, 0)}

\* A daemon, its successor and a third
MCDaemons == {Starts({d1, d2, d3})}
=============================================================================
