---------------------------- MODULE MCActivation ----------------------------
(* Instances of Activation for TLC. *)
EXTENDS Activation, TLC

CONSTANTS a, crlf, b, r, c1, c2, w1, w2  \* model values

\* crlf is a with other line ends; r is rejected by the policy.
Normalized ==
  [c \in Copies |-> CASE c = crlf -> a [] c = r -> NoContent [] OTHER -> c]

\* One connection with every kind of copy and a window to change to, on both
\* display servers; two connections that contend for the clipboard on X11.
One(p, copies) ==
  [platform |-> p, copies |-> copies, clients |-> {c1}, windows |-> {w1, w2}]

Pair == [platform |-> "x11", copies |-> {a, b}, clients |-> {c1, c2}, windows |-> {w1}]

MCInstances == {One("wayland", {a, crlf, b, r}), One("x11", {a, crlf, r}), Pair}

MCOne == {One("wayland", {a})}
=============================================================================
