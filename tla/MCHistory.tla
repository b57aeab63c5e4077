----------------------------- MODULE MCHistory -----------------------------
(* Instances of History for TLC. *)
EXTENDS History, TLC

CONSTANTS t1, t2, i1, i2, c1, c2  \* model values

Kept(c, p) == [content |-> c, pinned |-> p, legacy |-> FALSE]

\* A pinned image and a text.
ImageAndText == <<Kept(i1, TRUE), Kept(t1, FALSE)>>

\* A single text.
OneText == <<Kept(t1, FALSE)>>

ClientSymmetry == Permutations(Clients)
=============================================================================
