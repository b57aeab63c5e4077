------------------------- MODULE MCHistoryMigration -------------------------
(* Instances of HistoryMigration for TLC. *)
EXTENDS HistoryMigration

CONSTANTS t1, i1, c1

Legacy(c, p) == [content |-> c, pinned |-> p, legacy |-> TRUE]

\* The same image twice under two digests, one of them pinned.
TwoLegacyCopies == <<Legacy(i1, TRUE), Legacy(i1, FALSE)>>
=============================================================================
