--------------------------- MODULE MCHistoryWatch ---------------------------
(* Instances of HistoryWatch for TLC. *)
EXTENDS HistoryWatch

CONSTANTS A, B, save, delete, p1  \* model values
=============================================================================
