--------------------------- MODULE MCInputWindow ----------------------------
(* Instances of InputWindow for TLC. *)
EXTENDS InputWindow

\* Two rows whose cells are fewer than the limit of the message, and three rows
\* whose cells are more.
MCSizes == {[lines |-> 2, cols |-> 2], [lines |-> 3, cols |-> 2]}
=============================================================================
