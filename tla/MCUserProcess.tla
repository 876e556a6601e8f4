--------------------------- MODULE MCUserProcess ----------------------------
(***************************************************************************)
(* A small instance of the user processes.                                 *)
(***************************************************************************)
EXTENDS UserProperties

\* The first user process has priority 3.
HighAndLow == {2, 4, 5, 6}
=============================================================================
