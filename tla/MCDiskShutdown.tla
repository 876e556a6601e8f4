--------------------------- MODULE MCDiskShutdown ---------------------------
(***************************************************************************)
(* A small instance of the disk and its shutdown.                          *)
(***************************************************************************)
EXTENDS DiskShutdown

CONSTANTS u1, u2

TwoUsers == {start3, u1, u2}
OneSector == {[track |-> 0, first |-> 0, sectors |-> 1]}
=============================================================================
