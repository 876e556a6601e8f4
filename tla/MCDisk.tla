------------------------------- MODULE MCDisk -------------------------------
(***************************************************************************)
(* A small instance of the disk: start3 and three users; three tracks of   *)
(* two sectors.                                                            *)
(***************************************************************************)
EXTENDS DiskProperties

CONSTANTS u1, u2, u3

ThreeUsers == {start3, u1, u2, u3}

Ask(t, f, n) == [track |-> t, first |-> f, sectors |-> n]

\* Across a track, nothing, from the end of a track, one sector.
Mixed    == {Ask(0, 1, 2), Ask(1, 0, 0), Ask(1, 2, 1), Ask(2, 0, 1)}
=============================================================================
