---------------------------- MODULE MCSleepers ----------------------------
(***************************************************************************)
(* Instances of the sleepers for TLC.  Four processes make a heap of three *)
(* levels.  A sleep of three seconds from the second 1 on is beyond the    *)
(* last int, when that is 3, and wraps to a time in the past.              *)
(***************************************************************************)
EXTENDS SleeperProperties

TheSeconds == {-1, 1, 2, 3}
=============================================================================
