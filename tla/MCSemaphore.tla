---------------------------- MODULE MCSemaphore -----------------------------
(***************************************************************************)
(* Small instances of the semaphores.                                      *)
(***************************************************************************)
EXTENDS SemaphoreProperties

CONSTANTS p1, p2, p3

TwoProcs   == {p1, p2}
ThreeProcs == {p1, p2, p3}
ZeroOrOne  == {0, 1}
=============================================================================
