---------------------------- MODULE MCHandlers -----------------------------
(***************************************************************************)
(* Two processes of one priority and one of a higher that use a signal box *)
(* and wait for the clock and a disk.                                      *)
(***************************************************************************)
EXTENDS Handlers, TLC

CONSTANTS p1, p2, p3

ThreeProcs == {p1, p2, p3}
HighLowLow == p1 :> 1 @@ p2 :> 2 @@ p3 :> 2
LastProc   == {p3}

Nothing == {}
Id2     == {2}
Disk    == {1}

\* The boxes of the two devices, and one for messages of size 0.
TwoDevices == <<[slots |-> 0, size |-> 1], [slots |-> 0, size |-> 1], [slots |-> 1, size |-> 0]>>
SignalSend == {[mbox_id |-> 2, msg_size |-> 0]}
SignalRecv == {[mbox_id |-> 2, msg_ptr |-> TRUE, msg_size |-> 0]}
=============================================================================
