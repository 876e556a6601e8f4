------------------------------ MODULE MCMailbox -----------------------------
(***************************************************************************)
(* Small instances of the mailboxes: one process of high priority and two  *)
(* of the same lower one, and a few shapes of boxes.                       *)
(***************************************************************************)
EXTENDS MailboxProperties, TLC

CONSTANTS p1, p2, p3

ThreeProcs == {p1, p2, p3}
HighLowLow == p1 :> 1 @@ p2 :> 2 @@ p3 :> 2
NoProcs == {}
LastProc == {p3}

Nothing == {}
BadIds  == {0, 2}
Ids01   == {0, 1}

Shape(slots, size) == [slots |-> slots, size |-> size]
ZeroOneTwo   == <<Shape(0, 1), Shape(1, 1), Shape(2, 1)>>
ZeroAndSignal == <<Shape(0, 1), Shape(1, 0)>>

CreateMixed  == {Shape(1, 1), Shape(-1, 0)}

Send(b, n)    == [mbox_id |-> b, msg_size |-> n]
Recv(b, n)    == [mbox_id |-> b, msg_ptr |-> TRUE, msg_size |-> n]
RecvNull(b)   == [mbox_id |-> b, msg_ptr |-> FALSE, msg_size |-> 0]

SendAll    == {Send(b, 1) : b \in 0 .. 2}
RecvAll    == {Recv(b, 1) : b \in 0 .. 2}
RecvSlotted == {Recv(1, 1), Recv(2, 1)}
SendMixed  == {Send(0, 1), Send(1, 0), Send(1, 1)}
RecvMixed  == {Recv(0, 0), Recv(0, 1), RecvNull(1)}
=============================================================================
