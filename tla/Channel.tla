------------------------------ MODULE Channel -------------------------------
(***************************************************************************)
(* What a mailbox promises its users, with no slots, no queues of waiting  *)
(* processes and no scheduler: a FIFO channel per box.  Messages are       *)
(* numbered in the order of the sends.  A receive takes the oldest message *)
(* of the box and no other; a release throws away what is in the box.  So  *)
(* no message is lost, duplicated, reordered, invented or delivered from   *)
(* another box.                                                            *)
(***************************************************************************)
EXTENDS Naturals, Sequences

CONSTANT Box

VARIABLES
  chan,    \* per box, the messages sent and not yet received, oldest first
  got,     \* per box, the messages received, in the order of the receives
  sent     \* how many messages were sent

vars == <<chan, got, sent>>

Init ==
  /\ chan = [b \in Box |-> <<>>]
  /\ got = [b \in Box |-> <<>>]
  /\ sent = 0

Put(b) ==
  /\ sent' = sent + 1
  /\ chan' = [chan EXCEPT ![b] = Append(@, sent + 1)]
  /\ UNCHANGED got

Get(b) ==
  /\ chan[b] # <<>>
  /\ got' = [got EXCEPT ![b] = Append(@, Head(chan[b]))]
  /\ chan' = [chan EXCEPT ![b] = Tail(@)]
  /\ UNCHANGED sent

Clear(b) ==
  /\ chan' = [chan EXCEPT ![b] = <<>>]
  /\ UNCHANGED <<got, sent>>

Next == \E b \in Box : Put(b) \/ Get(b) \/ Clear(b)

Spec == Init /\ [][Next]_vars
=============================================================================
