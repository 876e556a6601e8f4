------------------------- MODULE MailboxProperties --------------------------
(***************************************************************************)
(* What the mailboxes of Phase 2 get right: first in every use of them,    *)
(* then for messages that are not of size 0 and buffers large enough.      *)
(***************************************************************************)
EXTENDS Mailbox

InUse == {s \in Slot : MailSlotTable[s].status = "IN_USE"}

\* A slot table, a count and the slot queues of the boxes agree.
Owned(table, num, queues) ==
  /\ num = Cardinality({s \in Slot : table[s].status = "IN_USE"})
  /\ \A b \in Box : \A i \in DOMAIN queues[b] : table[queues[b][i]].status = "IN_USE"
  /\ \A b, c \in Box : \A i \in DOMAIN queues[b], j \in DOMAIN queues[c] :
        queues[b][i] = queues[c][j] => b = c /\ i = j

\* Slot ownership: num_slots counts the slots in use, a queued slot is in use,
\* and no slot is queued twice.  This is what lets createSlot take the slot it
\* finds: were the count or a queue wrong, it would overwrite a queued message
\* or run past the end of the table (phase2.c:336, 385-397).
SlotOwnership == Owned(MailSlotTable, num_slots, queue_slots)

\* Box ownership: num_boxes counts the active boxes, and a released box owns
\* no slot, so MboxCreate, which forgets the queue of the box it takes, leaks
\* none (phase2.c:144, 151-170).
BoxOwnership ==
  /\ num_boxes = Cardinality({b \in Box : Active(b)})
  /\ \A b \in Box : ~Active(b) => queue_slots[b] = <<>>

\* No box ever holds more messages than MboxCreate was asked for, nor a
\* message longer than the box takes, whichever path stored it: a send or a
\* receive that refilled the box for a blocked sender (phase2.c:342, 554).
WithinCapacity ==
  \A b \in Box : Active(b) =>
    /\ Len(queue_slots[b]) <= MailBoxTable[b].total_slots
    /\ \A i \in DOMAIN queue_slots[b] :
          MailSlotTable[queue_slots[b][i]].message_size <= MailBoxTable[b].slot_size

WaitQueue(b) == blocked_proc_send[b] \o blocked_proc_receive[b]

\* A queue entry points into the stack of a process (phase2.c:307, 454, 492):
\* every entry belongs to a process that is still blocked in a call on that
\* very box, and to one entry only, so no call ever writes into a dead frame
\* and unblock_proc is never called for a process that is not blocked.
QueuedAreBlocked ==
  \A b \in Box : \A i \in DOMAIN WaitQueue(b) :
    LET p == WaitQueue(b)[i]
    IN  /\ status[p] \in Blocked /\ pc[p] \in Waiting /\ arg[p] = b
        /\ \A j \in DOMAIN WaitQueue(b) : WaitQueue(b)[j] = p => i = j

\* Every blocked process is in a queue of its box, so somebody can wake it.
NobodyStranded ==
  \A p \in Proc : status[p] \in Blocked =>
    \E i \in DOMAIN WaitQueue(arg[p]) : WaitQueue(arg[p])[i] = p

\* A sender is kept waiting only while its box has no free slot
\* (phase2.c:251, "Block the sending process if no slot available").
SendersWaitOnlyWhenFull ==
  \A b \in Box : Active(b) /\ blocked_proc_send[b] # <<>> => Full(b)

\* The messages of the queued slots of b, then those of its blocked senders.
Pending(b) ==
  [i \in DOMAIN queue_slots[b] |-> MailSlotTable[queue_slots[b][i]].message]
  \o [i \in DOMAIN blocked_proc_send[b] |-> mproc[blocked_proc_send[b][i]].message]

\* A box implements a FIFO channel: a message is in the channel from the send
\* call on, in a slot or in the frame of a blocked sender, and the slot that a
\* receive refills for a blocked sender keeps the order of the sends.
Chan == INSTANCE Channel WITH
          chan <- [b \in Box |-> IF Active(b) THEN Pending(b) ELSE <<>>]

FifoChannel == Chan!Spec

\* Where a message can be: in a box, in the buffer of a receiver that was
\* handed it and has not returned yet, or received.
Held(m) ==
  \/ \E b \in Box : Active(b) /\ \E i \in DOMAIN Pending(b) : Pending(b)[i] = m
  \/ \E p \in Proc : pc[p] \in {"recv", "recvZero"} /\ mproc[p].message = m
  \/ \E b \in Box : \E i \in DOMAIN got[b] : got[b][i] = m

\* The step in which a receive of p returns -3.
ReceiveAborts(p) == ReceiveResumes(p) /\ (p \in zapped \/ ~Active(arg[p]))

\* A message that the mailbox system has taken over stays somewhere until it is
\* received; only the release of a box, or a receiver that is told -3, may lose
\* one.  In particular a sender is never woken without its message having been
\* stored or handed over (phase2.c:462, 552).
NothingLost ==
  [][\A m \in Msg :
       /\ m \in sent + 1 .. sent' => Held(m)'
       /\ Held(m) =>
            \/ Held(m)'
            \/ \E b \in Box : Active(b) /\ ~Active(b)'
            \/ \E p \in Proc : ReceiveAborts(p) /\ mproc[p].message = m]_vars

-----------------------------------------------------------------------------
(***************************************************************************)
(* Fairness: a process that is ready gets the processor again and again    *)
(* (the clock slices those of one priority, and everything above it comes  *)
(* to an end or blocks, since every program quits), and then finishes the  *)
(* call it was in.                                                         *)
(***************************************************************************)
FairSpec == Spec /\ \A p \in Proc : SF_vars(Resume(p)) /\ SF_vars(Quit(p))

\* Every process that waits on a box when it is released gets to return from
\* its call, however the release is interrupted (phase2.c:230-241).
ReleaseWakesAll ==
  \A p \in Proc :
    (pc[p] \in Waiting /\ ~Active(arg[p])) ~> (pc[p] = "user" \/ halted)
=============================================================================
