------------------------------ MODULE Mailbox -------------------------------
(***************************************************************************)
(* The Phase 2 mailboxes (src/phase2/phase2.c, message.h, phase2.h):       *)
(* MboxCreate, MboxRelease, MboxSend, MboxReceive, MboxCondSend and        *)
(* MboxCondReceive over the mailbox table, the slot table and the queues   *)
(* of each mailbox.                                                        *)
(*                                                                         *)
(* One processor, and interrupts off inside a call: a call is one step up  *)
(* to the point where it blocks or returns.  What is left of it after      *)
(* block_me is a second step, and MboxRelease takes one step for each      *)
(* process it unblocks, since every unblock_proc may switch processes.     *)
(*                                                                         *)
(* A message is a tag: the n-th message that a send call hands to the      *)
(* mailbox system is the number n.  A call that changes nothing (invalid   *)
(* arguments) is still a step, because it may leave the interrupts off.    *)
(***************************************************************************)
EXTENDS Kernel, Sequences, FiniteSets

CONSTANTS
  MAXMBOX, MAXSLOTS, MAX_MESSAGE,   \* phase2.h
  InitBoxes,      \* the boxes created before the processes start, in order:
                  \* a sequence of [slots, size], arguments of MboxCreate
  CreateArgs,     \* the [slots, size] that running processes create with
  ReleaseArgs,    \* the ids that running processes release
  SendArgs,       \* the [mbox_id, msg_size] of sends and conditional sends
  RecvArgs,       \* the [mbox_id, msg_ptr, msg_size] of the receives; msg_ptr
                  \* is FALSE for a NULL pointer
  CondRecvArgs,   \* those of the conditional receives
  MaxMsg          \* bound: how many messages are sent in a behaviour

Box  == 0 .. MAXMBOX - 1
Slot == 0 .. MAXSLOTS - 1

ASSUME MailboxAssumption ==
  /\ MAXMBOX \in Nat /\ MAXSLOTS \in Nat /\ MAX_MESSAGE \in Nat /\ MaxMsg \in Nat
  /\ InitBoxes \in Seq([slots : Nat, size : 0 .. MAX_MESSAGE])
  /\ Len(InitBoxes) <= MAXMBOX
  /\ CreateArgs \subseteq [slots : Int, size : Int]
  /\ ReleaseArgs \subseteq Int
  /\ SendArgs \subseteq [mbox_id : Int, msg_size : Int]
  /\ RecvArgs \subseteq [mbox_id : Int, msg_ptr : BOOLEAN, msg_size : Nat]
  /\ CondRecvArgs \subseteq [mbox_id : Int, msg_ptr : BOOLEAN, msg_size : Nat]

VARIABLES
  MailBoxTable,          \* [Box -> [status, total_slots, slot_size]]
  num_boxes,
  next_mbox_id,
  queue_slots,           \* the three queues of each mailbox
  blocked_proc_send,
  blocked_proc_receive,
  MailSlotTable,         \* [Slot -> [status, message_size, message]]
  num_slots,
  next_slot_id,
  pc,                    \* where each process is: "user" outside the calls
  arg,                   \* the mailbox of the call it is in
  mproc,                 \* the mbox_proc on its stack while it is blocked
  halted,                \* halt(1) was called
  \* What the callers have seen; the code reads none of these:
  sent,                  \* messages accepted so far: the tags 1 .. sent
  got                    \* per box, the messages that receives put into buffers

mboxVars  == <<MailBoxTable, num_boxes, next_mbox_id>>
queueVars == <<queue_slots, blocked_proc_send, blocked_proc_receive>>
slotVars  == <<MailSlotTable, num_slots, next_slot_id>>
callVars  == <<pc, arg, mproc>>
seenVars  == <<sent, got>>
vars == <<kernelVars, mboxVars, queueVars, slotVars, callVars, halted, seenVars>>

NoMsg == 0
Msg   == 1 .. MaxMsg

FreeBox  == [status |-> "INACTIVE", total_slots |-> -1, slot_size |-> -1]
FreeSlot == [status |-> "EMPTY", message_size |-> 0, message |-> NoMsg]
NoProc   == [message_ptr |-> FALSE, message_size |-> 0, message |-> NoMsg]

Active(b) == MailBoxTable[b].status = "ACTIVE"

\* What a waiting call is waiting for; the rest of the places are in Place.
Waiting == {"send", "recvZero", "recv"}
Place   == Waiting \union {"user", "relSend", "relRecv"}

BoxesTypeOK ==
  /\ MailBoxTable \in [Box -> [status : {"ACTIVE", "INACTIVE"}, total_slots : Int, slot_size : Int]]
  /\ num_boxes \in Int
  /\ next_mbox_id \in 0 .. MAXMBOX

SlotRecord == [status : {"EMPTY", "IN_USE"}, message_size : Int, message : Msg \union {NoMsg}]

SlotsTypeOK ==
  /\ MailSlotTable \in [Slot -> SlotRecord]
  /\ num_slots \in Int
  /\ next_slot_id \in 0 .. MAXSLOTS

QueuesTypeOK ==
  /\ queue_slots \in [Box -> Seq(Slot)]
  /\ blocked_proc_send \in [Box -> Seq(Proc)]
  /\ blocked_proc_receive \in [Box -> Seq(Proc)]

ProcRecord == [message_ptr : BOOLEAN, message_size : Int, message : Msg \union {NoMsg}]

CallsTypeOK ==
  /\ pc \in [Proc -> Place]
  /\ arg \in [Proc -> Box \union {-1}]
  /\ mproc \in [Proc -> ProcRecord]
  /\ \A p \in Proc : pc[p] # "user" => arg[p] \in Box
  /\ \A p \in Proc : pc[p] = "send" => mproc[p].message \in Msg
  /\ halted \in BOOLEAN

SeenTypeOK ==
  /\ sent \in 0 .. MaxMsg
  /\ got \in [Box -> Seq(Msg)]

TypeOK ==
  KernelTypeOK /\ BoxesTypeOK /\ SlotsTypeOK /\ QueuesTypeOK /\ CallsTypeOK /\ SeenTypeOK

(***************************************************************************)
(* After start1 has initialised the tables and start2 has created the      *)
(* boxes of InitBoxes.                                                     *)
(***************************************************************************)
Init ==
  /\ KernelInit
  /\ MailBoxTable = [b \in Box |->
        IF b < Len(InitBoxes)
        THEN [status |-> "ACTIVE", total_slots |-> InitBoxes[b + 1].slots,
              slot_size |-> InitBoxes[b + 1].size]
        ELSE FreeBox]
  /\ num_boxes = Len(InitBoxes)
  /\ next_mbox_id = Len(InitBoxes)
  /\ queue_slots = [b \in Box |-> <<>>]
  /\ blocked_proc_send = [b \in Box |-> <<>>]
  /\ blocked_proc_receive = [b \in Box |-> <<>>]
  /\ MailSlotTable = [s \in Slot |-> FreeSlot]
  /\ num_slots = 0
  /\ next_slot_id = 0
  /\ pc = [p \in Proc |-> "user"]
  /\ arg = [p \in Proc |-> -1]
  /\ mproc = [p \in Proc |-> NoProc]
  /\ halted = FALSE
  /\ sent = 0
  /\ got = [b \in Box |-> <<>>]

-----------------------------------------------------------------------------
(***************************************************************************)
(* Helpers of the calls.                                                   *)
(***************************************************************************)

\* The index a circular search settles on: the next one, or else the first
\* free one, or (no index being free) the next one after all.
FirstFree(next, free) ==
  IF next \in free \/ free = {} THEN next
  ELSE CHOOSE i \in free : \A j \in free : i <= j

NextBox == FirstFree(next_mbox_id, {b \in Box : ~Active(b)})

\* Mutant: the next slot is taken without looking for an empty one.
NextSlotUnsearched(table) == next_slot_id

NextSlot(table) ==
  FirstFree(next_slot_id, {s \in Slot : table[s].status = "EMPTY"})

\* Mutants: into the front of the queue; without taking the head off.
enqueueInFront(q, x) == <<x>> \o q
dequeueKeepsHead(q) == q

\* The queues are FIFO: enqueue adds a tail, dequeue takes the head off.
enqueue(q, x) == Append(q, x)
dequeue(q) == Tail(q)

\* createSlot on a slot table, and enqueue of the slot on a slot queue of b.
createSlot(table, num, b, queue, m, n) ==
  LET s == NextSlot(table)
  IN  /\ MailSlotTable' = [table EXCEPT ![s] =
            [status |-> "IN_USE", message_size |-> n, message |-> m]]
      /\ next_slot_id' = s + 1
      /\ num_slots' = num + 1
      /\ queue_slots' = [queue_slots EXCEPT ![b] = enqueue(queue, s)]

\* msgToProc: the message (m, n) is copied to the waiting mbox_proc r when it
\* has a buffer of that size; otherwise r is told -1.
msgToProc(r, m, n) ==
  IF r.message_ptr /\ n <= r.message_size
  THEN [r EXCEPT !.message = m, !.message_size = n]
  ELSE [r EXCEPT !.message_size = -1]

\* What the caller of a receive on b sees when it returns r's message_size.
Returned(b, r) ==
  /\ got' = IF r.message_size >= 0 /\ r.message # NoMsg
            THEN [got EXCEPT ![b] = Append(@, r.message)] ELSE got
  /\ UNCHANGED sent

\* p blocks in the middle of a call on b; r is the mbox_proc it queued.
BlockIn(p, where, b, r, st) ==
  /\ pc' = [pc EXCEPT ![p] = where]
  /\ arg' = [arg EXCEPT ![p] = b]
  /\ mproc' = [mproc EXCEPT ![p] = r]
  /\ BlockMe(p, st)

Running(p) == Current = p /\ ~halted /\ pc[p] = "user"

-----------------------------------------------------------------------------
(***************************************************************************)
(* MboxCreate and MboxRelease.                                             *)
(***************************************************************************)

\* The error return leaves the interrupts off.
CreateFails(p, a) ==
  /\ num_boxes = MAXMBOX \/ a.slots < 0 \/ a.size < 0 \/ a.size > MAX_MESSAGE
  /\ ReturnWith(p, FALSE)
  /\ UNCHANGED <<mboxVars, queueVars>>

CreateBox(p, a) ==
  LET b == NextBox
  IN  /\ num_boxes # MAXMBOX /\ a.slots >= 0 /\ a.size >= 0 /\ a.size <= MAX_MESSAGE
      /\ MailBoxTable' = [MailBoxTable EXCEPT ![b] =
            [status |-> "ACTIVE", total_slots |-> a.slots, slot_size |-> a.size]]
      /\ next_mbox_id' = b + 1
      /\ num_boxes' = num_boxes + 1
      /\ queue_slots' = [queue_slots EXCEPT ![b] = <<>>]
      /\ blocked_proc_send' = [blocked_proc_send EXCEPT ![b] = <<>>]
      /\ blocked_proc_receive' = [blocked_proc_receive EXCEPT ![b] = <<>>]
      /\ ReturnWith(p, TRUE)

MboxCreate(p, a) ==
  /\ Running(p)
  /\ CreateFails(p, a) \/ CreateBox(p, a)
  /\ UNCHANGED <<slotVars, callVars, halted, seenVars>>

\* An id out of range is refused; a box that is already released also, but
\* with the interrupts left off.
ReleaseRefused(p, b) ==
  /\ Running(p)
  /\ b \in Box => ~Active(b)
  /\ ReturnWith(p, b \notin Box)
  /\ UNCHANGED <<mboxVars, queueVars, slotVars, callVars, halted, seenVars>>

\* Mutant: the slots are freed, but they stay in the queue of the box.
EmptySlotsInPlace(b) ==
  LET freed == {queue_slots[b][i] : i \in DOMAIN queue_slots[b]}
  IN  /\ MailSlotTable' = [s \in Slot |-> IF s \in freed THEN FreeSlot ELSE MailSlotTable[s]]
      /\ num_slots' = num_slots - Len(queue_slots[b])
      /\ UNCHANGED queue_slots

\* Every slot of the box is taken off its queue and freed.
EmptySlots(b) ==
  LET freed == {queue_slots[b][i] : i \in DOMAIN queue_slots[b]}
  IN  /\ MailSlotTable' = [s \in Slot |-> IF s \in freed THEN FreeSlot ELSE MailSlotTable[s]]
      /\ num_slots' = num_slots - Len(queue_slots[b])
      /\ queue_slots' = [queue_slots EXCEPT ![b] = <<>>]

\* The slots are freed and the box is marked; the waiting processes follow.
ReleaseBox(p, b) ==
  /\ Running(p)
  /\ b \in Box /\ Active(b)
  /\ EmptySlots(b)
  /\ MailBoxTable' = [MailBoxTable EXCEPT ![b] = FreeBox]
  /\ num_boxes' = num_boxes - 1
  /\ pc' = [pc EXCEPT ![p] = "relSend"]
  /\ arg' = [arg EXCEPT ![p] = b]
  /\ ReturnWith(p, FALSE)
  /\ UNCHANGED <<next_mbox_id, blocked_proc_send, blocked_proc_receive,
                 next_slot_id, mproc, halted, seenVars>>

MboxRelease(p, b) == ReleaseRefused(p, b) \/ ReleaseBox(p, b)

\* Mutant: the sender leaves the queue without being unblocked.
ReleaseSenderSleeps(p) ==
  /\ pc[p] = "relSend" /\ blocked_proc_send[arg[p]] # <<>>
  /\ ReturnWith(p, TRUE)
  /\ blocked_proc_send' = [blocked_proc_send EXCEPT ![arg[p]] = dequeue(@)]
  /\ UNCHANGED <<blocked_proc_receive, pc, arg>>

\* One turn of the loop over the blocked senders.
ReleaseSender(p) ==
  /\ pc[p] = "relSend" /\ blocked_proc_send[arg[p]] # <<>>
  /\ UnblockProc(p, Head(blocked_proc_send[arg[p]]))
  /\ blocked_proc_send' = [blocked_proc_send EXCEPT ![arg[p]] = dequeue(@)]
  /\ UNCHANGED <<blocked_proc_receive, pc, arg>>

\* One turn of the loop over the blocked receivers.
ReleaseReceiver(p) ==
  /\ pc[p] = "relSend" => blocked_proc_send[arg[p]] = <<>>
  /\ blocked_proc_receive[arg[p]] # <<>>
  /\ UnblockProc(p, Head(blocked_proc_receive[arg[p]]))
  /\ blocked_proc_receive' = [blocked_proc_receive EXCEPT ![arg[p]] = dequeue(@)]
  /\ pc' = [pc EXCEPT ![p] = "relRecv"]
  /\ UNCHANGED <<blocked_proc_send, arg>>

\* Mutant: the loop over the blocked receivers is missing.
ReleaseDoneEarly(p) ==
  /\ pc[p] = "relSend" => blocked_proc_send[arg[p]] = <<>>
  /\ pc' = [pc EXCEPT ![p] = "user"]
  /\ arg' = [arg EXCEPT ![p] = -1]
  /\ ReturnWith(p, TRUE)
  /\ UNCHANGED <<blocked_proc_send, blocked_proc_receive>>

ReleaseDone(p) ==
  /\ pc[p] = "relSend" => blocked_proc_send[arg[p]] = <<>>
  /\ blocked_proc_receive[arg[p]] = <<>>
  /\ pc' = [pc EXCEPT ![p] = "user"]
  /\ arg' = [arg EXCEPT ![p] = -1]
  /\ ReturnWith(p, TRUE)
  /\ UNCHANGED <<blocked_proc_send, blocked_proc_receive>>

ReleaseStep(p) ==
  /\ Current = p /\ ~halted /\ pc[p] \in {"relSend", "relRecv"}
  /\ ReleaseSender(p) \/ ReleaseReceiver(p) \/ ReleaseDone(p)
  /\ UNCHANGED <<mboxVars, queue_slots, slotVars, mproc, halted, seenVars>>

-----------------------------------------------------------------------------
(***************************************************************************)
(* MboxSend and MboxCondSend.                                              *)
(***************************************************************************)

ValidSend(b, n) == b \in Box /\ Active(b) /\ 0 <= n /\ n <= MailBoxTable[b].slot_size

\* A receiver is waiting that this send hands its message to.
CanHandOff(b) ==
  /\ blocked_proc_receive[b] # <<>>
  /\ \/ Len(queue_slots[b]) < MailBoxTable[b].total_slots
     \/ MailBoxTable[b].total_slots = 0

\* Mutant: off by one.
FullBeyond(b) == Len(queue_slots[b]) > MailBoxTable[b].total_slots

Full(b) == Len(queue_slots[b]) = MailBoxTable[b].total_slots

SendInvalid(p, b, n) ==
  /\ ~ValidSend(b, n)
  /\ ReturnWith(p, TRUE)
  /\ UNCHANGED <<queueVars, slotVars, callVars, halted, seenVars>>

\* The message is copied to the first waiting receiver, who is unblocked
\* whether or not it fitted; the send returns 0 or -1 accordingly.
HandOff(p, b, n) ==
  LET q == Head(blocked_proc_receive[b])
      r == msgToProc(mproc[q], sent + 1, n)
      ok == r.message_size >= 0
  IN  /\ ValidSend(b, n) /\ CanHandOff(b)
      /\ blocked_proc_receive' = [blocked_proc_receive EXCEPT ![b] = dequeue(@)]
      /\ mproc' = [mproc EXCEPT ![q] = r]
      /\ sent' = IF ok THEN sent + 1 ELSE sent
      /\ UnblockProc(p, q)
      /\ UNCHANGED <<queue_slots, blocked_proc_send, slotVars, pc, arg, halted, got>>

SendBlocks(p, b, n) ==
  /\ ValidSend(b, n) /\ ~CanHandOff(b) /\ Full(b)
  /\ blocked_proc_send' = [blocked_proc_send EXCEPT ![b] = enqueue(@, p)]
  /\ sent' = sent + 1
  /\ BlockIn(p, "send", b,
             [message_ptr |-> TRUE, message_size |-> n, message |-> sent + 1], "FULLMBOX")
  /\ UNCHANGED <<queue_slots, blocked_proc_receive, slotVars, halted, got>>

SendToSlot(p, b, n) ==
  /\ ValidSend(b, n) /\ ~CanHandOff(b) /\ ~Full(b) /\ num_slots # MAXSLOTS
  /\ createSlot(MailSlotTable, num_slots, b, queue_slots[b], sent + 1, n)
  /\ sent' = sent + 1
  /\ ReturnWith(p, TRUE)
  /\ UNCHANGED <<blocked_proc_send, blocked_proc_receive, callVars, halted, got>>

\* The slot table is full: MboxSend halts the machine.
SendOverflow(p, b, n) ==
  /\ ValidSend(b, n) /\ ~CanHandOff(b) /\ ~Full(b) /\ num_slots = MAXSLOTS
  /\ halted' = TRUE
  /\ UNCHANGED <<kernelVars, queueVars, slotVars, callVars, seenVars>>

MboxSend(p, b, n) ==
  /\ Running(p) /\ sent < MaxMsg
  /\ \/ SendInvalid(p, b, n)
     \/ HandOff(p, b, n)
     \/ SendBlocks(p, b, n)
     \/ SendToSlot(p, b, n)
     \/ SendOverflow(p, b, n)
  /\ UNCHANGED mboxVars

\* A conditional send returns -2 instead of blocking, and also when the slot
\* table is full, then with the interrupts off.
CondSendFails(p, b, n) ==
  /\ ValidSend(b, n) /\ ~CanHandOff(b)
  /\ Full(b) \/ num_slots = MAXSLOTS
  /\ ReturnWith(p, Full(b))
  /\ UNCHANGED <<queueVars, slotVars, callVars, halted, seenVars>>

MboxCondSend(p, b, n) ==
  /\ Running(p) /\ sent < MaxMsg
  /\ \/ SendInvalid(p, b, n)
     \/ HandOff(p, b, n)
     \/ SendToSlot(p, b, n)
     \/ CondSendFails(p, b, n)
  /\ UNCHANGED mboxVars

\* The rest of MboxSend after block_me.
SendResumes(p) ==
  /\ Current = p /\ ~halted /\ pc[p] = "send"
  /\ pc' = [pc EXCEPT ![p] = "user"]
  /\ arg' = [arg EXCEPT ![p] = -1]
  /\ mproc' = [mproc EXCEPT ![p] = NoProc]
  /\ ReturnWith(p, TRUE)
  /\ UNCHANGED <<mboxVars, queueVars, slotVars, halted, seenVars>>

-----------------------------------------------------------------------------
(***************************************************************************)
(* MboxReceive and MboxCondReceive.                                        *)
(***************************************************************************)

Buffer(ptr, n) == [message_ptr |-> ptr, message_size |-> n, message |-> NoMsg]

ValidReceive(b) == b \in Box /\ Active(b)

ReceiveInvalid(p, b) ==
  /\ ~ValidReceive(b)
  /\ ReturnWith(p, TRUE)
  /\ UNCHANGED <<queueVars, slotVars, callVars, seenVars>>

\* No slots, and a process on the send queue: it is taken for a sender, and
\* is unblocked whether or not its message fits.
TakeFromSender(p, b, ptr, n) ==
  LET q == Head(blocked_proc_send[b])
  IN  /\ ValidReceive(b) /\ MailBoxTable[b].total_slots = 0 /\ blocked_proc_send[b] # <<>>
      /\ blocked_proc_send' = [blocked_proc_send EXCEPT ![b] = dequeue(@)]
      /\ Returned(b, msgToProc(Buffer(ptr, n), mproc[q].message, mproc[q].message_size))
      /\ UnblockProc(p, q)
      /\ UNCHANGED <<queue_slots, blocked_proc_receive, slotVars, callVars>>

\* No slots and nobody on the send queue: the receiver queues itself THERE.
WaitOnZeroSlots(p, b, ptr, n) ==
  /\ ValidReceive(b) /\ MailBoxTable[b].total_slots = 0 /\ blocked_proc_send[b] = <<>>
  /\ blocked_proc_send' = [blocked_proc_send EXCEPT ![b] = enqueue(@, p)]
  /\ BlockIn(p, "recvZero", b, Buffer(ptr, n), "NOMESSAGES")
  /\ UNCHANGED <<queue_slots, blocked_proc_receive, slotVars, seenVars>>

\* Messages of size 0: the receiver blocks whatever is queued.
WaitForSignal(p, b, ptr, n) ==
  /\ ValidReceive(b) /\ MailBoxTable[b].total_slots # 0 /\ MailBoxTable[b].slot_size = 0
  /\ blocked_proc_receive' = [blocked_proc_receive EXCEPT ![b] = enqueue(@, p)]
  /\ BlockIn(p, "recv", b, Buffer(ptr, n), "NOMESSAGES")
  /\ UNCHANGED <<queue_slots, blocked_proc_send, slotVars, seenVars>>

Slotted(b) == ValidReceive(b) /\ MailBoxTable[b].total_slots # 0 /\ MailBoxTable[b].slot_size # 0

\* Nothing is queued: -1 at once, from either receive.
NothingQueued(p, b) ==
  /\ Slotted(b) /\ queue_slots[b] = <<>>
  /\ ReturnWith(p, TRUE)
  /\ UNCHANGED <<queueVars, slotVars, callVars, seenVars>>

\* The first message does not fit: its slot has left the queue and is not freed.
DropTooLong(p, b, n) ==
  /\ Slotted(b) /\ queue_slots[b] # <<>>
  /\ \/ MailSlotTable[Head(queue_slots[b])].status = "EMPTY"
     \/ n < MailSlotTable[Head(queue_slots[b])].message_size
  /\ queue_slots' = [queue_slots EXCEPT ![b] = dequeue(@)]
  /\ ReturnWith(p, TRUE)
  /\ UNCHANGED <<blocked_proc_send, blocked_proc_receive, slotVars, callVars, seenVars>>

\* Mutant: the freed slot is not given to a blocked sender.
RefillNot(p, b, freed) ==
  /\ MailSlotTable' = freed
  /\ num_slots' = num_slots - 1
  /\ queue_slots' = [queue_slots EXCEPT ![b] = dequeue(@)]
  /\ ReturnWith(p, TRUE)
  /\ UNCHANGED <<next_slot_id, blocked_proc_send>>

\* Mutant: a blocked sender is woken, but its message is not stored.
RefillNothing(p, b, freed) ==
  /\ MailSlotTable' = freed
  /\ num_slots' = num_slots - 1
  /\ queue_slots' = [queue_slots EXCEPT ![b] = dequeue(@)]
  /\ IF blocked_proc_send[b] # <<>>
     THEN /\ blocked_proc_send' = [blocked_proc_send EXCEPT ![b] = dequeue(@)]
          /\ UnblockProc(p, Head(blocked_proc_send[b]))
     ELSE ReturnWith(p, TRUE) /\ UNCHANGED blocked_proc_send
  /\ UNCHANGED next_slot_id

\* The message of the first blocked sender, if there is one, gets a slot of the
\* table in which the received one is freed, and the sender is unblocked.
Refill(p, b, freed) ==
  LET q == Head(blocked_proc_send[b])
  IN  IF blocked_proc_send[b] # <<>>
      THEN /\ createSlot(freed, num_slots - 1, b, dequeue(queue_slots[b]),
                         mproc[q].message, mproc[q].message_size)
           /\ blocked_proc_send' = [blocked_proc_send EXCEPT ![b] = dequeue(@)]
           /\ UnblockProc(p, q)
      ELSE /\ MailSlotTable' = freed
           /\ num_slots' = num_slots - 1
           /\ queue_slots' = [queue_slots EXCEPT ![b] = dequeue(@)]
           /\ ReturnWith(p, TRUE)
           /\ UNCHANGED <<next_slot_id, blocked_proc_send>>

\* The first message is copied and its slot freed.
TakeFromSlot(p, b, ptr, n) ==
  LET s == Head(queue_slots[b])
      m == MailSlotTable[s]
  IN  /\ Slotted(b) /\ queue_slots[b] # <<>>
      /\ m.status = "IN_USE" /\ m.message_size <= n
      /\ Returned(b, [message_ptr |-> ptr, message_size |-> m.message_size, message |-> m.message])
      /\ Refill(p, b, [MailSlotTable EXCEPT ![s] = FreeSlot])
      /\ UNCHANGED <<blocked_proc_receive, callVars>>

MboxReceive(p, b, ptr, n) ==
  /\ Running(p)
  /\ \/ ReceiveInvalid(p, b)
     \/ TakeFromSender(p, b, ptr, n)
     \/ WaitOnZeroSlots(p, b, ptr, n)
     \/ WaitForSignal(p, b, ptr, n)
     \/ NothingQueued(p, b)
     \/ DropTooLong(p, b, n)
     \/ TakeFromSlot(p, b, ptr, n)
  /\ UNCHANGED <<mboxVars, halted>>

\* No slots and nobody on the send queue: the conditional receive returns the
\* size of the caller's own buffer.
NoSender(p, b, ptr, n) ==
  /\ ValidReceive(b) /\ MailBoxTable[b].total_slots = 0 /\ blocked_proc_send[b] = <<>>
  /\ Returned(b, Buffer(ptr, n))
  /\ ReturnWith(p, TRUE)
  /\ UNCHANGED <<queueVars, slotVars, callVars>>

\* debugflag2 is 0, so the `return -2' inside its test is not taken and the
\* conditional receive of a message of size 0 blocks (WaitForSignal).
MboxCondReceive(p, b, ptr, n) ==
  /\ Running(p)
  /\ \/ ReceiveInvalid(p, b)
     \/ TakeFromSender(p, b, ptr, n)
     \/ NoSender(p, b, ptr, n)
     \/ WaitForSignal(p, b, ptr, n)
     \/ NothingQueued(p, b)
     \/ DropTooLong(p, b, n)
     \/ TakeFromSlot(p, b, ptr, n)
  /\ UNCHANGED <<mboxVars, halted>>

\* The rest of a receive after block_me.  The one for messages of size 0
\* returns a size with the interrupts still off.
ReceiveResumes(p) ==
  /\ Current = p /\ ~halted /\ pc[p] \in {"recvZero", "recv"}
  /\ IF p \in zapped \/ ~Active(arg[p])
     THEN UNCHANGED seenVars /\ ReturnWith(p, TRUE)
     ELSE Returned(arg[p], mproc[p]) /\ ReturnWith(p, pc[p] = "recvZero")
  /\ pc' = [pc EXCEPT ![p] = "user"]
  /\ arg' = [arg EXCEPT ![p] = -1]
  /\ mproc' = [mproc EXCEPT ![p] = NoProc]
  /\ UNCHANGED <<mboxVars, queueVars, slotVars, halted>>

-----------------------------------------------------------------------------
Quit(p) ==
  /\ Running(p)
  /\ QuitProc(p)
  /\ UNCHANGED <<mboxVars, queueVars, slotVars, callVars, halted, seenVars>>

\* The clock and the processes outside Proc.
Interrupt ==
  /\ ~halted
  /\ TimeSlice \/ \E q \in ZapTargets : Zap(q)
  /\ UNCHANGED <<mboxVars, queueVars, slotVars, callVars, halted, seenVars>>

Call(p) ==
  \/ \E a \in CreateArgs : MboxCreate(p, a)
  \/ \E b \in ReleaseArgs : MboxRelease(p, b)
  \/ \E a \in SendArgs : MboxSend(p, a.mbox_id, a.msg_size)
  \/ \E a \in SendArgs : MboxCondSend(p, a.mbox_id, a.msg_size)
  \/ \E a \in RecvArgs : MboxReceive(p, a.mbox_id, a.msg_ptr, a.msg_size)
  \/ \E a \in CondRecvArgs : MboxCondReceive(p, a.mbox_id, a.msg_ptr, a.msg_size)

Resume(p) == SendResumes(p) \/ ReceiveResumes(p) \/ ReleaseStep(p)

Next == Interrupt \/ \E p \in Proc : Call(p) \/ Resume(p) \/ Quit(p)

Spec == Init /\ [][Next]_vars
=============================================================================
