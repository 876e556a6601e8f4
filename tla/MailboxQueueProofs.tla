------------------------- MODULE MailboxQueueProofs -------------------------
(***************************************************************************)
(* Proofs about who waits in the queues of the mailboxes, on top of the    *)
(* inductive invariant of MailboxProofs.  They hold in every use of the    *)
(* mailboxes; where one more condition is needed it is a condition on the  *)
(* steps, stated in the theorem.                                           *)
(***************************************************************************)
EXTENDS MailboxProofs

\* The queues are sequences throughout.
USE DEF enqueue, dequeue

-----------------------------------------------------------------------------
(***************************************************************************)
(* The invariant.                                                          *)
(***************************************************************************)
SenderPlaces   == {"send", "recvZero"}
ReceiverPlaces == {"recv"}

\* The processes blocked in a call on b, at one of these places.
WaitingAt(b, places) == {p \in Proc : status[p] \in Blocked /\ pc[p] \in places /\ arg[p] = b}

\* A queue of processes of W, each of them once.
QueueOf(q, W) ==
  /\ \A i \in DOMAIN q : q[i] \in W
  /\ \A i, j \in DOMAIN q : q[i] = q[j] => i = j

\* The process that runs is ready: nobody in a queue is running.
RunningReady == Current \in Proc => status[Current] = "READY"

QueuesHold ==
  \A b \in Box :
    /\ QueueOf(blocked_proc_send[b], WaitingAt(b, SenderPlaces))
    /\ QueueOf(blocked_proc_receive[b], WaitingAt(b, ReceiverPlaces))

QInv == RunningReady /\ QueuesHold

\* What a process on the send queue of an active box brings: a message that the
\* box takes, or, a receiver, that the box has no slots.
SenderFits(p, b) ==
  IF pc[p] = "send" THEN mproc[p].message_size <= MailBoxTable[b].slot_size
  ELSE MailBoxTable[b].total_slots = 0

SendersFit ==
  \A b \in Box : Active(b) =>
    \A i \in DOMAIN blocked_proc_send[b] : SenderFits(blocked_proc_send[b][i], b)

CInv == SendersFit /\ WithinCapacity

\* A process that is blocked is in the queue that its place tells.
InItsQueue(p) ==
  /\ pc[p] \in Waiting
  /\ LET q == IF pc[p] = "recv" THEN blocked_proc_receive[arg[p]] ELSE blocked_proc_send[arg[p]]
     IN  \E i \in DOMAIN q : q[i] = p

BlockedInQueue == \A p \in Proc : status[p] \in Blocked => InItsQueue(p)
-----------------------------------------------------------------------------
(***************************************************************************)
(* The queue operations keep a queue of waiting processes one.             *)
(***************************************************************************)
LEMMA SeqTail ==
  ASSUME NEW S, NEW q \in Seq(S), q # <<>>
  PROVE  /\ Tail(q) \in Seq(S) /\ Len(Tail(q)) = Len(q) - 1 /\ Len(q) \in Nat
         /\ DOMAIN Tail(q) = 1 .. Len(q) - 1 /\ DOMAIN q = 1 .. Len(q)
         /\ Head(q) = q[1] /\ 1 \in DOMAIN q
         /\ \A i \in DOMAIN Tail(q) : i + 1 \in DOMAIN q /\ Tail(q)[i] = q[i + 1]
OBVIOUS

LEMMA SeqAppend ==
  ASSUME NEW S, NEW q \in Seq(S), NEW x \in S
  PROVE  /\ Append(q, x) \in Seq(S)
         /\ DOMAIN Append(q, x) = 1 .. Len(q) + 1 /\ DOMAIN q = 1 .. Len(q) /\ Len(q) \in Nat
         /\ Append(q, x)[Len(q) + 1] = x
         /\ \A i \in DOMAIN q : Append(q, x)[i] = q[i]
OBVIOUS

\* Nobody of the queue moves.
LEMMA QueueStays ==
  ASSUME NEW q, NEW V, NEW W, QueueOf(q, V), V \subseteq W
  PROVE  QueueOf(q, W)
BY DEF QueueOf

LEMMA QueueEmpty == ASSUME NEW W PROVE QueueOf(<<>>, W)
BY DEF QueueOf

\* The head of the queue leaves it; the others still wait.
LEMMA QueueShrinks ==
  ASSUME NEW S, NEW q \in Seq(S), q # <<>>, NEW V, NEW W, QueueOf(q, V), V \ {Head(q)} \subseteq W
  PROVE  QueueOf(Tail(q), W)
<1> USE SeqTail DEF QueueOf
<1>1. ASSUME NEW i \in DOMAIN Tail(q) PROVE Tail(q)[i] \in V \ {Head(q)}
  <2>1. i + 1 \in DOMAIN q /\ 1 \in DOMAIN q /\ i + 1 # 1
    BY <1>1
  <2>2. q[i + 1] # q[1]
    BY <2>1
  <2> QED BY <1>1, <2>1, <2>2
<1>2. ASSUME NEW i \in DOMAIN Tail(q), NEW j \in DOMAIN Tail(q), Tail(q)[i] = Tail(q)[j]
      PROVE  i = j
  <2>1. i + 1 = j + 1
    BY <1>2
  <2> QED BY <1>2, <2>1
<1> QED BY <1>1, <1>2

\* A process that begins to wait joins the tail.
LEMMA QueueGrows ==
  ASSUME NEW S, NEW q \in Seq(S), NEW x \in S, NEW V, NEW W, QueueOf(q, V), V \subseteq W,
         x \notin V, x \in W
  PROVE  QueueOf(Append(q, x), W)
<1> USE SeqAppend DEF QueueOf
<1>1. \A i \in DOMAIN Append(q, x) :
        \/ i \in DOMAIN q /\ Append(q, x)[i] = q[i] /\ q[i] \in V /\ q[i] # x
        \/ i = Len(q) + 1 /\ Append(q, x)[i] = x
  OBVIOUS
<1> QED BY <1>1

-----------------------------------------------------------------------------
(***************************************************************************)
(* The four things that a step can do to the queues.  Who is blocked, and  *)
(* is not woken by the step, stays where he is.                            *)
(***************************************************************************)
KeepsWaiting(x) ==
  \A r \in Proc : r # x /\ status[r] \in Blocked =>
    status'[r] = status[r] /\ pc'[r] = pc[r] /\ arg'[r] = arg[r]

LEMMA OthersWait ==
  ASSUME NEW x, KeepsWaiting(x), NEW b, NEW places
  PROVE  WaitingAt(b, places) \ {x} \subseteq WaitingAt(b, places)'
BY DEF KeepsWaiting, WaitingAt

\* Nobody who waits moves; a queue may be forgotten.
LEMMA NobodyMoves ==
  ASSUME QueuesHold, KeepsWaiting(Sentinel),
         \A b \in Box : blocked_proc_send'[b] \in {blocked_proc_send[b], <<>>},
         \A b \in Box : blocked_proc_receive'[b] \in {blocked_proc_receive[b], <<>>}
  PROVE  QueuesHold'
<1>1. ASSUME NEW b \in Box, NEW places
      PROVE  WaitingAt(b, places) \subseteq WaitingAt(b, places)'
  BY KernelAssumption DEF KeepsWaiting, WaitingAt
<1>2. ASSUME NEW b \in Box
      PROVE  QueueOf(blocked_proc_send'[b], WaitingAt(b, SenderPlaces)')
  BY <1>1, QueueStays, QueueEmpty DEF QueuesHold
<1>3. ASSUME NEW b \in Box
      PROVE  QueueOf(blocked_proc_receive'[b], WaitingAt(b, ReceiverPlaces)')
  BY <1>1, QueueStays, QueueEmpty DEF QueuesHold
<1> QED BY <1>2, <1>3 DEF QueuesHold

\* The head of the send queue of a box is woken.
LEMMA SenderWoken ==
  ASSUME QueuesTypeOK, QueuesHold, NEW c \in Box, blocked_proc_send[c] # <<>>,
         KeepsWaiting(Head(blocked_proc_send[c])),
         blocked_proc_send' = [blocked_proc_send EXCEPT ![c] = Tail(@)],
         UNCHANGED blocked_proc_receive
  PROVE  QueuesHold'
<1> DEFINE x == Head(blocked_proc_send[c])
<1>1. blocked_proc_send[c] \in Seq(Proc)
  BY DEF QueuesTypeOK
<1>2. x \in WaitingAt(c, SenderPlaces)
  BY <1>1, SeqTail DEF QueuesHold, QueueOf
<1>3. ASSUME NEW b \in Box
      PROVE  QueueOf(blocked_proc_send'[b], WaitingAt(b, SenderPlaces)')
  <2>1. CASE b = c
    <3>1. blocked_proc_send'[b] = Tail(blocked_proc_send[c])
      BY <2>1 DEF QueuesTypeOK
    <3> QED BY <1>1, <2>1, <3>1, OthersWait, QueueShrinks DEF QueuesHold
  <2>2. CASE b # c
    <3>1. blocked_proc_send'[b] = blocked_proc_send[b]
      BY <2>2 DEF QueuesTypeOK
    <3>2. x \notin WaitingAt(b, SenderPlaces)
      BY <1>2, <2>2 DEF WaitingAt
    <3>3. WaitingAt(b, SenderPlaces) \subseteq WaitingAt(b, SenderPlaces)'
      BY <3>2, OthersWait
    <3> QED BY <3>1, <3>3, QueueStays DEF QueuesHold
  <2> QED BY <2>1, <2>2
<1>4. ASSUME NEW b \in Box
      PROVE  QueueOf(blocked_proc_receive'[b], WaitingAt(b, ReceiverPlaces)')
  <2>1. x \notin WaitingAt(b, ReceiverPlaces)
    BY <1>2 DEF WaitingAt, SenderPlaces, ReceiverPlaces
  <2>2. WaitingAt(b, ReceiverPlaces) \subseteq WaitingAt(b, ReceiverPlaces)'
    BY <2>1, OthersWait
  <2> QED BY <2>2, QueueStays DEF QueuesHold
<1> QED BY <1>3, <1>4 DEF QueuesHold

\* The head of the receive queue of a box is woken.
LEMMA ReceiverWoken ==
  ASSUME QueuesTypeOK, QueuesHold, NEW c \in Box, blocked_proc_receive[c] # <<>>,
         KeepsWaiting(Head(blocked_proc_receive[c])),
         blocked_proc_receive' = [blocked_proc_receive EXCEPT ![c] = Tail(@)],
         UNCHANGED blocked_proc_send
  PROVE  QueuesHold'
<1> DEFINE x == Head(blocked_proc_receive[c])
<1>1. blocked_proc_receive[c] \in Seq(Proc)
  BY DEF QueuesTypeOK
<1>2. x \in WaitingAt(c, ReceiverPlaces)
  BY <1>1, SeqTail DEF QueuesHold, QueueOf
<1>3. ASSUME NEW b \in Box
      PROVE  QueueOf(blocked_proc_receive'[b], WaitingAt(b, ReceiverPlaces)')
  <2>1. CASE b = c
    <3>1. blocked_proc_receive'[b] = Tail(blocked_proc_receive[c])
      BY <2>1 DEF QueuesTypeOK
    <3> QED BY <1>1, <2>1, <3>1, OthersWait, QueueShrinks DEF QueuesHold
  <2>2. CASE b # c
    <3>1. blocked_proc_receive'[b] = blocked_proc_receive[b]
      BY <2>2 DEF QueuesTypeOK
    <3>2. x \notin WaitingAt(b, ReceiverPlaces)
      BY <1>2, <2>2 DEF WaitingAt
    <3>3. WaitingAt(b, ReceiverPlaces) \subseteq WaitingAt(b, ReceiverPlaces)'
      BY <3>2, OthersWait
    <3> QED BY <3>1, <3>3, QueueStays DEF QueuesHold
  <2> QED BY <2>1, <2>2
<1>4. ASSUME NEW b \in Box
      PROVE  QueueOf(blocked_proc_send'[b], WaitingAt(b, SenderPlaces)')
  <2>1. x \notin WaitingAt(b, SenderPlaces)
    BY <1>2 DEF WaitingAt, SenderPlaces, ReceiverPlaces
  <2>2. WaitingAt(b, SenderPlaces) \subseteq WaitingAt(b, SenderPlaces)'
    BY <2>1, OthersWait
  <2> QED BY <2>2, QueueStays DEF QueuesHold
<1> QED BY <1>3, <1>4 DEF QueuesHold

\* The running process joins the send queue of a box or its receive queue.
LEMMA SomeoneQueues ==
  ASSUME QueuesTypeOK, QInv, NEW p \in Proc, Current = p, KeepsWaiting(p), NEW c \in Box,
         \/ /\ p \in WaitingAt(c, SenderPlaces)'
            /\ blocked_proc_send' = [blocked_proc_send EXCEPT ![c] = Append(@, p)]
            /\ UNCHANGED blocked_proc_receive
         \/ /\ p \in WaitingAt(c, ReceiverPlaces)'
            /\ blocked_proc_receive' = [blocked_proc_receive EXCEPT ![c] = Append(@, p)]
            /\ UNCHANGED blocked_proc_send
  PROVE  QueuesHold'
<1>1. ASSUME NEW b, NEW places
      PROVE  p \notin WaitingAt(b, places) /\ WaitingAt(b, places) \subseteq WaitingAt(b, places)'
  <2>1. p \notin WaitingAt(b, places)
    BY DEF QInv, RunningReady, WaitingAt, Blocked
  <2> QED BY <2>1, OthersWait
<1>2. ASSUME NEW b \in Box
      PROVE  QueueOf(blocked_proc_send'[b], WaitingAt(b, SenderPlaces)')
  <2>1. \/ blocked_proc_send'[b] = blocked_proc_send[b]
        \/ /\ blocked_proc_send'[b] = Append(blocked_proc_send[b], p)
           /\ p \in WaitingAt(b, SenderPlaces)'
    BY DEF QueuesTypeOK
  <2>2. blocked_proc_send[b] \in Seq(Proc) /\ QueueOf(blocked_proc_send[b], WaitingAt(b, SenderPlaces))
    BY DEF QueuesTypeOK, QInv, QueuesHold
  <2>3. CASE blocked_proc_send'[b] = blocked_proc_send[b]
    BY <1>1, <2>2, <2>3, QueueStays
  <2>4. CASE /\ blocked_proc_send'[b] = Append(blocked_proc_send[b], p)
             /\ p \in WaitingAt(b, SenderPlaces)'
    <3> DEFINE V == WaitingAt(b, SenderPlaces)
               W == WaitingAt(b, SenderPlaces)'
    <3>1. p \notin V /\ V \subseteq W /\ p \in W
      BY <1>1, <2>4
    <3> HIDE DEF V, W
    <3>2. QueueOf(blocked_proc_send[b], V)
      BY <2>2 DEF V
    <3>3. QueueOf(Append(blocked_proc_send[b], p), W)
      BY <2>2, <3>1, <3>2, QueueGrows
    <3> QED BY <2>4, <3>3 DEF W
  <2> QED BY <2>1, <2>3, <2>4
<1>3. ASSUME NEW b \in Box
      PROVE  QueueOf(blocked_proc_receive'[b], WaitingAt(b, ReceiverPlaces)')
  <2>1. \/ blocked_proc_receive'[b] = blocked_proc_receive[b]
        \/ /\ blocked_proc_receive'[b] = Append(blocked_proc_receive[b], p)
           /\ p \in WaitingAt(b, ReceiverPlaces)'
    BY DEF QueuesTypeOK
  <2>2. /\ blocked_proc_receive[b] \in Seq(Proc)
        /\ QueueOf(blocked_proc_receive[b], WaitingAt(b, ReceiverPlaces))
    BY DEF QueuesTypeOK, QInv, QueuesHold
  <2>3. CASE blocked_proc_receive'[b] = blocked_proc_receive[b]
    BY <1>1, <2>2, <2>3, QueueStays
  <2>4. CASE /\ blocked_proc_receive'[b] = Append(blocked_proc_receive[b], p)
             /\ p \in WaitingAt(b, ReceiverPlaces)'
    <3> DEFINE V == WaitingAt(b, ReceiverPlaces)
               W == WaitingAt(b, ReceiverPlaces)'
    <3>1. p \notin V /\ V \subseteq W /\ p \in W
      BY <1>1, <2>4
    <3> HIDE DEF V, W
    <3>2. QueueOf(blocked_proc_receive[b], V)
      BY <2>2 DEF V
    <3>3. QueueOf(Append(blocked_proc_receive[b], p), W)
      BY <2>2, <3>1, <3>2, QueueGrows
    <3> QED BY <2>4, <3>3 DEF W
  <2> QED BY <2>1, <2>3, <2>4
<1> QED BY <1>2, <1>3 DEF QueuesHold

-----------------------------------------------------------------------------
(***************************************************************************)
(* What the kernel's operations do to those who wait, and to who runs.     *)
(***************************************************************************)
Stays(pcs, args) ==
  \A r \in Proc : status[r] \in Blocked => pcs[r] = pc[r] /\ args[r] = arg[r]

LEMMA RunnerNotBlocked ==
  ASSUME RunningReady, NEW p \in Proc, Current = p
  PROVE  status[p] = "READY" /\ status[p] \notin Blocked
BY DEF RunningReady, Blocked

\* The calls that do not switch processes.
LEMMA ReturnKeeps ==
  ASSUME TypeOK, RunningReady, NEW p \in Proc, NEW on, ReturnWith(p, on), Stays(pc', arg')
  PROVE  KeepsWaiting(Sentinel) /\ RunningReady'
BY DEF ReturnWith, Stays, KeepsWaiting, RunningReady

\* unblock_proc wakes one process, and leaves the processor with a ready one.
LEMMA UnblockKeeps ==
  ASSUME TypeOK, RunningReady, NEW p \in Proc, Current = p, NEW q \in Proc, UnblockProc(p, q),
         Stays(pc', arg')
  PROVE  KeepsWaiting(q) /\ RunningReady'
<1>1. KeepsWaiting(q)
  BY DEF UnblockProc, Stays, KeepsWaiting, TypeOK, KernelTypeOK
<1>2. status'[q] = "READY" /\ status'[p] = "READY" /\ Current' \in {p, q}
  BY DEF UnblockProc, TypeOK, KernelTypeOK, RunningReady
<1> QED BY <1>1, <1>2 DEF RunningReady

\* The dispatcher gives the processor to a ready process.
LEMMA DispatchReady ==
  ASSUME NEW st, NEW p \in Dispatch(st), p \in Proc
  PROVE  st[p] = "READY"
BY KernelAssumption DEF Dispatch, Highest

\* block_me takes the caller, and only him, from the ready processes.
LEMMA BlockKeeps ==
  ASSUME TypeOK, RunningReady, NEW p \in Proc, Current = p, NEW where \in Waiting, NEW b, NEW r,
         NEW st \in Blocked, BlockIn(p, where, b, r, st)
  PROVE  /\ KeepsWaiting(p) /\ RunningReady'
         /\ status'[p] = st /\ pc'[p] = where /\ arg'[p] = b
<1>1. status' = [status EXCEPT ![p] = st] /\ Current' \in Dispatch(status')
  BY DEF BlockIn, BlockMe
<1>2. /\ KeepsWaiting(p)
      /\ status'[p] = st /\ pc'[p] = where /\ arg'[p] = b
  BY <1>1 DEF BlockIn, KeepsWaiting, TypeOK, KernelTypeOK, CallsTypeOK
<1>3. RunningReady'
  BY <1>1, DispatchReady DEF RunningReady
<1> QED BY <1>2, <1>3

-----------------------------------------------------------------------------
(***************************************************************************)
(* The four things that a step can do to those who wait: nothing, forget   *)
(* the queues of a box that is created, wake the head of a queue, or queue *)
(* the caller.                                                             *)
(***************************************************************************)
Quiet ==
  /\ KeepsWaiting(Sentinel) /\ RunningReady'
  /\ \A r \in Proc : status'[r] \in Blocked => status[r] \in Blocked

Forgets ==
  \E n \in Box : /\ ~Active(n) /\ Active(n)'
                 /\ blocked_proc_send' = [blocked_proc_send EXCEPT ![n] = <<>>]
                 /\ blocked_proc_receive' = [blocked_proc_receive EXCEPT ![n] = <<>>]

WakesHead(p, c) ==
  \/ /\ blocked_proc_send[c] # <<>> /\ UnblockProc(p, Head(blocked_proc_send[c]))
     /\ blocked_proc_send' = [blocked_proc_send EXCEPT ![c] = Tail(@)]
     /\ UNCHANGED blocked_proc_receive
  \/ /\ blocked_proc_receive[c] # <<>> /\ UnblockProc(p, Head(blocked_proc_receive[c]))
     /\ blocked_proc_receive' = [blocked_proc_receive EXCEPT ![c] = Tail(@)]
     /\ UNCHANGED blocked_proc_send

JoinsTail(p, c, where) ==
  /\ \E r : \E st \in Blocked : BlockIn(p, where, c, r, st)
  /\ \/ /\ where \in SenderPlaces
        /\ blocked_proc_send' = [blocked_proc_send EXCEPT ![c] = Append(@, p)]
        /\ UNCHANGED blocked_proc_receive
     \/ /\ where \in ReceiverPlaces
        /\ blocked_proc_receive' = [blocked_proc_receive EXCEPT ![c] = Append(@, p)]
        /\ UNCHANGED blocked_proc_send

QueueStep ==
  \/ Quiet /\ (UNCHANGED <<blocked_proc_send, blocked_proc_receive>> \/ Forgets)
  \/ \E p \in Proc, c \in Box : Current = p /\ Stays(pc', arg') /\ WakesHead(p, c)
  \/ \E p \in Proc, c \in Box, where \in Waiting : Current = p /\ JoinsTail(p, c, where)

\* A call that returns to its caller leaves everyone where he is.
LEMMA ReturnQuiet ==
  ASSUME TypeOK, QInv, NEW p \in Proc, NEW on, ReturnWith(p, on), Stays(pc', arg')
  PROVE  Quiet
BY ReturnKeeps DEF QInv, Quiet, ReturnWith

LEMMA ReturnStep ==
  ASSUME TypeOK, QInv, NEW p \in Proc, NEW on, ReturnWith(p, on), Stays(pc', arg'),
         UNCHANGED <<blocked_proc_send, blocked_proc_receive>>
  PROVE  QueueStep
BY ReturnQuiet DEF QueueStep

LEMMA WakeStep ==
  ASSUME NEW p \in Proc, Current = p, Stays(pc', arg'), NEW c \in Box, WakesHead(p, c)
  PROVE  QueueStep
BY DEF QueueStep

LEMMA JoinStep ==
  ASSUME NEW p \in Proc, Current = p, NEW c \in Box, NEW where \in Waiting, JoinsTail(p, c, where)
  PROVE  QueueStep
BY DEF QueueStep

LEMMA CreateQueues ==
  ASSUME IInv, QInv, NEW p \in Proc, NEW a, MboxCreate(p, a)
  PROVE  QueueStep
<1> USE DEF IInv
<1>1. Stays(pc', arg')
  BY DEF MboxCreate, callVars, Stays
<1>2. CASE CreateFails(p, a)
  BY <1>1, <1>2, ReturnQuiet DEF CreateFails, queueVars, QueueStep
<1>3. CASE CreateBox(p, a)
  <2>1. PICK n \in Box : n = NextBox /\ ~Active(n)
    BY <1>3, NextBoxIsFree DEF CreateBox
  <2>2. Active(n)'
    BY <1>3, <2>1 DEF CreateBox, Active, TypeOK, BoxesTypeOK
  <2>3. Forgets
    BY <1>3, <2>1, <2>2 DEF CreateBox, Forgets
  <2>4. Quiet
    BY <1>1, <1>3, ReturnQuiet DEF CreateBox
  <2> QED BY <2>3, <2>4 DEF QueueStep
<1> QED BY <1>2, <1>3 DEF MboxCreate

LEMMA ReleaseQueues ==
  ASSUME IInv, QInv, NEW p \in Proc, NEW b, MboxRelease(p, b)
  PROVE  QueueStep
<1> USE DEF IInv
<1>1. CASE ReleaseRefused(p, b)
  <2>1. Stays(pc', arg')
    BY <1>1 DEF ReleaseRefused, callVars, Stays
  <2> QED BY <1>1, <2>1, ReturnStep DEF ReleaseRefused, queueVars
<1>2. CASE ReleaseBox(p, b)
  <2>1. status[p] \notin Blocked
    BY <1>2, RunnerNotBlocked DEF ReleaseBox, Running, QInv
  <2>2. Stays(pc', arg')
    BY <1>2, <2>1 DEF ReleaseBox, Stays, IInv, TypeOK, CallsTypeOK
  <2> QED BY <1>2, <2>2, ReturnStep DEF ReleaseBox
<1> QED BY <1>1, <1>2 DEF MboxRelease

LEMMA SendQueues ==
  ASSUME IInv, QInv, NEW p \in Proc, NEW b, NEW n, MboxSend(p, b, n) \/ MboxCondSend(p, b, n)
  PROVE  QueueStep
<1> USE DEF IInv
<1>0. Current = p
  BY DEF MboxSend, MboxCondSend, Running
<1>1. CASE SendInvalid(p, b, n) \/ CondSendFails(p, b, n)
  <2>1. Stays(pc', arg')
    BY <1>1 DEF SendInvalid, CondSendFails, callVars, Stays
  <2>2. \E on : ReturnWith(p, on)
    BY <1>1 DEF SendInvalid, CondSendFails
  <2> QED BY <1>1, <2>1, <2>2, ReturnStep DEF SendInvalid, CondSendFails, queueVars
<1>2. CASE HandOff(p, b, n)
  <2>1. Stays(pc', arg')
    BY <1>2 DEF HandOff, Stays
  <2> QED BY <1>0, <1>2, <2>1, WakeStep DEF WakesHead, HandOff, ValidSend, CanHandOff
<1>3. CASE SendBlocks(p, b, n)
  <2>1. "send" \in SenderPlaces \cap Waiting /\ "FULLMBOX" \in Blocked
    BY DEF SenderPlaces, Waiting, Blocked
  <2> QED BY <1>0, <1>3, <2>1, JoinStep DEF JoinsTail, SendBlocks, ValidSend
<1>4. CASE SendToSlot(p, b, n)
  <2>1. Stays(pc', arg')
    BY <1>4 DEF SendToSlot, callVars, Stays
  <2> QED BY <1>4, <2>1, ReturnStep DEF SendToSlot
<1>5. CASE SendOverflow(p, b, n)
  <2>1. Quiet
    BY <1>5 DEF SendOverflow, callVars, kernelVars, KeepsWaiting, QInv, RunningReady, Quiet
  <2> QED BY <1>5, <2>1 DEF SendOverflow, queueVars, QueueStep
<1> QED BY <1>1, <1>2, <1>3, <1>4, <1>5 DEF MboxSend, MboxCondSend

LEMMA ReceiveQueues ==
  ASSUME IInv, QInv, NEW p \in Proc, NEW b, NEW ptr, NEW n,
         MboxReceive(p, b, ptr, n) \/ MboxCondReceive(p, b, ptr, n)
  PROVE  QueueStep
<1> USE DEF IInv
<1>0. Current = p
  BY DEF MboxReceive, MboxCondReceive, Running
<1>1. CASE ReceiveInvalid(p, b) \/ NothingQueued(p, b) \/ DropTooLong(p, b, n) \/ NoSender(p, b, ptr, n)
  <2>1. /\ Stays(pc', arg') /\ ReturnWith(p, TRUE)
        /\ UNCHANGED <<blocked_proc_send, blocked_proc_receive>>
    BY <1>1 DEF ReceiveInvalid, NothingQueued, DropTooLong, NoSender, callVars, queueVars, Stays
  <2> QED BY <2>1, ReturnStep
<1>2. CASE TakeFromSender(p, b, ptr, n)
  <2>1. Stays(pc', arg')
    BY <1>2 DEF TakeFromSender, callVars, Stays
  <2> QED BY <1>0, <1>2, <2>1, WakeStep DEF WakesHead, TakeFromSender, ValidReceive
<1>3. CASE WaitOnZeroSlots(p, b, ptr, n)
  <2>1. "recvZero" \in SenderPlaces \cap Waiting /\ "NOMESSAGES" \in Blocked
    BY DEF SenderPlaces, Waiting, Blocked
  <2> QED BY <1>0, <1>3, <2>1, JoinStep DEF JoinsTail, WaitOnZeroSlots, ValidReceive
<1>4. CASE WaitForSignal(p, b, ptr, n)
  <2>1. "recv" \in ReceiverPlaces \cap Waiting /\ "NOMESSAGES" \in Blocked
    BY DEF ReceiverPlaces, Waiting, Blocked
  <2> QED BY <1>0, <1>4, <2>1, JoinStep DEF JoinsTail, WaitForSignal, ValidReceive
<1>5. CASE TakeFromSlot(p, b, ptr, n)
  <2>1. Stays(pc', arg') /\ UNCHANGED blocked_proc_receive /\ b \in Box
    BY <1>5 DEF TakeFromSlot, callVars, Stays, Slotted, ValidReceive
  <2>2. CASE blocked_proc_send[b] # <<>>
    <3>1. /\ UnblockProc(p, Head(blocked_proc_send[b]))
          /\ blocked_proc_send' = [blocked_proc_send EXCEPT ![b] = Tail(@)]
      BY <1>5, <2>2 DEF TakeFromSlot, Refill
    <3> QED BY <1>0, <2>1, <2>2, <3>1, WakeStep DEF WakesHead
  <2>3. CASE blocked_proc_send[b] = <<>>
    <3>1. ReturnWith(p, TRUE) /\ UNCHANGED blocked_proc_send
      BY <1>5, <2>3 DEF TakeFromSlot, Refill
    <3> QED BY <2>1, <3>1, ReturnStep
  <2> QED BY <2>2, <2>3
<1> QED BY <1>1, <1>2, <1>3, <1>4, <1>5 DEF MboxReceive, MboxCondReceive

LEMMA ResumeQueues ==
  ASSUME IInv, QInv, NEW p \in Proc, Resume(p)
  PROVE  QueueStep
<1> USE DEF IInv
<1>0. Current = p /\ status[p] \notin Blocked
  BY RunnerNotBlocked DEF Resume, SendResumes, ReceiveResumes, ReleaseStep, QInv
<1>1. CASE SendResumes(p) \/ ReceiveResumes(p)
  <2>1. Stays(pc', arg')
    BY <1>0, <1>1 DEF SendResumes, ReceiveResumes, Stays, IInv, TypeOK, CallsTypeOK
  <2>2. \E on : ReturnWith(p, on)
    BY <1>1 DEF SendResumes, ReceiveResumes
  <2>3. UNCHANGED <<blocked_proc_send, blocked_proc_receive>>
    BY <1>1 DEF SendResumes, ReceiveResumes, queueVars
  <2> QED BY <2>1, <2>2, <2>3, ReturnStep
<1>2. CASE ReleaseStep(p)
  <2>1. arg[p] \in Box
    BY <1>2 DEF ReleaseStep, IInv, TypeOK, CallsTypeOK
  <2>2. Stays(pc', arg')
    BY <1>0, <1>2 DEF ReleaseStep, ReleaseSender, ReleaseReceiver, ReleaseDone, Stays, IInv, TypeOK, CallsTypeOK
  <2>3. CASE ReleaseSender(p)
    BY <1>0, <2>1, <2>2, <2>3, WakeStep DEF WakesHead, ReleaseSender
  <2>4. CASE ReleaseReceiver(p)
    BY <1>0, <2>1, <2>2, <2>4, WakeStep DEF WakesHead, ReleaseReceiver
  <2>5. CASE ReleaseDone(p)
    BY <2>2, <2>5, ReturnStep DEF ReleaseDone
  <2> QED BY <1>2, <2>3, <2>4, <2>5 DEF ReleaseStep
<1> QED BY <1>1, <1>2 DEF Resume

LEMMA QuitQueues ==
  ASSUME IInv, QInv, NEW p \in Proc, Quit(p)
  PROVE  QueueStep
<1> USE DEF IInv
<1>1. status' = [status EXCEPT ![p] = "QUIT"] /\ Current' \in Dispatch(status')
  BY DEF Quit, QuitProc
<1>2. RunningReady'
  BY <1>1, DispatchReady DEF RunningReady
<1>3. status[p] \notin Blocked
  BY RunnerNotBlocked DEF Quit, Running, QInv
<1>4. KeepsWaiting(Sentinel)
  BY <1>1, <1>3 DEF Quit, callVars, KeepsWaiting, IInv, TypeOK, KernelTypeOK
<1>5. \A r \in Proc : status'[r] \in Blocked => status[r] \in Blocked
  BY <1>1 DEF Blocked, IInv, TypeOK, KernelTypeOK
<1> QED BY <1>2, <1>4, <1>5 DEF Quit, queueVars, Quiet, QueueStep

LEMMA InterruptQueues ==
  ASSUME IInv, QInv, Interrupt
  PROVE  QueueStep
<1> USE DEF IInv
<1>1. UNCHANGED status
  BY DEF Interrupt, TimeSlice, Zap
<1>2. RunningReady'
  BY <1>1 DEF Interrupt, TimeSlice, Zap, QInv, RunningReady
<1>3. KeepsWaiting(Sentinel)
  BY <1>1 DEF Interrupt, callVars, KeepsWaiting
<1> QED BY <1>1, <1>2, <1>3 DEF Interrupt, queueVars, Quiet, QueueStep

\* Every step is one of the four.
LEMMA NextQueues ==
  ASSUME IInv, QInv, [Next]_vars
  PROVE  QueueStep
<1>1. CASE Interrupt
  BY <1>1, InterruptQueues
<1>2. ASSUME NEW p \in Proc, Call(p) PROVE QueueStep
  BY <1>2, CreateQueues, ReleaseQueues, SendQueues, ReceiveQueues DEF Call
<1>3. ASSUME NEW p \in Proc, Resume(p) PROVE QueueStep
  BY <1>3, ResumeQueues
<1>4. ASSUME NEW p \in Proc, Quit(p) PROVE QueueStep
  BY <1>4, QuitQueues
<1>5. CASE UNCHANGED vars
  <2>1. Quiet
    BY <1>5 DEF vars, callVars, kernelVars, KeepsWaiting, QInv, RunningReady, Quiet
  <2> QED BY <1>5, <2>1 DEF vars, queueVars, QueueStep
<1> QED BY <1>1, <1>2, <1>3, <1>4, <1>5 DEF Next

-----------------------------------------------------------------------------
(***************************************************************************)
(* Every step keeps the queues of waiting processes.                       *)
(***************************************************************************)
LEMMA NextQInv ==
  ASSUME IInv, QInv, [Next]_vars
  PROVE  QInv'
<1> USE DEF QInv
<1>0. TypeOK /\ QueuesTypeOK
  BY DEF IInv, TypeOK
<1>1. CASE Quiet /\ (UNCHANGED <<blocked_proc_send, blocked_proc_receive>> \/ Forgets)
  <2>1. /\ \A b \in Box : blocked_proc_send'[b] \in {blocked_proc_send[b], <<>>}
        /\ \A b \in Box : blocked_proc_receive'[b] \in {blocked_proc_receive[b], <<>>}
    BY <1>0, <1>1 DEF Forgets, QueuesTypeOK
  <2> QED BY <1>1, <2>1, NobodyMoves DEF Quiet
<1>2. ASSUME NEW p \in Proc, NEW c \in Box, Current = p, Stays(pc', arg'), WakesHead(p, c)
      PROVE  QInv'
  <2>1. /\ blocked_proc_send[c] # <<>> => Head(blocked_proc_send[c]) \in Proc
        /\ blocked_proc_receive[c] # <<>> => Head(blocked_proc_receive[c]) \in Proc
    BY <1>0 DEF QueuesTypeOK
  <2>2. RunningReady'
    BY <1>0, <1>2, <2>1, UnblockKeeps DEF WakesHead
  <2>3. QueuesHold'
    BY <1>0, <1>2, <2>1, UnblockKeeps, SenderWoken, ReceiverWoken DEF WakesHead
  <2> QED BY <2>2, <2>3
<1>3. ASSUME NEW p \in Proc, NEW c \in Box, NEW where \in Waiting, Current = p, JoinsTail(p, c, where)
      PROVE  QInv'
  <2>1. KeepsWaiting(p) /\ RunningReady' /\ status'[p] \in Blocked /\ pc'[p] = where /\ arg'[p] = c
    BY <1>0, <1>3, BlockKeeps DEF JoinsTail
  <2>2. /\ where \in SenderPlaces => p \in WaitingAt(c, SenderPlaces)'
        /\ where \in ReceiverPlaces => p \in WaitingAt(c, ReceiverPlaces)'
    BY <2>1 DEF WaitingAt
  <2>3. \/ /\ p \in WaitingAt(c, SenderPlaces)'
           /\ blocked_proc_send' = [blocked_proc_send EXCEPT ![c] = Append(@, p)]
           /\ UNCHANGED blocked_proc_receive
        \/ /\ p \in WaitingAt(c, ReceiverPlaces)'
           /\ blocked_proc_receive' = [blocked_proc_receive EXCEPT ![c] = Append(@, p)]
           /\ UNCHANGED blocked_proc_send
    BY <1>3, <2>2 DEF JoinsTail
  <2>4. QueuesHold'
    <3> HIDE DEF QInv
    <3> QED BY <1>0, <1>3, <2>1, <2>3, SomeoneQueues
  <2> QED BY <2>1, <2>4
<1> QED BY <1>1, <1>2, <1>3, NextQueues DEF QueueStep

LEMMA InitQInv == Init => QInv
<1> SUFFICES ASSUME Init PROVE QInv
  OBVIOUS
<1>1. RunningReady
  BY DispatchReady DEF Init, KernelInit, RunningReady
<1>2. \A b \in Box : blocked_proc_send[b] = <<>> /\ blocked_proc_receive[b] = <<>>
  BY DEF Init
<1> QED BY <1>1, <1>2, QueueEmpty DEF QInv, QueuesHold

LEMMA QueueInvariance == Spec => [](IInv /\ QInv)
<1>1. Init => IInv /\ QInv
  BY InitIInv, InitQInv
<1>2. IInv /\ QInv /\ [Next]_vars => (IInv /\ QInv)'
  BY NextIInv, NextQInv
<1> QED BY <1>1, <1>2, PTL DEF Spec

\* What the two queues of a box are when they are written one after the other.
LEMMA TwoQueues ==
  ASSUME TypeOK, NEW b \in Box
  PROVE  LET s == blocked_proc_send[b]
             r == blocked_proc_receive[b]
         IN  /\ s \in Seq(Proc) /\ r \in Seq(Proc) /\ Len(s) \in Nat /\ Len(r) \in Nat
             /\ DOMAIN s = 1 .. Len(s) /\ DOMAIN r = 1 .. Len(r)
             /\ DOMAIN WaitQueue(b) = 1 .. Len(s) + Len(r)
             /\ \A i \in 1 .. Len(s) : WaitQueue(b)[i] = s[i]
             /\ \A i \in 1 .. Len(r) : WaitQueue(b)[i + Len(s)] = r[i]
<1> DEFINE s == blocked_proc_send[b]
           r == blocked_proc_receive[b]
<1>1. s \in Seq(Proc) /\ r \in Seq(Proc)
  BY DEF TypeOK, QueuesTypeOK
<1> HIDE DEF s, r
<1>2. /\ Len(s) \in Nat /\ Len(r) \in Nat /\ DOMAIN s = 1 .. Len(s) /\ DOMAIN r = 1 .. Len(r)
      /\ DOMAIN (s \o r) = 1 .. Len(s) + Len(r)
      /\ \A i \in 1 .. Len(s) : (s \o r)[i] = s[i]
      /\ \A i \in 1 .. Len(r) : (s \o r)[i + Len(s)] = r[i]
  BY <1>1
<1>3. WaitQueue(b) = s \o r
  BY DEF WaitQueue, s, r
<1> QED BY <1>1, <1>2, <1>3 DEF s, r

LEMMA QueuedBlockedStep ==
  ASSUME TypeOK, QInv
  PROVE  QueuedAreBlocked
<1> SUFFICES ASSUME NEW b \in Box, NEW i \in DOMAIN WaitQueue(b)
             PROVE  LET p == WaitQueue(b)[i]
                    IN  /\ status[p] \in Blocked /\ pc[p] \in Waiting /\ arg[p] = b
                        /\ \A j \in DOMAIN WaitQueue(b) : WaitQueue(b)[j] = p => i = j
  BY DEF QueuedAreBlocked
<1> DEFINE s == blocked_proc_send[b]
           r == blocked_proc_receive[b]
<1>1. /\ Len(s) \in Nat /\ Len(r) \in Nat /\ DOMAIN s = 1 .. Len(s) /\ DOMAIN r = 1 .. Len(r)
      /\ DOMAIN WaitQueue(b) = 1 .. Len(s) + Len(r)
      /\ \A k \in 1 .. Len(s) : WaitQueue(b)[k] = s[k]
      /\ \A k \in 1 .. Len(r) : WaitQueue(b)[k + Len(s)] = r[k]
  BY TwoQueues
<1>2. QueueOf(s, WaitingAt(b, SenderPlaces)) /\ QueueOf(r, WaitingAt(b, ReceiverPlaces))
  BY DEF QInv, QueuesHold
<1> HIDE DEF s, r
<1>3. ASSUME NEW k \in DOMAIN WaitQueue(b)
      PROVE  \/ k \in DOMAIN s /\ WaitQueue(b)[k] = s[k]
             \/ k - Len(s) \in DOMAIN r /\ WaitQueue(b)[k] = r[k - Len(s)]
  <2>1. CASE k <= Len(s)
    BY <1>1, <2>1
  <2>2. CASE k > Len(s)
    <3>1. k - Len(s) \in 1 .. Len(r) /\ k = (k - Len(s)) + Len(s)
      BY <1>1, <2>2
    <3> QED BY <1>1, <3>1
  <2> QED BY <1>1, <2>1, <2>2
<1> DEFINE p == WaitQueue(b)[i]
<1>4. p \in WaitingAt(b, SenderPlaces) \union WaitingAt(b, ReceiverPlaces)
  BY <1>2, <1>3 DEF QueueOf
<1>5. WaitingAt(b, SenderPlaces) \cap WaitingAt(b, ReceiverPlaces) = {}
  BY DEF WaitingAt, SenderPlaces, ReceiverPlaces
<1>6. ASSUME NEW j \in DOMAIN WaitQueue(b), WaitQueue(b)[j] = p PROVE i = j
  <2>1. CASE /\ i \in DOMAIN s /\ WaitQueue(b)[i] = s[i]
             /\ j \in DOMAIN s /\ WaitQueue(b)[j] = s[j]
    BY <1>2, <1>6, <2>1 DEF QueueOf
  <2>2. CASE /\ i - Len(s) \in DOMAIN r /\ WaitQueue(b)[i] = r[i - Len(s)]
             /\ j - Len(s) \in DOMAIN r /\ WaitQueue(b)[j] = r[j - Len(s)]
    <3>1. i - Len(s) = j - Len(s)
      BY <1>2, <1>6, <2>2 DEF QueueOf
    <3> QED BY <1>1, <3>1
  <2>3. ASSUME NEW k \in DOMAIN s, NEW l \in DOMAIN r PROVE s[k] # r[l]
    BY <1>2, <1>5 DEF QueueOf
  <2> QED BY <1>3, <1>6, <2>1, <2>2, <2>3
<1>7. status[p] \in Blocked /\ pc[p] \in Waiting /\ arg[p] = b
  BY <1>4 DEF WaitingAt, SenderPlaces, ReceiverPlaces, Waiting
<1> QED BY <1>6, <1>7

\* Every entry of a queue belongs to one process that is still blocked in a
\* call on that box: no step writes into the frame of a call that has returned.
THEOREM EntriesBlocked == Spec => []QueuedAreBlocked
<1>1. IInv /\ QInv => QueuedAreBlocked
  BY QueuedBlockedStep DEF IInv
<1> QED BY <1>1, QueueInvariance, PTL

-----------------------------------------------------------------------------
(***************************************************************************)
(* No box holds more or longer messages than it was created for.  T is a   *)
(* slot table, q the slot queue of a box of these numbers.                 *)
(***************************************************************************)
Within(T, q, slots, size) ==
  Len(q) <= slots /\ \A i \in DOMAIN q : T[q[i]].message_size <= size

\* The slots of the queue are as they were.
LEMMA WithinSame ==
  ASSUME NEW T, NEW U, NEW q, NEW slots, NEW size, Within(T, q, slots, size),
         \A i \in DOMAIN q : U[q[i]] = T[q[i]]
  PROVE  Within(U, q, slots, size)
BY DEF Within

LEMMA WithinTail ==
  ASSUME NEW T, NEW q \in Seq(Slot), q # <<>>, NEW slots \in Int, NEW size, Within(T, q, slots, size)
  PROVE  Within(T, Tail(q), slots - 1, size)
BY SeqTail DEF Within

\* A message that the box takes is stored in a slot s that is not queued in it.
LEMMA WithinStore ==
  ASSUME NEW T \in Tables, NEW q \in Seq(Slot), NEW slots \in Int, NEW size,
         Within(T, q, slots, size), NEW s \in Slot, \A i \in DOMAIN q : q[i] # s,
         NEW e, e.message_size <= size
  PROVE  Within([T EXCEPT ![s] = e], Append(q, s), slots + 1, size)
<1> DEFINE U == [T EXCEPT ![s] = e]
<1>1. U[s] = e /\ \A t \in Slot : t # s => U[t] = T[t]
  BY DEF Tables
<1> HIDE DEF U
<1>2. \A i \in DOMAIN Append(q, s) : U[Append(q, s)[i]].message_size <= size
  <2>1. ASSUME NEW i \in DOMAIN q PROVE U[Append(q, s)[i]].message_size <= size
    <3>1. q[i] \in Slot /\ q[i] # s /\ Append(q, s)[i] = q[i]
      BY SeqAppend
    <3> QED BY <1>1, <3>1 DEF Within
  <2>2. U[Append(q, s)[Len(q) + 1]].message_size <= size
    BY <1>1, SeqAppend
  <2> QED BY <2>1, <2>2, SeqAppend
<1>3. Len(Append(q, s)) <= slots + 1
  BY DEF Within
<1> QED BY <1>2, <1>3 DEF Within, U

\* The capacity of every box, as a formula about one table and its queues.
WithinAll(T, Q, boxes) ==
  \A b \in Box : boxes[b].status = "ACTIVE" =>
    Within(T, Q[b], boxes[b].total_slots, boxes[b].slot_size)

LEMMA CapacityAll == WithinCapacity <=> WithinAll(MailSlotTable, queue_slots, MailBoxTable)
BY DEF WithinCapacity, WithinAll, Within, Active

LEMMA CreateCapacity ==
  ASSUME IInv, WithinCapacity, NEW p \in Proc, NEW a \in CreateArgs, MboxCreate(p, a)
  PROVE  WithinCapacity'
<1>1. CASE CreateFails(p, a)
  BY <1>1 DEF MboxCreate, CreateFails, mboxVars, queueVars, slotVars, WithinCapacity, Active
<1>2. CASE CreateBox(p, a)
  <2> DEFINE n == NextBox
  <2>1. n \in Box
    BY <1>2, NextBoxIsFree DEF CreateBox
  <2>2. /\ MailBoxTable'[n] = [status |-> "ACTIVE", total_slots |-> a.slots, slot_size |-> a.size]
        /\ queue_slots'[n] = <<>> /\ a.slots >= 0 /\ a.slots \in Int
        /\ \A b \in Box \ {n} : MailBoxTable'[b] = MailBoxTable[b] /\ queue_slots'[b] = queue_slots[b]
        /\ MailSlotTable' = MailSlotTable
    BY <1>2, <2>1, MailboxAssumption
       DEF MboxCreate, CreateBox, slotVars, IInv, TypeOK, BoxesTypeOK, QueuesTypeOK
  <2> HIDE DEF n
  <2>3. Within(MailSlotTable', queue_slots'[n], MailBoxTable'[n].total_slots, MailBoxTable'[n].slot_size)
    BY <2>2 DEF Within
  <2>4. WithinAll(MailSlotTable', queue_slots', MailBoxTable')
    BY <2>2, <2>3, CapacityAll DEF WithinAll
  <2> QED BY <2>4 DEF WithinAll, Within, WithinCapacity, Active
<1> QED BY <1>1, <1>2 DEF MboxCreate

LEMMA ReleaseCapacity ==
  ASSUME IInv, WithinCapacity, NEW p \in Proc, NEW b, ReleaseBox(p, b)
  PROVE  WithinCapacity'
<1> DEFINE freed == {queue_slots[b][i] : i \in DOMAIN queue_slots[b]}
<1>1. b \in Box /\ MailBoxTable' = [MailBoxTable EXCEPT ![b] = FreeBox]
  BY DEF ReleaseBox
<1>2. MailBoxTable'[b].status = "INACTIVE"
  BY <1>1 DEF IInv, TypeOK, BoxesTypeOK, FreeBox
<1>3. ASSUME NEW c \in Box, c # b, MailBoxTable'[c].status = "ACTIVE"
      PROVE  Within(MailSlotTable', queue_slots'[c], MailBoxTable'[c].total_slots, MailBoxTable'[c].slot_size)
  <2>1. MailBoxTable'[c] = MailBoxTable[c] /\ queue_slots'[c] = queue_slots[c]
    BY <1>1, <1>3 DEF ReleaseBox, EmptySlots, IInv, TypeOK, BoxesTypeOK, QueuesTypeOK
  <2>2. \A i \in DOMAIN queue_slots[c] : queue_slots[c][i] \in Slot /\ queue_slots[c][i] \notin freed
    BY <1>1, <1>3, IInvTables DEF Owned, IInv, TypeOK, QueuesTypeOK
  <2>3. MailSlotTable' = [s \in Slot |-> IF s \in freed THEN FreeSlot ELSE MailSlotTable[s]]
    BY DEF ReleaseBox, EmptySlots
  <2>4. \A i \in DOMAIN queue_slots[c] : MailSlotTable'[queue_slots[c][i]] = MailSlotTable[queue_slots[c][i]]
    <3> HIDE DEF freed
    <3> QED BY <2>2, <2>3
  <2>5. Within(MailSlotTable, queue_slots[c], MailBoxTable[c].total_slots, MailBoxTable[c].slot_size)
    BY <1>3, <2>1, CapacityAll DEF WithinAll
  <2> QED BY <2>1, <2>4, <2>5, WithinSame
<1>4. WithinAll(MailSlotTable', queue_slots', MailBoxTable')
  BY <1>2, <1>3 DEF WithinAll
<1> QED BY <1>4 DEF WithinAll, Within, WithinCapacity, Active

\* One message more or less in box b, and the slots of the other boxes as they were.
LEMMA OneBoxCapacity ==
  ASSUME IInv, WithinCapacity, UNCHANGED MailBoxTable, NEW b \in Box,
         Active(b) => Within(MailSlotTable', queue_slots'[b], MailBoxTable[b].total_slots,
                             MailBoxTable[b].slot_size),
         \A c \in Box \ {b} :
           /\ queue_slots'[c] = queue_slots[c]
           /\ \A i \in DOMAIN queue_slots[c] :
                MailSlotTable'[queue_slots[c][i]] = MailSlotTable[queue_slots[c][i]]
  PROVE  WithinCapacity'
<1>1. ASSUME NEW c \in Box, c # b, Active(c)
      PROVE  Within(MailSlotTable', queue_slots'[c], MailBoxTable[c].total_slots, MailBoxTable[c].slot_size)
  <2>1. Within(MailSlotTable, queue_slots[c], MailBoxTable[c].total_slots, MailBoxTable[c].slot_size)
    BY <1>1, CapacityAll DEF WithinAll, Active
  <2> QED BY <1>1, <2>1, WithinSame
<1>2. WithinAll(MailSlotTable', queue_slots', MailBoxTable')
  BY <1>1 DEF WithinAll, Active
<1> QED BY <1>2 DEF WithinAll, Within, WithinCapacity, Active

LEMMA SendToSlotCapacity ==
  ASSUME IInv, WithinCapacity, NEW p \in Proc, NEW b, NEW n \in Int, SendToSlot(p, b, n),
         UNCHANGED mboxVars
  PROVE  WithinCapacity'
<1> DEFINE s == NextSlot(MailSlotTable)
           e == [status |-> "IN_USE", message_size |-> n, message |-> sent + 1]
           q == queue_slots[b]
           total == MailBoxTable[b].total_slots
           size == MailBoxTable[b].slot_size
<1>1. b \in Box /\ Active(b) /\ n <= size /\ Len(q) # total
  BY DEF SendToSlot, ValidSend, Full
<1>2. s \in Slot /\ MailSlotTable[s].status = "EMPTY"
  BY SlotLeft, NextSlotIsFree DEF SendToSlot
<1>3. /\ MailSlotTable' = [MailSlotTable EXCEPT ![s] = e]
      /\ queue_slots' = [queue_slots EXCEPT ![b] = Append(q, s)]
  BY DEF SendToSlot, createSlot
<1>4. \A c \in Box : \A i \in DOMAIN queue_slots[c] : queue_slots[c][i] \in Slot /\ queue_slots[c][i] # s
  BY <1>2, IInvTables DEF Owned, Queues
<1>5. q \in Seq(Slot) /\ total \in Int /\ MailSlotTable \in Tables
  BY <1>1, IInvTables DEF Queues, IInv, TypeOK, BoxesTypeOK
<1>6. Within(MailSlotTable, q, total, size)
  BY <1>1, CapacityAll DEF WithinAll, Active
<1>7. Within(MailSlotTable, q, total - 1, size)
  BY <1>1, <1>5, <1>6 DEF Within
<1>8. e.message_size <= size
  BY <1>1
<1>9. queue_slots'[b] = Append(q, s)
  BY <1>1, <1>3 DEF IInv, TypeOK, QueuesTypeOK
<1>10. \A c \in Box \ {b} : queue_slots'[c] = queue_slots[c]
  BY <1>3 DEF IInv, TypeOK, QueuesTypeOK
<1>11. \A t \in Slot \ {s} : MailSlotTable'[t] = MailSlotTable[t]
  BY <1>2, <1>3 DEF IInv, TypeOK, SlotsTypeOK
<1>12. UNCHANGED MailBoxTable
  BY DEF mboxVars
<1> HIDE DEF s, e, q, total, size
<1>13. Within([MailSlotTable EXCEPT ![s] = e], Append(q, s), total - 1 + 1, size)
  <2>1. \A i \in DOMAIN q : q[i] # s
    BY <1>1, <1>4 DEF q
  <2>2. total - 1 \in Int
    BY <1>5
  <2> QED BY <1>2, <1>5, <1>7, <1>8, <2>1, <2>2, WithinStore
<1>14. total - 1 + 1 = total
  BY <1>5
<1>15. Within(MailSlotTable', queue_slots'[b], total, size)
  BY <1>3, <1>9, <1>13, <1>14
<1> QED BY <1>1, <1>4, <1>10, <1>11, <1>12, <1>15, OneBoxCapacity DEF total, size

LEMMA DropTooLongCapacity ==
  ASSUME IInv, WithinCapacity, NEW p \in Proc, NEW b, NEW n, DropTooLong(p, b, n),
         UNCHANGED mboxVars
  PROVE  WithinCapacity'
<1>1. /\ b \in Box /\ Active(b) /\ queue_slots[b] # <<>>
      /\ UNCHANGED <<MailBoxTable, MailSlotTable>>
  BY DEF DropTooLong, Slotted, ValidReceive, slotVars, mboxVars
<1>2. /\ queue_slots[b] \in Seq(Slot) /\ queue_slots'[b] = Tail(queue_slots[b])
      /\ \A c \in Box \ {b} : queue_slots'[c] = queue_slots[c]
      /\ MailBoxTable[b].total_slots \in Int
  BY <1>1 DEF DropTooLong, IInv, TypeOK, QueuesTypeOK, BoxesTypeOK
<1>3. Within(MailSlotTable, queue_slots[b], MailBoxTable[b].total_slots, MailBoxTable[b].slot_size)
  BY <1>1, CapacityAll DEF WithinAll, Active
<1>4. Within(MailSlotTable, Tail(queue_slots[b]), MailBoxTable[b].total_slots, MailBoxTable[b].slot_size)
  BY <1>1, <1>2, <1>3, SeqTail DEF Within
<1> QED BY <1>1, <1>2, <1>4, OneBoxCapacity

\* The message that Refill stores is that of a sender, and it fits the box.
LEMMA TakeFromSlotCapacity ==
  ASSUME IInv, QInv, CInv, NEW p \in Proc, NEW b, NEW ptr \in BOOLEAN, NEW n \in Nat,
         TakeFromSlot(p, b, ptr, n), UNCHANGED mboxVars
  PROVE  WithinCapacity'
<1> DEFINE s == Head(queue_slots[b])
           freed == [MailSlotTable EXCEPT ![s] = FreeSlot]
           rest == [queue_slots EXCEPT ![b] = Tail(@)]
           q == Head(blocked_proc_send[b])
           total == MailBoxTable[b].total_slots
           size == MailBoxTable[b].slot_size
<1>1. /\ b \in Box /\ Active(b) /\ total # 0 /\ queue_slots[b] # <<>>
      /\ MailSlotTable[s].status = "IN_USE" /\ UNCHANGED MailBoxTable
  BY DEF TakeFromSlot, Slotted, ValidReceive, mboxVars
<1>2. s \in Slot /\ queue_slots[b] \in Seq(Slot) /\ total \in Int
  BY <1>1 DEF IInv, TypeOK, QueuesTypeOK, BoxesTypeOK
<1>3. /\ rest \in Queues /\ Owned(MailSlotTable, num_slots, rest)
      /\ \A c \in Box : \A i \in DOMAIN rest[c] : rest[c][i] # s
  BY <1>1, IInvTables, OwnedPop
<1>4. freed \in Tables /\ freed[s].status = "EMPTY" /\ \A t \in Slot \ {s} : freed[t] = MailSlotTable[t]
  BY <1>2, IInvTables DEF Tables, FreeSlot, SlotRecord
<1>5. rest[b] = Tail(queue_slots[b]) /\ \A c \in Box \ {b} : rest[c] = queue_slots[c]
  BY <1>1 DEF IInv, TypeOK, QueuesTypeOK
<1>6. Within(MailSlotTable, queue_slots[b], total, size)
  BY <1>1, CapacityAll DEF CInv, WithinAll, Active
<1>7. Within(MailSlotTable, rest[b], total - 1, size)
  BY <1>1, <1>2, <1>5, <1>6, WithinTail
<1>8. \A c \in Box : \A i \in DOMAIN rest[c] : rest[c][i] \in Slot \ {s}
  BY <1>3 DEF Queues
<1>9. Within(freed, rest[b], total - 1, size)
  <2> HIDE DEF freed, rest, s, total, size
  <2>1. \A i \in DOMAIN rest[b] : freed[rest[b][i]] = MailSlotTable[rest[b][i]]
    BY <1>1, <1>4, <1>8
  <2> QED BY <1>7, <2>1, WithinSame
<1>10. CASE blocked_proc_send[b] = <<>>
  <2>1. MailSlotTable' = freed /\ queue_slots' = rest
    BY <1>10 DEF TakeFromSlot, Refill
  <2>2. Within(freed, rest[b], total, size)
    BY <1>2, <1>3, <1>9 DEF Within, Queues
  <2> HIDE DEF freed, rest, s, total, size
  <2>3. \A c \in Box \ {b} : \A i \in DOMAIN queue_slots[c] :
          MailSlotTable'[queue_slots[c][i]] = MailSlotTable[queue_slots[c][i]]
    BY <1>4, <1>5, <1>8, <2>1
  <2> QED BY <1>1, <1>5, <2>1, <2>2, <2>3, OneBoxCapacity DEF total, size, CInv
<1>11. CASE blocked_proc_send[b] # <<>>
  <2> DEFINE t == NextSlot(freed)
             e == [status |-> "IN_USE", message_size |-> mproc[q].message_size,
                   message |-> mproc[q].message]
  <2>1. t \in Slot /\ freed[t].status = "EMPTY"
    BY <1>2, <1>4, NextSlotIsFree
  <2>2. MailSlotTable' = [freed EXCEPT ![t] = e] /\ queue_slots' = [rest EXCEPT ![b] = Append(@, t)]
    BY <1>1, <1>11 DEF TakeFromSlot, Refill, createSlot, IInv, TypeOK, QueuesTypeOK
  <2>3. e.message_size <= size
    <3>1. q \in WaitingAt(b, SenderPlaces) /\ SenderFits(q, b)
      <4>1. blocked_proc_send[b] \in Seq(Proc)
        BY <1>1 DEF IInv, TypeOK, QueuesTypeOK
      <4> QED BY <1>1, <1>11, <4>1, SeqTail DEF QInv, QueuesHold, QueueOf, CInv, SendersFit
    <3> QED BY <1>1, <3>1 DEF SenderFits
  <2>4. \A c \in Box : \A i \in DOMAIN rest[c] :
          /\ rest[c][i] \in Slot \ {s, t}
          /\ MailSlotTable[rest[c][i]].status = "IN_USE"
    <3>1. \A c \in Box : \A i \in DOMAIN rest[c] : MailSlotTable[rest[c][i]].status = "IN_USE"
      BY <1>3 DEF Owned
    <3> HIDE DEF freed, rest, s, t
    <3> QED BY <1>4, <1>8, <2>1, <3>1
  <2> HIDE DEF freed, rest, s, t, e, q, total, size
  <2>5. queue_slots'[b] = Append(rest[b], t) /\ \A c \in Box \ {b} : queue_slots'[c] = queue_slots[c]
    BY <1>1, <1>3, <1>5, <2>2 DEF Queues
  <2>6. \A c \in Box \ {b} : \A i \in DOMAIN queue_slots[c] :
          MailSlotTable'[queue_slots[c][i]] = MailSlotTable[queue_slots[c][i]]
    BY <1>4, <1>5, <2>2, <2>4 DEF Tables
  <2>7. Within([freed EXCEPT ![t] = e], Append(rest[b], t), total - 1 + 1, size)
    <3>1. total - 1 \in Int /\ rest[b] \in Seq(Slot) /\ \A i \in DOMAIN rest[b] : rest[b][i] # t
      BY <1>1, <1>2, <1>3, <2>4 DEF Queues
    <3> QED BY <1>4, <1>9, <2>1, <2>3, <3>1, WithinStore
  <2>8. Within(MailSlotTable', queue_slots'[b], total, size)
    <3>1. total - 1 + 1 = total
      BY <1>2
    <3> QED BY <2>2, <2>5, <2>7, <3>1
  <2> QED BY <1>1, <2>5, <2>6, <2>8, OneBoxCapacity DEF total, size, CInv
<1> QED BY <1>10, <1>11

LEMMA NextCapacity ==
  ASSUME IInv, QInv, CInv, [Next]_vars
  PROVE  WithinCapacity'
<1>1. CASE UNCHANGED <<MailSlotTable, queue_slots, MailBoxTable>>
  BY <1>1 DEF CInv, WithinCapacity, Active
<1>2. ASSUME NEW p \in Proc, Call(p) PROVE WithinCapacity'
  <2>1. ASSUME NEW a \in CreateArgs, MboxCreate(p, a) PROVE WithinCapacity'
    BY <2>1, CreateCapacity DEF CInv
  <2>2. ASSUME NEW b \in ReleaseArgs, MboxRelease(p, b) PROVE WithinCapacity'
    BY <1>1, <2>2, ReleaseCapacity DEF CInv, MboxRelease, ReleaseRefused, mboxVars, queueVars, slotVars
  <2>3. ASSUME NEW b, NEW n \in Int, MboxSend(p, b, n) \/ MboxCondSend(p, b, n)
        PROVE  WithinCapacity'
    <3>0. UNCHANGED mboxVars
      BY <2>3 DEF MboxSend, MboxCondSend
    <3>1. CASE SendToSlot(p, b, n)
      BY <3>0, <3>1, SendToSlotCapacity DEF CInv
    <3>2. CASE ~SendToSlot(p, b, n)
      BY <1>1, <2>3, <3>2 DEF MboxSend, MboxCondSend, SendInvalid, CondSendFails, HandOff,
                              SendBlocks, SendOverflow, mboxVars, queueVars, slotVars
    <3> QED BY <3>1, <3>2
  <2>4. ASSUME NEW b, NEW ptr \in BOOLEAN, NEW n \in Nat,
               MboxReceive(p, b, ptr, n) \/ MboxCondReceive(p, b, ptr, n)
        PROVE  WithinCapacity'
    <3>0. UNCHANGED mboxVars
      BY <2>4 DEF MboxReceive, MboxCondReceive
    <3>1. CASE TakeFromSlot(p, b, ptr, n)
      BY <3>0, <3>1, TakeFromSlotCapacity
    <3>2. CASE DropTooLong(p, b, n)
      BY <3>0, <3>2, DropTooLongCapacity DEF CInv
    <3>3. CASE ~TakeFromSlot(p, b, ptr, n) /\ ~DropTooLong(p, b, n)
      BY <1>1, <2>4, <3>3 DEF MboxReceive, MboxCondReceive, ReceiveInvalid, TakeFromSender,
                WaitOnZeroSlots, WaitForSignal, NothingQueued, NoSender, mboxVars, queueVars, slotVars
    <3> QED BY <3>1, <3>2, <3>3
  <2> QED BY <1>2, <2>1, <2>2, <2>3, <2>4, MailboxAssumption DEF Call
<1>3. ASSUME NEW p \in Proc, Resume(p) \/ Quit(p) PROVE WithinCapacity'
  BY <1>1, <1>3 DEF Resume, SendResumes, ReceiveResumes, ReleaseStep, Quit, mboxVars, queueVars, slotVars
<1>4. CASE Interrupt \/ UNCHANGED vars
  BY <1>1, <1>4 DEF Interrupt, vars, mboxVars, queueVars, slotVars
<1> QED BY <1>2, <1>3, <1>4 DEF Next

-----------------------------------------------------------------------------
(***************************************************************************)
(* What is on the send queue of an active box fits the box.                *)
(***************************************************************************)

\* No step touches the place or the mbox_proc of a process on a send queue.
FramesKept ==
  \A r \in Proc : status[r] \in Blocked /\ pc[r] \in SenderPlaces =>
    pc'[r] = pc[r] /\ mproc'[r] = mproc[r]

LEMMA NextFramesKept ==
  ASSUME TypeOK, QInv, [Next]_vars
  PROVE  FramesKept
<1>1. CASE UNCHANGED callVars
  BY <1>1 DEF callVars, FramesKept
<1>2. ASSUME NEW p \in Proc, Call(p) \/ Resume(p) \/ Quit(p)
      PROVE  FramesKept
  <2>0. Current = p => status[p] \notin Blocked
    BY RunnerNotBlocked DEF QInv
  <2>1. CASE \/ \E a \in CreateArgs : MboxCreate(p, a)
             \/ \E b \in ReleaseArgs : ReleaseRefused(p, b)
             \/ Quit(p)
    BY <1>1, <2>1 DEF MboxCreate, ReleaseRefused, Quit
  <2>2. ASSUME NEW b \in ReleaseArgs, ReleaseBox(p, b) PROVE FramesKept
    BY <2>0, <2>2 DEF ReleaseBox, Running, FramesKept, TypeOK, CallsTypeOK
  <2>3. ASSUME NEW b, NEW n, MboxSend(p, b, n) \/ MboxCondSend(p, b, n) PROVE FramesKept
    <3>1. CASE HandOff(p, b, n)
      <4> DEFINE q == Head(blocked_proc_receive[b])
      <4>1. q \in WaitingAt(b, ReceiverPlaces)
        <5>1. b \in Box /\ blocked_proc_receive[b] # <<>> /\ blocked_proc_receive[b] \in Seq(Proc)
          BY <3>1 DEF HandOff, ValidSend, CanHandOff, TypeOK, QueuesTypeOK
        <5> QED BY <5>1, SeqTail DEF QInv, QueuesHold, QueueOf
      <4>2. pc[q] \notin SenderPlaces
        BY <4>1 DEF WaitingAt, ReceiverPlaces, SenderPlaces
      <4> QED BY <3>1, <4>2 DEF HandOff, FramesKept, TypeOK, CallsTypeOK
    <3>2. CASE SendBlocks(p, b, n)
      <4>1. Current = p
        BY <2>3 DEF MboxSend, MboxCondSend, Running
      <4> QED BY <2>0, <3>2, <4>1 DEF SendBlocks, BlockIn, FramesKept, TypeOK, CallsTypeOK
    <3>3. CASE ~HandOff(p, b, n) /\ ~SendBlocks(p, b, n)
      BY <1>1, <2>3, <3>3 DEF MboxSend, MboxCondSend, SendInvalid, SendToSlot, SendOverflow, CondSendFails
    <3> QED BY <3>1, <3>2, <3>3
  <2>4. ASSUME NEW b, NEW ptr, NEW n, MboxReceive(p, b, ptr, n) \/ MboxCondReceive(p, b, ptr, n)
        PROVE  FramesKept
    <3>1. CASE WaitOnZeroSlots(p, b, ptr, n) \/ WaitForSignal(p, b, ptr, n)
      <4>1. Current = p
        BY <2>4 DEF MboxReceive, MboxCondReceive, Running
      <4> QED BY <2>0, <3>1, <4>1 DEF WaitOnZeroSlots, WaitForSignal, BlockIn, FramesKept, TypeOK, CallsTypeOK
    <3>2. CASE ~WaitOnZeroSlots(p, b, ptr, n) /\ ~WaitForSignal(p, b, ptr, n)
      BY <1>1, <2>4, <3>2 DEF MboxReceive, MboxCondReceive, ReceiveInvalid, TakeFromSender,
                              NothingQueued, DropTooLong, TakeFromSlot, NoSender
    <3> QED BY <3>1, <3>2
  <2>5. CASE Resume(p)
    <3>1. status[p] \notin Blocked
      BY <2>0, <2>5 DEF Resume, SendResumes, ReceiveResumes, ReleaseStep
    <3>2. /\ \A r \in Proc \ {p} : pc'[r] = pc[r]
          /\ \A r \in Proc \ {p} : mproc'[r] = mproc[r]
      BY <2>5 DEF Resume, SendResumes, ReceiveResumes, ReleaseStep, ReleaseSender, ReleaseReceiver,
                  ReleaseDone, TypeOK, CallsTypeOK
    <3> QED BY <3>1, <3>2 DEF FramesKept
  <2> QED BY <1>2, <2>1, <2>2, <2>3, <2>4, <2>5 DEF Call, MboxRelease
<1>3. CASE Interrupt \/ UNCHANGED vars
  BY <1>1, <1>3 DEF Interrupt, vars
<1> QED BY <1>2, <1>3 DEF Next

\* An entry of a send queue after the step was there before it, or fits.
LEMMA FitStep ==
  ASSUME TypeOK, QInv, SendersFit, FramesKept,
         \A b \in Box : Active(b)' =>
           \/ blocked_proc_send'[b] = <<>>
           \/ /\ Active(b) /\ MailBoxTable'[b] = MailBoxTable[b]
              /\ \A i \in DOMAIN blocked_proc_send'[b] :
                   \/ \E j \in DOMAIN blocked_proc_send[b] :
                        blocked_proc_send'[b][i] = blocked_proc_send[b][j]
                   \/ IF pc'[blocked_proc_send'[b][i]] = "send"
                      THEN mproc'[blocked_proc_send'[b][i]].message_size <= MailBoxTable[b].slot_size
                      ELSE MailBoxTable[b].total_slots = 0
  PROVE  SendersFit'
<1> SUFFICES ASSUME NEW b \in Box, Active(b)', NEW i \in DOMAIN blocked_proc_send'[b]
             PROVE  IF pc'[blocked_proc_send'[b][i]] = "send"
                    THEN mproc'[blocked_proc_send'[b][i]].message_size <= MailBoxTable'[b].slot_size
                    ELSE MailBoxTable'[b].total_slots = 0
  BY DEF SendersFit, SenderFits
<1>1. blocked_proc_send'[b] # <<>>
  OBVIOUS
<1>2. Active(b) /\ MailBoxTable'[b] = MailBoxTable[b]
  BY <1>1
<1>3. ASSUME NEW j \in DOMAIN blocked_proc_send[b],
             blocked_proc_send'[b][i] = blocked_proc_send[b][j]
      PROVE  IF pc'[blocked_proc_send'[b][i]] = "send"
             THEN mproc'[blocked_proc_send'[b][i]].message_size <= MailBoxTable[b].slot_size
             ELSE MailBoxTable[b].total_slots = 0
  <2> DEFINE r == blocked_proc_send[b][j]
  <2>1. r \in WaitingAt(b, SenderPlaces)
    BY <1>3 DEF QInv, QueuesHold, QueueOf
  <2>2. pc'[r] = pc[r] /\ mproc'[r] = mproc[r]
    BY <2>1 DEF FramesKept, WaitingAt
  <2>3. SenderFits(r, b)
    BY <1>2, <1>3 DEF SendersFit
  <2> QED BY <1>3, <2>2, <2>3 DEF SenderFits
<1> QED BY <1>1, <1>2, <1>3

\* The steps that leave the boxes alone and take from the send queues at most.
LEMMA FitShrinks ==
  ASSUME TypeOK, QInv, SendersFit, FramesKept, UNCHANGED MailBoxTable,
         \/ UNCHANGED blocked_proc_send
         \/ \E c \in Box : /\ blocked_proc_send[c] # <<>>
                           /\ blocked_proc_send' = [blocked_proc_send EXCEPT ![c] = Tail(@)]
  PROVE  SendersFit'
<1>1. ASSUME NEW b \in Box, NEW i \in DOMAIN blocked_proc_send'[b]
      PROVE  \E j \in DOMAIN blocked_proc_send[b] : blocked_proc_send'[b][i] = blocked_proc_send[b][j]
  <2>1. CASE blocked_proc_send'[b] = blocked_proc_send[b]
    BY <1>1, <2>1
  <2>2. CASE blocked_proc_send[b] # <<>> /\ blocked_proc_send'[b] = Tail(blocked_proc_send[b])
    <3>1. blocked_proc_send[b] \in Seq(Proc)
      BY DEF TypeOK, QueuesTypeOK
    <3> QED BY <1>1, <2>2, <3>1, SeqTail
  <2> QED BY <2>1, <2>2 DEF TypeOK, QueuesTypeOK
<1>2. \A b \in Box : Active(b)' <=> Active(b)
  BY DEF Active
<1> QED BY <1>1, <1>2, FitStep

\* A process joins the send queue of a box that it fits.
LEMMA FitGrows ==
  ASSUME TypeOK, QInv, SendersFit, FramesKept, UNCHANGED MailBoxTable, NEW p \in Proc, NEW c \in Box,
         blocked_proc_send' = [blocked_proc_send EXCEPT ![c] = Append(@, p)],
         IF pc'[p] = "send" THEN mproc'[p].message_size <= MailBoxTable[c].slot_size
         ELSE MailBoxTable[c].total_slots = 0
  PROVE  SendersFit'
<1>1. ASSUME NEW b \in Box, NEW i \in DOMAIN blocked_proc_send'[b]
      PROVE  \/ \E j \in DOMAIN blocked_proc_send[b] : blocked_proc_send'[b][i] = blocked_proc_send[b][j]
             \/ b = c /\ blocked_proc_send'[b][i] = p
  <2>1. CASE b # c
    BY <1>1, <2>1 DEF TypeOK, QueuesTypeOK
  <2>2. CASE b = c
    <3>1. /\ blocked_proc_send[b] \in Seq(Proc)
          /\ blocked_proc_send'[b] = Append(blocked_proc_send[b], p)
      BY <2>2 DEF TypeOK, QueuesTypeOK
    <3> QED BY <1>1, <2>2, <3>1, SeqAppend
  <2> QED BY <2>1, <2>2
<1>2. \A b \in Box : Active(b)' <=> Active(b)
  BY DEF Active
<1> QED BY <1>1, <1>2, FitStep

LEMMA NextSendersFit ==
  ASSUME IInv, QInv, SendersFit, [Next]_vars
  PROVE  SendersFit'
<1>0. TypeOK /\ FramesKept
  BY NextFramesKept DEF IInv
<1>1. CASE UNCHANGED <<mboxVars, blocked_proc_send>>
  BY <1>0, <1>1, FitShrinks DEF mboxVars
<1>2. ASSUME NEW p \in Proc, Call(p) PROVE SendersFit'
  <2>1. ASSUME NEW a \in CreateArgs, MboxCreate(p, a) PROVE SendersFit'
    <3>1. CASE CreateFails(p, a)
      BY <1>1, <3>1 DEF CreateFails, queueVars
    <3>2. CASE CreateBox(p, a)
      <4> DEFINE n == NextBox
      <4>1. n \in Box
        BY <3>2, NextBoxIsFree DEF CreateBox
      <4>2. /\ blocked_proc_send'[n] = <<>>
            /\ \A b \in Box \ {n} : /\ MailBoxTable'[b] = MailBoxTable[b]
                                    /\ blocked_proc_send'[b] = blocked_proc_send[b]
        BY <1>0, <3>2, <4>1 DEF CreateBox, TypeOK, BoxesTypeOK, QueuesTypeOK
      <4> HIDE DEF n
      <4>3. \A b \in Box \ {n} : Active(b)' => Active(b)
        BY <4>2 DEF Active
      <4> QED BY <1>0, <4>2, <4>3, FitStep
    <3> QED BY <2>1, <3>1, <3>2 DEF MboxCreate
  <2>2. ASSUME NEW b \in ReleaseArgs, MboxRelease(p, b) PROVE SendersFit'
    <3>1. CASE ReleaseRefused(p, b)
      BY <1>1, <3>1 DEF ReleaseRefused, queueVars
    <3>2. CASE ReleaseBox(p, b)
      <4>1. /\ UNCHANGED blocked_proc_send /\ ~Active(b)'
            /\ \A c \in Box \ {b} : MailBoxTable'[c] = MailBoxTable[c]
        BY <1>0, <3>2 DEF ReleaseBox, FreeBox, Active, TypeOK, BoxesTypeOK
      <4>2. \A c \in Box : Active(c)' => Active(c) /\ MailBoxTable'[c] = MailBoxTable[c]
        BY <4>1 DEF Active
      <4> QED BY <1>0, <4>1, <4>2, FitStep
    <3> QED BY <2>2, <3>1, <3>2 DEF MboxRelease
  <2>3. ASSUME NEW b, NEW n, MboxSend(p, b, n) \/ MboxCondSend(p, b, n) PROVE SendersFit'
    <3>0. UNCHANGED mboxVars /\ UNCHANGED MailBoxTable
      BY <2>3 DEF MboxSend, MboxCondSend, mboxVars
    <3>1. CASE SendBlocks(p, b, n)
      <4>1. b \in Box /\ n <= MailBoxTable[b].slot_size
        BY <3>1 DEF SendBlocks, ValidSend
      <4>2. pc'[p] = "send" /\ mproc'[p].message_size = n
        BY <1>0, <3>1 DEF SendBlocks, BlockIn, TypeOK, CallsTypeOK
      <4> QED BY <1>0, <3>0, <3>1, <4>1, <4>2, FitGrows DEF SendBlocks
    <3>2. CASE ~SendBlocks(p, b, n)
      BY <1>1, <2>3, <3>0, <3>2 DEF MboxSend, MboxCondSend, SendInvalid, HandOff, SendToSlot, SendOverflow,
                               CondSendFails, queueVars
    <3> QED BY <3>1, <3>2
  <2>4. ASSUME NEW b, NEW ptr, NEW n, MboxReceive(p, b, ptr, n) \/ MboxCondReceive(p, b, ptr, n)
        PROVE  SendersFit'
    <3>0. UNCHANGED mboxVars /\ UNCHANGED MailBoxTable
      BY <2>4 DEF MboxReceive, MboxCondReceive, mboxVars
    <3>1. CASE WaitOnZeroSlots(p, b, ptr, n)
      <4>1. b \in Box /\ MailBoxTable[b].total_slots = 0
        BY <3>1 DEF WaitOnZeroSlots, ValidReceive
      <4>2. pc'[p] = "recvZero"
        BY <1>0, <3>1 DEF WaitOnZeroSlots, BlockIn, TypeOK, CallsTypeOK
      <4> QED BY <1>0, <3>0, <3>1, <4>1, <4>2, FitGrows DEF WaitOnZeroSlots
    <3>2. CASE TakeFromSender(p, b, ptr, n) \/ TakeFromSlot(p, b, ptr, n)
      <4>1. b \in Box
        BY <3>2 DEF TakeFromSender, TakeFromSlot, Slotted, ValidReceive
      <4>2. \/ UNCHANGED blocked_proc_send
            \/ /\ blocked_proc_send[b] # <<>>
               /\ blocked_proc_send' = [blocked_proc_send EXCEPT ![b] = Tail(@)]
        BY <3>2 DEF TakeFromSender, TakeFromSlot, Refill
      <4> QED BY <1>0, <3>0, <4>1, <4>2, FitShrinks
    <3>3. CASE UNCHANGED blocked_proc_send
      BY <1>1, <3>0, <3>3
    <3> QED BY <2>4, <3>1, <3>2, <3>3 DEF MboxReceive, MboxCondReceive, ReceiveInvalid, WaitForSignal,
                               NothingQueued, DropTooLong, NoSender, queueVars
  <2> QED BY <1>2, <2>1, <2>2, <2>3, <2>4 DEF Call
<1>3. ASSUME NEW p \in Proc, Resume(p) PROVE SendersFit'
  <2>1. UNCHANGED MailBoxTable
    BY <1>3 DEF Resume, SendResumes, ReceiveResumes, ReleaseStep, mboxVars
  <2>2. CASE ReleaseStep(p) /\ ReleaseSender(p)
    <3>1. arg[p] \in Box
      BY <1>0, <2>2 DEF ReleaseStep, TypeOK, CallsTypeOK
    <3> QED BY <1>0, <2>1, <2>2, <3>1, FitShrinks DEF ReleaseSender
  <2>3. CASE UNCHANGED blocked_proc_send
    BY <1>0, <2>1, <2>3, FitShrinks
  <2> QED BY <1>3, <2>2, <2>3 DEF Resume, SendResumes, ReceiveResumes, ReleaseStep, ReleaseReceiver,
                              ReleaseDone, queueVars
<1>4. ASSUME NEW p \in Proc, Quit(p) PROVE SendersFit'
  BY <1>1, <1>4 DEF Quit, queueVars
<1>5. CASE Interrupt \/ UNCHANGED vars
  BY <1>1, <1>5 DEF Interrupt, vars, queueVars
<1> QED BY <1>2, <1>3, <1>4, <1>5 DEF Next

LEMMA InitCInv == Init => CInv
<1> SUFFICES ASSUME Init PROVE CInv
  OBVIOUS
<1>1. \A b \in Box : queue_slots[b] = <<>> /\ blocked_proc_send[b] = <<>>
  BY DEF Init
<1>2. ASSUME NEW b \in Box, Active(b) PROVE MailBoxTable[b].total_slots \in Nat
  <2>1. b < Len(InitBoxes)
    BY <1>2 DEF Init, Active, FreeBox
  <2>2. b + 1 \in 1 .. Len(InitBoxes)
    BY <2>1, MailboxAssumption DEF Box
  <2>3. InitBoxes[b + 1] \in [slots : Nat, size : 0 .. MAX_MESSAGE]
    BY <2>2, MailboxAssumption, ElementOfSeq
  <2> QED BY <2>1, <2>3 DEF Init
<1> QED BY <1>1, <1>2 DEF CInv, SendersFit, WithinCapacity

LEMMA CapacityInvariance == Spec => [](IInv /\ QInv /\ CInv)
<1>1. Init => IInv /\ QInv /\ CInv
  BY InitIInv, InitQInv, InitCInv
<1>2. IInv /\ QInv /\ CInv /\ [Next]_vars => (IInv /\ QInv /\ CInv)'
  BY NextIInv, NextQInv, NextSendersFit, NextCapacity DEF CInv
<1> QED BY <1>1, <1>2, PTL DEF Spec

\* No box ever holds more messages than it was created for, nor a longer one,
\* also when a receive stores the message of a blocked sender.
THEOREM CapacityKept == Spec => []WithinCapacity
<1>1. CInv => WithinCapacity
  BY DEF CInv
<1> QED BY <1>1, CapacityInvariance, PTL

-----------------------------------------------------------------------------
(***************************************************************************)
(* Nobody is stranded, as long as MboxCreate takes no box that somebody    *)
(* waits on: it clears the queues of the id it reuses, whose release may   *)
(* still have processes to wake (phase2.c:169-171).                        *)
(***************************************************************************)
NoneForgotten == \A b \in Box : ~Active(b) /\ Active(b)' => WaitQueue(b) = <<>>

\* Every entry of q but x is one of q2.
EntriesKept(q, q2, x) == \A i \in DOMAIN q : q[i] # x => \E j \in DOMAIN q2 : q2[j] = q[i]

LEMMA EntriesSame == ASSUME NEW q, NEW x PROVE EntriesKept(q, q, x)
BY DEF EntriesKept

LEMMA EntriesTail ==
  ASSUME NEW S, NEW q \in Seq(S), q # <<>>
  PROVE  EntriesKept(q, Tail(q), Head(q))
<1> SUFFICES ASSUME NEW i \in DOMAIN q, q[i] # Head(q)
             PROVE  \E j \in DOMAIN Tail(q) : Tail(q)[j] = q[i]
  BY DEF EntriesKept
<1>1. i \in 1 .. Len(q) /\ i # 1
  BY SeqTail
<1>2. i - 1 \in DOMAIN Tail(q) /\ (i - 1) + 1 = i
  BY <1>1, SeqTail
<1>3. Tail(q)[i - 1] = q[i]
  BY <1>2, SeqTail
<1> QED BY <1>2, <1>3

LEMMA EntriesAppend ==
  ASSUME NEW S, NEW q \in Seq(S), NEW x \in S, NEW y
  PROVE  EntriesKept(q, Append(q, x), y) /\ \E j \in DOMAIN Append(q, x) : Append(q, x)[j] = x
<1>1. \A i \in DOMAIN q : i \in DOMAIN Append(q, x) /\ Append(q, x)[i] = q[i]
  BY SeqAppend
<1>2. Len(q) + 1 \in DOMAIN Append(q, x) /\ Append(q, x)[Len(q) + 1] = x
  BY SeqAppend
<1> QED BY <1>1, <1>2 DEF EntriesKept

\* Only x may become blocked, and then in its queue; the others stay in theirs.
LEMMA StillInQueue ==
  ASSUME TypeOK, BlockedInQueue, NEW x, KeepsWaiting(x),
         \A r \in Proc : r # x /\ status'[r] \in Blocked => status[r] \in Blocked,
         x \in Proc /\ status'[x] \in Blocked => InItsQueue(x)',
         \A b \in Box : /\ EntriesKept(blocked_proc_send[b], blocked_proc_send'[b], x)
                        /\ EntriesKept(blocked_proc_receive[b], blocked_proc_receive'[b], x)
  PROVE  BlockedInQueue'
<1> SUFFICES ASSUME NEW r \in Proc, r # x, status'[r] \in Blocked
             PROVE  InItsQueue(r)'
  BY DEF BlockedInQueue
<1>1. status[r] \in Blocked /\ InItsQueue(r) /\ pc'[r] = pc[r] /\ arg'[r] = arg[r]
  BY DEF BlockedInQueue, KeepsWaiting
<1>2. arg[r] \in Box /\ pc[r] \in Waiting
  BY <1>1 DEF InItsQueue, Waiting, TypeOK, CallsTypeOK
<1>3. CASE pc[r] = "recv"
  <2>1. \E i \in DOMAIN blocked_proc_receive[arg[r]] : blocked_proc_receive[arg[r]][i] = r
    BY <1>1, <1>3 DEF InItsQueue
  <2>2. \E i \in DOMAIN blocked_proc_receive'[arg[r]] : blocked_proc_receive'[arg[r]][i] = r
    BY <1>2, <2>1 DEF EntriesKept
  <2> QED BY <1>1, <1>2, <1>3, <2>2 DEF InItsQueue
<1>4. CASE pc[r] # "recv"
  <2>1. \E i \in DOMAIN blocked_proc_send[arg[r]] : blocked_proc_send[arg[r]][i] = r
    BY <1>1, <1>4 DEF InItsQueue
  <2>2. \E i \in DOMAIN blocked_proc_send'[arg[r]] : blocked_proc_send'[arg[r]][i] = r
    BY <1>2, <2>1 DEF EntriesKept
  <2> QED BY <1>1, <1>2, <1>4, <2>2 DEF InItsQueue
<1> QED BY <1>3, <1>4

LEMMA NextInQueue ==
  ASSUME IInv, QInv, BlockedInQueue, [Next]_vars, NoneForgotten
  PROVE  BlockedInQueue'
<1>0. TypeOK /\ \A b \in Box : blocked_proc_send[b] \in Seq(Proc) /\ blocked_proc_receive[b] \in Seq(Proc)
  BY DEF IInv, TypeOK, QueuesTypeOK
<1>1. CASE Quiet /\ (UNCHANGED <<blocked_proc_send, blocked_proc_receive>> \/ Forgets)
  <2>1. UNCHANGED <<blocked_proc_send, blocked_proc_receive>>
    <3>1. SUFFICES ASSUME NEW n \in Box, ~Active(n), Active(n)',
                          blocked_proc_send' = [blocked_proc_send EXCEPT ![n] = <<>>],
                          blocked_proc_receive' = [blocked_proc_receive EXCEPT ![n] = <<>>]
                   PROVE  UNCHANGED <<blocked_proc_send, blocked_proc_receive>>
      BY <1>1 DEF Forgets
    <3>2. WaitQueue(n) = <<>>
      BY <3>1 DEF NoneForgotten
    <3>3. blocked_proc_send[n] = <<>> /\ blocked_proc_receive[n] = <<>>
      BY <1>0, <3>2 DEF WaitQueue
    <3> QED BY <1>0, <3>1, <3>3 DEF TypeOK, QueuesTypeOK
  <2> QED BY <1>0, <1>1, <2>1, StillInQueue, EntriesSame, KernelAssumption DEF Quiet
<1>2. ASSUME NEW p \in Proc, NEW c \in Box, Current = p, Stays(pc', arg'), WakesHead(p, c)
      PROVE  BlockedInQueue'
  <2>1. ASSUME NEW q \in Proc, UnblockProc(p, q)
        PROVE  /\ KeepsWaiting(q) /\ status'[q] \notin Blocked
               /\ \A r \in Proc : r # q /\ status'[r] \in Blocked => status[r] \in Blocked
    BY <1>0, <1>2, <2>1, UnblockKeeps DEF UnblockProc, QInv, TypeOK, KernelTypeOK, Blocked
  <2>2. ASSUME NEW q \in Proc, UnblockProc(p, q),
               \A b \in Box : EntriesKept(blocked_proc_send[b], blocked_proc_send'[b], q),
               \A b \in Box : EntriesKept(blocked_proc_receive[b], blocked_proc_receive'[b], q)
        PROVE  BlockedInQueue'
    BY <1>0, <2>1, <2>2, StillInQueue
  <2>3. CASE /\ blocked_proc_send[c] # <<>> /\ UnblockProc(p, Head(blocked_proc_send[c]))
             /\ blocked_proc_send' = [blocked_proc_send EXCEPT ![c] = Tail(@)]
             /\ UNCHANGED blocked_proc_receive
    <3> DEFINE q == Head(blocked_proc_send[c])
    <3>1. q \in Proc /\ EntriesKept(blocked_proc_send[c], Tail(blocked_proc_send[c]), q)
      BY <1>0, <2>3, EntriesTail
    <3>2. /\ \A b \in Box : EntriesKept(blocked_proc_send[b], blocked_proc_send'[b], q)
          /\ \A b \in Box : EntriesKept(blocked_proc_receive[b], blocked_proc_receive'[b], q)
      BY <1>0, <2>3, <3>1, EntriesSame DEF TypeOK, QueuesTypeOK
    <3> QED BY <2>2, <2>3, <3>1, <3>2
  <2>4. CASE /\ blocked_proc_receive[c] # <<>> /\ UnblockProc(p, Head(blocked_proc_receive[c]))
             /\ blocked_proc_receive' = [blocked_proc_receive EXCEPT ![c] = Tail(@)]
             /\ UNCHANGED blocked_proc_send
    <3> DEFINE q == Head(blocked_proc_receive[c])
    <3>1. q \in Proc /\ EntriesKept(blocked_proc_receive[c], Tail(blocked_proc_receive[c]), q)
      BY <1>0, <2>4, EntriesTail
    <3>2. /\ \A b \in Box : EntriesKept(blocked_proc_send[b], blocked_proc_send'[b], q)
          /\ \A b \in Box : EntriesKept(blocked_proc_receive[b], blocked_proc_receive'[b], q)
      BY <1>0, <2>4, <3>1, EntriesSame DEF TypeOK, QueuesTypeOK
    <3> QED BY <2>2, <2>4, <3>1, <3>2
  <2> QED BY <1>2, <2>3, <2>4 DEF WakesHead
<1>3. ASSUME NEW p \in Proc, NEW c \in Box, NEW where \in Waiting, Current = p, JoinsTail(p, c, where)
      PROVE  BlockedInQueue'
  <2>1. KeepsWaiting(p) /\ status'[p] \in Blocked /\ pc'[p] = where /\ arg'[p] = c
    BY <1>0, <1>3, BlockKeeps DEF JoinsTail, QInv
  <2>2. \A s \in Proc : s # p /\ status'[s] \in Blocked => status[s] \in Blocked
    BY <1>0, <1>3 DEF JoinsTail, BlockIn, BlockMe, TypeOK, KernelTypeOK
  <2>3. /\ \A b \in Box : EntriesKept(blocked_proc_send[b], blocked_proc_send'[b], p)
        /\ \A b \in Box : EntriesKept(blocked_proc_receive[b], blocked_proc_receive'[b], p)
    <3>1. /\ EntriesKept(blocked_proc_send[c], Append(blocked_proc_send[c], p), p)
          /\ EntriesKept(blocked_proc_receive[c], Append(blocked_proc_receive[c], p), p)
      BY <1>0, EntriesAppend
    <3> QED BY <1>0, <1>3, <3>1, EntriesSame DEF JoinsTail, TypeOK, QueuesTypeOK
  <2>4. \/ where \in SenderPlaces /\ blocked_proc_send'[c] = Append(blocked_proc_send[c], p)
        \/ where \in ReceiverPlaces /\ blocked_proc_receive'[c] = Append(blocked_proc_receive[c], p)
    BY <1>0, <1>3 DEF JoinsTail, TypeOK, QueuesTypeOK
  <2>5. InItsQueue(p)'
    <3>1. CASE where = "recv"
      <4>1. \E j \in DOMAIN blocked_proc_receive'[c] : blocked_proc_receive'[c][j] = p
        BY <1>0, <2>4, <3>1, EntriesAppend DEF SenderPlaces
      <4> QED BY <2>1, <3>1, <4>1 DEF InItsQueue
    <3>2. CASE where # "recv"
      <4>1. \E j \in DOMAIN blocked_proc_send'[c] : blocked_proc_send'[c][j] = p
        BY <1>0, <2>4, <3>2, EntriesAppend DEF ReceiverPlaces
      <4> QED BY <2>1, <3>2, <4>1 DEF InItsQueue
    <3> QED BY <3>1, <3>2
  <2> QED BY <1>0, <2>1, <2>2, <2>3, <2>5, StillInQueue
<1> QED BY <1>1, <1>2, <1>3, NextQueues DEF QueueStep

LEMMA StrandedStep ==
  ASSUME TypeOK, BlockedInQueue
  PROVE  NobodyStranded
<1> SUFFICES ASSUME NEW p \in Proc, status[p] \in Blocked
             PROVE  \E i \in DOMAIN WaitQueue(arg[p]) : WaitQueue(arg[p])[i] = p
  BY DEF NobodyStranded
<1>1. InItsQueue(p) /\ arg[p] \in Box
  BY DEF BlockedInQueue, InItsQueue, Waiting, TypeOK, CallsTypeOK
<1> DEFINE s == blocked_proc_send[arg[p]]
           r == blocked_proc_receive[arg[p]]
<1>2. /\ Len(s) \in Nat /\ Len(r) \in Nat /\ DOMAIN s = 1 .. Len(s) /\ DOMAIN r = 1 .. Len(r)
      /\ DOMAIN WaitQueue(arg[p]) = 1 .. Len(s) + Len(r)
      /\ \A k \in 1 .. Len(s) : WaitQueue(arg[p])[k] = s[k]
      /\ \A k \in 1 .. Len(r) : WaitQueue(arg[p])[k + Len(s)] = r[k]
  BY <1>1, TwoQueues
<1>3. (\E i \in DOMAIN s : s[i] = p) \/ (\E i \in DOMAIN r : r[i] = p)
  BY <1>1 DEF InItsQueue
<1> HIDE DEF s, r
<1>4. ASSUME NEW i \in DOMAIN s, s[i] = p
      PROVE  \E k \in DOMAIN WaitQueue(arg[p]) : WaitQueue(arg[p])[k] = p
  BY <1>2, <1>4
<1>5. ASSUME NEW i \in DOMAIN r, r[i] = p
      PROVE  \E k \in DOMAIN WaitQueue(arg[p]) : WaitQueue(arg[p])[k] = p
  <2>1. i + Len(s) \in DOMAIN WaitQueue(arg[p])
    BY <1>2, <1>5
  <2> QED BY <1>2, <1>5, <2>1
<1> QED BY <1>3, <1>4, <1>5

\* The only way to strand a blocked process is a MboxCreate that takes an id
\* whose release has not woken everybody yet: without such a step, everyone who
\* is blocked is in a queue of his box.
THEOREM StrandedOnlyByCreate == Spec /\ [][NoneForgotten]_vars => []NobodyStranded
<1> DEFINE Inv == IInv /\ QInv /\ BlockedInQueue
<1>1. Init => Inv
  <2>1. Init => BlockedInQueue
    BY DEF Init, KernelInit, BlockedInQueue, Blocked
  <2> QED BY <2>1, InitIInv, InitQInv
<1>2. Inv /\ [Next]_vars /\ [NoneForgotten]_vars => Inv'
  <2>1. SUFFICES ASSUME Inv, [Next]_vars, [NoneForgotten]_vars PROVE Inv'
    OBVIOUS
  <2>2. NoneForgotten
    BY <2>1 DEF NoneForgotten, vars, mboxVars, Active
  <2> QED BY <2>1, <2>2, NextIInv, NextQInv, NextInQueue
<1>3. Inv => NobodyStranded
  BY StrandedStep DEF IInv
<1> QED BY <1>1, <1>2, <1>3, PTL DEF Spec

-----------------------------------------------------------------------------
(***************************************************************************)
(* A sender waits only on a full box, as long as no receive drops a        *)
(* message: one whose buffer is too short takes the message off the queue  *)
(* and wakes nobody (phase2.c:533).                                        *)
(***************************************************************************)
NoneDropped ==
  \A p \in Proc, a \in RecvArgs \union CondRecvArgs : ~DropTooLong(p, a.mbox_id, a.msg_size)

\* A step that concerns one box only.
LEMMA OneBoxFull ==
  ASSUME SendersWaitOnlyWhenFull, UNCHANGED MailBoxTable, NEW c \in Box,
         \A b \in Box \ {c} : /\ blocked_proc_send'[b] = blocked_proc_send[b]
                              /\ queue_slots'[b] = queue_slots[b],
         Active(c) /\ blocked_proc_send'[c] # <<>> => Len(queue_slots'[c]) = MailBoxTable[c].total_slots
  PROVE  SendersWaitOnlyWhenFull'
BY DEF SendersWaitOnlyWhenFull, Active, Full

\* The send queues shrink at most, and the boxes and slot queues stay.
LEMMA ShrinkFull ==
  ASSUME SendersWaitOnlyWhenFull, UNCHANGED <<MailBoxTable, queue_slots>>,
         \A b \in Box : blocked_proc_send'[b] # <<>> => blocked_proc_send[b] # <<>>
  PROVE  SendersWaitOnlyWhenFull'
BY DEF SendersWaitOnlyWhenFull, Active, Full

LEMMA SendFull ==
  ASSUME IInv, SendersWaitOnlyWhenFull, NEW p \in Proc, NEW b, NEW n \in Int,
         MboxSend(p, b, n) \/ MboxCondSend(p, b, n)
  PROVE  SendersWaitOnlyWhenFull'
<1>0. UNCHANGED MailBoxTable
  BY DEF MboxSend, MboxCondSend, mboxVars
<1>1. CASE SendToSlot(p, b, n)
  <2>1. b \in Box /\ Active(b) /\ ~Full(b)
    BY <1>1 DEF SendToSlot, ValidSend
  <2>2. blocked_proc_send[b] = <<>>
    BY <2>1 DEF SendersWaitOnlyWhenFull
  <2>3. /\ UNCHANGED blocked_proc_send
        /\ \A c \in Box \ {b} : queue_slots'[c] = queue_slots[c]
    BY <1>1 DEF SendToSlot, createSlot, IInv, TypeOK, QueuesTypeOK
  <2> QED BY <1>0, <2>1, <2>2, <2>3, OneBoxFull
<1>2. CASE SendBlocks(p, b, n)
  <2>1. b \in Box /\ Full(b)
    BY <1>2 DEF SendBlocks, ValidSend
  <2>2. /\ UNCHANGED queue_slots
        /\ \A c \in Box \ {b} : blocked_proc_send'[c] = blocked_proc_send[c]
    BY <1>2 DEF SendBlocks, IInv, TypeOK, QueuesTypeOK
  <2> QED BY <1>0, <2>1, <2>2, OneBoxFull DEF Full
<1>3. CASE ~SendToSlot(p, b, n) /\ ~SendBlocks(p, b, n)
  <2>1. UNCHANGED <<queue_slots, blocked_proc_send>>
    BY <1>3 DEF MboxSend, MboxCondSend, SendInvalid, HandOff, SendOverflow, CondSendFails, queueVars
  <2> QED BY <1>0, <2>1, ShrinkFull
<1> QED BY <1>1, <1>2, <1>3

LEMMA ReceiveFull ==
  ASSUME IInv, CInv, SendersWaitOnlyWhenFull, NEW p \in Proc, NEW b, NEW ptr \in BOOLEAN, NEW n \in Nat,
         MboxReceive(p, b, ptr, n) \/ MboxCondReceive(p, b, ptr, n), ~DropTooLong(p, b, n)
  PROVE  SendersWaitOnlyWhenFull'
<1>0. UNCHANGED MailBoxTable
  BY DEF MboxReceive, MboxCondReceive, mboxVars
<1>1. CASE TakeFromSlot(p, b, ptr, n)
  <2>1. b \in Box /\ Active(b) /\ queue_slots[b] # <<>>
    BY <1>1 DEF TakeFromSlot, Slotted, ValidReceive
  <2>2. CASE blocked_proc_send[b] = <<>>
    <3>1. /\ UNCHANGED blocked_proc_send
          /\ \A c \in Box \ {b} : queue_slots'[c] = queue_slots[c]
      BY <1>1, <2>2 DEF TakeFromSlot, Refill, IInv, TypeOK, QueuesTypeOK
    <3> QED BY <1>0, <2>1, <2>2, <3>1, OneBoxFull
  <2>3. CASE blocked_proc_send[b] # <<>>
    <3> DEFINE freed == [MailSlotTable EXCEPT ![Head(queue_slots[b])] = FreeSlot]
               t == NextSlot(freed)
    <3>1. queue_slots[b] \in Seq(Slot) /\ Head(queue_slots[b]) \in Slot
      BY <2>1 DEF IInv, TypeOK, QueuesTypeOK
    <3>2. freed[Head(queue_slots[b])].status = "EMPTY"
      BY <3>1, IInvTables DEF Tables, FreeSlot
    <3>3. t \in Slot
      BY <3>1, <3>2, NextSlotIsFree
    <3>4. /\ blocked_proc_send' = [blocked_proc_send EXCEPT ![b] = Tail(@)]
          /\ queue_slots' = [queue_slots EXCEPT ![b] = Append(Tail(@), t)]
      BY <1>1, <2>1, <2>3 DEF TakeFromSlot, Refill, createSlot, IInv, TypeOK, QueuesTypeOK
    <3> HIDE DEF freed, t
    <3>5. Len(Append(Tail(queue_slots[b]), t)) = Len(queue_slots[b])
      BY <2>1, <3>1, <3>3
    <3>6. Len(queue_slots[b]) = MailBoxTable[b].total_slots
      BY <2>1, <2>3 DEF SendersWaitOnlyWhenFull, Full
    <3>7. queue_slots'[b] = Append(Tail(queue_slots[b]), t)
      BY <2>1, <3>4 DEF IInv, TypeOK, QueuesTypeOK
    <3>8. \A c \in Box \ {b} : /\ queue_slots'[c] = queue_slots[c]
                               /\ blocked_proc_send'[c] = blocked_proc_send[c]
      BY <3>4 DEF IInv, TypeOK, QueuesTypeOK
    <3> QED BY <1>0, <2>1, <3>5, <3>6, <3>7, <3>8, OneBoxFull
  <2> QED BY <2>2, <2>3
<1>2. CASE WaitOnZeroSlots(p, b, ptr, n)
  <2>1. b \in Box /\ Active(b) /\ MailBoxTable[b].total_slots = 0
    BY <1>2 DEF WaitOnZeroSlots, ValidReceive
  <2>2. Len(queue_slots[b]) = 0
    <3>1. Len(queue_slots[b]) <= 0 /\ queue_slots[b] \in Seq(Slot)
      BY <2>1 DEF CInv, WithinCapacity, IInv, TypeOK, QueuesTypeOK
    <3> QED BY <3>1
  <2>3. /\ UNCHANGED queue_slots
        /\ \A c \in Box \ {b} : blocked_proc_send'[c] = blocked_proc_send[c]
    BY <1>2 DEF WaitOnZeroSlots, IInv, TypeOK, QueuesTypeOK
  <2> QED BY <1>0, <2>1, <2>2, <2>3, OneBoxFull
<1>3. CASE TakeFromSender(p, b, ptr, n)
  <2>1. UNCHANGED queue_slots /\ \A c \in Box : blocked_proc_send'[c] # <<>> => blocked_proc_send[c] # <<>>
    BY <1>3 DEF TakeFromSender, IInv, TypeOK, QueuesTypeOK
  <2> QED BY <1>0, <2>1, ShrinkFull
<1>4. CASE ~TakeFromSlot(p, b, ptr, n) /\ ~WaitOnZeroSlots(p, b, ptr, n) /\ ~TakeFromSender(p, b, ptr, n)
  <2>1. UNCHANGED <<queue_slots, blocked_proc_send>>
    BY <1>4 DEF MboxReceive, MboxCondReceive, ReceiveInvalid, WaitForSignal, NothingQueued, NoSender, queueVars
  <2> QED BY <1>0, <2>1, ShrinkFull
<1> QED BY <1>1, <1>2, <1>3, <1>4

LEMMA NextFull ==
  ASSUME IInv, CInv, SendersWaitOnlyWhenFull, [Next]_vars, NoneDropped
  PROVE  SendersWaitOnlyWhenFull'
<1>1. CASE UNCHANGED <<mboxVars, queueVars>>
  BY <1>1, ShrinkFull DEF mboxVars, queueVars
<1>2. ASSUME NEW p \in Proc, Call(p) PROVE SendersWaitOnlyWhenFull'
  <2>1. ASSUME NEW a \in CreateArgs, CreateBox(p, a) PROVE SendersWaitOnlyWhenFull'
    <3> DEFINE n == NextBox
    <3>1. n \in Box
      BY <2>1, NextBoxIsFree DEF CreateBox
    <3>2. /\ blocked_proc_send'[n] = <<>>
          /\ \A b \in Box \ {n} : /\ MailBoxTable'[b] = MailBoxTable[b]
                                  /\ blocked_proc_send'[b] = blocked_proc_send[b]
                                  /\ queue_slots'[b] = queue_slots[b]
      BY <2>1, <3>1 DEF CreateBox, IInv, TypeOK, BoxesTypeOK, QueuesTypeOK
    <3> HIDE DEF n
    <3> QED BY <3>2 DEF SendersWaitOnlyWhenFull, Active, Full
  <2>2. ASSUME NEW b \in ReleaseArgs, ReleaseBox(p, b) PROVE SendersWaitOnlyWhenFull'
    <3>1. /\ MailBoxTable'[b].status = "INACTIVE" /\ UNCHANGED blocked_proc_send
          /\ \A c \in Box \ {b} : /\ MailBoxTable'[c] = MailBoxTable[c]
                                  /\ queue_slots'[c] = queue_slots[c]
      BY <2>2 DEF ReleaseBox, EmptySlots, FreeBox, IInv, TypeOK, BoxesTypeOK, QueuesTypeOK
    <3> QED BY <3>1 DEF SendersWaitOnlyWhenFull, Active, Full
  <2>3. ASSUME NEW a \in SendArgs,
               MboxSend(p, a.mbox_id, a.msg_size) \/ MboxCondSend(p, a.mbox_id, a.msg_size)
        PROVE  SendersWaitOnlyWhenFull'
    <3>1. a.msg_size \in Int
      BY MailboxAssumption
    <3> QED BY <2>3, <3>1, SendFull
  <2>4. ASSUME NEW a \in RecvArgs \union CondRecvArgs,
               \/ MboxReceive(p, a.mbox_id, a.msg_ptr, a.msg_size)
               \/ MboxCondReceive(p, a.mbox_id, a.msg_ptr, a.msg_size)
        PROVE  SendersWaitOnlyWhenFull'
    <3>1. a.msg_ptr \in BOOLEAN /\ a.msg_size \in Nat
      BY MailboxAssumption
    <3> QED BY <2>4, <3>1, ReceiveFull DEF NoneDropped
  <2> QED BY <1>1, <1>2, <2>1, <2>2, <2>3, <2>4
             DEF Call, MboxCreate, CreateFails, MboxRelease, ReleaseRefused
<1>3. ASSUME NEW p \in Proc, Resume(p) PROVE SendersWaitOnlyWhenFull'
  <2>1. UNCHANGED <<MailBoxTable, queue_slots>>
    BY <1>3 DEF Resume, SendResumes, ReceiveResumes, ReleaseStep, mboxVars, queueVars
  <2>2. \A b \in Box : blocked_proc_send'[b] # <<>> => blocked_proc_send[b] # <<>>
    BY <1>3 DEF Resume, SendResumes, ReceiveResumes, ReleaseStep, ReleaseSender, ReleaseReceiver, ReleaseDone,
                queueVars, IInv, TypeOK, QueuesTypeOK
  <2> QED BY <2>1, <2>2, ShrinkFull
<1>4. ASSUME NEW p \in Proc, Quit(p) PROVE SendersWaitOnlyWhenFull'
  BY <1>1, <1>4 DEF Quit
<1>5. CASE Interrupt \/ UNCHANGED vars
  BY <1>1, <1>5 DEF Interrupt, vars
<1> QED BY <1>2, <1>3, <1>4, <1>5 DEF Next

\* The only way to keep a sender waiting at a box with a free slot is a receive
\* whose buffer is too short: without such a step, senders wait on full boxes.
THEOREM SendersWaitUnlessDropped ==
  Spec /\ [][NoneDropped]_vars => []SendersWaitOnlyWhenFull
<1> DEFINE Inv == IInv /\ QInv /\ CInv /\ SendersWaitOnlyWhenFull
<1>1. Init => Inv
  <2>1. Init => SendersWaitOnlyWhenFull
    BY DEF Init, SendersWaitOnlyWhenFull
  <2> QED BY <2>1, InitIInv, InitQInv, InitCInv
<1>2. Inv /\ [Next]_vars /\ [NoneDropped]_vars => Inv'
  <2>1. SUFFICES ASSUME Inv, [Next]_vars, [NoneDropped]_vars PROVE Inv'
    OBVIOUS
  <2>2. SendersWaitOnlyWhenFull'
    BY <2>1, NextFull DEF vars, mboxVars, queueVars, SendersWaitOnlyWhenFull, Active, Full
  <2> QED BY <2>1, <2>2, NextIInv, NextQInv, NextSendersFit, NextCapacity DEF CInv
<1> QED BY <1>1, <1>2, PTL DEF Spec

-----------------------------------------------------------------------------
(***************************************************************************)
(* A box as a channel.  The messages of a box, in the order in which they  *)
(* were accepted, are those of its slots and then those that the senders   *)
(* in its queue still hold.                                                *)
(***************************************************************************)
Tag == Msg \union {NoMsg}

\* The messages that the entries of q have in the table T.
Msgs(T, q) == [i \in DOMAIN q |-> T[q[i]].message]

LEMMA MsgsType ==
  ASSUME NEW D, NEW T, \A d \in D : T[d].message \in Tag, NEW q \in Seq(D)
  PROVE  Msgs(T, q) \in Seq(Tag) /\ Len(Msgs(T, q)) = Len(q)
         /\ \A i \in DOMAIN q : Msgs(T, q)[i] = T[q[i]].message
<1>1. Len(q) \in Nat /\ DOMAIN q = 1 .. Len(q) /\ \A i \in DOMAIN q : q[i] \in D
  OBVIOUS
<1>2. Msgs(T, q) \in [1 .. Len(q) -> Tag]
  BY <1>1 DEF Msgs
<1> QED BY <1>1, <1>2 DEF Msgs

LEMMA MsgsSame ==
  ASSUME NEW T, NEW U, NEW q, \A i \in DOMAIN q : U[q[i]].message = T[q[i]].message
  PROVE  Msgs(U, q) = Msgs(T, q)
BY DEF Msgs

LEMMA MsgsEmpty == ASSUME NEW T PROVE Msgs(T, <<>>) = <<>>
<1>1. DOMAIN Msgs(T, <<>>) = {}
  BY DEF Msgs
<1> QED BY <1>1 DEF Msgs

LEMMA MsgsTail ==
  ASSUME NEW D, NEW T, \A d \in D : T[d].message \in Tag, NEW q \in Seq(D), q # <<>>
  PROVE  /\ Msgs(T, q) # <<>> /\ Msgs(T, Tail(q)) = Tail(Msgs(T, q))
         /\ Head(Msgs(T, q)) = T[Head(q)].message
<1> DEFINE A == Msgs(T, q)
           B == Msgs(T, Tail(q))
<1>1. /\ A \in Seq(Tag) /\ Len(A) = Len(q) /\ \A i \in DOMAIN q : A[i] = T[q[i]].message
      /\ Tail(q) \in Seq(D) /\ Len(Tail(q)) = Len(q) - 1 /\ Len(q) \in Nat \ {0}
      /\ DOMAIN q = 1 .. Len(q) /\ Head(q) = q[1]
      /\ \A i \in 1 .. Len(q) - 1 : Tail(q)[i] = q[i + 1]
  BY MsgsType, SeqTail
<1>2. B \in Seq(Tag) /\ Len(B) = Len(q) - 1 /\ \A i \in 1 .. Len(q) - 1 : B[i] = T[Tail(q)[i]].message
  <2> DEFINE r == Tail(q)
  <2>1. r \in Seq(D) /\ Len(r) = Len(q) - 1 /\ DOMAIN r = 1 .. Len(q) - 1
    BY <1>1
  <2> HIDE DEF r
  <2>2. /\ Msgs(T, r) \in Seq(Tag) /\ Len(Msgs(T, r)) = Len(q) - 1
        /\ \A i \in 1 .. Len(q) - 1 : Msgs(T, r)[i] = T[r[i]].message
    BY <2>1, MsgsType
  <2> QED BY <2>2 DEF r
<1> HIDE DEF A, B
<1>3. A # <<>> /\ Head(A) = A[1] /\ Tail(A) \in Seq(Tag) /\ Len(Tail(A)) = Len(A) - 1
      /\ \A i \in 1 .. Len(A) - 1 : Tail(A)[i] = A[i + 1]
  BY <1>1
<1>4. \A i \in 1 .. Len(q) - 1 : B[i] = Tail(A)[i]
  <2> TAKE i \in 1 .. Len(q) - 1
  <2>1. i + 1 \in 1 .. Len(q)
    BY <1>1
  <2>2. B[i] = T[q[i + 1]].message
    BY <1>1, <1>2
  <2> QED BY <1>1, <1>3, <2>1, <2>2
<1>5. B = Tail(A)
  BY <1>1, <1>2, <1>3, <1>4
<1> QED BY <1>1, <1>3, <1>5 DEF A, B

LEMMA MsgsAppend ==
  ASSUME NEW D, NEW T, \A d \in D : T[d].message \in Tag, NEW q \in Seq(D), NEW x \in D
  PROVE  Msgs(T, Append(q, x)) = Append(Msgs(T, q), T[x].message)
<1> DEFINE A == Msgs(T, q)
           B == Msgs(T, Append(q, x))
           m == T[x].message
<1>1. /\ A \in Seq(Tag) /\ Len(A) = Len(q) /\ \A i \in DOMAIN q : A[i] = T[q[i]].message
      /\ Append(q, x) \in Seq(D) /\ DOMAIN q = 1 .. Len(q) /\ Len(q) \in Nat /\ m \in Tag
      /\ Len(Append(q, x)) = Len(q) + 1 /\ DOMAIN Append(q, x) = 1 .. Len(q) + 1
      /\ Append(q, x)[Len(q) + 1] = x /\ \A i \in 1 .. Len(q) : Append(q, x)[i] = q[i]
  BY MsgsType, SeqAppend
<1>2. /\ B \in Seq(Tag) /\ Len(B) = Len(q) + 1
      /\ \A i \in DOMAIN Append(q, x) : B[i] = T[Append(q, x)[i]].message
  <2> DEFINE r == Append(q, x)
  <2>1. r \in Seq(D) /\ Len(r) = Len(q) + 1
    BY <1>1
  <2> HIDE DEF r
  <2>2. /\ Msgs(T, r) \in Seq(Tag) /\ Len(Msgs(T, r)) = Len(q) + 1
        /\ \A i \in DOMAIN r : Msgs(T, r)[i] = T[r[i]].message
    BY <2>1, MsgsType
  <2> QED BY <2>2 DEF r
<1> HIDE DEF B
<1>3. B[Len(q) + 1] = m
  <2>1. Len(q) + 1 \in DOMAIN Append(q, x)
    BY <1>1
  <2> QED BY <1>1, <1>2, <2>1
<1>4. \A i \in 1 .. Len(q) : B[i] = A[i]
  <2> TAKE i \in 1 .. Len(q)
  <2>1. i \in DOMAIN Append(q, x)
    BY <1>1
  <2> QED BY <1>1, <1>2, <2>1
<1> HIDE DEF A, m
<1>5. B = Append(A, m)
  BY <1>1, <1>2, <1>3, <1>4
<1> QED BY <1>5 DEF A, B, m

-----------------------------------------------------------------------------
LEMMA JoinEmpty ==
  ASSUME NEW S, NEW A \in Seq(S)
  PROVE  <<>> \o A = A /\ A \o <<>> = A
OBVIOUS

LEMMA JoinAppend ==
  ASSUME NEW S, NEW A \in Seq(S), NEW B \in Seq(S), NEW x \in S
  PROVE  A \o Append(B, x) = Append(A \o B, x)
OBVIOUS

LEMMA JoinTail ==
  ASSUME NEW S, NEW A \in Seq(S), NEW B \in Seq(S), A # <<>>
  PROVE  /\ A \o B # <<>> /\ Head(A \o B) = Head(A) /\ Tail(A) \o B = Tail(A \o B)
OBVIOUS

LEMMA JoinMove ==
  ASSUME NEW S, NEW A \in Seq(S), NEW B \in Seq(S), B # <<>>
  PROVE  Append(A, Head(B)) \o Tail(B) = A \o B
OBVIOUS

-----------------------------------------------------------------------------
(***************************************************************************)
(* A box is a FIFO channel in the uses for which it is one.                *)
(***************************************************************************)
\* MboxCreate takes no box whose release is under way (phase2.c:230-241).
NoneReused ==
  \A b \in Box : ~Active(b) /\ Active(b)' =>
    \A p \in Proc : pc[p] \in {"relSend", "relRecv"} => arg[p] # b

\* What is received from a blocked sender fits the buffer (phase2.c:455-462).
NoneCut ==
  \A p \in Proc, a \in RecvArgs \union CondRecvArgs :
    TakeFromSender(p, a.mbox_id, a.msg_ptr, a.msg_size) =>
      a.msg_ptr /\ mproc[Head(blocked_proc_send[a.mbox_id])].message_size <= a.msg_size

\* No receiver waits: it does so at boxes without slots and for messages of
\* size 0 only (phase2.c:473, 490).
NoneAwaited == \A p \in Proc : pc'[p] \notin {"recv", "recvZero"}

ReliableUse == NoneReused /\ NoneDropped /\ NoneCut
ChannelUse == ReliableUse /\ NoneAwaited

NoReceivers == \A p \in Proc : pc[p] \notin {"recv", "recvZero"}

\* Messages, in the slots and in the frames of senders.
SlotsFilled ==
  \A s \in Slot : MailSlotTable[s].status = "IN_USE" =>
    MailSlotTable[s].message \in Msg /\ MailSlotTable[s].message_size >= 0

FramesFilled == \A p \in Proc : pc[p] = "send" => mproc[p].message_size >= 0

Releasing == \A p \in Proc : pc[p] \in {"relSend", "relRecv"} => ~Active(arg[p])

Receiving(p) == pc[p] \in {"recv", "recvZero"}

\* A receiver that is blocked has no message yet.
ReceiversEmpty ==
  \A p \in Proc : Receiving(p) =>
    /\ status[p] \in Blocked => mproc[p].message = NoMsg
    /\ mproc[p].message # NoMsg => mproc[p].message_size >= 0

MInv == IInv /\ QInv /\ CInv /\ Releasing /\ SlotsFilled /\ FramesFilled /\ ReceiversEmpty

\* The invariant where no receiver waits.
FInv == MInv /\ SendersWaitOnlyWhenFull /\ NoReceivers

LEMMA NobodyReceives ==
  ASSUME IInv, QInv, NoReceivers
  PROVE  /\ \A b \in Box : blocked_proc_receive[b] = <<>>
         /\ \A b \in Box : \A i \in DOMAIN blocked_proc_send[b] :
              /\ blocked_proc_send[b][i] \in Proc /\ pc[blocked_proc_send[b][i]] = "send"
              /\ status[blocked_proc_send[b][i]] \in Blocked
<1>1. ASSUME NEW b \in Box PROVE blocked_proc_receive[b] = <<>>
  <2>1. \A i \in DOMAIN blocked_proc_receive[b] : FALSE
    BY DEF QInv, QueuesHold, QueueOf, WaitingAt, ReceiverPlaces, NoReceivers
  <2>2. blocked_proc_receive[b] \in Seq(Proc)
    BY DEF IInv, TypeOK, QueuesTypeOK
  <2>3. blocked_proc_receive[b] # <<>> => 1 \in DOMAIN blocked_proc_receive[b]
    BY <2>2, SeqTail
  <2> QED BY <2>1, <2>3
<1>2. ASSUME NEW b \in Box, NEW i \in DOMAIN blocked_proc_send[b]
      PROVE  /\ blocked_proc_send[b][i] \in Proc /\ pc[blocked_proc_send[b][i]] = "send"
             /\ status[blocked_proc_send[b][i]] \in Blocked
  BY DEF QInv, QueuesHold, QueueOf, WaitingAt, SenderPlaces, NoReceivers
<1> QED BY <1>1, <1>2

LEMMA NextReleasing ==
  ASSUME IInv, Releasing, [Next]_vars, NoneReused
  PROVE  Releasing'
<1>1. ASSUME NEW p \in Proc, pc'[p] \in {"relSend", "relRecv"},
             pc[p] \in {"relSend", "relRecv"}, arg'[p] = arg[p]
      PROVE  ~Active(arg[p])'
  <2>1. arg[p] \in Box /\ ~Active(arg[p])
    BY <1>1 DEF Releasing, IInv, TypeOK, CallsTypeOK
  <2>2. PICK b \in Box : b = arg[p]
    BY <2>1
  <2>3. ~Active(b)'
    BY <1>1, <2>1, <2>2 DEF NoneReused
  <2> QED BY <1>1, <2>2, <2>3 DEF Active
<1>2. CASE UNCHANGED callVars
  BY <1>1, <1>2 DEF callVars, Releasing
<1>3. ASSUME NEW p \in Proc, NEW b, ReleaseBox(p, b) PROVE Releasing'
  <2>1. b \in Box /\ ~Active(b)'
    BY <1>3 DEF ReleaseBox, FreeBox, Active, IInv, TypeOK, BoxesTypeOK
  <2>2. pc' = [pc EXCEPT ![p] = "relSend"] /\ arg' = [arg EXCEPT ![p] = b]
    BY <1>3 DEF ReleaseBox
  <2>3. ASSUME NEW q \in Proc, pc'[q] \in {"relSend", "relRecv"} PROVE ~Active(arg[q])'
    <3>1. CASE q = p
      BY <2>1, <2>2, <3>1 DEF Active, IInv, TypeOK, CallsTypeOK
    <3>2. CASE q # p
      BY <1>1, <2>2, <2>3, <3>2 DEF IInv, TypeOK, CallsTypeOK
    <3> QED BY <3>1, <3>2
  <2> QED BY <2>3 DEF Releasing
<1>4. ASSUME NEW p \in Proc, NEW where, where \notin {"relSend", "relRecv"}, NEW x,
             pc' = [pc EXCEPT ![p] = where], arg' = [arg EXCEPT ![p] = x]
      PROVE  Releasing'
  BY <1>1, <1>4 DEF Releasing, IInv, TypeOK, CallsTypeOK
<1>5. ASSUME NEW p \in Proc, pc[p] \in {"relSend", "relRecv"}, UNCHANGED arg,
             UNCHANGED pc \/ pc' = [pc EXCEPT ![p] = "relRecv"]
      PROVE  Releasing'
  BY <1>1, <1>5 DEF Releasing, IInv, TypeOK, CallsTypeOK
<1>6. CASE UNCHANGED pc /\ UNCHANGED arg
  BY <1>1, <1>6 DEF Releasing
<1>7. ASSUME NEW p \in Proc, Call(p) PROVE Releasing'
  <2>1. ASSUME NEW b, NEW n, MboxSend(p, b, n) \/ MboxCondSend(p, b, n) PROVE Releasing'
    <3>1. CASE SendBlocks(p, b, n)
      BY <1>4, <3>1 DEF SendBlocks, BlockIn
    <3> QED BY <1>6, <2>1, <3>1 DEF MboxSend, MboxCondSend, SendInvalid, HandOff, SendToSlot,
                                    SendOverflow, CondSendFails, callVars
  <2>2. ASSUME NEW b, NEW ptr, NEW n, MboxReceive(p, b, ptr, n) \/ MboxCondReceive(p, b, ptr, n)
        PROVE  Releasing'
    <3>1. CASE WaitOnZeroSlots(p, b, ptr, n) \/ WaitForSignal(p, b, ptr, n)
      BY <1>4, <3>1 DEF WaitOnZeroSlots, WaitForSignal, BlockIn
    <3> QED BY <1>2, <2>2, <3>1 DEF MboxReceive, MboxCondReceive, ReceiveInvalid, TakeFromSender,
                                    NothingQueued, DropTooLong, TakeFromSlot, NoSender
  <2>3. ASSUME NEW b, MboxRelease(p, b) PROVE Releasing'
    BY <1>2, <1>3, <2>3 DEF MboxRelease, ReleaseRefused
  <2> QED BY <1>2, <1>7, <2>1, <2>2, <2>3 DEF Call, MboxCreate
<1>8. ASSUME NEW p \in Proc, Resume(p) PROVE Releasing'
  <2>1. CASE SendResumes(p) \/ ReceiveResumes(p)
    BY <1>4, <2>1 DEF SendResumes, ReceiveResumes
  <2>2. CASE ReleaseStep(p)
    BY <1>4, <1>5, <2>2 DEF ReleaseStep, ReleaseSender, ReleaseReceiver, ReleaseDone
  <2> QED BY <1>8, <2>1, <2>2 DEF Resume
<1> QED BY <1>2, <1>7, <1>8 DEF Next, Interrupt, Quit, vars

\* A table whose entries were there, are free, or hold a message.
LEMMA StepFilled ==
  ASSUME SlotsFilled,
         \A s \in Slot : \/ MailSlotTable'[s] = MailSlotTable[s]
                         \/ MailSlotTable'[s].status = "EMPTY"
                         \/ MailSlotTable'[s].message \in Msg /\ MailSlotTable'[s].message_size >= 0
  PROVE  SlotsFilled'
BY DEF SlotsFilled

\* The receiver that a send serves.
LEMMA HeadReceives ==
  ASSUME IInv, QInv, NEW b \in Box, blocked_proc_receive[b] # <<>>
  PROVE  LET q == Head(blocked_proc_receive[b])
         IN  q \in Proc /\ pc[q] = "recv" /\ status[q] \in Blocked
<1>1. blocked_proc_receive[b] \in Seq(Proc)
  BY DEF IInv, TypeOK, QueuesTypeOK
<1> QED BY <1>1, SeqTail DEF QInv, QueuesHold, QueueOf, WaitingAt, ReceiverPlaces

LEMMA NextSlotsFilled ==
  ASSUME MInv, [Next]_vars
  PROVE  SlotsFilled'
<1>0. SlotsFilled /\ IInv /\ QInv /\ CInv /\ FramesFilled
  BY DEF MInv
<1>1. CASE UNCHANGED MailSlotTable
  BY <1>0, <1>1, StepFilled
<1>2. ASSUME NEW p \in Proc, NEW b, ReleaseBox(p, b) PROVE SlotsFilled'
  <2>1. \A s \in Slot : MailSlotTable'[s] = MailSlotTable[s] \/ MailSlotTable'[s].status = "EMPTY"
    BY <1>2 DEF ReleaseBox, EmptySlots, FreeSlot
  <2> QED BY <1>0, <2>1, StepFilled
<1>3. ASSUME NEW p \in Proc, NEW b, NEW n \in Int, SendToSlot(p, b, n), sent < MaxMsg
      PROVE  SlotsFilled'
  <2> DEFINE t == NextSlot(MailSlotTable)
             e == [status |-> "IN_USE", message_size |-> n, message |-> sent + 1]
  <2>1. MailSlotTable' = [MailSlotTable EXCEPT ![t] = e] /\ n >= 0
    BY <1>3 DEF SendToSlot, createSlot, ValidSend
  <2>2. e.message \in Msg /\ e.message_size >= 0
    BY <1>0, <1>3, <2>1, MailboxAssumption DEF Msg, IInv, TypeOK, SeenTypeOK
  <2> HIDE DEF t, e
  <2> QED BY <1>0, <2>1, <2>2, StepFilled DEF IInv, TypeOK, SlotsTypeOK
<1>4. ASSUME NEW p \in Proc, NEW b, NEW ptr, NEW n, TakeFromSlot(p, b, ptr, n) PROVE SlotsFilled'
  <2> DEFINE s == Head(queue_slots[b])
             freed == [MailSlotTable EXCEPT ![s] = FreeSlot]
             t == NextSlot(freed)
             q == Head(blocked_proc_send[b])
             e == [status |-> "IN_USE", message_size |-> mproc[q].message_size,
                   message |-> mproc[q].message]
  <2>1. b \in Box /\ Active(b) /\ MailBoxTable[b].total_slots # 0 /\ Refill(p, b, freed)
    BY <1>4 DEF TakeFromSlot, Slotted, ValidReceive
  <2>2. \A u \in Slot : freed[u] = MailSlotTable[u] \/ freed[u].status = "EMPTY"
    BY <1>0 DEF FreeSlot, IInv, TypeOK, SlotsTypeOK
  <2>3. DOMAIN freed = Slot
    BY <1>0 DEF IInv, TypeOK, SlotsTypeOK
  <2>4. CASE blocked_proc_send[b] = <<>>
    <3>1. MailSlotTable' = freed
      BY <2>1, <2>4 DEF Refill
    <3> QED BY <1>0, <2>2, <3>1, StepFilled
  <2>5. CASE blocked_proc_send[b] # <<>>
    <3>1. MailSlotTable' = [freed EXCEPT ![t] = e]
      BY <2>1, <2>5 DEF Refill, createSlot
    <3>2. e.message \in Msg /\ e.message_size >= 0
      <4>1. blocked_proc_send[b] \in Seq(Proc)
        BY <1>0, <2>1 DEF IInv, TypeOK, QueuesTypeOK
      <4>2. q \in Proc /\ pc[q] = "send"
        BY <1>0, <2>1, <2>5, <4>1, SeqTail DEF CInv, SendersFit, SenderFits
      <4> QED BY <1>0, <4>2 DEF FramesFilled, IInv, TypeOK, CallsTypeOK
    <3> HIDE DEF freed, t, e, q
    <3> QED BY <1>0, <2>2, <2>3, <3>1, <3>2, StepFilled
  <2> QED BY <2>4, <2>5
<1>5. ASSUME NEW p \in Proc, Call(p) PROVE SlotsFilled'
  <2>1. ASSUME NEW b, NEW n \in Int, MboxSend(p, b, n) \/ MboxCondSend(p, b, n) PROVE SlotsFilled'
    <3>1. sent < MaxMsg
      BY <2>1 DEF MboxSend, MboxCondSend
    <3> QED BY <1>1, <1>3, <2>1, <3>1 DEF MboxSend, MboxCondSend, SendInvalid, HandOff, SendBlocks,
                               SendOverflow, CondSendFails, slotVars
  <2>2. ASSUME NEW b, NEW ptr, NEW n, MboxReceive(p, b, ptr, n) \/ MboxCondReceive(p, b, ptr, n)
        PROVE  SlotsFilled'
    BY <1>1, <1>4, <2>2 DEF MboxReceive, MboxCondReceive, ReceiveInvalid, TakeFromSender, WaitOnZeroSlots,
                            WaitForSignal, NothingQueued, DropTooLong, NoSender, slotVars
  <2>3. ASSUME NEW b, MboxRelease(p, b) PROVE SlotsFilled'
    BY <1>1, <1>2, <2>3 DEF MboxRelease, ReleaseRefused, slotVars
  <2> QED BY <1>1, <1>5, <2>1, <2>2, <2>3, MailboxAssumption DEF Call, MboxCreate, slotVars
<1>6. ASSUME NEW p \in Proc, Resume(p) \/ Quit(p) PROVE SlotsFilled'
  BY <1>1, <1>6 DEF Resume, SendResumes, ReceiveResumes, ReleaseStep, Quit, slotVars
<1> QED BY <1>1, <1>5, <1>6 DEF Next, Interrupt, vars, slotVars

LEMMA NextFramesFilled ==
  ASSUME MInv, [Next]_vars
  PROVE  FramesFilled'
<1>0. FramesFilled /\ IInv /\ QInv
  BY DEF MInv
<1>1. CASE UNCHANGED <<pc, mproc>>
  BY <1>0, <1>1 DEF FramesFilled
<1>2. ASSUME NEW p \in Proc, UNCHANGED mproc, NEW where, where # "send", pc' = [pc EXCEPT ![p] = where]
      PROVE  FramesFilled'
  BY <1>0, <1>2 DEF FramesFilled, IInv, TypeOK, CallsTypeOK
<1>3. ASSUME NEW p \in Proc, NEW where, NEW r, where = "send" => r.message_size >= 0,
             pc' = [pc EXCEPT ![p] = where], mproc' = [mproc EXCEPT ![p] = r]
      PROVE  FramesFilled'
  BY <1>0, <1>3 DEF FramesFilled, IInv, TypeOK, CallsTypeOK
<1>4. ASSUME NEW p \in Proc, Call(p) PROVE FramesFilled'
  <2>1. ASSUME NEW b, NEW n, MboxSend(p, b, n) \/ MboxCondSend(p, b, n) PROVE FramesFilled'
    <3>1. CASE SendBlocks(p, b, n)
      BY <1>3, <3>1 DEF SendBlocks, BlockIn, ValidSend
    <3>2. CASE HandOff(p, b, n)
      <4>1. pc[Head(blocked_proc_receive[b])] # "send"
        BY <1>0, <3>2, HeadReceives DEF HandOff, CanHandOff, ValidSend
      <4> QED BY <1>0, <3>2, <4>1 DEF HandOff, FramesFilled, IInv, TypeOK, CallsTypeOK
    <3> QED BY <1>1, <2>1, <3>1, <3>2 DEF MboxSend, MboxCondSend, SendInvalid, SendToSlot,
                                    SendOverflow, CondSendFails, callVars
  <2>2. ASSUME NEW b, NEW ptr, NEW n, MboxReceive(p, b, ptr, n) \/ MboxCondReceive(p, b, ptr, n)
        PROVE  FramesFilled'
    <3>1. CASE WaitOnZeroSlots(p, b, ptr, n) \/ WaitForSignal(p, b, ptr, n)
      BY <1>3, <3>1 DEF WaitOnZeroSlots, WaitForSignal, BlockIn
    <3> QED BY <1>1, <2>2, <3>1 DEF MboxReceive, MboxCondReceive, ReceiveInvalid, TakeFromSender,
                                    NothingQueued, DropTooLong, TakeFromSlot, NoSender, callVars
  <2>3. ASSUME NEW b, MboxRelease(p, b) PROVE FramesFilled'
    BY <1>1, <1>2, <2>3 DEF MboxRelease, ReleaseRefused, ReleaseBox, callVars
  <2> QED BY <1>1, <1>4, <2>1, <2>2, <2>3 DEF Call, MboxCreate, callVars
<1>5. ASSUME NEW p \in Proc, Resume(p) PROVE FramesFilled'
  <2>1. CASE SendResumes(p) \/ ReceiveResumes(p)
    BY <1>3, <2>1 DEF SendResumes, ReceiveResumes
  <2>2. CASE ReleaseStep(p)
    BY <1>1, <1>2, <2>2 DEF ReleaseStep, ReleaseSender, ReleaseReceiver, ReleaseDone
  <2> QED BY <1>5, <2>1, <2>2 DEF Resume
<1> QED BY <1>1, <1>4, <1>5 DEF Next, Interrupt, Quit, vars, callVars

LEMMA NextReceiversEmpty ==
  ASSUME MInv, [Next]_vars
  PROVE  ReceiversEmpty'
<1>0. ReceiversEmpty /\ IInv /\ QInv
  BY DEF MInv
<1>1. CASE UNCHANGED <<pc, mproc>> /\ \A q \in Proc : status'[q] \in Blocked => status[q] \in Blocked
  BY <1>0, <1>1 DEF ReceiversEmpty, Receiving
<1>2. ASSUME NEW p \in Proc, NEW where, NEW r, pc' = [pc EXCEPT ![p] = where],
             \/ UNCHANGED mproc /\ where \notin {"recv", "recvZero"}
             \/ mproc' = [mproc EXCEPT ![p] = r] /\ (where \in {"recv", "recvZero"} => r.message = NoMsg),
             \A q \in Proc \ {p} : status'[q] \in Blocked => status[q] \in Blocked
      PROVE  ReceiversEmpty'
  <2>1. ASSUME NEW q \in Proc, q # p, Receiving(q)'
        PROVE  /\ status'[q] \in Blocked => mproc'[q].message = NoMsg
               /\ mproc'[q].message # NoMsg => mproc'[q].message_size >= 0
    <3>1. pc'[q] = pc[q] /\ mproc'[q] = mproc[q]
      BY <1>0, <1>2, <2>1 DEF IInv, TypeOK, CallsTypeOK
    <3> QED BY <1>0, <1>2, <2>1, <3>1 DEF ReceiversEmpty, Receiving
  <2>2. Receiving(p)' => mproc'[p].message = NoMsg
    BY <1>0, <1>2 DEF Receiving, IInv, TypeOK, CallsTypeOK
  <2> QED BY <2>1, <2>2 DEF ReceiversEmpty
<1>3. ASSUME NEW p \in Proc, NEW q \in Proc, UnblockProc(p, q)
      PROVE  \A r \in Proc : status'[r] \in Blocked => status[r] \in Blocked
  BY <1>0, <1>3 DEF UnblockProc, Blocked, IInv, TypeOK, KernelTypeOK
<1>4. ASSUME NEW p \in Proc, NEW on, ReturnWith(p, on)
      PROVE  \A r \in Proc : status'[r] \in Blocked => status[r] \in Blocked
  BY <1>4 DEF ReturnWith
<1>5. ASSUME NEW p \in Proc, Call(p) PROVE ReceiversEmpty'
  <2>1. ASSUME NEW b, NEW n, MboxSend(p, b, n) \/ MboxCondSend(p, b, n) PROVE ReceiversEmpty'
    <3>1. CASE SendBlocks(p, b, n)
      <4>1. \A q \in Proc \ {p} : status'[q] \in Blocked => status[q] \in Blocked
        BY <1>0, <3>1 DEF SendBlocks, BlockIn, BlockMe, IInv, TypeOK, KernelTypeOK
      <4> QED BY <1>2, <3>1, <4>1 DEF SendBlocks, BlockIn
    <3>2. CASE HandOff(p, b, n)
      <4> DEFINE q == Head(blocked_proc_receive[b])
                 r == msgToProc(mproc[q], sent + 1, n)
      <4>1. q \in Proc /\ pc[q] = "recv" /\ status[q] \in Blocked
        BY <1>0, <3>2, HeadReceives DEF HandOff, CanHandOff, ValidSend
      <4>2. status'[q] \notin Blocked /\ \A x \in Proc : status'[x] \in Blocked => status[x] \in Blocked
        BY <1>0, <3>2, <4>1 DEF HandOff, UnblockProc, Blocked, IInv, TypeOK, KernelTypeOK
      <4>3. r.message # NoMsg => r.message_size >= 0
        <5>1. mproc[q].message = NoMsg /\ n >= 0 /\ mproc[q] \in ProcRecord
          BY <1>0, <3>2, <4>1 DEF ReceiversEmpty, Receiving, HandOff, ValidSend, IInv, TypeOK, CallsTypeOK
        <5> QED BY <5>1 DEF msgToProc, ProcRecord
      <4>4. UNCHANGED pc /\ mproc' = [mproc EXCEPT ![q] = r]
        BY <3>2 DEF HandOff
      <4> HIDE DEF q, r
      <4>5. mproc'[q] = r /\ \A x \in Proc \ {q} : mproc'[x] = mproc[x]
        BY <1>0, <4>1, <4>4 DEF IInv, TypeOK, CallsTypeOK
      <4> QED BY <1>0, <4>2, <4>3, <4>4, <4>5 DEF ReceiversEmpty, Receiving
    <3>3. CASE SendOverflow(p, b, n)
      BY <1>1, <3>3 DEF SendOverflow, kernelVars, callVars
    <3> QED BY <1>1, <1>4, <2>1, <3>1, <3>2, <3>3
               DEF MboxSend, MboxCondSend, SendInvalid, SendToSlot, CondSendFails, callVars
  <2>2. ASSUME NEW b, NEW ptr, NEW n, MboxReceive(p, b, ptr, n) \/ MboxCondReceive(p, b, ptr, n)
        PROVE  ReceiversEmpty'
    <3>1. CASE WaitOnZeroSlots(p, b, ptr, n) \/ WaitForSignal(p, b, ptr, n)
      <4>1. \A q \in Proc \ {p} : status'[q] \in Blocked => status[q] \in Blocked
        BY <1>0, <3>1 DEF WaitOnZeroSlots, WaitForSignal, BlockIn, BlockMe, IInv, TypeOK, KernelTypeOK
      <4>2. Buffer(ptr, n).message = NoMsg
        BY DEF Buffer
      <4> QED BY <1>2, <3>1, <4>1, <4>2 DEF WaitOnZeroSlots, WaitForSignal, BlockIn
    <3>2. CASE TakeFromSender(p, b, ptr, n) \/ TakeFromSlot(p, b, ptr, n)
      <4>1. blocked_proc_send[b] # <<>> => Head(blocked_proc_send[b]) \in Proc
        BY <1>0, <3>2 DEF TakeFromSender, TakeFromSlot, Slotted, ValidReceive, IInv, TypeOK, QueuesTypeOK
      <4>2. \/ \E q \in Proc : UnblockProc(p, q)
            \/ ReturnWith(p, TRUE)
        BY <3>2, <4>1 DEF TakeFromSender, TakeFromSlot, Refill
      <4> QED BY <1>1, <1>3, <1>4, <3>2, <4>2 DEF TakeFromSender, TakeFromSlot, callVars
    <3> QED BY <1>1, <1>4, <2>2, <3>1, <3>2 DEF MboxReceive, MboxCondReceive, ReceiveInvalid,
                                    NothingQueued, DropTooLong, NoSender, callVars
  <2>3. ASSUME NEW b, MboxRelease(p, b) PROVE ReceiversEmpty'
    <3>1. CASE ReleaseRefused(p, b)
      BY <1>1, <1>4, <3>1 DEF ReleaseRefused, callVars
    <3>2. CASE ReleaseBox(p, b)
      BY <1>2, <1>4, <3>2 DEF ReleaseBox
    <3> QED BY <2>3, <3>1, <3>2 DEF MboxRelease
  <2>4. ASSUME NEW a, MboxCreate(p, a) PROVE ReceiversEmpty'
    BY <1>1, <1>4, <2>4 DEF MboxCreate, CreateFails, CreateBox, callVars
  <2> QED BY <1>5, <2>1, <2>2, <2>3, <2>4 DEF Call
<1>6. ASSUME NEW p \in Proc, Resume(p) PROVE ReceiversEmpty'
  <2>1. CASE SendResumes(p) \/ ReceiveResumes(p)
    <3>1. \A q \in Proc : status'[q] \in Blocked => status[q] \in Blocked
      BY <2>1 DEF SendResumes, ReceiveResumes, ReturnWith
    <3> QED BY <1>2, <2>1, <3>1 DEF SendResumes, ReceiveResumes
  <2>2. CASE ReleaseStep(p)
    <3>1. arg[p] \in Box
      BY <1>0, <2>2 DEF ReleaseStep, IInv, TypeOK, CallsTypeOK
    <3>2. \A q \in Proc : status'[q] \in Blocked => status[q] \in Blocked
      <4>1. /\ blocked_proc_send[arg[p]] # <<>> => Head(blocked_proc_send[arg[p]]) \in Proc
            /\ blocked_proc_receive[arg[p]] # <<>> => Head(blocked_proc_receive[arg[p]]) \in Proc
        BY <1>0, <3>1 DEF IInv, TypeOK, QueuesTypeOK
      <4> QED BY <1>3, <1>4, <2>2, <4>1 DEF ReleaseStep, ReleaseSender, ReleaseReceiver, ReleaseDone
    <3>3. \/ UNCHANGED pc
          \/ \E where : where \notin {"recv", "recvZero"} /\ pc' = [pc EXCEPT ![p] = where]
      BY <2>2 DEF ReleaseStep, ReleaseSender, ReleaseReceiver, ReleaseDone
    <3> QED BY <1>1, <1>2, <2>2, <3>2, <3>3 DEF ReleaseStep
  <2> QED BY <1>6, <2>1, <2>2 DEF Resume
<1>7. ASSUME NEW p \in Proc, Quit(p) PROVE ReceiversEmpty'
  <2>1. \A q \in Proc : status'[q] \in Blocked => status[q] \in Blocked
    BY <1>0, <1>7 DEF Quit, QuitProc, Blocked, IInv, TypeOK, KernelTypeOK
  <2> QED BY <1>1, <1>7, <2>1 DEF Quit, callVars
<1>8. CASE Interrupt
  BY <1>1, <1>8 DEF Interrupt, TimeSlice, Zap, callVars
<1>9. CASE UNCHANGED vars
  BY <1>1, <1>9 DEF vars, kernelVars, callVars
<1> QED BY <1>5, <1>6, <1>7, <1>8, <1>9 DEF Next

LEMMA InitMInv == Init => MInv
<1> SUFFICES ASSUME Init PROVE MInv
  OBVIOUS
<1>1. IInv /\ QInv /\ CInv
  BY InitIInv, InitQInv, InitCInv
<1>2. Releasing /\ SlotsFilled /\ FramesFilled /\ ReceiversEmpty
  BY DEF Init, Releasing, SlotsFilled, FramesFilled, FreeSlot, ReceiversEmpty, Receiving
<1> QED BY <1>1, <1>2 DEF MInv

LEMMA NextMInv ==
  ASSUME MInv, [Next]_vars, NoneReused
  PROVE  MInv'
<1>1. IInv' /\ QInv' /\ CInv'
  BY NextIInv, NextQInv, NextSendersFit, NextCapacity DEF MInv, CInv
<1> QED BY <1>1, NextReleasing, NextSlotsFilled, NextFramesFilled, NextReceiversEmpty DEF MInv

\* A stuttering step is such a use.
LEMMA StutterReliable ==
  ASSUME MInv, [ReliableUse]_vars
  PROVE  ReliableUse
<1> SUFFICES ASSUME UNCHANGED vars PROVE ReliableUse
  OBVIOUS
<1>1. NoneReused
  BY DEF vars, mboxVars, Active, NoneReused
<1>2. UNCHANGED <<queue_slots, blocked_proc_send>>
  BY DEF vars, queueVars
<1>3. ASSUME NEW S, NEW Q \in [Box -> Seq(S)], NEW b \in Box, Q[b] # <<>>
      PROVE  [Q EXCEPT ![b] = Tail(@)] # Q
  <2>1. Len(Tail(Q[b])) # Len(Q[b])
    BY <1>3, SeqTail
  <2> QED BY <2>1
<1>4. queue_slots \in [Box -> Seq(Slot)] /\ blocked_proc_send \in [Box -> Seq(Proc)]
  BY DEF MInv, IInv, TypeOK, QueuesTypeOK
<1>5. NoneDropped
  BY <1>2, <1>3, <1>4 DEF NoneDropped, DropTooLong, Slotted, ValidReceive
<1>6. NoneCut
  BY <1>2, <1>3, <1>4 DEF NoneCut, TakeFromSender, ValidReceive
<1> QED BY <1>1, <1>5, <1>6 DEF ReliableUse

LEMMA InitFInv == Init => FInv
<1>1. Init => SendersWaitOnlyWhenFull /\ NoReceivers
  BY DEF Init, SendersWaitOnlyWhenFull, NoReceivers
<1> QED BY <1>1, InitMInv DEF FInv

LEMMA NextFInv ==
  ASSUME FInv, [Next]_vars, ChannelUse
  PROVE  FInv'
<1>1. MInv'
  BY NextMInv DEF FInv, ChannelUse, ReliableUse
<1>2. SendersWaitOnlyWhenFull'
  BY NextFull DEF FInv, MInv, ChannelUse, ReliableUse
<1>3. NoReceivers'
  BY DEF ChannelUse, NoneAwaited, NoReceivers
<1> QED BY <1>1, <1>2, <1>3 DEF FInv

-----------------------------------------------------------------------------
(***************************************************************************)
(* The steps of the channels.                                              *)
(***************************************************************************)
\* What a box holds as a channel.
Holds(b) == IF Active(b) THEN Pending(b) ELSE <<>>
Channels == [b \in Box |-> Holds(b)]

LEMMA PendingIs ==
  ASSUME NEW b
  PROVE  /\ Pending(b) = Msgs(MailSlotTable, queue_slots[b]) \o Msgs(mproc, blocked_proc_send[b])
         /\ Pending(b)' = Msgs(MailSlotTable', queue_slots'[b]) \o Msgs(mproc', blocked_proc_send'[b])
BY DEF Pending, Msgs

\* The types of its two parts.
LEMMA PartsTypes ==
  ASSUME TypeOK, NEW b \in Box
  PROVE  /\ Msgs(MailSlotTable, queue_slots[b]) \in Seq(Tag)
         /\ Msgs(mproc, blocked_proc_send[b]) \in Seq(Tag)
         /\ queue_slots[b] \in Seq(Slot) /\ blocked_proc_send[b] \in Seq(Proc)
         /\ \A s \in Slot : MailSlotTable[s].message \in Tag
         /\ \A p \in Proc : mproc[p].message \in Tag
<1>1. /\ queue_slots[b] \in Seq(Slot) /\ blocked_proc_send[b] \in Seq(Proc)
      /\ \A s \in Slot : MailSlotTable[s].message \in Tag
      /\ \A p \in Proc : mproc[p].message \in Tag
  BY DEF TypeOK, QueuesTypeOK, SlotsTypeOK, CallsTypeOK, SlotRecord, ProcRecord, Tag
<1> QED BY <1>1, MsgsType

\* A box whose queues, slots and senders stay.
LEMMA HoldsSame ==
  ASSUME NEW b \in Box, Active(b)' <=> Active(b),
         Active(b) =>
           /\ queue_slots'[b] = queue_slots[b] /\ blocked_proc_send'[b] = blocked_proc_send[b]
           /\ \A i \in DOMAIN queue_slots[b] :
                MailSlotTable'[queue_slots[b][i]] = MailSlotTable[queue_slots[b][i]]
           /\ \A i \in DOMAIN blocked_proc_send[b] :
                mproc'[blocked_proc_send[b][i]] = mproc[blocked_proc_send[b][i]]
  PROVE  Holds(b)' = Holds(b)
<1>1. CASE Active(b)
  <2>1. Msgs(MailSlotTable', queue_slots[b]) = Msgs(MailSlotTable, queue_slots[b])
    BY <1>1, MsgsSame
  <2>2. Msgs(mproc', blocked_proc_send[b]) = Msgs(mproc, blocked_proc_send[b])
    BY <1>1, MsgsSame
  <2>3. Pending(b)' = Pending(b)
    BY <1>1, <2>1, <2>2, PendingIs
  <2> QED BY <1>1, <2>3 DEF Holds
<1>2. CASE ~Active(b)
  BY <1>2 DEF Holds
<1> QED BY <1>1, <1>2

\* The step of a channel from what it does to the boxes.
LEMMA ChannelStep ==
  ASSUME NEW b \in Box, \A c \in Box \ {b} : Holds(c)' = Holds(c),
         \/ sent' = sent + 1 /\ Holds(b)' = Append(Holds(b), sent + 1) /\ UNCHANGED got
         \/ /\ Holds(b) # <<>> /\ Holds(b)' = Tail(Holds(b)) /\ UNCHANGED sent
            /\ got' = [got EXCEPT ![b] = Append(@, Head(Holds(b)))]
         \/ Holds(b)' = <<>> /\ UNCHANGED <<got, sent>>
  PROVE  Chan!Next
<1>1. /\ Channels' = [Channels EXCEPT ![b] = Holds(b)'] /\ Channels[b] = Holds(b)
  BY DEF Channels
<1>2. \/ sent' = sent + 1 /\ Channels' = [Channels EXCEPT ![b] = Append(@, sent + 1)] /\ UNCHANGED got
      \/ /\ Channels[b] # <<>> /\ Channels' = [Channels EXCEPT ![b] = Tail(@)] /\ UNCHANGED sent
         /\ got' = [got EXCEPT ![b] = Append(@, Head(Channels[b]))]
      \/ Channels' = [Channels EXCEPT ![b] = <<>>] /\ UNCHANGED <<got, sent>>
  BY <1>1
<1> QED BY <1>2 DEF Chan!Next, Chan!Put, Chan!Get, Chan!Clear, Channels, Holds

LEMMA ChannelStutters ==
  ASSUME \A c \in Box : Holds(c)' = Holds(c), UNCHANGED <<got, sent>>
  PROVE  UNCHANGED Chan!vars
BY DEF Chan!vars, Holds

\* A sender that is blocked keeps its message.
LEMMA SendersKeep ==
  ASSUME IInv, QInv, NoReceivers, FramesKept, NEW b \in Box, NEW i \in DOMAIN blocked_proc_send[b]
  PROVE  mproc'[blocked_proc_send[b][i]] = mproc[blocked_proc_send[b][i]]
BY NobodyReceives DEF FramesKept, SenderPlaces

\* A step that changes neither the boxes nor the queues of messages.
LEMMA QuietChannels ==
  ASSUME FInv, FramesKept, UNCHANGED <<MailBoxTable, MailSlotTable, queue_slots, got, sent>>,
         \A b \in Box : Active(b) => blocked_proc_send'[b] = blocked_proc_send[b]
  PROVE  UNCHANGED Chan!vars
<1>1. ASSUME NEW c \in Box PROVE Holds(c)' = Holds(c)
  BY SendersKeep, HoldsSame DEF Active, FInv, MInv
<1> QED BY <1>1, ChannelStutters

LEMMA CreateChannel ==
  ASSUME FInv, FramesKept, NEW p \in Proc, NEW a \in CreateArgs, MboxCreate(p, a)
  PROVE  UNCHANGED Chan!vars
<1>1. CASE CreateFails(p, a)
  BY <1>1, QuietChannels DEF MboxCreate, CreateFails, mboxVars, queueVars, slotVars, seenVars
<1>2. CASE CreateBox(p, a)
  <2>1. PICK n \in Box : n = NextBox /\ ~Active(n)
    BY <1>2, NextBoxIsFree DEF CreateBox, FInv, MInv
  <2>2. /\ queue_slots'[n] = <<>> /\ blocked_proc_send'[n] = <<>> /\ UNCHANGED <<MailSlotTable, got, sent>>
        /\ \A b \in Box \ {n} : /\ MailBoxTable'[b] = MailBoxTable[b] /\ queue_slots'[b] = queue_slots[b]
                                /\ blocked_proc_send'[b] = blocked_proc_send[b]
    BY <1>2, <2>1 DEF MboxCreate, CreateBox, slotVars, seenVars, FInv, MInv, IInv, TypeOK, BoxesTypeOK, QueuesTypeOK
  <2>3. Holds(n)' = <<>> /\ Holds(n) = <<>>
    <3>1. Pending(n)' = <<>> \o <<>>
      BY <2>2, PendingIs, MsgsEmpty
    <3> QED BY <2>1, <3>1 DEF Holds
  <2>4. ASSUME NEW b \in Box \ {n} PROVE Holds(b)' = Holds(b)
    BY <2>2, SendersKeep, HoldsSame DEF Active, FInv, MInv
  <2> QED BY <2>2, <2>3, <2>4, ChannelStutters
<1> QED BY <1>1, <1>2 DEF MboxCreate

LEMMA ReleaseChannel ==
  ASSUME FInv, FramesKept, NEW p \in Proc, NEW b, ReleaseBox(p, b)
  PROVE  Chan!Next
<1> DEFINE freed == {queue_slots[b][i] : i \in DOMAIN queue_slots[b]}
<1>1. b \in Box /\ UNCHANGED <<blocked_proc_send, got, sent>>
  BY DEF ReleaseBox, seenVars
<1>2. /\ MailBoxTable'[b].status = "INACTIVE"
      /\ \A c \in Box \ {b} : MailBoxTable'[c] = MailBoxTable[c] /\ queue_slots'[c] = queue_slots[c]
  BY <1>1 DEF ReleaseBox, EmptySlots, FreeBox, FInv, MInv, IInv, TypeOK, BoxesTypeOK, QueuesTypeOK
<1>3. Holds(b)' = <<>>
  BY <1>2 DEF Holds, Active
<1>4. ASSUME NEW c \in Box \ {b}, NEW i \in DOMAIN queue_slots[c]
      PROVE  MailSlotTable'[queue_slots[c][i]] = MailSlotTable[queue_slots[c][i]]
  <2>1. queue_slots[c][i] \in Slot /\ queue_slots[c][i] \notin freed
    BY <1>1, IInvTables DEF Owned, FInv, MInv, IInv, TypeOK, QueuesTypeOK
  <2>2. MailSlotTable' = [s \in Slot |-> IF s \in freed THEN FreeSlot ELSE MailSlotTable[s]]
    BY DEF ReleaseBox, EmptySlots
  <2> HIDE DEF freed
  <2> QED BY <2>1, <2>2
<1>5. ASSUME NEW c \in Box \ {b} PROVE Holds(c)' = Holds(c)
  BY <1>1, <1>2, <1>4, SendersKeep, HoldsSame DEF Active, FInv, MInv
<1> QED BY <1>1, <1>3, <1>5, ChannelStep

LEMMA SendBlocksChannel ==
  ASSUME FInv, TypeOK', FramesKept, NEW p \in Proc, NEW b, NEW n, SendBlocks(p, b, n), UNCHANGED mboxVars
  PROVE  Chan!Next
<1> DEFINE s == blocked_proc_send[b]
           A == Msgs(MailSlotTable, queue_slots[b])
           B == Msgs(mproc, s)
<1>1. b \in Box /\ Active(b) /\ Active(b)' /\ sent' = sent + 1 /\ UNCHANGED got
  BY DEF SendBlocks, ValidSend, mboxVars, Active
<1>2. TypeOK /\ IInv /\ QInv /\ NoReceivers
  BY DEF FInv, MInv, IInv
<1>3. /\ UNCHANGED <<MailBoxTable, MailSlotTable, queue_slots>>
      /\ blocked_proc_send'[b] = Append(s, p)
      /\ \A c \in Box \ {b} : blocked_proc_send'[c] = blocked_proc_send[c]
      /\ mproc'[p].message = sent + 1
  BY <1>1, <1>2 DEF SendBlocks, BlockIn, mboxVars, slotVars, TypeOK, QueuesTypeOK, CallsTypeOK
<1>4. /\ A \in Seq(Tag) /\ B \in Seq(Tag) /\ s \in Seq(Proc)
      /\ \A q \in Proc : mproc'[q].message \in Tag
  BY <1>1, <1>2, PartsTypes DEF TypeOK, CallsTypeOK, ProcRecord, Tag
<1>5. Msgs(mproc', s) = B
  BY <1>1, <1>2, SendersKeep, MsgsSame
<1>6. Msgs(mproc', Append(s, p)) = Append(B, sent + 1)
  <2> HIDE DEF s, B
  <2>1. Msgs(mproc', Append(s, p)) = Append(Msgs(mproc', s), mproc'[p].message)
    BY <1>4, MsgsAppend
  <2> QED BY <1>3, <1>5, <2>1
<1>7. Holds(b) = A \o B /\ Holds(b)' = A \o Append(B, sent + 1)
  BY <1>1, <1>3, <1>6, PendingIs DEF Holds
<1>8. sent + 1 \in Tag
  BY <1>3, <1>4
<1>9. A \o Append(B, sent + 1) = Append(A \o B, sent + 1)
  <2> HIDE DEF A, B
  <2> QED BY <1>4, <1>8, JoinAppend
<1>10. ASSUME NEW c \in Box \ {b} PROVE Holds(c)' = Holds(c)
  BY <1>2, <1>3, SendersKeep, HoldsSame DEF Active
<1> QED BY <1>1, <1>7, <1>9, <1>10, ChannelStep

\* The slot that createSlot takes is in no queue.
LEMMA SendToSlotChannel ==
  ASSUME FInv, TypeOK', FramesKept, NEW p \in Proc, NEW b, NEW n, SendToSlot(p, b, n), UNCHANGED mboxVars
  PROVE  Chan!Next
<1> DEFINE q == queue_slots[b]
           A == Msgs(MailSlotTable, q)
           e == [status |-> "IN_USE", message_size |-> n, message |-> sent + 1]
<1>1. b \in Box /\ Active(b) /\ Active(b)' /\ sent' = sent + 1 /\ UNCHANGED got
  BY DEF SendToSlot, ValidSend, mboxVars, Active
<1>2. TypeOK /\ IInv /\ QInv /\ NoReceivers
  BY DEF FInv, MInv, IInv
<1>3. PICK t \in Slot : t = NextSlot(MailSlotTable) /\ MailSlotTable[t].status = "EMPTY"
  BY <1>2, SlotLeft, NextSlotIsFree DEF SendToSlot
<1>4. blocked_proc_send[b] = <<>>
  BY <1>1 DEF SendToSlot, FInv, MInv, SendersWaitOnlyWhenFull
<1>5. /\ UNCHANGED <<MailBoxTable, blocked_proc_send, mproc>>
      /\ MailSlotTable' = [MailSlotTable EXCEPT ![t] = e]
      /\ queue_slots'[b] = Append(q, t)
      /\ \A c \in Box \ {b} : queue_slots'[c] = queue_slots[c]
  BY <1>1, <1>2, <1>3 DEF SendToSlot, createSlot, mboxVars, callVars, TypeOK, QueuesTypeOK
<1>6. /\ A \in Seq(Tag) /\ q \in Seq(Slot)
      /\ \A s \in Slot : MailSlotTable'[s].message \in Tag
  BY <1>1, <1>2, PartsTypes DEF TypeOK, SlotsTypeOK, SlotRecord, Tag
<1>7. MailSlotTable'[t].message = sent + 1 /\ \A s \in Slot \ {t} : MailSlotTable'[s] = MailSlotTable[s]
  BY <1>2, <1>3, <1>5 DEF TypeOK, SlotsTypeOK
<1>8. ASSUME NEW c \in Box, NEW i \in DOMAIN queue_slots[c]
      PROVE  MailSlotTable'[queue_slots[c][i]] = MailSlotTable[queue_slots[c][i]]
  <2>1. queue_slots[c][i] \in Slot /\ queue_slots[c][i] # t
    BY <1>2, <1>3, IInvTables DEF Owned, Queues
  <2> QED BY <1>7, <2>1
<1>9. Msgs(MailSlotTable', q) = A
  BY <1>1, <1>8, MsgsSame
<1>10. Msgs(MailSlotTable', Append(q, t)) = Append(A, sent + 1)
  BY <1>6, <1>7, <1>9, MsgsAppend
<1>11. Holds(b) = A \o <<>> /\ Holds(b)' = Append(A, sent + 1) \o <<>>
  <2>1. Holds(b) = Pending(b) /\ Holds(b)' = Pending(b)'
    BY <1>1 DEF Holds
  <2>2. Msgs(mproc, blocked_proc_send[b]) = <<>> /\ Msgs(mproc', blocked_proc_send'[b]) = <<>>
    BY <1>4, <1>5, MsgsEmpty
  <2>3. Msgs(MailSlotTable', queue_slots'[b]) = Append(A, sent + 1)
    BY <1>5, <1>10
  <2> QED BY <2>1, <2>2, <2>3, PendingIs
<1>12. sent + 1 \in Tag
  BY <1>6, <1>7
<1>13. A \o <<>> = A /\ Append(A, sent + 1) \o <<>> = Append(A, sent + 1)
  <2> HIDE DEF A
  <2>1. Append(A, sent + 1) \in Seq(Tag)
    BY <1>6, <1>12
  <2> QED BY <1>6, <2>1, JoinEmpty
<1>14. ASSUME NEW c \in Box \ {b} PROVE Holds(c)' = Holds(c)
  BY <1>2, <1>5, <1>8, HoldsSame DEF Active
<1> QED BY <1>1, <1>11, <1>13, <1>14, ChannelStep

\* The message of a receive from the first sender or slot of b.
LEMMA ReceivedHead ==
  ASSUME TypeOK, NEW b \in Box, NEW r, r.message_size >= 0, r.message \in Msg, Returned(b, r)
  PROVE  got' = [got EXCEPT ![b] = Append(@, r.message)] /\ UNCHANGED sent
BY DEF Returned, Msg, NoMsg

LEMMA TakeFromSenderChannel ==
  ASSUME FInv, FramesKept, NEW p \in Proc, NEW b, NEW ptr, NEW n,
         TakeFromSender(p, b, ptr, n), UNCHANGED mboxVars,
         ptr /\ mproc[Head(blocked_proc_send[b])].message_size <= n
  PROVE  Chan!Next
<1> DEFINE s == blocked_proc_send[b]
           B == Msgs(mproc, s)
           q == Head(s)
<1>1. b \in Box /\ Active(b) /\ Active(b)' /\ s # <<>>
  BY DEF TakeFromSender, ValidReceive, mboxVars, Active
<1>2. TypeOK /\ IInv /\ QInv /\ NoReceivers
  BY DEF FInv, MInv, IInv
<1>3. queue_slots[b] = <<>>
  <2>1. Len(queue_slots[b]) <= 0 /\ queue_slots[b] \in Seq(Slot)
    BY <1>1, <1>2 DEF TakeFromSender, FInv, MInv, CInv, WithinCapacity, TypeOK, QueuesTypeOK
  <2> QED BY <2>1
<1>4. /\ UNCHANGED <<MailBoxTable, MailSlotTable, queue_slots, mproc>>
      /\ blocked_proc_send'[b] = Tail(s)
      /\ \A c \in Box \ {b} : blocked_proc_send'[c] = blocked_proc_send[c]
  BY <1>1, <1>2 DEF TakeFromSender, mboxVars, slotVars, callVars, TypeOK, QueuesTypeOK
<1>5. B \in Seq(Tag) /\ s \in Seq(Proc) /\ \A r \in Proc : mproc[r].message \in Tag
  BY <1>1, <1>2, PartsTypes
<1>6. q \in Proc /\ mproc[q].message \in Msg /\ mproc[q].message_size >= 0
  <2>1. q \in Proc /\ pc[q] = "send"
    BY <1>1, <1>2, <1>5, SeqTail, NobodyReceives
  <2> QED BY <2>1 DEF FInv, MInv, FramesFilled, IInv, TypeOK, CallsTypeOK
<1>7. got' = [got EXCEPT ![b] = Append(@, mproc[q].message)] /\ UNCHANGED sent
  <2> DEFINE r == msgToProc(Buffer(ptr, n), mproc[q].message, mproc[q].message_size)
  <2>1. r.message = mproc[q].message /\ r.message_size = mproc[q].message_size
    BY DEF msgToProc, Buffer
  <2>2. Returned(b, r)
    BY DEF TakeFromSender
  <2> HIDE DEF r
  <2> QED BY <1>1, <1>2, <1>6, <2>1, <2>2, ReceivedHead
<1>8. B # <<>> /\ Msgs(mproc, Tail(s)) = Tail(B) /\ Head(B) = mproc[q].message
  BY <1>1, <1>5, MsgsTail
<1>9. Holds(b) = <<>> \o B /\ Holds(b)' = <<>> \o Tail(B)
  BY <1>1, <1>3, <1>4, <1>8, PendingIs, MsgsEmpty, ZenonT(30) DEF Holds
<1>10. <<>> \o B = B /\ <<>> \o Tail(B) = Tail(B)
  <2> HIDE DEF B
  <2>1. Tail(B) \in Seq(Tag)
    BY <1>5, <1>8
  <2> QED BY <1>5, <2>1, JoinEmpty
<1>11. ASSUME NEW c \in Box \ {b} PROVE Holds(c)' = Holds(c)
  BY <1>2, <1>4, HoldsSame DEF Active
<1> QED BY <1>1, <1>7, <1>8, <1>9, <1>10, <1>11, ChannelStep

\* What a receive does to the slots: the first one of the box is gone, those
\* that are queued stay, and a blocked sender's message has one at the end.
LEMMA SlotsTaken ==
  ASSUME IInv, NEW p \in Proc, NEW b \in Box, NEW ptr, NEW n, TakeFromSlot(p, b, ptr, n)
  PROVE  LET q == queue_slots[b]
             s == blocked_proc_send[b]
         IN  /\ q # <<>> /\ Head(q) \in Slot /\ MailSlotTable[Head(q)].status = "IN_USE"
             /\ \A c \in Box \ {b} : /\ queue_slots'[c] = queue_slots[c]
                                     /\ blocked_proc_send'[c] = blocked_proc_send[c]
                                     /\ \A i \in DOMAIN queue_slots[c] :
                                          MailSlotTable'[queue_slots[c][i]] = MailSlotTable[queue_slots[c][i]]
             /\ \A i \in DOMAIN Tail(q) : MailSlotTable'[Tail(q)[i]] = MailSlotTable[Tail(q)[i]]
             /\ s = <<>> => queue_slots'[b] = Tail(q) /\ blocked_proc_send'[b] = s
             /\ s # <<>> =>
                  /\ blocked_proc_send'[b] = Tail(s)
                  /\ \E t \in Slot : /\ queue_slots'[b] = Append(Tail(q), t)
                                     /\ MailSlotTable'[t].message = mproc[Head(s)].message
<1> DEFINE q == queue_slots[b]
           s == blocked_proc_send[b]
           h == Head(q)
           freed == [MailSlotTable EXCEPT ![h] = FreeSlot]
           rest == [queue_slots EXCEPT ![b] = Tail(@)]
<1>1. q # <<>> /\ MailSlotTable[h].status = "IN_USE" /\ Refill(p, b, freed)
  BY DEF TakeFromSlot
<1>2. h \in Slot
  BY <1>1 DEF IInv, TypeOK, QueuesTypeOK
<1>3. /\ rest \in Queues /\ Owned(MailSlotTable, num_slots, rest)
      /\ \A c \in Box : \A i \in DOMAIN rest[c] : rest[c][i] # h
  BY <1>1, IInvTables, OwnedPop
<1>4. /\ freed \in Tables /\ freed[h].status = "EMPTY"
      /\ \A u \in Slot \ {h} : freed[u] = MailSlotTable[u]
  BY <1>2, IInvTables DEF Tables, FreeSlot, SlotRecord
<1>5. rest[b] = Tail(q) /\ \A c \in Box \ {b} : rest[c] = queue_slots[c]
  BY DEF IInv, TypeOK, QueuesTypeOK
<1>6. \A c \in Box : \A i \in DOMAIN rest[c] :
        rest[c][i] \in Slot \ {h} /\ MailSlotTable[rest[c][i]].status = "IN_USE"
  BY <1>3 DEF Queues, Owned
<1> DEFINE Kept == \A c \in Box : \A i \in DOMAIN rest[c] :
                     MailSlotTable'[rest[c][i]] = MailSlotTable[rest[c][i]]
<1>7. CASE s = <<>>
  <2>1. MailSlotTable' = freed /\ queue_slots' = rest /\ UNCHANGED blocked_proc_send
    BY <1>1, <1>7 DEF Refill
  <2>2. Kept
    <3> HIDE DEF freed, rest, h
    <3> QED BY <1>4, <1>6, <2>1
  <2>3. \A c \in Box \ {b} : \A i \in DOMAIN queue_slots[c] :
          MailSlotTable'[queue_slots[c][i]] = MailSlotTable[queue_slots[c][i]]
    <3> HIDE DEF freed, rest, h
    <3> QED BY <1>5, <2>2
  <2>4. \A i \in DOMAIN Tail(q) : MailSlotTable'[Tail(q)[i]] = MailSlotTable[Tail(q)[i]]
    <3> HIDE DEF freed, rest, h, q
    <3> QED BY <1>5, <2>2
  <2> QED BY <1>1, <1>2, <1>5, <1>7, <2>1, <2>3, <2>4
<1>8. CASE s # <<>>
  <2> DEFINE e == [status |-> "IN_USE", message_size |-> mproc[Head(s)].message_size,
                   message |-> mproc[Head(s)].message]
  <2>1. PICK t \in Slot : t = NextSlot(freed) /\ freed[t].status = "EMPTY"
    BY <1>2, <1>4, NextSlotIsFree
  <2>2. /\ MailSlotTable' = [freed EXCEPT ![t] = e] /\ queue_slots' = [queue_slots EXCEPT ![b] = Append(Tail(q), t)]
        /\ blocked_proc_send' = [blocked_proc_send EXCEPT ![b] = Tail(@)]
    BY <1>1, <1>8, <2>1 DEF Refill, createSlot
  <2>3. \A u \in Slot \ {h, t} : MailSlotTable'[u] = MailSlotTable[u]
    <3> HIDE DEF freed, e
    <3> QED BY <1>4, <2>1, <2>2 DEF Tables
  <2>4. MailSlotTable'[t].message = mproc[Head(s)].message
    <3>1. MailSlotTable'[t] = e
      <4> HIDE DEF freed, e
      <4> QED BY <1>4, <2>1, <2>2 DEF Tables
    <3> QED BY <3>1
  <2>5. Kept
    <3>1. ASSUME NEW c \in Box, NEW i \in DOMAIN rest[c] PROVE rest[c][i] # t
      <4>1. rest[c][i] = t => freed[t] = MailSlotTable[t]
        <5> HIDE DEF freed, rest, h
        <5> QED BY <1>4, <1>6, <2>1
      <4> HIDE DEF freed, rest, h
      <4> QED BY <1>6, <2>1, <4>1
    <3> HIDE DEF freed, rest, h
    <3> QED BY <1>6, <2>3, <3>1
  <2>6. \A c \in Box \ {b} : \A i \in DOMAIN queue_slots[c] :
          MailSlotTable'[queue_slots[c][i]] = MailSlotTable[queue_slots[c][i]]
    <3> HIDE DEF freed, rest, h
    <3> QED BY <1>5, <2>5
  <2>7. \A i \in DOMAIN Tail(q) : MailSlotTable'[Tail(q)[i]] = MailSlotTable[Tail(q)[i]]
    <3> HIDE DEF freed, rest, h, q
    <3> QED BY <1>5, <2>5
  <2>8. /\ queue_slots'[b] = Append(Tail(q), t) /\ blocked_proc_send'[b] = Tail(s)
        /\ \A c \in Box \ {b} : /\ queue_slots'[c] = queue_slots[c]
                                /\ blocked_proc_send'[c] = blocked_proc_send[c]
    BY <2>2 DEF IInv, TypeOK, QueuesTypeOK
  <2> QED BY <1>1, <1>2, <1>8, <2>4, <2>6, <2>7, <2>8
<1> QED BY <1>7, <1>8

LEMMA TakeFromSlotChannel ==
  ASSUME FInv, TypeOK', FramesKept, NEW p \in Proc, NEW b, NEW ptr, NEW n,
         TakeFromSlot(p, b, ptr, n), UNCHANGED mboxVars
  PROVE  Chan!Next
<1> DEFINE q == queue_slots[b]
           s == blocked_proc_send[b]
           A == Msgs(MailSlotTable, q)
           B == Msgs(mproc, s)
<1>1. b \in Box /\ Active(b) /\ Active(b)' /\ UNCHANGED <<MailBoxTable, mproc>>
  BY DEF TakeFromSlot, Slotted, ValidReceive, mboxVars, callVars, Active
<1>2. TypeOK /\ IInv /\ QInv /\ NoReceivers
  BY DEF FInv, MInv, IInv
<1>3. /\ q # <<>> /\ Head(q) \in Slot /\ MailSlotTable[Head(q)].status = "IN_USE"
      /\ \A c \in Box \ {b} : /\ queue_slots'[c] = queue_slots[c]
                              /\ blocked_proc_send'[c] = blocked_proc_send[c]
                              /\ \A i \in DOMAIN queue_slots[c] :
                                   MailSlotTable'[queue_slots[c][i]] = MailSlotTable[queue_slots[c][i]]
      /\ \A i \in DOMAIN Tail(q) : MailSlotTable'[Tail(q)[i]] = MailSlotTable[Tail(q)[i]]
      /\ s = <<>> => queue_slots'[b] = Tail(q) /\ blocked_proc_send'[b] = s
      /\ s # <<>> => /\ blocked_proc_send'[b] = Tail(s)
                     /\ \E t \in Slot : /\ queue_slots'[b] = Append(Tail(q), t)
                                        /\ MailSlotTable'[t].message = mproc[Head(s)].message
  BY <1>1, <1>2, SlotsTaken
<1>4. /\ A \in Seq(Tag) /\ B \in Seq(Tag) /\ q \in Seq(Slot) /\ s \in Seq(Proc)
      /\ \A u \in Slot : MailSlotTable[u].message \in Tag
      /\ \A r \in Proc : mproc[r].message \in Tag
  BY <1>1, <1>2, PartsTypes
<1>5. \A u \in Slot : MailSlotTable'[u].message \in Tag
  BY DEF TypeOK, SlotsTypeOK, SlotRecord, Tag
<1>6. A # <<>> /\ Msgs(MailSlotTable, Tail(q)) = Tail(A) /\ Head(A) = MailSlotTable[Head(q)].message
  <2>1. q # <<>> /\ q \in Seq(Slot) /\ \A u \in Slot : MailSlotTable[u].message \in Tag
    BY <1>3, <1>4
  <2> HIDE DEF q
  <2> QED BY <2>1, MsgsTail
<1>7. Msgs(MailSlotTable', Tail(q)) = Tail(A)
  <2> DEFINE u == Tail(q)
  <2> HIDE DEF u, A
  <2>1. \A i \in DOMAIN u : MailSlotTable'[u[i]].message = MailSlotTable[u[i]].message
    BY <1>3 DEF u
  <2>2. Msgs(MailSlotTable', u) = Msgs(MailSlotTable, u)
    BY <2>1, MsgsSame
  <2> QED BY <1>6, <2>2 DEF u
<1>8. got' = [got EXCEPT ![b] = Append(@, Head(A))] /\ UNCHANGED sent
  <2> DEFINE m == MailSlotTable[Head(q)]
             r == [message_ptr |-> ptr, message_size |-> m.message_size, message |-> m.message]
  <2>1. m.message \in Msg /\ m.message_size >= 0
    BY <1>3 DEF FInv, MInv, SlotsFilled
  <2>2. r.message = m.message /\ r.message_size = m.message_size /\ Returned(b, r)
    BY DEF TakeFromSlot
  <2> HIDE DEF r
  <2> QED BY <1>1, <1>2, <1>6, <2>1, <2>2, ReceivedHead
<1>9. Holds(b) = A \o B
  BY <1>1, PendingIs DEF Holds
<1>10. Holds(b)' = Tail(A) \o B
  <2>1. Holds(b)' = Msgs(MailSlotTable', queue_slots'[b]) \o Msgs(mproc, blocked_proc_send'[b])
    BY <1>1, PendingIs DEF Holds
  <2>2. CASE s = <<>>
    BY <1>3, <1>7, <2>1, <2>2
  <2>3. CASE s # <<>>
    <3>1. PICK t \in Slot : /\ queue_slots'[b] = Append(Tail(q), t)
                            /\ MailSlotTable'[t].message = mproc[Head(s)].message
      BY <1>3, <2>3
    <3>2. B # <<>> /\ Msgs(mproc, Tail(s)) = Tail(B) /\ Head(B) = mproc[Head(s)].message
      BY <1>4, <2>3, MsgsTail
    <3>3. Msgs(MailSlotTable', Append(Tail(q), t)) = Append(Tail(A), Head(B))
      <4>1. Tail(q) \in Seq(Slot)
        BY <1>3, <1>4
      <4> DEFINE u == Tail(q)
      <4> HIDE DEF u, A, B, s
      <4>2. Msgs(MailSlotTable', Append(u, t)) = Append(Msgs(MailSlotTable', u), MailSlotTable'[t].message)
        BY <1>5, <4>1, MsgsAppend DEF u
      <4> QED BY <1>7, <3>1, <3>2, <4>2 DEF u
    <3>4. Append(Tail(A), Head(B)) \o Tail(B) = Tail(A) \o B
      <4> HIDE DEF A, B
      <4>1. Tail(A) \in Seq(Tag)
        BY <1>4, <1>6
      <4> DEFINE C == Tail(A)
      <4> HIDE DEF C
      <4>2. Append(C, Head(B)) \o Tail(B) = C \o B
        BY <1>4, <3>2, <4>1, JoinMove DEF C
      <4> QED BY <4>2 DEF C
    <3> QED BY <1>3, <2>1, <2>3, <3>1, <3>2, <3>3, <3>4
  <2> QED BY <2>2, <2>3
<1>11. Holds(b) # <<>> /\ Head(Holds(b)) = Head(A) /\ Holds(b)' = Tail(Holds(b))
  <2> HIDE DEF A, B
  <2>1. A \o B # <<>> /\ Head(A \o B) = Head(A) /\ Tail(A) \o B = Tail(A \o B)
    BY <1>4, <1>6, JoinTail
  <2> QED BY <1>9, <1>10, <2>1
<1>12. ASSUME NEW c \in Box \ {b} PROVE Holds(c)' = Holds(c)
  BY <1>1, <1>2, <1>3, HoldsSame DEF Active
<1> QED BY <1>1, <1>8, <1>11, <1>12, ChannelStep

-----------------------------------------------------------------------------
(***************************************************************************)
(* Every step is a step of the channels or leaves them.                    *)
(***************************************************************************)
LEMMA SendChannel ==
  ASSUME FInv, TypeOK', FramesKept, NEW p \in Proc, NEW b, NEW n,
         MboxSend(p, b, n) \/ MboxCondSend(p, b, n)
  PROVE  [Chan!Next]_(Chan!vars)
<1>0. UNCHANGED mboxVars
  BY DEF MboxSend, MboxCondSend
<1>1. CASE SendBlocks(p, b, n)
  BY <1>0, <1>1, SendBlocksChannel
<1>2. CASE SendToSlot(p, b, n)
  BY <1>0, <1>2, SendToSlotChannel
<1>3. ~HandOff(p, b, n)
  BY NobodyReceives DEF HandOff, CanHandOff, ValidSend, FInv, MInv
<1>4. CASE SendInvalid(p, b, n) \/ CondSendFails(p, b, n) \/ SendOverflow(p, b, n)
  <2>1. UNCHANGED <<MailBoxTable, MailSlotTable, queue_slots, blocked_proc_send, got, sent>>
    BY <1>0, <1>4 DEF SendInvalid, CondSendFails, SendOverflow, mboxVars, slotVars, queueVars, seenVars
  <2> QED BY <2>1, QuietChannels
<1> QED BY <1>1, <1>2, <1>3, <1>4 DEF MboxSend, MboxCondSend

LEMMA ReceiveChannel ==
  ASSUME FInv, TypeOK', FramesKept, NEW p \in Proc, NEW a \in RecvArgs \union CondRecvArgs, ChannelUse,
         \/ MboxReceive(p, a.mbox_id, a.msg_ptr, a.msg_size)
         \/ MboxCondReceive(p, a.mbox_id, a.msg_ptr, a.msg_size)
  PROVE  [Chan!Next]_(Chan!vars)
<1> DEFINE b == a.mbox_id
           ptr == a.msg_ptr
           n == a.msg_size
<1>0. UNCHANGED mboxVars
  BY DEF MboxReceive, MboxCondReceive
<1>1. CASE TakeFromSender(p, b, ptr, n)
  BY <1>0, <1>1, TakeFromSenderChannel DEF ChannelUse, ReliableUse, NoneCut
<1>2. CASE TakeFromSlot(p, b, ptr, n)
  BY <1>0, <1>2, TakeFromSlotChannel
<1>3. ~DropTooLong(p, b, n)
  BY DEF ChannelUse, ReliableUse, NoneDropped
<1>4. ~WaitOnZeroSlots(p, b, ptr, n) /\ ~WaitForSignal(p, b, ptr, n)
  <2>1. pc'[p] \notin {"recv", "recvZero"}
    BY DEF ChannelUse, ReliableUse, NoneAwaited
  <2> QED BY <2>1 DEF WaitOnZeroSlots, WaitForSignal, BlockIn, FInv, MInv, IInv, TypeOK, CallsTypeOK
<1>5. CASE ReceiveInvalid(p, b) \/ NothingQueued(p, b) \/ NoSender(p, b, ptr, n)
  <2>1. UNCHANGED <<MailBoxTable, MailSlotTable, queue_slots, blocked_proc_send>>
    BY <1>0, <1>5 DEF ReceiveInvalid, NothingQueued, NoSender, mboxVars, slotVars, queueVars
  <2>2. UNCHANGED <<got, sent>>
    BY <1>5 DEF ReceiveInvalid, NothingQueued, NoSender, Returned, Buffer, seenVars
  <2> QED BY <2>1, <2>2, QuietChannels
<1> QED BY <1>1, <1>2, <1>3, <1>4, <1>5 DEF MboxReceive, MboxCondReceive

LEMMA ResumeChannel ==
  ASSUME FInv, FramesKept, NEW p \in Proc, Resume(p)
  PROVE  UNCHANGED Chan!vars
<1>1. CASE SendResumes(p)
  BY <1>1, QuietChannels DEF SendResumes, mboxVars, queueVars, slotVars, seenVars
<1>2. ~ReceiveResumes(p)
  BY DEF ReceiveResumes, FInv, MInv, NoReceivers
<1>3. CASE ReleaseStep(p)
  <2>1. ~Active(arg[p])
    BY <1>3 DEF ReleaseStep, FInv, MInv, Releasing
  <2>2. \A b \in Box : Active(b) => blocked_proc_send'[b] = blocked_proc_send[b]
    BY <1>3, <2>1 DEF ReleaseStep, ReleaseSender, ReleaseReceiver, ReleaseDone, FInv, MInv, IInv, TypeOK, QueuesTypeOK
  <2> QED BY <1>3, <2>2, QuietChannels DEF ReleaseStep, mboxVars, slotVars, seenVars
<1> QED BY <1>1, <1>2, <1>3 DEF Resume

LEMMA NextChannel ==
  ASSUME FInv, [Next]_vars, ChannelUse
  PROVE  [Chan!Next]_(Chan!vars)
<1>0. FramesKept /\ TypeOK'
  BY NextFramesKept, NextFInv DEF FInv, MInv, IInv
<1>1. CASE UNCHANGED <<MailBoxTable, MailSlotTable, queue_slots, blocked_proc_send, got, sent>>
  BY <1>0, <1>1, QuietChannels
<1>2. ASSUME NEW p \in Proc, Call(p) PROVE [Chan!Next]_(Chan!vars)
  <2>1. ASSUME NEW a \in CreateArgs, MboxCreate(p, a) PROVE [Chan!Next]_(Chan!vars)
    BY <1>0, <2>1, CreateChannel
  <2>2. ASSUME NEW b, MboxRelease(p, b) PROVE [Chan!Next]_(Chan!vars)
    BY <1>0, <1>1, <2>2, ReleaseChannel DEF MboxRelease, ReleaseRefused, mboxVars, queueVars, slotVars, seenVars
  <2>3. ASSUME NEW b, NEW n, MboxSend(p, b, n) \/ MboxCondSend(p, b, n) PROVE [Chan!Next]_(Chan!vars)
    BY <1>0, <2>3, SendChannel
  <2>4. ASSUME NEW a \in RecvArgs \union CondRecvArgs,
               \/ MboxReceive(p, a.mbox_id, a.msg_ptr, a.msg_size)
               \/ MboxCondReceive(p, a.mbox_id, a.msg_ptr, a.msg_size)
        PROVE  [Chan!Next]_(Chan!vars)
    BY <1>0, <2>4, ReceiveChannel
  <2> QED BY <1>2, <2>1, <2>2, <2>3, <2>4 DEF Call
<1>3. ASSUME NEW p \in Proc, Resume(p) PROVE [Chan!Next]_(Chan!vars)
  BY <1>0, <1>3, ResumeChannel
<1>4. ASSUME NEW p \in Proc, Quit(p) PROVE [Chan!Next]_(Chan!vars)
  BY <1>1, <1>4 DEF Quit, mboxVars, queueVars, slotVars, seenVars
<1>5. CASE Interrupt \/ UNCHANGED vars
  BY <1>1, <1>5 DEF Interrupt, vars, mboxVars, queueVars, slotVars, seenVars
<1> QED BY <1>2, <1>3, <1>4, <1>5 DEF Next

\* A box is a FIFO channel as long as its users keep to what the code can do:
\* their buffers are large enough, they do not wait at boxes without slots or
\* for messages of size 0, and create no box from one whose release is not over.
\* In every such behaviour no message is lost, repeated, reordered or invented,
\* also when it waits in the frame of a blocked sender (phase2.c:307, 462, 552).
THEOREM BoxesAreChannels == Spec /\ [][ChannelUse]_vars => FifoChannel
<1>1. Init => Chan!Init
  <2> SUFFICES ASSUME Init PROVE Chan!Init
    OBVIOUS
  <2>1. ASSUME NEW b \in Box PROVE Holds(b) = <<>>
    <3>1. queue_slots[b] = <<>> /\ blocked_proc_send[b] = <<>>
      BY DEF Init
    <3>2. Pending(b) = <<>> \o <<>>
      BY <3>1, PendingIs, MsgsEmpty
    <3> QED BY <3>2 DEF Holds
  <2> QED BY <2>1 DEF Chan!Init, Init, Holds
<1>2. FInv /\ [Next]_vars /\ [ChannelUse]_vars => FInv' /\ [Chan!Next]_(Chan!vars)
  <2> SUFFICES ASSUME FInv, [Next]_vars, [ChannelUse]_vars PROVE FInv' /\ [Chan!Next]_(Chan!vars)
    OBVIOUS
  <2>1. CASE ChannelUse
    BY <2>1, NextFInv, NextChannel
  <2>2. CASE UNCHANGED vars
    <3>1. ChannelUse
      BY <2>2, StutterReliable DEF ChannelUse, NoneAwaited, FInv, NoReceivers, vars, callVars
    <3> QED BY <3>1, NextFInv, NextChannel
  <2> QED BY <2>1, <2>2
<1> QED BY <1>1, <1>2, InitFInv, PTL DEF Spec, FifoChannel, Chan!Spec

-----------------------------------------------------------------------------
(***************************************************************************)
(* Nothing is lost, also where receivers wait.  A message is in a slot, in *)
(* the frame of a blocked sender, in the buffer of a receiver that was     *)
(* handed it, or received.                                                 *)
(***************************************************************************)
\* Where m is: in a slot or a frame of b, in a receiver's buffer, received.
InSlot(b, m) == \E i \in DOMAIN queue_slots[b] : MailSlotTable[queue_slots[b][i]].message = m
InFrame(b, m) == \E i \in DOMAIN blocked_proc_send[b] : mproc[blocked_proc_send[b][i]].message = m
InBuffer(m) == \E p \in Proc : Receiving(p) /\ mproc[p].message = m
Received(m) == \E b \in Box : \E i \in DOMAIN got[b] : got[b][i] = m

Somewhere(m) ==
  \/ \E b \in Box : Active(b) /\ (InSlot(b, m) \/ InFrame(b, m))
  \/ InBuffer(m) \/ Received(m)

\* Somewhere in a sequence.
Has(s, m) == \E i \in DOMAIN s : s[i] = m

LEMMA JoinHas ==
  ASSUME NEW S, NEW A \in Seq(S), NEW B \in Seq(S), NEW m
  PROVE  Has(A \o B, m) <=> Has(A, m) \/ Has(B, m)
<1>1. /\ DOMAIN (A \o B) = 1 .. Len(A) + Len(B) /\ DOMAIN A = 1 .. Len(A) /\ DOMAIN B = 1 .. Len(B)
      /\ Len(A) \in Nat /\ Len(B) \in Nat
      /\ \A i \in 1 .. Len(A) : (A \o B)[i] = A[i]
      /\ \A i \in Len(A) + 1 .. Len(A) + Len(B) : (A \o B)[i] = B[i - Len(A)]
  OBVIOUS
<1>2. ASSUME NEW i \in DOMAIN B PROVE i + Len(A) \in DOMAIN (A \o B) /\ (A \o B)[i + Len(A)] = B[i]
  BY <1>1
<1>3. ASSUME NEW i \in DOMAIN A PROVE i \in DOMAIN (A \o B) /\ (A \o B)[i] = A[i]
  BY <1>1
<1>4. ASSUME NEW i \in DOMAIN (A \o B)
      PROVE  \/ i \in DOMAIN A /\ (A \o B)[i] = A[i]
             \/ i - Len(A) \in DOMAIN B /\ (A \o B)[i] = B[i - Len(A)]
  BY <1>1
<1> QED BY <1>2, <1>3, <1>4 DEF Has

LEMMA MsgsHas ==
  ASSUME NEW T, NEW q, NEW m
  PROVE  Has(Msgs(T, q), m) <=> \E i \in DOMAIN q : T[q[i]].message = m
BY DEF Has, Msgs

LEMMA HeldIs ==
  ASSUME TypeOK, TypeOK', NEW m
  PROVE  (Held(m) <=> Somewhere(m)) /\ (Held(m)' <=> Somewhere(m)')
<1>1. ASSUME NEW b \in Box
      PROVE  Has(Pending(b), m) <=> InSlot(b, m) \/ InFrame(b, m)
  <2> DEFINE A == Msgs(MailSlotTable, queue_slots[b])
             B == Msgs(mproc, blocked_proc_send[b])
  <2>1. A \in Seq(Tag) /\ B \in Seq(Tag) /\ Pending(b) = A \o B
    BY PartsTypes, PendingIs
  <2>2. (Has(A, m) <=> InSlot(b, m)) /\ (Has(B, m) <=> InFrame(b, m))
    BY MsgsHas DEF InSlot, InFrame
  <2> HIDE DEF A, B
  <2> QED BY <2>1, <2>2, JoinHas
<1>2. ASSUME NEW b \in Box
      PROVE  Has(Pending(b)', m) <=> InSlot(b, m)' \/ InFrame(b, m)'
  <2> DEFINE A == Msgs(MailSlotTable', queue_slots'[b])
             B == Msgs(mproc', blocked_proc_send'[b])
  <2>1. /\ queue_slots'[b] \in Seq(Slot) /\ blocked_proc_send'[b] \in Seq(Proc)
        /\ \A s \in Slot : MailSlotTable'[s].message \in Tag
        /\ \A p \in Proc : mproc'[p].message \in Tag
    BY DEF TypeOK, QueuesTypeOK, SlotsTypeOK, CallsTypeOK, SlotRecord, ProcRecord, Tag
  <2>2. A \in Seq(Tag) /\ B \in Seq(Tag) /\ Pending(b)' = A \o B
    BY <2>1, MsgsType, PendingIs
  <2>3. (Has(A, m) <=> InSlot(b, m)') /\ (Has(B, m) <=> InFrame(b, m)')
    BY MsgsHas DEF InSlot, InFrame
  <2> HIDE DEF A, B
  <2> QED BY <2>2, <2>3, JoinHas
<1>3. Held(m) <=> Somewhere(m)
  BY <1>1 DEF Held, Somewhere, InBuffer, Received, Receiving, Has
<1>4. Held(m)' <=> Somewhere(m)'
  BY <1>2 DEF Held, Somewhere, InBuffer, Received, Receiving, Has
<1> QED BY <1>3, <1>4

-----------------------------------------------------------------------------
\* No message disappears.
AllStay == \A m \in Msg : Somewhere(m) => Somewhere(m)'

\* What is received is not unreceived.
GotStays == \A m \in Msg : Received(m) => Received(m)'

\* The buffer of a receiver that has a message stays.
BuffersStay ==
  \A p \in Proc : Receiving(p) /\ mproc[p].message # NoMsg =>
    Receiving(p)' /\ mproc'[p].message = mproc[p].message

LEMMA ReturnedStays ==
  ASSUME TypeOK, NEW b \in Box, NEW r, NEW x, x = r.message, Returned(b, r)
  PROVE  GotStays /\ (r.message_size >= 0 /\ x \in Msg => Received(x)')
<1>1. /\ got \in [Box -> Seq(Msg)]
  BY DEF TypeOK, SeenTypeOK
<1>2. CASE r.message_size >= 0 /\ r.message # NoMsg
  <2> DEFINE g == got[b]
  <2>1. got' = [got EXCEPT ![b] = Append(g, x)]
    BY <1>2 DEF Returned
  <2>2. g \in Seq(Msg)
    BY <1>1
  <2> HIDE DEF g
  <2>3. /\ Append(g, x)[Len(g) + 1] = x /\ Len(g) + 1 \in DOMAIN Append(g, x)
        /\ \A i \in DOMAIN g : i \in DOMAIN Append(g, x) /\ Append(g, x)[i] = g[i]
    BY <2>2
  <2>4. got'[b] = Append(g, x) /\ \A c \in Box \ {b} : got'[c] = got[c]
    BY <1>1, <2>1
  <2>5. Received(x)'
    BY <2>3, <2>4 DEF Received
  <2>6. ASSUME NEW m, Received(m) PROVE Received(m)'
    <3>1. PICK c \in Box : \E i \in DOMAIN got[c] : got[c][i] = m
      BY <2>6 DEF Received
    <3>2. CASE c = b
      <4>1. PICK i \in DOMAIN g : g[i] = m
        BY <3>1, <3>2 DEF g
      <4> QED BY <2>3, <2>4, <4>1 DEF Received
    <3>3. CASE c # b
      BY <2>4, <3>1, <3>3 DEF Received
    <3> QED BY <3>2, <3>3
  <2> QED BY <2>5, <2>6 DEF GotStays
<1>3. CASE ~(r.message_size >= 0 /\ r.message # NoMsg)
  <2>1. got' = got
    BY <1>3 DEF Returned
  <2>2. GotStays
    BY <2>1 DEF GotStays, Received
  <2> QED BY <1>3, <2>2 DEF Msg, NoMsg
<1> QED BY <1>2, <1>3

\* A process on the send queue of b is blocked in a call there.
LEMMA SenderWaits ==
  ASSUME QInv, NEW b \in Box, NEW i \in DOMAIN blocked_proc_send[b]
  PROVE  LET q == blocked_proc_send[b][i]
         IN  q \in Proc /\ status[q] \in Blocked /\ pc[q] \in SenderPlaces
BY DEF QInv, QueuesHold, QueueOf, WaitingAt

\* The send queues keep their entries, and these their messages.
LEMMA FramesStay ==
  ASSUME QInv, FramesKept, NEW b \in Box, NEW m, InFrame(b, m),
         \A i \in DOMAIN blocked_proc_send[b] : \E j \in DOMAIN blocked_proc_send'[b] :
           blocked_proc_send'[b][j] = blocked_proc_send[b][i]
  PROVE  InFrame(b, m)'
<1>1. PICK i \in DOMAIN blocked_proc_send[b] : mproc[blocked_proc_send[b][i]].message = m
  BY DEF InFrame
<1>2. mproc'[blocked_proc_send[b][i]] = mproc[blocked_proc_send[b][i]]
  BY SenderWaits DEF FramesKept
<1> QED BY <1>1, <1>2 DEF InFrame

\* Steps that leave the slots: of each active box the senders stay.
LEMMA StaysQuiet ==
  ASSUME QInv, FramesKept, GotStays, BuffersStay, 
         \A b \in Box : Active(b) =>
           /\ Active(b)'
           /\ \A m \in Msg : InSlot(b, m) => InSlot(b, m)'
           /\ \A i \in DOMAIN blocked_proc_send[b] : \E j \in DOMAIN blocked_proc_send'[b] :
                blocked_proc_send'[b][j] = blocked_proc_send[b][i]
  PROVE  AllStay
<1> SUFFICES ASSUME NEW m \in Msg, Somewhere(m) PROVE Somewhere(m)'
  BY DEF AllStay
<1>1. ASSUME NEW b \in Box, Active(b), InSlot(b, m) PROVE Somewhere(m)'
  BY <1>1 DEF Somewhere
<1>2. ASSUME NEW b \in Box, Active(b), InFrame(b, m) PROVE Somewhere(m)'
  BY <1>2, FramesStay DEF Somewhere
<1>3. ASSUME InBuffer(m) PROVE Somewhere(m)'
  <2>1. m # NoMsg
    BY DEF Msg, NoMsg
  <2> QED BY <1>3, <2>1 DEF Somewhere, InBuffer, BuffersStay
<1>4. ASSUME Received(m) PROVE Somewhere(m)'
  BY <1>4 DEF GotStays, Somewhere
<1> QED BY <1>1, <1>2, <1>3, <1>4 DEF Somewhere

-----------------------------------------------------------------------------
\* A message that was accepted in this step is there.
NewIsThere == \A m \in Msg : m \in sent + 1 .. sent' => Somewhere(m)'

LEMMA NewIs ==
  ASSUME TypeOK, NEW x, x = sent + 1, sent' = x, Somewhere(x)'
  PROVE  NewIsThere
BY DEF TypeOK, SeenTypeOK, NewIsThere

LEMMA NewNone ==
  ASSUME TypeOK, UNCHANGED sent
  PROVE  NewIsThere
BY DEF TypeOK, SeenTypeOK, NewIsThere

LEMMA GotSame == ASSUME UNCHANGED got PROVE GotStays
BY DEF GotStays, Received

LEMMA BuffersQuiet ==
  ASSUME NEW p \in Proc, ~Receiving(p), \A q \in Proc \ {p} : pc'[q] = pc[q] /\ mproc'[q] = mproc[q]
  PROVE  BuffersStay
BY DEF BuffersStay, Receiving

LEMMA StaysPut ==
  ASSUME QInv, FramesKept, GotStays, BuffersStay,
         UNCHANGED <<MailBoxTable, MailSlotTable, queue_slots, blocked_proc_send>>
  PROVE  AllStay
BY StaysQuiet DEF Active, InSlot

LEMMA CreateStays ==
  ASSUME MInv, FramesKept, NEW p \in Proc, NEW a \in CreateArgs, MboxCreate(p, a)
  PROVE  AllStay
<1>1. QInv /\ IInv
  BY DEF MInv
<1>2. GotStays /\ BuffersStay /\ UNCHANGED <<MailSlotTable, mproc>>
  BY GotSame DEF MboxCreate, seenVars, callVars, slotVars, BuffersStay, Receiving
<1>3. CASE CreateFails(p, a)
  BY <1>1, <1>2, <1>3, StaysPut DEF CreateFails, mboxVars, queueVars
<1>4. CASE CreateBox(p, a)
  <2>1. PICK n \in Box : n = NextBox /\ ~Active(n)
    BY <1>1, <1>4, NextBoxIsFree DEF CreateBox
  <2>2. \A b \in Box \ {n} : /\ MailBoxTable'[b] = MailBoxTable[b] /\ queue_slots'[b] = queue_slots[b]
                             /\ blocked_proc_send'[b] = blocked_proc_send[b]
    BY <1>1, <1>4, <2>1 DEF CreateBox, IInv, TypeOK, BoxesTypeOK, QueuesTypeOK
  <2>3. ASSUME NEW b \in Box, Active(b)
        PROVE  Active(b)' /\ queue_slots'[b] = queue_slots[b] /\ blocked_proc_send'[b] = blocked_proc_send[b]
    BY <2>1, <2>2, <2>3 DEF Active
  <2> QED BY <1>1, <1>2, <2>3, StaysQuiet DEF InSlot
<1> QED BY <1>3, <1>4 DEF MboxCreate

LEMMA HandOffStays ==
  ASSUME MInv, FramesKept, NEW p \in Proc, NEW b, NEW n, HandOff(p, b, n), UNCHANGED mboxVars
  PROVE  AllStay /\ NewIsThere
<1>1. QInv /\ IInv /\ TypeOK
  BY DEF MInv, IInv
<1> DEFINE q == Head(blocked_proc_receive[b])
           r == msgToProc(mproc[q], sent + 1, n)
<1>2. q \in Proc /\ pc[q] = "recv" /\ status[q] \in Blocked /\ n >= 0
  BY <1>1, HeadReceives DEF HandOff, CanHandOff, ValidSend
<1>3. mproc[q].message = NoMsg
  BY <1>2 DEF MInv, ReceiversEmpty, Receiving
<1>4. /\ UNCHANGED <<pc, got, MailBoxTable, MailSlotTable, queue_slots, blocked_proc_send>>
      /\ mproc' = [mproc EXCEPT ![q] = r]
      /\ sent' = IF r.message_size >= 0 THEN sent + 1 ELSE sent
  BY DEF HandOff, mboxVars, slotVars
<1>5. r.message_size >= 0 => r.message = sent + 1
  BY <1>1, <1>2 DEF msgToProc, TypeOK, CallsTypeOK, ProcRecord
<1> HIDE DEF q, r
<1>6. mproc'[q] = r /\ \A x \in Proc \ {q} : mproc'[x] = mproc[x]
  BY <1>1, <1>2, <1>4 DEF TypeOK, CallsTypeOK
<1>7. BuffersStay
  BY <1>3, <1>4, <1>6 DEF BuffersStay, Receiving
<1>8. AllStay
  BY <1>1, <1>4, <1>7, GotSame, StaysPut
<1>9. NewIsThere
  <2>1. CASE r.message_size >= 0
    <3>1. PICK m : m = sent + 1
      OBVIOUS
    <3>2. InBuffer(m)'
      BY <1>2, <1>4, <1>5, <1>6, <2>1, <3>1 DEF InBuffer, Receiving
    <3> QED BY <1>1, <1>4, <2>1, <3>1, <3>2, NewIs DEF Somewhere
  <2>2. CASE ~(r.message_size >= 0)
    BY <1>1, <1>4, <2>2, NewNone
  <2> QED BY <2>1, <2>2
<1> QED BY <1>8, <1>9

LEMMA SendBlocksStays ==
  ASSUME MInv, FramesKept, NEW p \in Proc, NEW b, NEW n, SendBlocks(p, b, n), Running(p), UNCHANGED mboxVars
  PROVE  AllStay /\ NewIsThere
<1>1. QInv /\ IInv /\ TypeOK
  BY DEF MInv, IInv
<1>2. b \in Box /\ Active(b) /\ ~Receiving(p)
  BY DEF SendBlocks, ValidSend, Running, Receiving
<1> DEFINE s == blocked_proc_send[b]
<1>3. /\ UNCHANGED <<MailBoxTable, MailSlotTable, queue_slots, got>>
      /\ sent' = sent + 1
      /\ blocked_proc_send'[b] = Append(s, p)
      /\ \A c \in Box \ {b} : blocked_proc_send'[c] = blocked_proc_send[c]
      /\ mproc'[p].message = sent + 1
      /\ \A q \in Proc \ {p} : pc'[q] = pc[q] /\ mproc'[q] = mproc[q]
  BY <1>1, <1>2 DEF SendBlocks, BlockIn, mboxVars, slotVars, TypeOK, QueuesTypeOK, CallsTypeOK
<1>4. /\ \A i \in DOMAIN s : i \in DOMAIN Append(s, p) /\ Append(s, p)[i] = s[i]
      /\ Len(s) + 1 \in DOMAIN Append(s, p) /\ Append(s, p)[Len(s) + 1] = p
  <2>1. s \in Seq(Proc)
    BY <1>1, <1>2 DEF TypeOK, QueuesTypeOK
  <2> HIDE DEF s
  <2> QED BY <2>1
<1>5. AllStay
  <2>1. ASSUME NEW c \in Box, NEW i \in DOMAIN blocked_proc_send[c]
        PROVE  \E j \in DOMAIN blocked_proc_send'[c] : blocked_proc_send'[c][j] = blocked_proc_send[c][i]
    <3>1. CASE c = b
      BY <1>3, <1>4, <2>1, <3>1
    <3>2. CASE c # b
      BY <1>3, <2>1, <3>2
    <3> QED BY <3>1, <3>2
  <2>2. BuffersStay
    BY <1>2, <1>3, BuffersQuiet
  <2> QED BY <1>1, <1>3, <2>1, <2>2, GotSame, StaysQuiet DEF Active, InSlot
<1>6. NewIsThere
  <2>1. PICK m : m = sent + 1
    OBVIOUS
  <2>2. InFrame(b, m)'
    BY <1>3, <1>4, <2>1 DEF InFrame
  <2>3. Active(b)'
    BY <1>2, <1>3 DEF Active
  <2>4. Somewhere(m)'
    BY <1>2, <2>2, <2>3 DEF Somewhere
  <2> QED BY <1>1, <1>3, <2>1, <2>4, NewIs
<1> QED BY <1>5, <1>6

LEMMA SendToSlotStays ==
  ASSUME MInv, FramesKept, NEW p \in Proc, NEW b, NEW n, SendToSlot(p, b, n), UNCHANGED mboxVars
  PROVE  AllStay /\ NewIsThere
<1>1. QInv /\ IInv /\ TypeOK
  BY DEF MInv, IInv
<1>2. b \in Box /\ Active(b)
  BY DEF SendToSlot, ValidSend
<1> DEFINE q == queue_slots[b]
           e == [status |-> "IN_USE", message_size |-> n, message |-> sent + 1]
<1>3. PICK t \in Slot : t = NextSlot(MailSlotTable) /\ MailSlotTable[t].status = "EMPTY"
  BY <1>1, SlotLeft, NextSlotIsFree DEF SendToSlot
<1>4. /\ UNCHANGED <<MailBoxTable, blocked_proc_send, pc, mproc, got>> /\ sent' = sent + 1
      /\ MailSlotTable' = [MailSlotTable EXCEPT ![t] = e]
      /\ queue_slots'[b] = Append(q, t)
      /\ \A c \in Box \ {b} : queue_slots'[c] = queue_slots[c]
  BY <1>1, <1>2, <1>3 DEF SendToSlot, createSlot, mboxVars, callVars, TypeOK, QueuesTypeOK
<1>5. MailSlotTable'[t].message = sent + 1 /\ \A s \in Slot \ {t} : MailSlotTable'[s] = MailSlotTable[s]
  BY <1>1, <1>3, <1>4 DEF TypeOK, SlotsTypeOK
<1>6. ASSUME NEW c \in Box, NEW i \in DOMAIN queue_slots[c]
      PROVE  MailSlotTable'[queue_slots[c][i]] = MailSlotTable[queue_slots[c][i]]
  <2>1. queue_slots[c][i] \in Slot /\ queue_slots[c][i] # t
    BY <1>1, <1>3, IInvTables DEF Owned, Queues
  <2> QED BY <1>5, <2>1
<1>7. /\ \A i \in DOMAIN q : i \in DOMAIN Append(q, t) /\ Append(q, t)[i] = q[i]
      /\ Len(q) + 1 \in DOMAIN Append(q, t) /\ Append(q, t)[Len(q) + 1] = t
  <2>1. q \in Seq(Slot)
    BY <1>1, <1>2 DEF TypeOK, QueuesTypeOK
  <2> HIDE DEF q
  <2> QED BY <2>1
<1>8. ASSUME NEW c \in Box, NEW m, InSlot(c, m) PROVE InSlot(c, m)'
  <2>1. PICK i \in DOMAIN queue_slots[c] : MailSlotTable'[queue_slots[c][i]].message = m
    BY <1>6, <1>8 DEF InSlot
  <2>2. CASE c = b
    BY <1>4, <1>7, <2>1, <2>2 DEF InSlot
  <2>3. CASE c # b
    BY <1>4, <2>1, <2>3 DEF InSlot
  <2> QED BY <2>2, <2>3
<1>9. AllStay
  <2>1. BuffersStay
    BY <1>4 DEF BuffersStay, Receiving
  <2> QED BY <1>1, <1>4, <1>8, <2>1, GotSame, StaysQuiet DEF Active
<1>10. NewIsThere
  <2>1. PICK m : m = sent + 1
    OBVIOUS
  <2>2. InSlot(b, m)'
    BY <1>4, <1>5, <1>7, <2>1 DEF InSlot
  <2>3. Active(b)'
    BY <1>2, <1>4 DEF Active
  <2>4. Somewhere(m)'
    BY <1>2, <2>2, <2>3 DEF Somewhere
  <2> QED BY <1>1, <1>4, <2>1, <2>4, NewIs
<1> QED BY <1>9, <1>10

LEMMA SendStays ==
  ASSUME MInv, FramesKept, NEW p \in Proc, NEW b, NEW n, MboxSend(p, b, n) \/ MboxCondSend(p, b, n)
  PROVE  AllStay /\ NewIsThere
<1>0. UNCHANGED mboxVars /\ Running(p)
  BY DEF MboxSend, MboxCondSend
<1>1. CASE HandOff(p, b, n) \/ SendBlocks(p, b, n) \/ SendToSlot(p, b, n)
  BY <1>0, <1>1, HandOffStays, SendBlocksStays, SendToSlotStays
<1>2. CASE SendInvalid(p, b, n) \/ CondSendFails(p, b, n) \/ SendOverflow(p, b, n)
  <2>1. UNCHANGED <<MailBoxTable, MailSlotTable, queue_slots, blocked_proc_send, pc, mproc, got, sent>>
    BY <1>0, <1>2 DEF SendInvalid, CondSendFails, SendOverflow, mboxVars, slotVars, queueVars, seenVars, callVars
  <2> QED BY <2>1, StaysPut, GotSame, NewNone DEF BuffersStay, Receiving, MInv, IInv
<1> QED BY <1>1, <1>2 DEF MboxSend, MboxCondSend

\* A receiver joins a queue: the send queue of a box without slots, or the other.
LEMMA WaitStays ==
  ASSUME MInv, FramesKept, NEW p \in Proc, NEW b, NEW ptr, NEW n, Running(p), UNCHANGED mboxVars,
         WaitOnZeroSlots(p, b, ptr, n) \/ WaitForSignal(p, b, ptr, n)
  PROVE  AllStay
<1>1. QInv /\ IInv /\ TypeOK /\ b \in Box /\ ~Receiving(p)
  BY DEF MInv, IInv, WaitOnZeroSlots, WaitForSignal, ValidReceive, Running, Receiving
<1> DEFINE s == blocked_proc_send[b]
<1>2. /\ UNCHANGED <<MailBoxTable, MailSlotTable, queue_slots, got>>
      /\ blocked_proc_send'[b] = s \/ blocked_proc_send'[b] = Append(s, p)
      /\ \A c \in Box \ {b} : blocked_proc_send'[c] = blocked_proc_send[c]
      /\ \A q \in Proc \ {p} : pc'[q] = pc[q] /\ mproc'[q] = mproc[q]
  BY <1>1 DEF WaitOnZeroSlots, WaitForSignal, BlockIn, mboxVars, slotVars, seenVars,
              TypeOK, QueuesTypeOK, CallsTypeOK
<1>3. \A i \in DOMAIN s : i \in DOMAIN Append(s, p) /\ Append(s, p)[i] = s[i]
  <2>1. s \in Seq(Proc)
    BY <1>1 DEF TypeOK, QueuesTypeOK
  <2> HIDE DEF s
  <2> QED BY <2>1
<1>4. ASSUME NEW c \in Box, NEW i \in DOMAIN blocked_proc_send[c]
      PROVE  \E j \in DOMAIN blocked_proc_send'[c] : blocked_proc_send'[c][j] = blocked_proc_send[c][i]
  <2>1. CASE c = b
    BY <1>2, <1>3, <1>4, <2>1
  <2>2. CASE c # b
    BY <1>2, <1>4, <2>2
  <2> QED BY <2>1, <2>2
<1>5. BuffersStay
  BY <1>1, <1>2, BuffersQuiet
<1> QED BY <1>1, <1>2, <1>4, <1>5, GotSame, StaysQuiet DEF Active, InSlot

\* The process taken from the send queue brings a message that fits, or is a
\* receiver, which has none.
LEMMA TakeFromSenderStays ==
  ASSUME MInv, FramesKept, NEW p \in Proc, NEW b, NEW ptr, NEW n,
         TakeFromSender(p, b, ptr, n), UNCHANGED mboxVars,
         ptr /\ mproc[Head(blocked_proc_send[b])].message_size <= n
  PROVE  AllStay
<1> DEFINE s == blocked_proc_send[b]
           q == Head(s)
           r == msgToProc(Buffer(ptr, n), mproc[q].message, mproc[q].message_size)
<1>1. QInv /\ IInv /\ TypeOK /\ b \in Box /\ s # <<>>
  BY DEF MInv, IInv, TakeFromSender, ValidReceive
<1>2. /\ UNCHANGED <<MailBoxTable, MailSlotTable, queue_slots, pc, mproc>>
      /\ blocked_proc_send'[b] = Tail(s)
      /\ \A c \in Box \ {b} : blocked_proc_send'[c] = blocked_proc_send[c]
  BY <1>1 DEF TakeFromSender, mboxVars, slotVars, callVars, TypeOK, QueuesTypeOK
<1>3. s \in Seq(Proc)
  BY <1>1 DEF TypeOK, QueuesTypeOK
<1>4. /\ \A i \in DOMAIN s : i = 1 \/ (i - 1 \in DOMAIN Tail(s) /\ Tail(s)[i - 1] = s[i])
      /\ q = s[1] /\ 1 \in DOMAIN s
  <2>1. s \in Seq(Proc) /\ s # <<>>
    BY <1>1, <1>3
  <2> HIDE DEF s
  <2> QED BY <2>1 DEF q
<1>5. q \in Proc /\ status[q] \in Blocked /\ pc[q] \in SenderPlaces
  BY <1>1, <1>4, SenderWaits
<1>6. r.message = mproc[q].message /\ r.message_size = mproc[q].message_size /\ Returned(b, r)
  BY DEF msgToProc, Buffer, TakeFromSender
<1> HIDE DEF r
<1>7. PICK x : x = mproc[q].message
  OBVIOUS
<1>8. BuffersStay
  BY <1>2 DEF BuffersStay, Receiving
<1>9. GotStays /\ (x \in Msg => Received(x)')
  <2>0. GotStays /\ (r.message_size >= 0 /\ x \in Msg => Received(x)')
    BY <1>1, <1>6, <1>7, ReturnedStays
  <2>1. x \in Msg => pc[q] = "send"
    <3>1. x \in Msg => x # NoMsg
      BY DEF Msg, NoMsg
    <3> QED BY <1>5, <1>7, <3>1 DEF SenderPlaces, MInv, ReceiversEmpty, Receiving
  <2>2. x \in Msg => mproc[q].message_size >= 0
    BY <1>5, <2>1 DEF MInv, FramesFilled
  <2> QED BY <1>6, <2>0, <2>2
<1> SUFFICES ASSUME NEW m \in Msg, Somewhere(m) PROVE Somewhere(m)'
  BY DEF AllStay
<1>10. ASSUME NEW c \in Box, Active(c), InSlot(c, m) PROVE Somewhere(m)'
  BY <1>2, <1>10 DEF Somewhere, InSlot, Active
<1>11. ASSUME NEW c \in Box, Active(c), InFrame(c, m) PROVE Somewhere(m)'
  <2>1. PICK i \in DOMAIN blocked_proc_send[c] : mproc[blocked_proc_send[c][i]].message = m
    BY <1>11 DEF InFrame
  <2>2. CASE c = b /\ i = 1
    BY <1>4, <1>7, <1>9, <2>1, <2>2 DEF Somewhere
  <2>3. CASE c = b /\ i # 1
    <3>1. PICK k \in DOMAIN Tail(s) : Tail(s)[k] = s[i]
      BY <1>4, <2>3
    <3>2. InFrame(b, m)'
      BY <1>2, <2>1, <2>3, <3>1 DEF InFrame
    <3> QED BY <1>2, <1>11, <2>3, <3>2 DEF Somewhere, Active
  <2>4. CASE c # b
    BY <1>2, <1>11, <2>1, <2>4 DEF Somewhere, InFrame, Active
  <2> QED BY <2>2, <2>3, <2>4
<1>12. ASSUME InBuffer(m) PROVE Somewhere(m)'
  BY <1>2, <1>12 DEF Somewhere, InBuffer, Receiving
<1>13. ASSUME Received(m) PROVE Somewhere(m)'
  BY <1>9, <1>13 DEF GotStays, Somewhere
<1> QED BY <1>10, <1>11, <1>12, <1>13 DEF Somewhere

\* The first message of the box is received; that of the first blocked sender,
\* if there is one, moves to a slot.
LEMMA TakeFromSlotStays ==
  ASSUME MInv, FramesKept, NEW p \in Proc, NEW b, NEW ptr, NEW n,
         TakeFromSlot(p, b, ptr, n), UNCHANGED mboxVars
  PROVE  AllStay
<1> DEFINE q == queue_slots[b]
           s == blocked_proc_send[b]
<1>1. QInv /\ IInv /\ TypeOK /\ b \in Box /\ UNCHANGED <<MailBoxTable, pc, mproc>>
  BY DEF MInv, IInv, TakeFromSlot, Slotted, ValidReceive, mboxVars, callVars
<1>2. /\ q # <<>> /\ Head(q) \in Slot /\ MailSlotTable[Head(q)].status = "IN_USE"
      /\ \A c \in Box \ {b} : /\ queue_slots'[c] = queue_slots[c]
                              /\ blocked_proc_send'[c] = blocked_proc_send[c]
                              /\ \A i \in DOMAIN queue_slots[c] :
                                   MailSlotTable'[queue_slots[c][i]] = MailSlotTable[queue_slots[c][i]]
      /\ \A i \in DOMAIN Tail(q) : MailSlotTable'[Tail(q)[i]] = MailSlotTable[Tail(q)[i]]
      /\ s = <<>> => queue_slots'[b] = Tail(q) /\ blocked_proc_send'[b] = s
      /\ s # <<>> => /\ blocked_proc_send'[b] = Tail(s)
                     /\ \E t \in Slot : /\ queue_slots'[b] = Append(Tail(q), t)
                                        /\ MailSlotTable'[t].message = mproc[Head(s)].message
  BY <1>1, SlotsTaken
<1> DEFINE r == [message_ptr |-> ptr, message_size |-> MailSlotTable[Head(q)].message_size,
                 message |-> MailSlotTable[Head(q)].message]
<1>3. /\ r.message = MailSlotTable[Head(q)].message /\ r.message \in Msg /\ r.message_size >= 0
      /\ Returned(b, r)
  BY <1>2 DEF MInv, SlotsFilled, TakeFromSlot
<1> HIDE DEF r
<1>4. PICK x : x = MailSlotTable[Head(q)].message
  OBVIOUS
<1>5. GotStays /\ Received(x)'
  BY <1>1, <1>3, <1>4, ReturnedStays
<1>6. /\ \A i \in DOMAIN q : i = 1 \/ (i - 1 \in DOMAIN Tail(q) /\ Tail(q)[i - 1] = q[i])
      /\ Head(q) = q[1] /\ Tail(q) \in Seq(Slot)
  <2>1. q \in Seq(Slot) /\ q # <<>>
    BY <1>1, <1>2 DEF TypeOK, QueuesTypeOK
  <2> HIDE DEF q
  <2> QED BY <2>1
<1>7. s # <<>> => /\ \A i \in DOMAIN s : i = 1 \/ (i - 1 \in DOMAIN Tail(s) /\ Tail(s)[i - 1] = s[i])
                 /\ Head(s) = s[1]
  <2>1. s \in Seq(Proc)
    BY <1>1 DEF TypeOK, QueuesTypeOK
  <2> HIDE DEF s
  <2> QED BY <2>1
<1>8. \A i \in DOMAIN Tail(q) : \E j \in DOMAIN queue_slots'[b] : queue_slots'[b][j] = Tail(q)[i]
  <2>1. ASSUME NEW t \in Slot, NEW i \in DOMAIN Tail(q)
        PROVE  i \in DOMAIN Append(Tail(q), t) /\ Append(Tail(q), t)[i] = Tail(q)[i]
    <3> DEFINE u == Tail(q)
    <3>1. u \in Seq(Slot)
      BY <1>6
    <3> HIDE DEF u
    <3> QED BY <2>1, <3>1 DEF u
  <2> DEFINE u == Tail(q)
  <2> HIDE DEF u, s
  <2> QED BY <1>2, <2>1, ZenonT(30) DEF u
<1>9. s # <<>> => \E j \in DOMAIN queue_slots'[b] :
                   MailSlotTable'[queue_slots'[b][j]].message = mproc[Head(s)].message
  <2>1. ASSUME NEW t \in Slot
        PROVE  Len(Tail(q)) + 1 \in DOMAIN Append(Tail(q), t) /\ Append(Tail(q), t)[Len(Tail(q)) + 1] = t
    <3> DEFINE u == Tail(q)
    <3>1. u \in Seq(Slot)
      BY <1>6
    <3> HIDE DEF u
    <3> QED BY <2>1, <3>1 DEF u
  <2> DEFINE u == Tail(q)
  <2> HIDE DEF u, s
  <2> QED BY <1>2, <2>1 DEF u
<1> SUFFICES ASSUME NEW m \in Msg, Somewhere(m) PROVE Somewhere(m)'
  BY DEF AllStay
<1>10. ASSUME NEW c \in Box, Active(c), InSlot(c, m) PROVE Somewhere(m)'
  <2>0. Active(c)'
    BY <1>1, <1>10 DEF Active
  <2>1. PICK i \in DOMAIN queue_slots[c] : MailSlotTable[queue_slots[c][i]].message = m
    BY <1>10 DEF InSlot
  <2>2. CASE c = b /\ i = 1
    BY <1>4, <1>5, <1>6, <2>1, <2>2 DEF Somewhere
  <2>3. CASE c = b /\ i # 1
    <3>1. PICK k \in DOMAIN Tail(q) : Tail(q)[k] = q[i]
      BY <1>6, <2>3
    <3>2. MailSlotTable'[q[i]].message = m
      BY <1>2, <2>1, <2>3, <3>1
    <3>3. PICK j \in DOMAIN queue_slots'[b] : queue_slots'[b][j] = q[i]
      BY <1>8, <3>1
    <3> QED BY <2>0, <2>3, <3>2, <3>3 DEF Somewhere, InSlot
  <2>4. CASE c # b
    BY <1>2, <2>0, <2>1, <2>4 DEF Somewhere, InSlot
  <2> QED BY <2>2, <2>3, <2>4
<1>11. ASSUME NEW c \in Box, Active(c), InFrame(c, m) PROVE Somewhere(m)'
  <2>0. Active(c)'
    BY <1>1, <1>11 DEF Active
  <2>1. PICK i \in DOMAIN blocked_proc_send[c] : mproc[blocked_proc_send[c][i]].message = m
    BY <1>11 DEF InFrame
  <2>2. CASE c # b \/ s = <<>>
    BY <1>1, <1>2, <2>0, <2>1, <2>2 DEF Somewhere, InFrame
  <2>3. CASE c = b /\ s # <<>> /\ i = 1
    BY <1>7, <1>9, <2>0, <2>1, <2>3 DEF Somewhere, InSlot
  <2>4. CASE c = b /\ s # <<>> /\ i # 1
    <3>1. PICK k \in DOMAIN Tail(s) : Tail(s)[k] = s[i]
      BY <1>7, <2>4
    <3>2. InFrame(b, m)'
      BY <1>1, <1>2, <2>1, <2>4, <3>1, ZenonT(30) DEF InFrame
    <3> QED BY <2>0, <2>4, <3>2 DEF Somewhere
  <2> QED BY <2>2, <2>3, <2>4
<1>12. ASSUME InBuffer(m) PROVE Somewhere(m)'
  BY <1>1, <1>12 DEF Somewhere, InBuffer, Receiving
<1>13. ASSUME Received(m) PROVE Somewhere(m)'
  BY <1>5, <1>13 DEF GotStays, Somewhere
<1> QED BY <1>10, <1>11, <1>12, <1>13 DEF Somewhere

LEMMA ReceiveStays ==
  ASSUME MInv, FramesKept, NEW p \in Proc, NEW a \in RecvArgs \union CondRecvArgs, ReliableUse,
         \/ MboxReceive(p, a.mbox_id, a.msg_ptr, a.msg_size)
         \/ MboxCondReceive(p, a.mbox_id, a.msg_ptr, a.msg_size)
  PROVE  AllStay
<1> DEFINE b == a.mbox_id
           ptr == a.msg_ptr
           n == a.msg_size
<1>0. UNCHANGED mboxVars /\ Running(p)
  BY DEF MboxReceive, MboxCondReceive
<1>1. CASE TakeFromSender(p, b, ptr, n)
  BY <1>0, <1>1, TakeFromSenderStays DEF ReliableUse, NoneCut
<1>2. CASE TakeFromSlot(p, b, ptr, n)
  BY <1>0, <1>2, TakeFromSlotStays
<1>3. ~DropTooLong(p, b, n)
  BY DEF ReliableUse, NoneDropped
<1>4. CASE WaitOnZeroSlots(p, b, ptr, n) \/ WaitForSignal(p, b, ptr, n)
  BY <1>0, <1>4, WaitStays
<1>5. CASE ReceiveInvalid(p, b) \/ NothingQueued(p, b) \/ NoSender(p, b, ptr, n)
  <2>1. UNCHANGED <<MailBoxTable, MailSlotTable, queue_slots, blocked_proc_send, pc, mproc>>
    BY <1>0, <1>5 DEF ReceiveInvalid, NothingQueued, NoSender, mboxVars, slotVars, queueVars, callVars
  <2>2. UNCHANGED got
    BY <1>5 DEF ReceiveInvalid, NothingQueued, NoSender, Returned, Buffer, seenVars
  <2> QED BY <2>1, <2>2, StaysPut, GotSame DEF BuffersStay, Receiving, MInv
<1> QED BY <1>1, <1>2, <1>3, <1>4, <1>5 DEF MboxReceive, MboxCondReceive

\* A release that goes on is that of a box that is no longer active.
LEMMA ReleaseStays ==
  ASSUME MInv, FramesKept, NEW p \in Proc, ReleaseStep(p)
  PROVE  AllStay
<1>1. QInv /\ IInv /\ TypeOK /\ ~Active(arg[p]) /\ ~Receiving(p)
  BY DEF MInv, IInv, Releasing, ReleaseStep, Receiving
<1>2. UNCHANGED <<MailBoxTable, MailSlotTable, queue_slots, mproc, got>>
  BY DEF ReleaseStep, mboxVars, slotVars, seenVars
<1>3. \A b \in Box : Active(b) => blocked_proc_send'[b] = blocked_proc_send[b]
  BY <1>1 DEF ReleaseStep, ReleaseSender, ReleaseReceiver, ReleaseDone, TypeOK, QueuesTypeOK
<1>4. \A q \in Proc \ {p} : pc'[q] = pc[q]
  BY <1>1 DEF ReleaseStep, ReleaseSender, ReleaseReceiver, ReleaseDone, TypeOK, CallsTypeOK
<1>5. BuffersStay
  BY <1>1, <1>2, <1>4, BuffersQuiet
<1> QED BY <1>1, <1>2, <1>3, <1>5, GotSame, StaysQuiet DEF Active, InSlot

LEMMA SendResumesStays ==
  ASSUME MInv, FramesKept, NEW p \in Proc, SendResumes(p)
  PROVE  AllStay
<1>1. QInv /\ TypeOK /\ ~Receiving(p)
  BY DEF MInv, IInv, SendResumes, Receiving
<1>2. UNCHANGED <<MailBoxTable, MailSlotTable, queue_slots, blocked_proc_send, got>>
  BY DEF SendResumes, mboxVars, slotVars, queueVars, seenVars
<1>3. \A q \in Proc \ {p} : pc'[q] = pc[q] /\ mproc'[q] = mproc[q]
  BY <1>1 DEF SendResumes, TypeOK, CallsTypeOK
<1> QED BY <1>1, <1>2, <1>3, BuffersQuiet, GotSame, StaysPut

\* A receiver returns what it was handed, or is told -3.
LEMMA ReceiveResumesStays ==
  ASSUME MInv, FramesKept, NEW p \in Proc, ReceiveResumes(p), NEW m \in Msg, Somewhere(m)
  PROVE  Somewhere(m)' \/ (ReceiveAborts(p) /\ mproc[p].message = m)
<1>1. QInv /\ TypeOK /\ arg[p] \in Box
  BY DEF MInv, IInv, ReceiveResumes, TypeOK, CallsTypeOK
<1>2. UNCHANGED <<MailBoxTable, MailSlotTable, queue_slots, blocked_proc_send>>
  BY DEF ReceiveResumes, mboxVars, slotVars, queueVars
<1>3. \A q \in Proc \ {p} : pc'[q] = pc[q] /\ mproc'[q] = mproc[q]
  BY <1>1 DEF ReceiveResumes, TypeOK, CallsTypeOK
<1>4. GotStays /\ (Received(m)' \/ ReceiveAborts(p) \/ mproc[p].message # m)
  <2>1. CASE p \in zapped \/ ~Active(arg[p])
    BY <2>1, GotSame DEF ReceiveAborts, ReceiveResumes, seenVars
  <2>2. CASE ~(p \in zapped \/ ~Active(arg[p]))
    <3> DEFINE r == mproc[p]
    <3>1. Returned(arg[p], r)
      BY <2>2 DEF ReceiveResumes
    <3>2. m = r.message => r.message_size >= 0
      <4>1. m # NoMsg
        BY DEF Msg, NoMsg
      <4> QED BY <4>1 DEF MInv, ReceiversEmpty, Receiving, ReceiveResumes
    <3> HIDE DEF r
    <3>3. PICK x : x = r.message
      OBVIOUS
    <3>4. GotStays /\ (r.message_size >= 0 /\ x \in Msg => Received(x)')
      BY <1>1, <3>1, <3>3, ReturnedStays
    <3> QED BY <3>2, <3>3, <3>4 DEF r
  <2> QED BY <2>1, <2>2
<1>5. ASSUME NEW b \in Box, Active(b), InSlot(b, m) PROVE Somewhere(m)'
  BY <1>2, <1>5 DEF Somewhere, InSlot, Active
<1>6. ASSUME NEW b \in Box, Active(b), InFrame(b, m) PROVE Somewhere(m)'
  <2>1. InFrame(b, m)'
    BY <1>1, <1>2, <1>6, FramesStay
  <2> QED BY <1>2, <1>6, <2>1 DEF Somewhere, Active
<1>7. ASSUME InBuffer(m) PROVE Somewhere(m)' \/ (ReceiveAborts(p) /\ mproc[p].message = m)
  <2>1. PICK q \in Proc : Receiving(q) /\ mproc[q].message = m
    BY <1>7 DEF InBuffer
  <2>2. CASE q = p
    BY <1>4, <2>1, <2>2 DEF Somewhere
  <2>3. CASE q # p
    BY <1>3, <2>1, <2>3 DEF Somewhere, InBuffer, Receiving
  <2> QED BY <2>2, <2>3
<1>8. ASSUME Received(m) PROVE Somewhere(m)'
  BY <1>4, <1>8 DEF GotStays, Somewhere
<1> QED BY <1>5, <1>6, <1>7, <1>8 DEF Somewhere

\* The two ways in which the code gives a message up.
GivenUp(m) ==
  \/ \E b \in Box : Active(b) /\ ~Active(b)'
  \/ \E p \in Proc : ReceiveAborts(p) /\ mproc[p].message = m

LEMMA NextStays ==
  ASSUME MInv, [Next]_vars, ReliableUse
  PROVE  NewIsThere /\ \A m \in Msg : Somewhere(m) => Somewhere(m)' \/ GivenUp(m)
<1>0. FramesKept /\ TypeOK
  BY NextFramesKept DEF MInv, IInv
<1> DEFINE Goal == NewIsThere /\ \A m \in Msg : Somewhere(m) => Somewhere(m)' \/ GivenUp(m)
<1>1. ASSUME AllStay, UNCHANGED sent PROVE Goal
  BY <1>0, <1>1, NewNone DEF AllStay
<1>2. CASE UNCHANGED <<MailBoxTable, MailSlotTable, queue_slots, blocked_proc_send, pc, mproc, got, sent>>
  BY <1>0, <1>1, <1>2, StaysPut, GotSame DEF BuffersStay, Receiving, MInv
<1>3. ASSUME NEW p \in Proc, Call(p) PROVE Goal
  <2>1. ASSUME NEW a \in CreateArgs, MboxCreate(p, a) PROVE Goal
    <3>1. UNCHANGED sent
      BY <2>1 DEF MboxCreate, seenVars
    <3> QED BY <1>0, <1>1, <2>1, <3>1, CreateStays
  <2>2. ASSUME NEW b, MboxRelease(p, b) PROVE Goal
    <3>1. CASE ReleaseRefused(p, b)
      BY <1>2, <3>1 DEF ReleaseRefused, mboxVars, queueVars, slotVars, callVars, seenVars
    <3>2. CASE ReleaseBox(p, b)
      <4>1. b \in Box /\ Active(b) /\ ~Active(b)' /\ UNCHANGED sent
        BY <1>0, <3>2 DEF ReleaseBox, Active, FreeBox, seenVars, TypeOK, BoxesTypeOK
      <4> QED BY <1>0, <4>1, NewNone DEF GivenUp
    <3> QED BY <2>2, <3>1, <3>2 DEF MboxRelease
  <2>3. ASSUME NEW b, NEW n, MboxSend(p, b, n) \/ MboxCondSend(p, b, n) PROVE Goal
    BY <1>0, <2>3, SendStays DEF AllStay
  <2>4. ASSUME NEW a \in RecvArgs \union CondRecvArgs,
               \/ MboxReceive(p, a.mbox_id, a.msg_ptr, a.msg_size)
               \/ MboxCondReceive(p, a.mbox_id, a.msg_ptr, a.msg_size)
        PROVE  Goal
    <3>1. UNCHANGED sent
      BY <2>4 DEF MboxReceive, MboxCondReceive, ReceiveInvalid, TakeFromSender, WaitOnZeroSlots, WaitForSignal,
                  NothingQueued, DropTooLong, TakeFromSlot, NoSender, Returned, seenVars
    <3> QED BY <1>0, <1>1, <2>4, <3>1, ReceiveStays
  <2> QED BY <1>3, <2>1, <2>2, <2>3, <2>4 DEF Call
<1>4. ASSUME NEW p \in Proc, Resume(p) PROVE Goal
  <2>1. UNCHANGED sent
    BY <1>4 DEF Resume, SendResumes, ReceiveResumes, ReleaseStep, Returned, seenVars
  <2>2. CASE SendResumes(p) \/ ReleaseStep(p)
    BY <1>0, <1>1, <2>1, <2>2, SendResumesStays, ReleaseStays
  <2>3. CASE ReceiveResumes(p)
    BY <1>0, <2>1, <2>3, ReceiveResumesStays, NewNone DEF GivenUp
  <2> QED BY <1>4, <2>2, <2>3 DEF Resume
<1>5. ASSUME NEW p \in Proc, Quit(p) PROVE Goal
  BY <1>2, <1>5 DEF Quit, mboxVars, queueVars, slotVars, callVars, seenVars
<1>6. CASE Interrupt \/ UNCHANGED vars
  BY <1>2, <1>6 DEF Interrupt, vars, mboxVars, queueVars, slotVars, callVars, seenVars
<1> QED BY <1>3, <1>4, <1>5, <1>6 DEF Next

\* Whatever the users do, waiting receivers, zaps and releases included, a
\* message stays in the mailbox system until it is received, as long as buffers
\* are large enough and no box is created from one whose release is not over:
\* a sender is never woken before its message has been stored or handed over
\* (phase2.c:462, 552), and a receiver that was handed one returns it unless it
\* was zapped or its box released (phase2.c:519).
THEOREM NothingIsLost == Spec /\ [][ReliableUse]_vars => NothingLost
<1> DEFINE Lost == \A m \in Msg :
                     /\ m \in sent + 1 .. sent' => Held(m)'
                     /\ Held(m) => \/ Held(m)'
                                   \/ \E b \in Box : Active(b) /\ ~Active(b)'
                                   \/ \E p \in Proc : ReceiveAborts(p) /\ mproc[p].message = m
<1>1. MInv /\ [Next]_vars /\ [ReliableUse]_vars => MInv' /\ [Lost]_vars
  <2> SUFFICES ASSUME MInv, [Next]_vars, [ReliableUse]_vars PROVE MInv' /\ [Lost]_vars
    OBVIOUS
  <2>1. ReliableUse
    BY StutterReliable
  <2>2. MInv'
    BY <2>1, NextMInv DEF ReliableUse
  <2>3. ASSUME NEW m \in Msg PROVE (Held(m) <=> Somewhere(m)) /\ (Held(m)' <=> Somewhere(m)')
    BY <2>2, HeldIs DEF MInv, IInv
  <2>4. Lost
    BY <2>1, <2>3, NextStays DEF NewIsThere, GivenUp
  <2> QED BY <2>2, <2>4
<1> QED BY <1>1, InitMInv, PTL DEF Spec, NothingLost
=============================================================================
