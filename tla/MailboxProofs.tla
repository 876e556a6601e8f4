--------------------------- MODULE MailboxProofs ----------------------------
(***************************************************************************)
(* Proofs about the mailboxes, for every number of processes, boxes, slots *)
(* and messages, every priority assignment and all arguments of the calls. *)
(***************************************************************************)
EXTENDS MailboxProperties, FiniteSetTheorems, SequenceTheorems, WellFoundedInduction, TLAPS

\* The queues are sequences throughout.
USE DEF enqueue, dequeue

(***************************************************************************)
(* Lemmas about numbers and finite sets.                                   *)
(***************************************************************************)

\* A non-empty set of natural numbers has a least element, so the search for
\* the first free index (phase2.c:152-157, 386-391) finds one if there is one.
LEMMA LeastExists ==
  ASSUME NEW S, S \subseteq Nat, S # {}
  PROVE  \E x \in S : \A y \in S : x <= y
<1> DEFINE R == {ss \in Nat \X Nat : ss[1] < ss[2]}
<1>1. IsWellFoundedOn(R, Nat)
  BY NatLessThanWellFounded DEF OpToRel
<1>2. PICK x \in S : \A y \in S : ~(<<y, x>> \in R)
  <2>1. \E x \in S : \A y \in S : ~(<<y, x>> \in R)
    BY <1>1, WFMin
  <2> QED BY <2>1
<1>3. ASSUME NEW y \in S PROVE x <= y
  <2>1. x \in Nat /\ y \in Nat
    OBVIOUS
  <2>2. ~(<<y, x>> \in R)
    BY <1>2
  <2>3. ~(y < x)
    BY <2>1, <2>2
  <2> QED BY <2>1, <2>3
<1> QED BY <1>3

\* The search returns a free index whenever there is one.
LEMMA FirstFreeIsFree ==
  ASSUME NEW next \in Nat, NEW free, free \subseteq Nat, free # {}
  PROVE  FirstFree(next, free) \in free
<1>1. CASE next \in free
  BY <1>1 DEF FirstFree
<1>2. CASE next \notin free
  <2>1. \E x \in free : \A y \in free : x <= y
    BY LeastExists
  <2> QED BY <1>2, <2>1 DEF FirstFree
<1> QED BY <1>1, <1>2

\* The table of n entries is a finite set of n indices.
LEMMA IndexSet ==
  ASSUME NEW n \in Nat
  PROVE  IsFiniteSet(0 .. n - 1) /\ Cardinality(0 .. n - 1) = n
<1>1. CASE n = 0
  <2>1. 0 .. n - 1 = {}
    BY <1>1
  <2> QED BY <1>1, <2>1, FS_EmptySet
<1>2. CASE n # 0
  BY <1>2, FS_Interval
<1> QED BY <1>1, <1>2

\* A sequence without repetitions of length n has n elements.
LEMMA InjectiveSeq ==
  ASSUME NEW S, NEW q \in Seq(S),
         \A i, j \in DOMAIN q : q[i] = q[j] => i = j
  PROVE  LET R == {q[i] : i \in DOMAIN q}
         IN  IsFiniteSet(R) /\ Cardinality(R) = Len(q)
<1> DEFINE R == {q[i] : i \in DOMAIN q}
<1>1. Len(q) \in Nat /\ DOMAIN q = 1 .. Len(q)
  OBVIOUS
<1>2. IsFiniteSet(1 .. Len(q)) /\ Cardinality(1 .. Len(q)) = Len(q)
  BY <1>1, FS_Interval
<1> DEFINE f == [i \in 1 .. Len(q) |-> q[i]]
<1>3. f \in Bijection(1 .. Len(q), R)
  BY <1>1 DEF Bijection, Injection, Surjection, IsInjective
<1>4. ExistsBijection(1 .. Len(q), R)
  BY <1>3 DEF ExistsBijection
<1> QED BY <1>2, <1>4, FS_Bijection

-----------------------------------------------------------------------------
(***************************************************************************)
(* The inductive invariant.  The types alone are not inductive: the index  *)
(* that createSlot and MboxCreate settle on is inside the table only       *)
(* because the counters they test are the numbers of entries in use.       *)
(***************************************************************************)
IInv == TypeOK /\ SlotOwnership /\ BoxOwnership

LEMMA TablesFinite ==
  /\ IsFiniteSet(Box) /\ Cardinality(Box) = MAXMBOX
  /\ IsFiniteSet(Slot) /\ Cardinality(Slot) = MAXSLOTS
  /\ Box \subseteq Nat /\ Slot \subseteq Nat
BY MailboxAssumption, IndexSet DEF Box, Slot

\* While num_boxes says so, MboxCreate finds a released box.
LEMMA NextBoxIsFree ==
  ASSUME IInv, num_boxes # MAXMBOX
  PROVE  NextBox \in Box /\ ~Active(NextBox)
<1> DEFINE free == {b \in Box : ~Active(b)}
<1>1. free # {}
  <2>1. SUFFICES ASSUME free = {} PROVE FALSE
    OBVIOUS
  <2>2. {b \in Box : Active(b)} = Box
    BY <2>1
  <2> QED BY <2>2, TablesFinite DEF IInv, BoxOwnership
<1>2. free \subseteq Nat
  BY TablesFinite
<1>3. next_mbox_id \in Nat
  <2>1. next_mbox_id \in 0 .. MAXMBOX
    BY DEF IInv, TypeOK, BoxesTypeOK
  <2> QED BY <2>1, MailboxAssumption
<1>4. NextBox \in free
  <2> HIDE DEF free
  <2>1. FirstFree(next_mbox_id, free) \in free
    BY <1>1, <1>2, <1>3, FirstFreeIsFree
  <2> QED BY <2>1 DEF NextBox, free
<1> QED BY <1>4

\* While a slot table has a free slot, createSlot takes a free one.
LEMMA NextSlotIsFree ==
  ASSUME IInv, NEW table, NEW s \in Slot, table[s].status = "EMPTY"
  PROVE  NextSlot(table) \in Slot /\ table[NextSlot(table)].status = "EMPTY"
<1> DEFINE free == {t \in Slot : table[t].status = "EMPTY"}
<1>1. free # {}
  OBVIOUS
<1>2. free \subseteq Nat
  BY TablesFinite
<1>3. next_slot_id \in Nat
  <2>1. next_slot_id \in 0 .. MAXSLOTS
    BY DEF IInv, TypeOK, SlotsTypeOK
  <2> QED BY <2>1, MailboxAssumption
<1>4. NextSlot(table) \in free
  <2> HIDE DEF free
  <2>1. FirstFree(next_slot_id, free) \in free
    BY <1>1, <1>2, <1>3, FirstFreeIsFree
  <2> QED BY <2>1 DEF NextSlot, free
<1> QED BY <1>4

\* While num_slots is below MAXSLOTS, there is a free slot.
LEMMA SlotLeft ==
  ASSUME IInv, num_slots # MAXSLOTS
  PROVE  \E s \in Slot : MailSlotTable[s].status = "EMPTY"
<1>1. SUFFICES ASSUME \A s \in Slot : MailSlotTable[s].status # "EMPTY" PROVE FALSE
  OBVIOUS
<1>2. InUse = Slot
  BY <1>1 DEF InUse, IInv, TypeOK, SlotsTypeOK, SlotRecord
<1> QED BY <1>2, TablesFinite DEF IInv, SlotOwnership, Owned, InUse

-----------------------------------------------------------------------------
(***************************************************************************)
(* Type correctness.                                                       *)
(***************************************************************************)
LEMMA InitTypeOK == Init => TypeOK
<1> SUFFICES ASSUME Init PROVE TypeOK
  OBVIOUS
<1> USE KernelAssumption, MailboxAssumption DEF Init
<1>1. KernelTypeOK
  BY DEF KernelInit, KernelTypeOK, Dispatch, Highest, Blocked
<1>2. BoxesTypeOK
  <2>1. ASSUME NEW b \in Box
        PROVE  MailBoxTable[b] \in [status : {"ACTIVE", "INACTIVE"}, total_slots : Int, slot_size : Int]
    <3>1. CASE b < Len(InitBoxes)
      <4>1. b + 1 \in 1 .. Len(InitBoxes)
        BY <3>1 DEF Box
      <4>2. InitBoxes[b + 1] \in [slots : Nat, size : 0 .. MAX_MESSAGE]
        BY <4>1, ElementOfSeq
      <4> QED BY <3>1, <4>2
    <3>2. CASE ~(b < Len(InitBoxes))
      BY <3>2 DEF FreeBox
    <3> QED BY <3>1, <3>2
  <2> QED BY <2>1 DEF BoxesTypeOK
<1>3. SlotsTypeOK
  BY DEF SlotsTypeOK, SlotRecord, Slot, FreeSlot, NoMsg
<1>4. QueuesTypeOK
  BY DEF QueuesTypeOK
<1>5. CallsTypeOK
  <2>1. pc \in [Proc -> Place] /\ arg \in [Proc -> Box \union {-1}]
    BY DEF Place
  <2>2. NoProc \in ProcRecord
    BY DEF NoProc, ProcRecord
  <2> QED BY <2>1, <2>2 DEF CallsTypeOK
<1>6. SeenTypeOK
  BY DEF SeenTypeOK
<1> QED BY <1>1, <1>2, <1>3, <1>4, <1>5, <1>6 DEF TypeOK

\* The kernel's operations keep the kernel's types, also when a handler calls
\* them in the sentinel.
LEMMA KernelTypes ==
  ASSUME KernelTypeOK, NEW p \in Proc \union {Sentinel}
  PROVE  /\ \A st \in Blocked : BlockMe(p, st) => KernelTypeOK'
         /\ \A q \in Proc : UnblockProc(p, q) => KernelTypeOK'
         /\ \A on \in BOOLEAN : ReturnWith(p, on) => KernelTypeOK'
         /\ QuitProc(p) => KernelTypeOK'
<1> USE KernelAssumption DEF KernelTypeOK
<1>1. ASSUME NEW st \in Blocked, BlockMe(p, st) PROVE KernelTypeOK'
  BY <1>1 DEF BlockMe, Dispatch, Highest
<1>2. ASSUME NEW q \in Proc, UnblockProc(p, q) PROVE KernelTypeOK'
  BY <1>2 DEF UnblockProc
<1>3. ASSUME NEW on \in BOOLEAN, ReturnWith(p, on) PROVE KernelTypeOK'
  BY <1>3 DEF ReturnWith
<1>4. ASSUME QuitProc(p) PROVE KernelTypeOK'
  BY <1>4 DEF QuitProc, Dispatch, Highest
<1> QED BY <1>1, <1>2, <1>3, <1>4

\* msgToProc leaves an mbox_proc, with the message or with its own contents.
LEMMA MsgToProcType ==
  ASSUME NEW r \in ProcRecord, NEW m \in Msg \union {NoMsg}, NEW n \in Int
  PROVE  /\ msgToProc(r, m, n) \in ProcRecord
         /\ msgToProc(r, m, n).message \in {m, r.message}
<1>1. CASE r.message_ptr /\ n <= r.message_size
  <2>1. msgToProc(r, m, n) = [r EXCEPT !.message = m, !.message_size = n]
    BY <1>1 DEF msgToProc
  <2>2. msgToProc(r, m, n) = [message_ptr |-> r.message_ptr, message_size |-> n, message |-> m]
    BY <2>1 DEF ProcRecord
  <2> QED BY <2>2 DEF ProcRecord
<1>2. CASE ~(r.message_ptr /\ n <= r.message_size)
  <2>1. msgToProc(r, m, n) = [r EXCEPT !.message_size = -1]
    BY <1>2 DEF msgToProc
  <2>2. msgToProc(r, m, n) = [message_ptr |-> r.message_ptr, message_size |-> -1, message |-> r.message]
    BY <2>1 DEF ProcRecord
  <2> QED BY <2>2 DEF ProcRecord
<1> QED BY <1>1, <1>2

\* What a step leaves alone keeps its type.
LEMMA UnchangedTypes ==
  ASSUME TypeOK
  PROVE  /\ UNCHANGED kernelVars => KernelTypeOK'
         /\ UNCHANGED mboxVars => BoxesTypeOK'
         /\ UNCHANGED slotVars => SlotsTypeOK'
         /\ UNCHANGED queueVars => QueuesTypeOK'
         /\ UNCHANGED <<callVars, halted>> => CallsTypeOK'
         /\ UNCHANGED seenVars => SeenTypeOK'
<1> USE DEF TypeOK
<1>1. ASSUME UNCHANGED kernelVars PROVE KernelTypeOK'
  BY <1>1 DEF KernelTypeOK, kernelVars
<1>2. ASSUME UNCHANGED mboxVars PROVE BoxesTypeOK'
  BY <1>2 DEF BoxesTypeOK, mboxVars
<1>3. ASSUME UNCHANGED slotVars PROVE SlotsTypeOK'
  BY <1>3 DEF SlotsTypeOK, slotVars
<1>4. ASSUME UNCHANGED queueVars PROVE QueuesTypeOK'
  BY <1>4 DEF QueuesTypeOK, queueVars
<1>5. ASSUME UNCHANGED <<callVars, halted>> PROVE CallsTypeOK'
  BY <1>5 DEF CallsTypeOK, callVars
<1>6. ASSUME UNCHANGED seenVars PROVE SeenTypeOK'
  BY <1>6 DEF SeenTypeOK, seenVars
<1> QED BY <1>1, <1>2, <1>3, <1>4, <1>5, <1>6

\* A receive that returns records the message, if there is one.
LEMMA ReturnedType ==
  ASSUME SeenTypeOK, NEW b \in Box, NEW r, r.message \in Msg \union {NoMsg}, Returned(b, r)
  PROVE  SeenTypeOK'
<1>1. got' \in [Box -> Seq(Msg)]
  <2>1. CASE r.message_size >= 0 /\ r.message # NoMsg
    <3>1. r.message \in Msg /\ got[b] \in Seq(Msg)
      BY <2>1 DEF SeenTypeOK
    <3>2. Append(got[b], r.message) \in Seq(Msg)
      BY <3>1
    <3> QED BY <2>1, <3>2 DEF SeenTypeOK, Returned
  <2>2. CASE ~(r.message_size >= 0 /\ r.message # NoMsg)
    BY <2>2 DEF SeenTypeOK, Returned
  <2> QED BY <2>1, <2>2
<1> QED BY <1>1 DEF SeenTypeOK, Returned

\* A process that blocks in a call on a box of the table.
LEMMA BlockInType ==
  ASSUME TypeOK, NEW p \in Proc, NEW where \in Waiting, NEW b \in Box, NEW r \in ProcRecord,
         where = "send" => r.message \in Msg,
         NEW st \in Blocked, BlockIn(p, where, b, r, st), UNCHANGED halted
  PROVE  KernelTypeOK' /\ CallsTypeOK'
<1>1. KernelTypeOK'
  BY KernelTypes DEF BlockIn, TypeOK
<1>2. CallsTypeOK'
  BY DEF BlockIn, TypeOK, CallsTypeOK, Place
<1> QED BY <1>1, <1>2

\* A process that leaves its call.
LEMMA LeaveCallType ==
  ASSUME CallsTypeOK, NEW p \in Proc, UNCHANGED halted,
         pc' = [pc EXCEPT ![p] = "user"], arg' = [arg EXCEPT ![p] = -1],
         mproc' = [mproc EXCEPT ![p] = NoProc]
  PROVE  CallsTypeOK'
<1>1. NoProc \in ProcRecord
  BY DEF NoProc, ProcRecord
<1> QED BY <1>1 DEF CallsTypeOK, Place

LEMMA CreateTypeOK ==
  ASSUME IInv, NEW p \in Proc, NEW a \in CreateArgs, MboxCreate(p, a)
  PROVE  TypeOK'
<1> USE DEF MboxCreate, TypeOK
<1>1. KernelTypeOK'
  BY KernelTypes DEF IInv, CreateFails, CreateBox
<1>2. BoxesTypeOK'
  <2>1. CASE CreateFails(p, a)
    BY <2>1 DEF IInv, CreateFails, BoxesTypeOK, mboxVars
  <2>2. CASE CreateBox(p, a)
    <3>1. NextBox \in Box
      BY <2>2, NextBoxIsFree DEF CreateBox
    <3>2. NextBox + 1 \in 0 .. MAXMBOX
      BY <3>1, MailboxAssumption DEF Box
    <3>3. a.slots \in Int /\ a.size \in Int
      BY MailboxAssumption
    <3> QED BY <2>2, <3>1, <3>2, <3>3 DEF IInv, CreateBox, BoxesTypeOK
  <2> QED BY <2>1, <2>2
<1>3. SlotsTypeOK'
  BY DEF IInv, SlotsTypeOK, slotVars
<1>4. QueuesTypeOK'
  <2>1. CASE CreateFails(p, a)
    BY <2>1 DEF IInv, QueuesTypeOK, CreateFails, queueVars
  <2>2. CASE CreateBox(p, a)
    <3>1. <<>> \in Seq(Slot) /\ <<>> \in Seq(Proc)
      OBVIOUS
    <3> QED BY <2>2, <3>1 DEF IInv, QueuesTypeOK, CreateBox
  <2> QED BY <2>1, <2>2
<1>5. CallsTypeOK'
  BY DEF IInv, CallsTypeOK, callVars
<1>6. SeenTypeOK'
  BY DEF IInv, SeenTypeOK, seenVars
<1> QED BY <1>1, <1>2, <1>3, <1>4, <1>5, <1>6

LEMMA SendToSlotTypeOK ==
  ASSUME IInv, NEW p \in Proc \union {Sentinel}, NEW b, NEW n \in Int, sent < MaxMsg,
         SendToSlot(p, b, n), UNCHANGED mboxVars
  PROVE  TypeOK'
<1> USE DEF SendToSlot, TypeOK
<1>1. KernelTypeOK'
  BY KernelTypes DEF IInv
<1>2. BoxesTypeOK'
  BY UnchangedTypes DEF IInv
<1>3. sent + 1 \in Msg /\ sent' \in 0 .. MaxMsg
  BY MailboxAssumption DEF IInv, SeenTypeOK, Msg
<1>4. NextSlot(MailSlotTable) \in Slot
  BY SlotLeft, NextSlotIsFree
<1>5. NextSlot(MailSlotTable) + 1 \in 0 .. MAXSLOTS
  BY <1>4, MailboxAssumption DEF Slot
<1>6. SlotsTypeOK'
  BY <1>3, <1>4, <1>5 DEF IInv, SlotsTypeOK, SlotRecord, createSlot
<1>7. QueuesTypeOK'
  BY <1>4 DEF IInv, QueuesTypeOK, createSlot, ValidSend
<1>8. CallsTypeOK'
  BY UnchangedTypes DEF IInv
<1>9. SeenTypeOK'
  BY <1>3 DEF IInv, SeenTypeOK
<1> QED BY <1>1, <1>2, <1>6, <1>7, <1>8, <1>9

LEMMA HandOffTypeOK ==
  ASSUME IInv, NEW p \in Proc \union {Sentinel}, NEW b, NEW n \in Int, sent < MaxMsg,
         HandOff(p, b, n), UNCHANGED mboxVars
  PROVE  TypeOK'
<1> USE DEF HandOff, TypeOK
<1> DEFINE q == Head(blocked_proc_receive[b])
<1>1. b \in Box /\ blocked_proc_receive[b] # <<>>
  BY DEF ValidSend, CanHandOff
<1>2. q \in Proc /\ Tail(blocked_proc_receive[b]) \in Seq(Proc)
  BY <1>1 DEF IInv, QueuesTypeOK
<1>3. KernelTypeOK'
  BY <1>2, KernelTypes DEF IInv
<1>4. BoxesTypeOK'
  BY UnchangedTypes DEF IInv
<1>5. sent + 1 \in Msg /\ sent + 1 \in 0 .. MaxMsg
  BY MailboxAssumption DEF IInv, SeenTypeOK, Msg
<1>6. SlotsTypeOK'
  BY UnchangedTypes DEF IInv
<1>7. QueuesTypeOK'
  BY <1>1, <1>2 DEF IInv, QueuesTypeOK
<1>8. CallsTypeOK'
  <2>1. mproc[q] \in ProcRecord
    BY <1>2 DEF IInv, CallsTypeOK
  <2> DEFINE r == msgToProc(mproc[q], sent + 1, n)
  <2>2. r \in ProcRecord /\ r.message \in {sent + 1, mproc[q].message}
    BY <1>5, <2>1, MsgToProcType
  <2>3. mproc' = [mproc EXCEPT ![q] = r]
    OBVIOUS
  <2> HIDE DEF r, q
  <2> QED BY <1>2, <1>5, <2>1, <2>2, <2>3 DEF IInv, CallsTypeOK
<1>9. SeenTypeOK'
  BY <1>5 DEF IInv, SeenTypeOK
<1> QED BY <1>3, <1>4, <1>6, <1>7, <1>8, <1>9

LEMMA SendBlocksTypeOK ==
  ASSUME IInv, NEW p \in Proc, NEW b, NEW n \in Int, sent < MaxMsg,
         SendBlocks(p, b, n), UNCHANGED mboxVars
  PROVE  TypeOK'
<1> USE DEF SendBlocks, TypeOK
<1> DEFINE r == [message_ptr |-> TRUE, message_size |-> n, message |-> sent + 1]
<1>1. b \in Box
  BY DEF ValidSend
<1>2. sent + 1 \in Msg /\ sent + 1 \in 0 .. MaxMsg
  BY MailboxAssumption DEF IInv, SeenTypeOK, Msg
<1>3. r \in ProcRecord
  BY <1>2 DEF ProcRecord
<1>4. KernelTypeOK' /\ CallsTypeOK'
  <2>1. BlockIn(p, "send", b, r, "FULLMBOX") /\ UNCHANGED halted
    OBVIOUS
  <2>2. "send" \in Waiting /\ "FULLMBOX" \in Blocked /\ r.message \in Msg
    BY <1>2 DEF Waiting, Blocked
  <2> HIDE DEF r
  <2> QED BY <1>1, <1>3, <2>1, <2>2, BlockInType DEF IInv
<1>5. BoxesTypeOK' /\ SlotsTypeOK'
  BY UnchangedTypes DEF IInv
<1>6. QueuesTypeOK'
  <2>1. Append(blocked_proc_send[b], p) \in Seq(Proc)
    BY <1>1 DEF IInv, QueuesTypeOK
  <2> QED BY <2>1 DEF IInv, QueuesTypeOK
<1>7. SeenTypeOK'
  BY <1>2 DEF IInv, SeenTypeOK
<1> QED BY <1>4, <1>5, <1>6, <1>7

LEMMA SendTypeOK ==
  ASSUME IInv, NEW p \in Proc, NEW b, NEW n \in Int,
         MboxSend(p, b, n) \/ MboxCondSend(p, b, n)
  PROVE  TypeOK'
<1>1. sent < MaxMsg /\ UNCHANGED mboxVars
  BY DEF MboxSend, MboxCondSend
<1>2. CASE SendInvalid(p, b, n) \/ CondSendFails(p, b, n)
  <2>1. ReturnWith(p, TRUE) \/ ReturnWith(p, Full(b))
    BY <1>2 DEF SendInvalid, CondSendFails
  <2>2. Full(b) \in BOOLEAN
    BY DEF Full
  <2>3. KernelTypeOK'
    BY <2>1, <2>2, KernelTypes DEF IInv, TypeOK
  <2>4. UNCHANGED <<queueVars, slotVars, callVars, halted, seenVars>>
    BY <1>2 DEF SendInvalid, CondSendFails
  <2> QED BY <1>1, <2>3, <2>4, UnchangedTypes DEF IInv, TypeOK
<1>3. CASE HandOff(p, b, n)
  BY <1>1, <1>3, HandOffTypeOK
<1>4. CASE SendBlocks(p, b, n)
  BY <1>1, <1>4, SendBlocksTypeOK
<1>5. CASE SendToSlot(p, b, n)
  BY <1>1, <1>5, SendToSlotTypeOK
<1>6. CASE SendOverflow(p, b, n)
  <2>1. CallsTypeOK'
    BY <1>6 DEF IInv, TypeOK, SendOverflow, CallsTypeOK, callVars
  <2> QED BY <1>1, <1>6, <2>1, UnchangedTypes DEF IInv, TypeOK, SendOverflow
<1> QED BY <1>2, <1>3, <1>4, <1>5, <1>6 DEF MboxSend, MboxCondSend

LEMMA ReleaseTypeOK ==
  ASSUME IInv, NEW p \in Proc, NEW b, MboxRelease(p, b)
  PROVE  TypeOK'
<1>1. CASE ReleaseRefused(p, b)
  BY <1>1, KernelTypes, UnchangedTypes DEF IInv, TypeOK, ReleaseRefused
<1>2. CASE ReleaseBox(p, b)
  <2> USE <1>2 DEF ReleaseBox, EmptySlots, TypeOK
  <2>1. KernelTypeOK'
    BY KernelTypes DEF IInv
  <2>2. BoxesTypeOK'
    BY DEF IInv, BoxesTypeOK, FreeBox
  <2>3. SlotsTypeOK'
    <3>1. FreeSlot \in SlotRecord
      BY DEF FreeSlot, SlotRecord
    <3>2. Len(queue_slots[b]) \in Int
      BY DEF IInv, QueuesTypeOK
    <3> QED BY <3>1, <3>2 DEF IInv, SlotsTypeOK
  <2>4. QueuesTypeOK'
    BY DEF IInv, QueuesTypeOK
  <2>5. CallsTypeOK'
    BY DEF IInv, CallsTypeOK, Place
  <2>6. SeenTypeOK'
    BY UnchangedTypes DEF IInv
  <2> QED BY <2>1, <2>2, <2>3, <2>4, <2>5, <2>6
<1> QED BY <1>1, <1>2 DEF MboxRelease

LEMMA ReleaseStepTypeOK ==
  ASSUME IInv, NEW p \in Proc, ReleaseStep(p)
  PROVE  TypeOK'
<1> USE DEF ReleaseStep, TypeOK
<1>1. arg[p] \in Box
  BY DEF IInv, CallsTypeOK
<1>2. BoxesTypeOK' /\ SlotsTypeOK' /\ SeenTypeOK'
  BY UnchangedTypes DEF IInv
<1>3. CASE ReleaseSender(p)
  <2> USE <1>3 DEF ReleaseSender
  <2>1. Head(blocked_proc_send[arg[p]]) \in Proc /\ Tail(blocked_proc_send[arg[p]]) \in Seq(Proc)
    BY <1>1 DEF IInv, QueuesTypeOK
  <2>2. KernelTypeOK'
    BY <2>1, KernelTypes DEF IInv
  <2>3. QueuesTypeOK'
    BY <2>1 DEF IInv, QueuesTypeOK
  <2>4. CallsTypeOK'
    BY DEF IInv, CallsTypeOK
  <2> QED BY <1>2, <2>2, <2>3, <2>4
<1>4. CASE ReleaseReceiver(p)
  <2> USE <1>4 DEF ReleaseReceiver
  <2>1. Head(blocked_proc_receive[arg[p]]) \in Proc /\ Tail(blocked_proc_receive[arg[p]]) \in Seq(Proc)
    BY <1>1 DEF IInv, QueuesTypeOK
  <2>2. KernelTypeOK'
    BY <2>1, KernelTypes DEF IInv
  <2>3. QueuesTypeOK'
    BY <2>1 DEF IInv, QueuesTypeOK
  <2>4. CallsTypeOK'
    BY DEF IInv, CallsTypeOK, Place
  <2> QED BY <1>2, <2>2, <2>3, <2>4
<1>5. CASE ReleaseDone(p)
  <2> USE <1>5 DEF ReleaseDone
  <2>1. KernelTypeOK'
    BY KernelTypes DEF IInv
  <2>2. QueuesTypeOK'
    BY DEF IInv, QueuesTypeOK
  <2>3. CallsTypeOK'
    BY DEF IInv, CallsTypeOK, Place
  <2> QED BY <1>2, <2>1, <2>2, <2>3
<1> QED BY <1>3, <1>4, <1>5

\* The slot that leaves the queue is freed before createSlot looks for one, so
\* a refill for a blocked sender cannot find the table full.
LEMMA TakeFromSlotTypeOK ==
  ASSUME IInv, NEW p \in Proc, NEW b, NEW ptr \in BOOLEAN, NEW n \in Nat,
         TakeFromSlot(p, b, ptr, n), BoxesTypeOK', UNCHANGED halted
  PROVE  TypeOK'
<1> USE DEF TypeOK
<1> DEFINE s == Head(queue_slots[b])
           m == MailSlotTable[s]
           freed == [MailSlotTable EXCEPT ![s] = FreeSlot]
           q == Head(blocked_proc_send[b])
<1>1. b \in Box /\ queue_slots[b] # <<>>
  BY DEF TakeFromSlot, Refill, Slotted, ValidReceive
<1>2. s \in Slot /\ Tail(queue_slots[b]) \in Seq(Slot)
  BY <1>1 DEF IInv, QueuesTypeOK
<1>3. m \in SlotRecord
  BY <1>2 DEF IInv, SlotsTypeOK
<1>4. FreeSlot \in SlotRecord
  BY DEF FreeSlot, SlotRecord
<1>5. freed \in [Slot -> SlotRecord] /\ freed[s].status = "EMPTY"
  BY <1>2, <1>4 DEF IInv, SlotsTypeOK, FreeSlot
<1>6. SeenTypeOK'
  <2> DEFINE r == [message_ptr |-> ptr, message_size |-> m.message_size, message |-> m.message]
  <2>1. r.message \in Msg \union {NoMsg}
    BY <1>3 DEF SlotRecord
  <2>2. Returned(b, r)
    BY DEF TakeFromSlot, Refill
  <2> HIDE DEF r
  <2> QED BY <1>1, <2>1, <2>2, ReturnedType DEF IInv
<1>7. CallsTypeOK'
  BY UnchangedTypes DEF TakeFromSlot, Refill, IInv
<1>8. CASE blocked_proc_send[b] = <<>>
  <2>1. KernelTypeOK'
    BY <1>8, KernelTypes DEF TakeFromSlot, Refill, IInv
  <2>2. SlotsTypeOK'
    BY <1>5, <1>8 DEF TakeFromSlot, Refill, IInv, SlotsTypeOK
  <2>3. QueuesTypeOK'
    BY <1>2, <1>8 DEF TakeFromSlot, Refill, IInv, QueuesTypeOK
  <2> QED BY <1>6, <1>7, <2>1, <2>2, <2>3
<1>9. CASE blocked_proc_send[b] # <<>>
  <2>1. q \in Proc /\ Tail(blocked_proc_send[b]) \in Seq(Proc)
    BY <1>1, <1>9 DEF IInv, QueuesTypeOK
  <2>2. mproc[q].message \in Msg \union {NoMsg} /\ mproc[q].message_size \in Int
    BY <2>1 DEF IInv, CallsTypeOK, ProcRecord
  <2>3. NextSlot(freed) \in Slot
    BY <1>2, <1>5, NextSlotIsFree
  <2>4. NextSlot(freed) + 1 \in 0 .. MAXSLOTS
    BY <2>3, MailboxAssumption DEF Slot
  <2>5. /\ createSlot(freed, num_slots - 1, b, Tail(queue_slots[b]), mproc[q].message, mproc[q].message_size)
        /\ blocked_proc_send' = [blocked_proc_send EXCEPT ![b] = Tail(@)]
        /\ UnblockProc(p, q)
        /\ UNCHANGED blocked_proc_receive
    BY <1>9 DEF TakeFromSlot, Refill
  <2> HIDE DEF freed, q, m, s
  <2>6. KernelTypeOK'
    BY <2>1, <2>5, KernelTypes DEF IInv
  <2>7. SlotsTypeOK'
    BY <1>5, <2>2, <2>3, <2>4, <2>5 DEF IInv, SlotsTypeOK, SlotRecord, createSlot
  <2>8. QueuesTypeOK'
    <3>1. Append(Tail(queue_slots[b]), NextSlot(freed)) \in Seq(Slot)
      BY <1>2, <2>3
    <3> QED BY <2>1, <2>5, <3>1 DEF IInv, QueuesTypeOK, createSlot
  <2> QED BY <1>6, <1>7, <2>6, <2>7, <2>8
<1> QED BY <1>8, <1>9

\* The receives; ptr and n are the buffer of the caller.
LEMMA ReceiveTypeOK ==
  ASSUME IInv, NEW p \in Proc, NEW b, NEW ptr \in BOOLEAN, NEW n \in Nat,
         MboxReceive(p, b, ptr, n) \/ MboxCondReceive(p, b, ptr, n)
  PROVE  TypeOK'
<1>1. BoxesTypeOK' /\ UNCHANGED halted
  BY UnchangedTypes DEF IInv, MboxReceive, MboxCondReceive
<1>2. Buffer(ptr, n) \in ProcRecord /\ Buffer(ptr, n).message = NoMsg
  BY DEF Buffer, ProcRecord
<1>3. CASE ReceiveInvalid(p, b)
  BY <1>1, <1>3, KernelTypes, UnchangedTypes DEF IInv, TypeOK, ReceiveInvalid
<1>4. CASE TakeFromSender(p, b, ptr, n)
  <2> USE <1>4 DEF TakeFromSender, TypeOK
  <2> DEFINE q == Head(blocked_proc_send[b])
             r == msgToProc(Buffer(ptr, n), mproc[q].message, mproc[q].message_size)
  <2>1. b \in Box /\ blocked_proc_send[b] # <<>>
    BY DEF ValidReceive
  <2>2. q \in Proc /\ Tail(blocked_proc_send[b]) \in Seq(Proc)
    BY <2>1 DEF IInv, QueuesTypeOK
  <2>3. KernelTypeOK'
    BY <2>2, KernelTypes DEF IInv
  <2>4. QueuesTypeOK'
    BY <2>1, <2>2 DEF IInv, QueuesTypeOK
  <2>5. SlotsTypeOK' /\ CallsTypeOK'
    BY <1>1, UnchangedTypes DEF IInv
  <2>6. SeenTypeOK'
    <3>1. mproc[q].message \in Msg \union {NoMsg} /\ mproc[q].message_size \in Int
      BY <2>2 DEF IInv, CallsTypeOK, ProcRecord
    <3>2. r.message \in Msg \union {NoMsg}
      BY <1>2, <3>1, MsgToProcType
    <3>3. Returned(b, r)
      OBVIOUS
    <3> HIDE DEF r
    <3> QED BY <2>1, <3>2, <3>3, ReturnedType DEF IInv
  <2> QED BY <1>1, <2>3, <2>4, <2>5, <2>6
<1>5. CASE WaitOnZeroSlots(p, b, ptr, n)
  <2> USE <1>5 DEF WaitOnZeroSlots, TypeOK
  <2>1. b \in Box
    BY DEF ValidReceive
  <2>2. KernelTypeOK' /\ CallsTypeOK'
    <3>1. "recvZero" \in Waiting /\ "NOMESSAGES" \in Blocked
      BY DEF Waiting, Blocked
    <3> QED BY <1>1, <1>2, <2>1, <3>1, BlockInType DEF IInv
  <2>3. QueuesTypeOK'
    <3>1. Append(blocked_proc_send[b], p) \in Seq(Proc)
      BY <2>1 DEF IInv, QueuesTypeOK
    <3> QED BY <3>1 DEF IInv, QueuesTypeOK
  <2> QED BY <1>1, <2>2, <2>3, UnchangedTypes DEF IInv
<1>6. CASE WaitForSignal(p, b, ptr, n)
  <2> USE <1>6 DEF WaitForSignal, TypeOK
  <2>1. b \in Box
    BY DEF ValidReceive
  <2>2. KernelTypeOK' /\ CallsTypeOK'
    <3>1. "recv" \in Waiting /\ "NOMESSAGES" \in Blocked
      BY DEF Waiting, Blocked
    <3> QED BY <1>1, <1>2, <2>1, <3>1, BlockInType DEF IInv
  <2>3. QueuesTypeOK'
    <3>1. Append(blocked_proc_receive[b], p) \in Seq(Proc)
      BY <2>1 DEF IInv, QueuesTypeOK
    <3> QED BY <3>1 DEF IInv, QueuesTypeOK
  <2> QED BY <1>1, <2>2, <2>3, UnchangedTypes DEF IInv
<1>7. CASE NothingQueued(p, b)
  <2>1. b \in Box
    BY <1>7 DEF NothingQueued, Slotted, ValidReceive
  <2>2. SeenTypeOK'
    BY <1>7, <2>1 DEF NothingQueued, IInv, TypeOK, SeenTypeOK, seenVars
  <2>3. KernelTypeOK'
    BY <1>7, KernelTypes DEF IInv, TypeOK, NothingQueued
  <2> QED BY <1>1, <1>7, <2>2, <2>3, UnchangedTypes DEF NothingQueued, IInv, TypeOK
<1>8. CASE DropTooLong(p, b, n)
  <2> USE <1>8 DEF DropTooLong, TypeOK
  <2>1. b \in Box /\ queue_slots[b] # <<>>
    BY DEF Slotted, ValidReceive
  <2>2. Tail(queue_slots[b]) \in Seq(Slot)
    BY <2>1 DEF IInv, QueuesTypeOK
  <2>3. KernelTypeOK'
    BY KernelTypes DEF IInv
  <2>4. QueuesTypeOK'
    BY <2>2 DEF IInv, QueuesTypeOK
  <2> QED BY <1>1, <2>3, <2>4, UnchangedTypes DEF IInv
<1>9. CASE NoSender(p, b, ptr, n)
  <2> USE <1>9 DEF NoSender, TypeOK
  <2>1. b \in Box
    BY DEF ValidReceive
  <2>2. KernelTypeOK'
    BY KernelTypes DEF IInv
  <2>3. SeenTypeOK'
    BY <1>2, <2>1, ReturnedType DEF IInv
  <2> QED BY <1>1, <2>2, <2>3, UnchangedTypes DEF IInv
<1>10. CASE TakeFromSlot(p, b, ptr, n)
  BY <1>1, <1>10, TakeFromSlotTypeOK
<1> QED BY <1>3, <1>4, <1>5, <1>6, <1>7, <1>8, <1>9, <1>10 DEF MboxReceive, MboxCondReceive

LEMMA ResumeTypeOK ==
  ASSUME IInv, NEW p \in Proc, SendResumes(p) \/ ReceiveResumes(p)
  PROVE  TypeOK'
<1> USE DEF TypeOK
<1>1. arg[p] \in Box
  BY DEF SendResumes, ReceiveResumes, IInv, CallsTypeOK
<1>2. CASE SendResumes(p)
  <2> USE <1>2 DEF SendResumes
  <2>1. KernelTypeOK'
    BY KernelTypes DEF IInv
  <2>2. CallsTypeOK'
    BY LeaveCallType DEF IInv
  <2> QED BY <2>1, <2>2, UnchangedTypes DEF IInv
<1>3. CASE ReceiveResumes(p)
  <2> USE <1>3 DEF ReceiveResumes
  <2>1. KernelTypeOK'
    <3>1. (pc[p] = "recvZero") \in BOOLEAN
      OBVIOUS
    <3>2. ReturnWith(p, TRUE) \/ ReturnWith(p, pc[p] = "recvZero")
      OBVIOUS
    <3> QED BY <3>1, <3>2, KernelTypes DEF IInv
  <2>2. CallsTypeOK'
    BY LeaveCallType DEF IInv
  <2>3. SeenTypeOK'
    <3>1. mproc[p].message \in Msg \union {NoMsg}
      BY DEF IInv, CallsTypeOK, ProcRecord
    <3> QED BY <1>1, <3>1, ReturnedType, UnchangedTypes DEF IInv
  <2> QED BY <2>1, <2>2, <2>3, UnchangedTypes DEF IInv
<1> QED BY <1>2, <1>3

LEMMA InterruptTypeOK ==
  ASSUME IInv, Interrupt
  PROVE  TypeOK'
<1>1. KernelTypeOK'
  BY KernelAssumption DEF Interrupt, TimeSlice, Zap, IInv, TypeOK, KernelTypeOK
<1> QED BY <1>1, UnchangedTypes DEF Interrupt, IInv, TypeOK

LEMMA QuitTypeOK ==
  ASSUME IInv, NEW p \in Proc, Quit(p)
  PROVE  TypeOK'
BY KernelTypes, UnchangedTypes DEF Quit, IInv, TypeOK

LEMMA NextTypeOK ==
  ASSUME IInv, [Next]_vars
  PROVE  TypeOK'
<1>1. CASE Interrupt
  BY <1>1, InterruptTypeOK
<1>2. ASSUME NEW p \in Proc, Call(p) PROVE TypeOK'
  <2>1. ASSUME NEW a \in CreateArgs, MboxCreate(p, a) PROVE TypeOK'
    BY <2>1, CreateTypeOK
  <2>2. ASSUME NEW b \in ReleaseArgs, MboxRelease(p, b) PROVE TypeOK'
    BY <2>2, ReleaseTypeOK
  <2>3. ASSUME NEW a \in SendArgs,
               MboxSend(p, a.mbox_id, a.msg_size) \/ MboxCondSend(p, a.mbox_id, a.msg_size)
        PROVE  TypeOK'
    <3>1. a.msg_size \in Int
      BY MailboxAssumption
    <3> QED BY <2>3, <3>1, SendTypeOK
  <2>4. ASSUME NEW a \in RecvArgs \union CondRecvArgs,
               \/ MboxReceive(p, a.mbox_id, a.msg_ptr, a.msg_size)
               \/ MboxCondReceive(p, a.mbox_id, a.msg_ptr, a.msg_size)
        PROVE  TypeOK'
    <3>1. a.msg_ptr \in BOOLEAN /\ a.msg_size \in Nat
      BY MailboxAssumption
    <3> QED BY <2>4, <3>1, ReceiveTypeOK
  <2> QED BY <1>2, <2>1, <2>2, <2>3, <2>4 DEF Call
<1>3. ASSUME NEW p \in Proc, Resume(p) PROVE TypeOK'
  BY <1>3, ResumeTypeOK, ReleaseStepTypeOK DEF Resume
<1>4. ASSUME NEW p \in Proc, Quit(p) PROVE TypeOK'
  BY <1>4, QuitTypeOK
<1>5. CASE UNCHANGED vars
  BY <1>5, UnchangedTypes DEF IInv, TypeOK, vars
<1> QED BY <1>1, <1>2, <1>3, <1>4, <1>5 DEF Next

-----------------------------------------------------------------------------
(***************************************************************************)
(* Slot ownership: what the operations on a slot table and the slot queues *)
(* do to it.  T, n and Q stand for the table, the count and the queues.    *)
(***************************************************************************)

Tables == [Slot -> SlotRecord]
Queues == [Box -> Seq(Slot)]
UsedIn(T) == {s \in Slot : T[s].status = "IN_USE"}

\* The head of a queue leaves it, and is then in no queue.
LEMMA OwnedPop ==
  ASSUME NEW T \in Tables, NEW n, NEW Q \in Queues, Owned(T, n, Q),
         NEW b \in Box, Q[b] # <<>>
  PROVE  LET R == [Q EXCEPT ![b] = Tail(@)]
         IN  /\ R \in Queues
             /\ Owned(T, n, R)
             /\ \A c \in Box : \A i \in DOMAIN R[c] : R[c][i] # Head(Q[b])
<1> DEFINE R == [Q EXCEPT ![b] = Tail(@)]
<1>1. \A c \in Box : Q[c] \in Seq(Slot)
  BY DEF Queues
<1>2. Tail(Q[b]) \in Seq(Slot) /\ Len(Tail(Q[b])) = Len(Q[b]) - 1
  BY <1>1
<1>3. \A i \in 1 .. Len(Tail(Q[b])) : Tail(Q[b])[i] = Q[b][i + 1] /\ i + 1 \in 1 .. Len(Q[b])
  BY <1>1, <1>2
<1>4. Head(Q[b]) = Q[b][1] /\ 1 \in 1 .. Len(Q[b])
  BY <1>1
<1>5. R \in Queues /\ R[b] = Tail(Q[b]) /\ \A c \in Box : c # b => R[c] = Q[c]
  BY <1>2 DEF Queues
<1>6. \A c \in Box : \A i \in DOMAIN R[c] :
        \E k \in DOMAIN Q[c] : R[c][i] = Q[c][k] /\ k = IF c = b THEN i + 1 ELSE i
  <2>1. ASSUME NEW i \in DOMAIN R[b]
        PROVE  i + 1 \in DOMAIN Q[b] /\ R[b][i] = Q[b][i + 1]
    <3>0. R[b] = Tail(Q[b]) /\ DOMAIN Tail(Q[b]) = 1 .. Len(Tail(Q[b]))
      BY <1>2, <1>5
    <3>1. i \in 1 .. Len(Tail(Q[b])) /\ R[b][i] = Tail(Q[b])[i]
      <4> HIDE DEF R
      <4> QED BY <2>1, <3>0
    <3>2. DOMAIN Q[b] = 1 .. Len(Q[b])
      BY <1>1
    <3> QED BY <1>3, <3>1, <3>2
  <2>2. ASSUME NEW c \in Box, c # b, NEW i \in DOMAIN R[c]
        PROVE  i \in DOMAIN Q[c] /\ R[c][i] = Q[c][i]
    BY <1>5, <2>2
  <2> HIDE DEF R
  <2> QED BY <2>1, <2>2
<1> HIDE DEF R
<1>7. \A c \in Box : \A i \in DOMAIN R[c] : T[R[c][i]].status = "IN_USE"
  BY <1>6 DEF Owned
<1>8. ASSUME NEW c \in Box, NEW d \in Box, NEW i \in DOMAIN R[c], NEW j \in DOMAIN R[d],
             R[c][i] = R[d][j]
      PROVE  c = d /\ i = j
  <2>1. R[c] \in Seq(Slot) /\ R[d] \in Seq(Slot)
    BY <1>5 DEF Queues
  <2>2. i \in Int /\ j \in Int
    BY <2>1
  <2> QED BY <1>6, <1>8, <2>2 DEF Owned
<1>9. ASSUME NEW c \in Box, NEW i \in DOMAIN R[c] PROVE R[c][i] # Head(Q[b])
  <2>1. R[c] \in Seq(Slot)
    BY <1>5 DEF Queues
  <2>2. i \in 1 .. Len(R[c])
    BY <2>1
  <2>3. 1 \in DOMAIN Q[b]
    BY <1>1, <1>4
  <2> QED BY <1>4, <1>6, <2>2, <2>3 DEF Owned
<1>10. Owned(T, n, R)
  BY <1>7, <1>8 DEF Owned
<1> QED BY <1>5, <1>9, <1>10 DEF R

\* initSlot of a slot that is in no queue.
LEMMA OwnedFree ==
  ASSUME NEW T \in Tables, NEW n, NEW Q \in Queues, Owned(T, n, Q),
         NEW s \in Slot, T[s].status = "IN_USE",
         \A c \in Box : \A i \in DOMAIN Q[c] : Q[c][i] # s
  PROVE  Owned([T EXCEPT ![s] = FreeSlot], n - 1, Q)
<1> DEFINE U == [T EXCEPT ![s] = FreeSlot]
<1>1. U[s].status = "EMPTY" /\ \A t \in Slot : t # s => U[t] = T[t]
  BY DEF Tables, FreeSlot
<1>2. UsedIn(U) = UsedIn(T) \ {s} /\ s \in UsedIn(T)
  BY <1>1 DEF UsedIn
<1>3. IsFiniteSet(UsedIn(T))
  <2>1. UsedIn(T) \subseteq Slot
    BY DEF UsedIn
  <2> QED BY <2>1, TablesFinite, FS_Subset
<1>4. Cardinality(UsedIn(U)) = n - 1
  <2>1. Cardinality(UsedIn(T)) = n
    BY DEF Owned, UsedIn
  <2> QED BY <1>2, <1>3, <2>1, FS_RemoveElement
<1>5. ASSUME NEW c \in Box, NEW i \in DOMAIN Q[c] PROVE U[Q[c][i]].status = "IN_USE"
  <2>1. Q[c] \in Seq(Slot) /\ Q[c][i] \in Slot
    BY DEF Queues
  <2> QED BY <1>1, <2>1 DEF Owned
<1> QED BY <1>4, <1>5 DEF Owned, UsedIn

\* createSlot of a free slot, and enqueue of it.
LEMMA OwnedStore ==
  ASSUME NEW T \in Tables, NEW n, NEW Q \in Queues, Owned(T, n, Q),
         NEW b \in Box, NEW s \in Slot, T[s].status = "EMPTY",
         NEW e \in SlotRecord, e.status = "IN_USE"
  PROVE  Owned([T EXCEPT ![s] = e], n + 1, [Q EXCEPT ![b] = Append(@, s)])
<1> DEFINE U == [T EXCEPT ![s] = e]
           R == [Q EXCEPT ![b] = Append(@, s)]
<1>1. U[s].status = "IN_USE" /\ \A t \in Slot : t # s => U[t] = T[t]
  BY DEF Tables
<1>2. UsedIn(U) = UsedIn(T) \union {s} /\ s \notin UsedIn(T)
  BY <1>1 DEF UsedIn
<1>3. IsFiniteSet(UsedIn(T))
  <2>1. UsedIn(T) \subseteq Slot
    BY DEF UsedIn
  <2> QED BY <2>1, TablesFinite, FS_Subset
<1>4. Cardinality(UsedIn(U)) = n + 1
  <2>1. Cardinality(UsedIn(T)) = n
    BY DEF Owned, UsedIn
  <2> QED BY <1>2, <1>3, <2>1, FS_AddElement
<1>5. \A c \in Box : Q[c] \in Seq(Slot)
  BY DEF Queues
<1>6. /\ R[b] = Append(Q[b], s) /\ \A c \in Box : c # b => R[c] = Q[c]
      /\ DOMAIN R[b] = 1 .. Len(Q[b]) + 1 /\ R[b][Len(Q[b]) + 1] = s
      /\ \A i \in 1 .. Len(Q[b]) : R[b][i] = Q[b][i]
      /\ Len(Q[b]) \in Nat /\ DOMAIN Q[b] = 1 .. Len(Q[b])
  BY <1>5 DEF Queues
<1> HIDE DEF U, R
<1>7. \A c \in Box : \A i \in DOMAIN R[c] :
        \/ i \in DOMAIN Q[c] /\ R[c][i] = Q[c][i] /\ Q[c][i] \in Slot /\ Q[c][i] # s
        \/ c = b /\ i = Len(Q[b]) + 1 /\ R[c][i] = s
  <2>1. \A c \in Box : \A i \in DOMAIN Q[c] : Q[c][i] \in Slot /\ Q[c][i] # s
    BY <1>5 DEF Owned
  <2> QED BY <1>6, <2>1
<1>8. \A c \in Box : \A i \in DOMAIN R[c] : U[R[c][i]].status = "IN_USE"
  BY <1>1, <1>7 DEF Owned
<1>9. \A c, d \in Box : \A i \in DOMAIN R[c], j \in DOMAIN R[d] :
        R[c][i] = R[d][j] => c = d /\ i = j
  BY <1>7 DEF Owned
<1>10. Owned(U, n + 1, R)
  BY <1>4, <1>8, <1>9 DEF Owned, UsedIn
<1> QED BY <1>10 DEF U, R

\* A box forgets its queue, and its slots stay as they are.
LEMMA OwnedForget ==
  ASSUME NEW T \in Tables, NEW n, NEW Q \in Queues, Owned(T, n, Q), NEW b \in Box
  PROVE  /\ [Q EXCEPT ![b] = <<>>] \in Queues
         /\ Owned(T, n, [Q EXCEPT ![b] = <<>>])
<1> DEFINE R == [Q EXCEPT ![b] = <<>>]
<1>1. <<>> \in Seq(Slot) /\ DOMAIN <<>> = {}
  OBVIOUS
<1>2. R \in Queues /\ R[b] = <<>> /\ \A c \in Box : c # b => R[c] = Q[c]
  BY <1>1 DEF Queues
<1> HIDE DEF R
<1>3. \A c \in Box : \A i \in DOMAIN R[c] : c # b /\ R[c] = Q[c]
  BY <1>1, <1>2
<1>4. Owned(T, n, R)
  BY <1>3 DEF Owned
<1> QED BY <1>2, <1>4 DEF R

\* MboxRelease frees every slot of a box: as many as its queue is long.
LEMMA OwnedRelease ==
  ASSUME NEW T \in Tables, NEW n, NEW Q \in Queues, Owned(T, n, Q), NEW b \in Box
  PROVE  LET freed == {Q[b][i] : i \in DOMAIN Q[b]}
         IN  Owned([s \in Slot |-> IF s \in freed THEN FreeSlot ELSE T[s]],
                   n - Len(Q[b]), [Q EXCEPT ![b] = <<>>])
<1> DEFINE freed == {Q[b][i] : i \in DOMAIN Q[b]}
           U == [s \in Slot |-> IF s \in freed THEN FreeSlot ELSE T[s]]
           R == [Q EXCEPT ![b] = <<>>]
<1>1. Q[b] \in Seq(Slot) /\ Len(Q[b]) \in Nat
  BY DEF Queues
<1>2. IsFiniteSet(freed) /\ Cardinality(freed) = Len(Q[b])
  <2>1. \A i, j \in DOMAIN Q[b] : Q[b][i] = Q[b][j] => i = j
    BY DEF Owned
  <2> QED BY <1>1, <2>1, InjectiveSeq
<1>3. freed \subseteq UsedIn(T)
  BY <1>1 DEF Owned, UsedIn
<1>4. UsedIn(U) = UsedIn(T) \ freed
  BY DEF UsedIn, FreeSlot
<1>5. IsFiniteSet(UsedIn(T)) /\ Cardinality(UsedIn(T)) = n
  <2>1. UsedIn(T) \subseteq Slot
    BY DEF UsedIn
  <2>2. IsFiniteSet(UsedIn(T))
    BY <2>1, TablesFinite, FS_Subset
  <2> QED BY <2>2 DEF Owned, UsedIn
<1>6. Cardinality(UsedIn(U)) = n - Len(Q[b])
  <2>1. UsedIn(T) \cap freed = freed
    BY <1>3
  <2> HIDE DEF U, freed
  <2> DEFINE V == UsedIn(T)
  <2>2. IsFiniteSet(V)
    BY <1>5
  <2> HIDE DEF V
  <2>3. Cardinality(V \ freed) = Cardinality(V) - Cardinality(V \cap freed)
    BY <2>2, FS_Difference
  <2> QED BY <1>2, <1>4, <1>5, <2>1, <2>3 DEF V
<1>7. R \in Queues /\ Owned(T, n, R)
  BY OwnedForget
<1>8. \A c \in Box : \A i \in DOMAIN R[c] : U[R[c][i]].status = "IN_USE"
  <2>1. ASSUME NEW c \in Box, NEW i \in DOMAIN R[c] PROVE c # b /\ R[c] = Q[c]
    <3>1. R[b] = <<>> /\ DOMAIN <<>> = {} /\ (c # b => R[c] = Q[c])
      BY DEF Queues
    <3> QED BY <2>1, <3>1
  <2>2. ASSUME NEW c \in Box, NEW i \in DOMAIN R[c] PROVE R[c][i] \notin freed
    <3>1. c # b /\ R[c] = Q[c] /\ i \in DOMAIN Q[c]
      BY <2>1, <2>2
    <3> QED BY <3>1 DEF Owned
  <2>3. ASSUME NEW c \in Box, NEW i \in DOMAIN R[c]
        PROVE  R[c][i] \in Slot /\ T[R[c][i]].status = "IN_USE"
    <3>1. R[c] \in Seq(Slot)
      BY <1>7 DEF Queues
    <3> QED BY <1>7, <2>3, <3>1 DEF Owned
  <2> HIDE DEF R, freed
  <2> QED BY <2>2, <2>3
<1>9. Owned(U, n - Len(Q[b]), R)
  BY <1>6, <1>7, <1>8 DEF Owned, UsedIn
<1> QED BY <1>9

-----------------------------------------------------------------------------
(***************************************************************************)
(* Slot ownership is preserved by every step.                              *)
(***************************************************************************)
LEMMA IInvTables ==
  ASSUME IInv
  PROVE  /\ MailSlotTable \in Tables /\ queue_slots \in Queues
         /\ Owned(MailSlotTable, num_slots, queue_slots)
BY DEF IInv, TypeOK, SlotsTypeOK, QueuesTypeOK, Tables, Queues, SlotOwnership

LEMMA OwnershipUnchanged ==
  ASSUME SlotOwnership, UNCHANGED <<slotVars, queue_slots>>
  PROVE  SlotOwnership'
BY DEF SlotOwnership, Owned, slotVars

LEMMA CreateOwnership ==
  ASSUME IInv, NEW p \in Proc, NEW a \in CreateArgs, MboxCreate(p, a)
  PROVE  SlotOwnership'
<1>1. CASE CreateFails(p, a)
  BY <1>1, OwnershipUnchanged DEF MboxCreate, CreateFails, IInv, queueVars, slotVars
<1>2. CASE CreateBox(p, a)
  <2>1. NextBox \in Box
    BY <1>2, NextBoxIsFree DEF CreateBox
  <2>2. Owned(MailSlotTable, num_slots, [queue_slots EXCEPT ![NextBox] = <<>>])
    BY <2>1, IInvTables, OwnedForget
  <2>3. UNCHANGED slotVars /\ queue_slots' = [queue_slots EXCEPT ![NextBox] = <<>>]
    BY <1>2 DEF MboxCreate, CreateBox
  <2> QED BY <2>2, <2>3 DEF SlotOwnership, slotVars
<1> QED BY <1>1, <1>2 DEF MboxCreate

LEMMA ReleaseOwnership ==
  ASSUME IInv, NEW p \in Proc, NEW b, ReleaseBox(p, b)
  PROVE  SlotOwnership'
<1>1. b \in Box
  BY DEF ReleaseBox, EmptySlots
<1> QED BY <1>1, IInvTables, OwnedRelease DEF ReleaseBox, EmptySlots, SlotOwnership

LEMMA SendToSlotOwnership ==
  ASSUME IInv, NEW p \in Proc \union {Sentinel}, NEW b, NEW n \in Int, sent < MaxMsg, SendToSlot(p, b, n)
  PROVE  SlotOwnership'
<1> DEFINE s == NextSlot(MailSlotTable)
           e == [status |-> "IN_USE", message_size |-> n, message |-> sent + 1]
<1>1. b \in Box
  BY DEF SendToSlot, ValidSend
<1>2. s \in Slot /\ MailSlotTable[s].status = "EMPTY"
  BY SlotLeft, NextSlotIsFree DEF SendToSlot
<1>3. e \in SlotRecord /\ e.status = "IN_USE"
  <2>1. sent + 1 \in Msg
    BY MailboxAssumption DEF IInv, TypeOK, SeenTypeOK, Msg
  <2> QED BY <2>1 DEF SlotRecord
<1>4. /\ MailSlotTable' = [MailSlotTable EXCEPT ![s] = e]
      /\ num_slots' = num_slots + 1
      /\ queue_slots' = [queue_slots EXCEPT ![b] = Append(@, s)]
  BY DEF SendToSlot, createSlot
<1> HIDE DEF s, e
<1> QED BY <1>1, <1>2, <1>3, <1>4, IInvTables, OwnedStore DEF SlotOwnership

LEMMA DropTooLongOwnership ==
  ASSUME IInv, NEW p \in Proc, NEW b, NEW n \in Nat, DropTooLong(p, b, n)
  PROVE  SlotOwnership'
<1>1. b \in Box /\ queue_slots[b] # <<>>
  BY DEF DropTooLong, Slotted, ValidReceive
<1> QED BY <1>1, IInvTables, OwnedPop DEF DropTooLong, SlotOwnership, slotVars

LEMMA TakeFromSlotOwnership ==
  ASSUME IInv, NEW p \in Proc, NEW b, NEW ptr \in BOOLEAN, NEW n \in Nat,
         TakeFromSlot(p, b, ptr, n)
  PROVE  SlotOwnership'
<1> DEFINE s == Head(queue_slots[b])
           freed == [MailSlotTable EXCEPT ![s] = FreeSlot]
           rest == [queue_slots EXCEPT ![b] = Tail(@)]
           q == Head(blocked_proc_send[b])
<1>1. b \in Box /\ queue_slots[b] # <<>> /\ MailSlotTable[s].status = "IN_USE"
  BY DEF TakeFromSlot, Refill, Slotted, ValidReceive
<1>2. s \in Slot
  BY <1>1 DEF IInv, TypeOK, QueuesTypeOK
<1>3. rest \in Queues /\ Owned(freed, num_slots - 1, rest)
  BY <1>1, <1>2, IInvTables, OwnedPop, OwnedFree
<1>4. CASE blocked_proc_send[b] = <<>>
  BY <1>3, <1>4 DEF TakeFromSlot, Refill, SlotOwnership
<1>5. CASE blocked_proc_send[b] # <<>>
  <2> DEFINE t == NextSlot(freed)
             e == [status |-> "IN_USE", message_size |-> mproc[q].message_size,
                   message |-> mproc[q].message]
  <2>1. freed \in Tables /\ freed[s].status = "EMPTY"
    BY <1>2, IInvTables DEF Tables, FreeSlot, SlotRecord
  <2>2. t \in Slot /\ freed[t].status = "EMPTY"
    BY <1>2, <2>1, NextSlotIsFree
  <2>3. e \in SlotRecord /\ e.status = "IN_USE"
    <3>1. q \in Proc
      BY <1>1, <1>5 DEF IInv, TypeOK, QueuesTypeOK
    <3> QED BY <3>1 DEF IInv, TypeOK, CallsTypeOK, ProcRecord, SlotRecord
  <2>4. /\ MailSlotTable' = [freed EXCEPT ![t] = e]
        /\ num_slots' = num_slots - 1 + 1
        /\ queue_slots' = [queue_slots EXCEPT ![b] = Append(Tail(queue_slots[b]), t)]
    BY <1>5 DEF TakeFromSlot, Refill, createSlot
  <2>5. queue_slots' = [rest EXCEPT ![b] = Append(@, t)]
    BY <1>1, <2>4, IInvTables DEF Queues
  <2> HIDE DEF t, e, freed, rest
  <2>6. Owned([freed EXCEPT ![t] = e], num_slots - 1 + 1, [rest EXCEPT ![b] = Append(@, t)])
    BY <1>1, <1>3, <2>1, <2>2, <2>3, OwnedStore
  <2> QED BY <2>4, <2>5, <2>6 DEF SlotOwnership
<1> QED BY <1>4, <1>5

LEMMA NextSlotOwnership ==
  ASSUME IInv, [Next]_vars
  PROVE  SlotOwnership'
<1> USE OwnershipUnchanged DEF IInv
<1>1. CASE Interrupt
  BY <1>1 DEF Interrupt, queueVars
<1>2. ASSUME NEW p \in Proc, Call(p) PROVE SlotOwnership'
  <2>1. ASSUME NEW a \in CreateArgs, MboxCreate(p, a) PROVE SlotOwnership'
    BY <2>1, CreateOwnership
  <2>2. ASSUME NEW b \in ReleaseArgs, MboxRelease(p, b) PROVE SlotOwnership'
    BY <2>2, ReleaseOwnership DEF MboxRelease, ReleaseRefused, queueVars
  <2>3. ASSUME NEW b, NEW n \in Int, MboxSend(p, b, n) \/ MboxCondSend(p, b, n)
        PROVE  SlotOwnership'
    <3>1. CASE SendToSlot(p, b, n)
      BY <2>3, <3>1, SendToSlotOwnership DEF MboxSend, MboxCondSend
    <3>2. CASE ~SendToSlot(p, b, n)
      <4>1. UNCHANGED <<slotVars, queue_slots>>
        BY <2>3, <3>2 DEF MboxSend, MboxCondSend, SendInvalid, CondSendFails, HandOff,
                          SendBlocks, SendOverflow, queueVars
      <4> QED BY <4>1
    <3> QED BY <3>1, <3>2
  <2>4. ASSUME NEW b, NEW ptr \in BOOLEAN, NEW n \in Nat,
               MboxReceive(p, b, ptr, n) \/ MboxCondReceive(p, b, ptr, n)
        PROVE  SlotOwnership'
    <3>1. CASE TakeFromSlot(p, b, ptr, n)
      BY <3>1, TakeFromSlotOwnership
    <3>2. CASE DropTooLong(p, b, n)
      BY <3>2, DropTooLongOwnership
    <3>3. CASE ~TakeFromSlot(p, b, ptr, n) /\ ~DropTooLong(p, b, n)
      <4>1. UNCHANGED <<slotVars, queue_slots>>
        BY <2>4, <3>3 DEF MboxReceive, MboxCondReceive, ReceiveInvalid, TakeFromSender,
                          WaitOnZeroSlots, WaitForSignal, NothingQueued, NoSender, queueVars
      <4> QED BY <4>1
    <3> QED BY <3>1, <3>2, <3>3
  <2> QED BY <1>2, <2>1, <2>2, <2>3, <2>4, MailboxAssumption DEF Call
<1>3. ASSUME NEW p \in Proc, Resume(p) \/ Quit(p) PROVE SlotOwnership'
  <2>1. UNCHANGED <<slotVars, queue_slots>>
    BY <1>3 DEF Resume, SendResumes, ReceiveResumes, ReleaseStep, Quit, queueVars
  <2> QED BY <2>1
<1>4. CASE UNCHANGED vars
  BY <1>4 DEF vars, queueVars
<1> QED BY <1>1, <1>2, <1>3, <1>4 DEF Next

-----------------------------------------------------------------------------
(***************************************************************************)
(* Box ownership is preserved by every step.                               *)
(***************************************************************************)
LEMMA BoxesUnchanged ==
  ASSUME BoxOwnership, UNCHANGED mboxVars,
         \A b \in Box : ~Active(b) => queue_slots'[b] = queue_slots[b]
  PROVE  BoxOwnership'
<1>1. \A b \in Box : Active(b)' <=> Active(b)
  BY DEF Active, mboxVars
<1>2. {b \in Box : Active(b)'} = {b \in Box : Active(b)}
  BY <1>1
<1> QED BY <1>1, <1>2 DEF BoxOwnership, mboxVars

LEMMA CreateBoxOwnership ==
  ASSUME IInv, NEW p \in Proc, NEW a \in CreateArgs, CreateBox(p, a)
  PROVE  BoxOwnership'
<1> DEFINE b == NextBox
           V == {c \in Box : Active(c)}
<1>1. b \in Box /\ ~Active(b)
  BY NextBoxIsFree DEF CreateBox
<1>2. \A c \in Box : Active(c)' <=> Active(c) \/ c = b
  BY <1>1 DEF CreateBox, IInv, TypeOK, BoxesTypeOK, Active
<1>3. {c \in Box : Active(c)'} = V \union {b} /\ b \notin V
  BY <1>1, <1>2
<1>4. IsFiniteSet(V) /\ Cardinality(V) = num_boxes
  <2>1. V \subseteq Box
    OBVIOUS
  <2> QED BY <2>1, TablesFinite, FS_Subset DEF IInv, BoxOwnership
<1>5. num_boxes' = num_boxes + 1
  BY DEF CreateBox
<1>6. Cardinality(V \union {b}) = num_boxes + 1
  <2> HIDE DEF V, b
  <2> QED BY <1>3, <1>4, FS_AddElement
<1>7. \A c \in Box : ~Active(c)' => queue_slots'[c] = <<>>
  BY <1>1, <1>2 DEF CreateBox, IInv, BoxOwnership, TypeOK, QueuesTypeOK
<1> HIDE DEF V, b
<1> QED BY <1>3, <1>5, <1>6, <1>7 DEF BoxOwnership

LEMMA ReleaseBoxOwnership ==
  ASSUME IInv, NEW p \in Proc, NEW b, ReleaseBox(p, b)
  PROVE  BoxOwnership'
<1> DEFINE V == {c \in Box : Active(c)}
<1>1. b \in Box /\ Active(b)
  BY DEF ReleaseBox, EmptySlots
<1>2. \A c \in Box : Active(c)' <=> Active(c) /\ c # b
  BY <1>1 DEF ReleaseBox, EmptySlots, IInv, TypeOK, BoxesTypeOK, Active, FreeBox
<1>3. {c \in Box : Active(c)'} = V \ {b} /\ b \in V
  BY <1>1, <1>2
<1>4. IsFiniteSet(V) /\ Cardinality(V) = num_boxes
  <2>1. V \subseteq Box
    OBVIOUS
  <2> QED BY <2>1, TablesFinite, FS_Subset DEF IInv, BoxOwnership
<1>5. num_boxes' = num_boxes - 1
  BY DEF ReleaseBox, EmptySlots
<1>6. Cardinality(V \ {b}) = num_boxes - 1
  <2> HIDE DEF V
  <2> QED BY <1>3, <1>4, FS_RemoveElement
<1>7. \A c \in Box : ~Active(c)' => queue_slots'[c] = <<>>
  BY <1>1, <1>2 DEF ReleaseBox, EmptySlots, IInv, BoxOwnership, TypeOK, QueuesTypeOK
<1> HIDE DEF V
<1> QED BY <1>3, <1>5, <1>6, <1>7 DEF BoxOwnership

LEMMA NextBoxOwnership ==
  ASSUME IInv, [Next]_vars
  PROVE  BoxOwnership'
<1> USE BoxesUnchanged DEF IInv
<1>1. CASE Interrupt
  BY <1>1 DEF Interrupt, queueVars
<1>2. ASSUME NEW p \in Proc, Call(p) PROVE BoxOwnership'
  <2>1. ASSUME NEW a \in CreateArgs, MboxCreate(p, a) PROVE BoxOwnership'
    BY <2>1, CreateBoxOwnership DEF MboxCreate, CreateFails, queueVars
  <2>2. ASSUME NEW b \in ReleaseArgs, MboxRelease(p, b) PROVE BoxOwnership'
    BY <2>2, ReleaseBoxOwnership DEF MboxRelease, ReleaseRefused, queueVars
  <2>3. ASSUME NEW b, NEW n \in Int, MboxSend(p, b, n) \/ MboxCondSend(p, b, n)
        PROVE  BoxOwnership'
    <3>1. UNCHANGED mboxVars
      BY <2>3 DEF MboxSend, MboxCondSend
    <3>2. UNCHANGED queue_slots \/ (Active(b) /\ SendToSlot(p, b, n))
      BY <2>3 DEF MboxSend, MboxCondSend, SendInvalid, CondSendFails, HandOff,
                  SendBlocks, SendToSlot, SendOverflow, ValidSend, queueVars
    <3>3. \A c \in Box : ~Active(c) => queue_slots'[c] = queue_slots[c]
      BY <3>2 DEF SendToSlot, createSlot, TypeOK, QueuesTypeOK
    <3> QED BY <3>1, <3>3
  <2>4. ASSUME NEW b, NEW ptr \in BOOLEAN, NEW n \in Nat,
               MboxReceive(p, b, ptr, n) \/ MboxCondReceive(p, b, ptr, n)
        PROVE  BoxOwnership'
    <3>1. UNCHANGED mboxVars
      BY <2>4 DEF MboxReceive, MboxCondReceive
    <3>2. \/ UNCHANGED queue_slots
          \/ Active(b) /\ DropTooLong(p, b, n)
          \/ Active(b) /\ TakeFromSlot(p, b, ptr, n)
      BY <2>4 DEF MboxReceive, MboxCondReceive, ReceiveInvalid, TakeFromSender, NoSender,
                  WaitOnZeroSlots, WaitForSignal, NothingQueued, DropTooLong, TakeFromSlot, Refill,
                  Slotted, ValidReceive, queueVars
    <3>3. \A c \in Box : ~Active(c) => queue_slots'[c] = queue_slots[c]
      BY <3>2 DEF DropTooLong, TakeFromSlot, Refill, createSlot, TypeOK, QueuesTypeOK
    <3> QED BY <3>1, <3>3
  <2> QED BY <1>2, <2>1, <2>2, <2>3, <2>4, MailboxAssumption DEF Call
<1>3. ASSUME NEW p \in Proc, Resume(p) \/ Quit(p) PROVE BoxOwnership'
  <2>1. UNCHANGED <<mboxVars, queue_slots>>
    BY <1>3 DEF Resume, SendResumes, ReceiveResumes, ReleaseStep, Quit, queueVars
  <2> QED BY <2>1
<1>4. CASE UNCHANGED vars
  BY <1>4 DEF vars, queueVars
<1> QED BY <1>1, <1>2, <1>3, <1>4 DEF Next

-----------------------------------------------------------------------------
(***************************************************************************)
(* The inductive invariant and what follows from it.                       *)
(***************************************************************************)
LEMMA InitIInv == Init => IInv
<1> SUFFICES ASSUME Init PROVE IInv
  OBVIOUS
<1>1. TypeOK
  BY InitTypeOK
<1>2. \A b \in Box : queue_slots[b] = <<>> /\ DOMAIN queue_slots[b] = {}
  BY DEF Init
<1>3. {s \in Slot : MailSlotTable[s].status = "IN_USE"} = {}
  BY DEF Init, FreeSlot
<1>4. SlotOwnership
  BY <1>2, <1>3, FS_EmptySet DEF Init, SlotOwnership, Owned
<1>5. {b \in Box : Active(b)} = 0 .. Len(InitBoxes) - 1
  BY MailboxAssumption DEF Init, Active, FreeBox, Box
<1>6. num_boxes = Cardinality({b \in Box : Active(b)})
  <2>1. Len(InitBoxes) \in Nat
    BY MailboxAssumption, LenProperties
  <2>2. Cardinality(0 .. Len(InitBoxes) - 1) = Len(InitBoxes)
    BY <2>1, IndexSet
  <2> QED BY <1>5, <2>2 DEF Init
<1> QED BY <1>1, <1>2, <1>4, <1>6 DEF IInv, BoxOwnership

LEMMA NextIInv == IInv /\ [Next]_vars => IInv'
BY NextTypeOK, NextSlotOwnership, NextBoxOwnership DEF IInv

LEMMA Invariance == Spec => []IInv
BY InitIInv, NextIInv, PTL DEF Spec

\* Every variable keeps its type: in particular no slot id, box id or message
\* number ever leaves its table.
THEOREM TypeCorrect == Spec => []TypeOK
<1>1. IInv => TypeOK
  BY DEF IInv
<1> QED BY <1>1, Invariance, PTL

\* num_slots is the number of slots in use, every queued slot is in use and in
\* one place of one queue: createSlot never overwrites a message.
THEOREM SlotsOwned == Spec => []SlotOwnership
<1>1. IInv => SlotOwnership
  BY DEF IInv
<1> QED BY <1>1, Invariance, PTL

\* num_boxes is the number of active boxes and a released box owns no slot:
\* MboxCreate never takes a box in use and never drops a slot.
THEOREM BoxesOwned == Spec => []BoxOwnership
<1>1. IInv => BoxOwnership
  BY DEF IInv
<1> QED BY <1>1, Invariance, PTL
=============================================================================
