--------------------------- MODULE HandlersProofs ---------------------------
(***************************************************************************)
(* Proofs about the interrupt handlers and waitdevice on the mailboxes: the*)
(* tables of Phase 2 stay consistent although handlers run in processes    *)
(* that are interrupted, the sentinel included, and check_io tells waiting *)
(* for a device from a deadlock.  For any processes, priorities, boxes,    *)
(* slots and devices.                                                      *)
(***************************************************************************)
EXTENDS Handlers, MailboxProofs

\* The process that runs is ready, and the sentinel runs only when nobody is.
Dispatched ==
  /\ Current \in Proc => status[Current] = "READY"
  /\ Current = Sentinel => \A p \in Proc : status[p] # "READY"

\* IO_blocked counts the processes in waitdevice, none of which has quit.
IoCounted ==
  /\ IsFiniteSet(io) /\ IO_blocked = Cardinality(io)
  /\ \A p \in io : status[p] # "QUIT"

HandlerTypes ==
  /\ count \in 0 .. Ticks + 1 /\ IO_blocked \in Int
  /\ io \subseteq Proc /\ inHandler \subseteq Proc \union {Sentinel}
  /\ sending \subseteq inHandler

HInv == IInv /\ HandlerTypes /\ Dispatched /\ IoCounted

-----------------------------------------------------------------------------
(***************************************************************************)
(* What a step does to the processes: the one that runs blocks, wakes      *)
(* another or goes on.                                                     *)
(***************************************************************************)
Dispatches(p) ==
  \/ \E st \in Blocked : BlockMe(p, st)
  \/ \E q \in Proc : UnblockProc(p, q)
  \/ UNCHANGED <<status, Current>>

\* The dispatcher finds a ready process if there is one.
LEMMA DispatchFinds ==
  ASSUME NEW st, NEW c \in Dispatch(st)
  PROVE  /\ c \in Proc => st[c] = "READY"
         /\ c = Sentinel => \A p \in Proc : st[p] # "READY"
<1>1. c \in Proc => st[c] = "READY"
  BY KernelAssumption DEF Dispatch, Highest
<1>2. ASSUME c = Sentinel, NEW p \in Proc, st[p] = "READY" PROVE FALSE
  <2>1. Highest(st) = {}
    BY <1>2, KernelAssumption DEF Dispatch, Highest
  <2> DEFINE S == {Priority[q] : q \in {r \in Proc : st[r] = "READY"}}
  <2>2. S \subseteq Nat /\ S # {}
    BY <1>2, KernelAssumption
  <2>3. PICK x \in S : \A y \in S : x <= y
    <3> HIDE DEF S
    <3> QED BY <2>2, LeastExists
  <2>4. PICK q \in Proc : st[q] = "READY" /\ Priority[q] = x
    BY <2>3
  <2>5. q \in Highest(st)
    BY <2>3, <2>4 DEF Highest
  <2> QED BY <2>1, <2>5
<1> QED BY <1>1, <1>2

LEMMA DispatchStep ==
  ASSUME KernelTypeOK, Dispatched, NEW p \in Proc \union {Sentinel}, Current = p, Dispatches(p)
  PROVE  /\ Dispatched'
         /\ \A q \in Proc : status'[q] = "QUIT" => status[q] = "QUIT"
<1>1. CASE \E st \in Blocked : BlockMe(p, st)
  <2>1. PICK st \in Blocked : BlockMe(p, st)
    BY <1>1
  <2>2. Current' \in Dispatch(status')
    BY <2>1 DEF BlockMe
  <2>3. Dispatched'
    BY <2>2, DispatchFinds DEF Dispatched
  <2> QED BY <2>1, <2>3 DEF BlockMe, KernelTypeOK, Blocked
<1>2. CASE \E q \in Proc : UnblockProc(p, q)
  <2>1. PICK q \in Proc : UnblockProc(p, q)
    BY <1>2
  <2>2. /\ \A r \in Proc : status'[r] = IF r = q THEN "READY" ELSE status[r]
        /\ Current' = q \/ (Current' = p /\ p # Sentinel)
    BY <2>1 DEF UnblockProc, KernelTypeOK
  <2> QED BY <2>2, KernelAssumption DEF Dispatched
<1>3. CASE UNCHANGED <<status, Current>>
  BY <1>3 DEF Dispatched
<1> QED BY <1>1, <1>2, <1>3 DEF Dispatches

-----------------------------------------------------------------------------
(***************************************************************************)
(* The calls of Phase 2 as the kernel sees them.                           *)
(***************************************************************************)
LEMMA HeadsAreProcs ==
  ASSUME TypeOK, NEW b \in Box
  PROVE  /\ blocked_proc_send[b] # <<>> => Head(blocked_proc_send[b]) \in Proc
         /\ blocked_proc_receive[b] # <<>> => Head(blocked_proc_receive[b]) \in Proc
BY DEF TypeOK, QueuesTypeOK

LEMMA SendDispatches ==
  ASSUME TypeOK, NEW p, NEW b, NEW n,
         \/ SendInvalid(p, b, n) \/ HandOff(p, b, n) \/ SendBlocks(p, b, n) \/ SendToSlot(p, b, n)
         \/ SendOverflow(p, b, n) \/ CondSendFails(p, b, n)
  PROVE  Dispatches(p)
<1>1. CASE HandOff(p, b, n)
  BY <1>1, HeadsAreProcs DEF HandOff, ValidSend, CanHandOff, Dispatches
<1>2. CASE SendBlocks(p, b, n)
  BY <1>2 DEF SendBlocks, BlockIn, Dispatches, Blocked
<1>3. CASE SendInvalid(p, b, n) \/ SendToSlot(p, b, n) \/ CondSendFails(p, b, n)
  BY <1>3 DEF SendInvalid, SendToSlot, CondSendFails, ReturnWith, Dispatches
<1>4. CASE SendOverflow(p, b, n)
  BY <1>4 DEF SendOverflow, kernelVars, Dispatches
<1> QED BY <1>1, <1>2, <1>3, <1>4

LEMMA ReceiveDispatches ==
  ASSUME TypeOK, NEW p, NEW b, NEW ptr, NEW n,
         MboxReceive(p, b, ptr, n) \/ MboxCondReceive(p, b, ptr, n)
  PROVE  Dispatches(p)
<1>1. CASE TakeFromSender(p, b, ptr, n)
  BY <1>1, HeadsAreProcs DEF TakeFromSender, ValidReceive, Dispatches
<1>2. CASE WaitOnZeroSlots(p, b, ptr, n) \/ WaitForSignal(p, b, ptr, n)
  BY <1>2 DEF WaitOnZeroSlots, WaitForSignal, BlockIn, Dispatches, Blocked
<1>3. CASE ReceiveInvalid(p, b) \/ NothingQueued(p, b) \/ DropTooLong(p, b, n) \/ NoSender(p, b, ptr, n)
  BY <1>3 DEF ReceiveInvalid, NothingQueued, DropTooLong, NoSender, ReturnWith, Dispatches
<1>4. CASE TakeFromSlot(p, b, ptr, n)
  <2>1. b \in Box
    BY <1>4 DEF TakeFromSlot, Slotted, ValidReceive
  <2>2. CASE blocked_proc_send[b] # <<>>
    BY <1>4, <2>1, <2>2, HeadsAreProcs DEF TakeFromSlot, Refill, Dispatches
  <2>3. CASE blocked_proc_send[b] = <<>>
    BY <1>4, <2>3 DEF TakeFromSlot, Refill, ReturnWith, Dispatches
  <2> QED BY <2>2, <2>3
<1> QED BY <1>1, <1>2, <1>3, <1>4 DEF MboxReceive, MboxCondReceive

LEMMA CallDispatches ==
  ASSUME TypeOK, NEW p \in Proc, Call(p) \/ Resume(p)
  PROVE  Current = p /\ Dispatches(p)
<1>1. CASE \/ \E a \in CreateArgs : MboxCreate(p, a)
           \/ \E b \in ReleaseArgs : MboxRelease(p, b)
  BY <1>1 DEF MboxCreate, CreateFails, CreateBox, MboxRelease, ReleaseRefused, ReleaseBox, Running,
              ReturnWith, Dispatches
<1>2. CASE \E a \in SendArgs : \/ MboxSend(p, a.mbox_id, a.msg_size)
                               \/ MboxCondSend(p, a.mbox_id, a.msg_size)
  BY <1>2, SendDispatches DEF MboxSend, MboxCondSend, Running
<1>3. CASE \/ \E a \in RecvArgs : MboxReceive(p, a.mbox_id, a.msg_ptr, a.msg_size)
           \/ \E a \in CondRecvArgs : MboxCondReceive(p, a.mbox_id, a.msg_ptr, a.msg_size)
  <2>1. Current = p
    BY <1>3 DEF MboxReceive, MboxCondReceive, Running
  <2> QED BY <1>3, <2>1, ReceiveDispatches
<1>4. CASE SendResumes(p) \/ ReceiveResumes(p)
  BY <1>4 DEF SendResumes, ReceiveResumes, ReturnWith, Dispatches
<1>5. CASE ReleaseStep(p)
  <2>1. Current = p /\ arg[p] \in Box
    BY <1>5 DEF ReleaseStep, TypeOK, CallsTypeOK
  <2>2. CASE ReleaseSender(p)
    BY <2>1, <2>2, HeadsAreProcs DEF ReleaseSender, Dispatches
  <2>3. CASE ReleaseReceiver(p)
    BY <2>1, <2>3, HeadsAreProcs DEF ReleaseReceiver, Dispatches
  <2>4. CASE ReleaseDone(p)
    BY <2>1, <2>4 DEF ReleaseDone, ReturnWith, Dispatches
  <2> QED BY <1>5, <2>1, <2>2, <2>3, <2>4 DEF ReleaseStep
<1> QED BY <1>1, <1>2, <1>3, <1>4, <1>5 DEF Call, Resume

-----------------------------------------------------------------------------
(***************************************************************************)
(* The tables.                                                             *)
(***************************************************************************)

\* A step that changes at most the processes.
LEMMA KernelOnly ==
  ASSUME IInv, KernelTypeOK',
         UNCHANGED <<mboxVars, queueVars, slotVars, callVars, halted, seenVars>>
  PROVE  IInv'
<1>1. TypeOK'
  BY UnchangedTypes DEF IInv, TypeOK
<1>2. SlotOwnership'
  BY OwnershipUnchanged DEF IInv, queueVars
<1>3. BoxOwnership'
  BY BoxesUnchanged DEF IInv, queueVars
<1> QED BY <1>1, <1>2, <1>3 DEF IInv

\* The send of a handler, in whatever process.
LEMMA SendStatusKeeps ==
  ASSUME IInv, NEW p \in Proc \union {Sentinel}, NEW b, SendStatus(p, b)
  PROVE  IInv' /\ Dispatches(p)
<1>0. UNCHANGED mboxVars /\ TypeOK
  BY DEF SendStatus, IInv
<1>1. CASE SendInvalid(p, b, 1) \/ CondSendFails(p, b, 1)
  <2>1. KernelTypeOK'
    <3>1. Full(b) \in BOOLEAN
      BY DEF Full
    <3>2. ReturnWith(p, TRUE) \/ ReturnWith(p, Full(b))
      BY <1>1 DEF SendInvalid, CondSendFails
    <3>3. \A on \in BOOLEAN : ReturnWith(p, on) => KernelTypeOK'
      BY <1>0, KernelTypes DEF TypeOK
    <3>4. CASE ReturnWith(p, TRUE)
      BY <3>3, <3>4
    <3>5. CASE ReturnWith(p, Full(b))
      BY <3>1, <3>3, <3>5
    <3> QED BY <3>2, <3>4, <3>5
  <2>2. UNCHANGED <<mboxVars, queueVars, slotVars, callVars, halted, seenVars>>
    BY <1>0, <1>1 DEF SendInvalid, CondSendFails
  <2> QED BY <1>0, <1>1, <2>1, <2>2, KernelOnly, SendDispatches
<1>2. CASE sent < MaxMsg /\ HandOff(p, b, 1)
  <2>1. TypeOK'
    BY <1>0, <1>2, HandOffTypeOK
  <2>2. UNCHANGED <<slotVars, queue_slots>>
    BY <1>2 DEF HandOff
  <2>3. SlotOwnership' /\ BoxOwnership'
    BY <1>0, <2>2, OwnershipUnchanged, BoxesUnchanged DEF IInv
  <2> QED BY <1>0, <1>2, <2>1, <2>3, SendDispatches DEF IInv
<1>3. CASE sent < MaxMsg /\ SendToSlot(p, b, 1)
  <2>1. TypeOK' /\ SlotOwnership'
    BY <1>0, <1>3, SendToSlotTypeOK, SendToSlotOwnership
  <2>2. \A c \in Box : ~Active(c) => queue_slots'[c] = queue_slots[c]
    BY <1>0, <1>3 DEF SendToSlot, ValidSend, createSlot, TypeOK, QueuesTypeOK
  <2>3. BoxOwnership'
    BY <1>0, <2>2, BoxesUnchanged DEF IInv
  <2> QED BY <1>0, <1>3, <2>1, <2>3, SendDispatches DEF IInv
<1> QED BY <1>1, <1>2, <1>3 DEF SendStatus

\* The receive in waitdevice, whatever the callers' own arguments are.
LEMMA ReceiveKeeps ==
  ASSUME IInv, NEW p \in Proc, NEW b, MboxReceive(p, b, TRUE, 1)
  PROVE  IInv'
<1>0. TypeOK /\ UNCHANGED mboxVars
  BY DEF IInv, MboxReceive
<1>1. TypeOK'
  BY ReceiveTypeOK
<1>2. CASE TakeFromSlot(p, b, TRUE, 1)
  <2>1. SlotOwnership'
    BY <1>2, TakeFromSlotOwnership
  <2>2. \A c \in Box : ~Active(c) => queue_slots'[c] = queue_slots[c]
    BY <1>0, <1>2 DEF TakeFromSlot, Slotted, ValidReceive, Refill, createSlot, TypeOK, QueuesTypeOK
  <2> QED BY <1>0, <1>1, <2>1, <2>2, BoxesUnchanged DEF IInv
<1>3. CASE DropTooLong(p, b, 1)
  <2>1. SlotOwnership'
    BY <1>3, DropTooLongOwnership
  <2>2. \A c \in Box : ~Active(c) => queue_slots'[c] = queue_slots[c]
    BY <1>0, <1>3 DEF DropTooLong, Slotted, ValidReceive, TypeOK, QueuesTypeOK
  <2> QED BY <1>0, <1>1, <2>1, <2>2, BoxesUnchanged DEF IInv
<1>4. CASE ~TakeFromSlot(p, b, TRUE, 1) /\ ~DropTooLong(p, b, 1)
  <2>1. UNCHANGED <<slotVars, queue_slots>>
    BY <1>4 DEF MboxReceive, ReceiveInvalid, TakeFromSender, WaitOnZeroSlots, WaitForSignal,
                NothingQueued, queueVars
  <2> QED BY <1>0, <1>1, <2>1, OwnershipUnchanged, BoxesUnchanged DEF IInv
<1> QED BY <1>2, <1>3, <1>4

-----------------------------------------------------------------------------
(***************************************************************************)
(* The inductive invariant.                                                *)
(***************************************************************************)
LEMMA HandlersStart == HandlersInit => HInv
<1> SUFFICES ASSUME HandlersInit PROVE HInv
  OBVIOUS
<1>1. IInv
  BY InitIInv DEF HandlersInit
<1>2. HandlerTypes
  BY HandlersAssumption DEF HandlersInit, HandlerTypes
<1>3. Dispatched
  BY DispatchFinds DEF HandlersInit, Init, KernelInit, Dispatched
<1>4. IoCounted
  BY FS_EmptySet DEF HandlersInit, IoCounted
<1> QED BY <1>1, <1>2, <1>3, <1>4 DEF HInv

\* A step that leaves waitdevice as it is.
LEMMA IoSame ==
  ASSUME HInv, UNCHANGED <<IO_blocked, io>>,
         \A q \in io : status'[q] = "QUIT" => status[q] = "QUIT"
  PROVE  IoCounted'
BY DEF HInv, IoCounted

LEMMA ClockTickKeeps ==
  ASSUME HInv, NEW p \in Proc \union {Sentinel}, ClockTick(p)
  PROVE  HInv'
<1>0. /\ IInv /\ TypeOK /\ KernelTypeOK /\ Dispatched /\ HandlerTypes /\ Current = p
      /\ UNCHANGED <<IO_blocked, io>>
  BY DEF HInv, IInv, TypeOK, ClockTick, Interrupted
<1>1. HandlerTypes'
  <2>1. count' \in 0 .. Ticks + 1
    BY <1>0, HandlersAssumption DEF HandlerTypes, ClockTick
  <2>2. inHandler' = inHandler \union {p} /\ sending' \subseteq sending \union {p}
    BY DEF ClockTick
  <2> QED BY <1>0, <2>1, <2>2 DEF HandlerTypes
<1>2. IInv' /\ Dispatches(p)
  <2>1. CASE SendStatus(p, CLOCKBOX)
    BY <1>0, <2>1, SendStatusKeeps
  <2>2. CASE UNCHANGED vars
    <3>1. UNCHANGED <<kernelVars, mboxVars, queueVars, slotVars, callVars, halted, seenVars>>
      BY <2>2 DEF vars
    <3>2. KernelTypeOK'
      BY <1>0, <3>1, UnchangedTypes
    <3> QED BY <1>0, <3>1, <3>2, KernelOnly DEF Dispatches, kernelVars
  <2> QED BY <2>1, <2>2 DEF ClockTick
<1>3. /\ Dispatched' /\ \A q \in Proc : status'[q] = "QUIT" => status[q] = "QUIT"
  BY <1>0, <1>2, DispatchStep
<1>4. IoCounted'
  BY <1>0, <1>3, IoSame DEF HandlerTypes
<1> QED BY <1>1, <1>2, <1>3, <1>4 DEF HInv

LEMMA ClockSliceKeeps ==
  ASSUME HInv, NEW p \in Proc \union {Sentinel}, ClockSlice(p)
  PROVE  HInv'
<1>0. /\ IInv /\ KernelTypeOK /\ Dispatched /\ HandlerTypes /\ Current = p
      /\ UNCHANGED <<status, zapped, psr, mboxVars, queueVars, slotVars, callVars, halted,
                     seenVars, IO_blocked, io>>
  BY DEF HInv, IInv, TypeOK, ClockSlice
<1>1. Current' = Current \/ (Current' \in Proc /\ status[Current'] = "READY")
  BY DEF ClockSlice
<1>2. KernelTypeOK' /\ Dispatched'
  BY <1>0, <1>1, KernelAssumption DEF KernelTypeOK, Dispatched
<1>3. IInv'
  BY <1>0, <1>2, KernelOnly
<1>4. HandlerTypes'
  BY <1>0, HandlersAssumption DEF HandlerTypes, ClockSlice
<1>5. IoCounted'
  BY <1>0, IoSame
<1> QED BY <1>2, <1>3, <1>4, <1>5 DEF HInv

LEMMA WaitdeviceKeeps ==
  ASSUME HInv, NEW p \in Proc, NEW b, waitdevice(p, b)
  PROVE  HInv'
<1>0. /\ IInv /\ TypeOK /\ KernelTypeOK /\ Dispatched /\ HandlerTypes /\ IoCounted
      /\ Current = p /\ p \notin io
      /\ IO_blocked' = IO_blocked + 1 /\ io' = io \union {p}
      /\ MboxReceive(p, b, TRUE, 1) /\ UNCHANGED <<count, inHandler, sending>>
  BY DEF HInv, IInv, TypeOK, waitdevice, Outside, MboxReceive, Running
<1>1. IInv'
  BY <1>0, ReceiveKeeps
<1>2. /\ Dispatched' /\ \A q \in Proc : status'[q] = "QUIT" => status[q] = "QUIT"
  BY <1>0, ReceiveDispatches, DispatchStep
<1>3. HandlerTypes'
  BY <1>0 DEF HandlerTypes
<1>4. IsFiniteSet(io') /\ Cardinality(io') = Cardinality(io) + 1
  BY <1>0, FS_AddElement DEF IoCounted
<1>5. \A q \in io' : status'[q] # "QUIT"
  BY <1>0, <1>2 DEF IoCounted, Dispatched, HandlerTypes
<1>6. IoCounted'
  BY <1>0, <1>4, <1>5 DEF IoCounted
<1> QED BY <1>1, <1>2, <1>3, <1>6 DEF HInv

LEMMA DeviceDoneKeeps ==
  ASSUME HInv, NEW p \in Proc, DeviceDone(p)
  PROVE  HInv'
<1>0. /\ IInv /\ KernelTypeOK /\ Dispatched /\ HandlerTypes /\ IoCounted /\ p \in io
      /\ IO_blocked' = IO_blocked - 1 /\ io' = io \ {p} /\ ReturnWith(p, TRUE)
      /\ UNCHANGED <<mboxVars, queueVars, slotVars, callVars, halted, seenVars,
                     count, inHandler, sending>>
  BY DEF HInv, IInv, TypeOK, DeviceDone
<1>1. KernelTypeOK'
  BY <1>0, KernelTypes
<1>2. IInv'
  BY <1>0, <1>1, KernelOnly
<1>3. Dispatched' /\ HandlerTypes'
  BY <1>0 DEF Dispatched, HandlerTypes, ReturnWith
<1>4. IsFiniteSet(io') /\ Cardinality(io') = Cardinality(io) - 1
  BY <1>0, FS_RemoveElement DEF IoCounted
<1>5. IoCounted'
  BY <1>0, <1>4 DEF IoCounted, ReturnWith
<1> QED BY <1>2, <1>3, <1>5 DEF HInv

\* The calls of Mailbox, outside the handlers.
LEMMA MailboxKeeps ==
  ASSUME HInv, NEW p \in Proc, Call(p) \/ Resume(p), UNCHANGED handlerVars
  PROVE  HInv'
<1>0. /\ IInv /\ TypeOK /\ KernelTypeOK /\ Dispatched /\ HandlerTypes
      /\ UNCHANGED <<count, IO_blocked, io, inHandler, sending>>
  BY DEF HInv, IInv, TypeOK, handlerVars
<1>1. IInv'
  BY <1>0, NextIInv DEF Next
<1>2. /\ Dispatched' /\ \A q \in Proc : status'[q] = "QUIT" => status[q] = "QUIT"
  BY <1>0, CallDispatches, DispatchStep
<1>3. HandlerTypes' /\ IoCounted'
  BY <1>0, <1>2, IoSame DEF HandlerTypes
<1> QED BY <1>1, <1>2, <1>3 DEF HInv

LEMMA HandlersStep == HInv /\ [HandlersNext]_allVars => HInv'
<1> SUFFICES ASSUME HInv, [HandlersNext]_allVars PROVE HInv'
  OBVIOUS
<1>0. /\ IInv /\ TypeOK /\ KernelTypeOK /\ Dispatched /\ HandlerTypes /\ IoCounted
  BY DEF HInv, IInv, TypeOK
<1>1. CASE UNCHANGED allVars
  <2>1. UNCHANGED <<vars, count, IO_blocked, io, inHandler, sending>>
    BY <1>1 DEF allVars, handlerVars
  <2>2. IInv'
    BY <1>0, <2>1, NextIInv
  <2>3. UNCHANGED <<status, Current>>
    BY <2>1 DEF vars, kernelVars
  <2> QED BY <1>0, <2>1, <2>2, <2>3 DEF HInv, Dispatched, HandlerTypes, IoCounted
<1>2. CASE ZapSomebody
  <2>1. PICK q \in ZapTargets : Zap(q)
    BY <1>2 DEF ZapSomebody
  <2>2. /\ UNCHANGED <<status, Current, mboxVars, queueVars, slotVars, callVars, halted, seenVars>>
        /\ UNCHANGED <<count, IO_blocked, io, inHandler, sending>>
    BY <1>2, <2>1 DEF ZapSomebody, Zap, handlerVars
  <2>3. KernelTypeOK'
    BY <1>0, <2>1 DEF Zap, KernelTypeOK
  <2>4. IInv'
    BY <1>0, <2>2, <2>3, KernelOnly
  <2> QED BY <1>0, <2>2, <2>4 DEF HInv, Dispatched, HandlerTypes, IoCounted
<1>3. ASSUME NEW p \in Proc \union {Sentinel}, ClockTick(p) \/ ClockSlice(p) PROVE HInv'
  BY <1>3, ClockTickKeeps, ClockSliceKeeps
<1>4. ASSUME NEW p \in Proc \union {Sentinel}, NEW b \in DeviceBoxes, device_handler(p, b) PROVE HInv'
  <2>1. /\ SendStatus(p, b) /\ Current = p
        /\ UNCHANGED <<count, IO_blocked, io, inHandler, sending>>
    BY <1>4 DEF device_handler, Interrupted, handlerVars
  <2>2. IInv' /\ Dispatches(p)
    BY <1>0, <2>1, SendStatusKeeps
  <2>3. /\ Dispatched' /\ \A q \in Proc : status'[q] = "QUIT" => status[q] = "QUIT"
    BY <1>0, <2>1, <2>2, DispatchStep
  <2>4. HandlerTypes' /\ IoCounted'
    BY <1>0, <2>1, <2>3, IoSame DEF HandlerTypes
  <2> QED BY <2>2, <2>3, <2>4 DEF HInv
<1>5. ASSUME NEW p \in Proc, Finishes(p) \/ (Outside(p) /\ Call(p) /\ UNCHANGED handlerVars)
      PROVE  HInv'
  BY <1>5, MailboxKeeps DEF Finishes
<1>6. ASSUME NEW p \in Proc, Leaves(p) PROVE HInv'
  <2>1. /\ Quit(p) /\ p \notin io /\ QuitProc(p)
        /\ UNCHANGED <<count, IO_blocked, io, inHandler, sending>>
    BY <1>6 DEF Leaves, Outside, Quit, handlerVars
  <2>2. IInv'
    BY <1>0, <2>1, NextIInv DEF Next
  <2>3. Dispatched'
    BY <2>1, DispatchFinds DEF QuitProc, Dispatched
  <2>4. \A q \in io : status'[q] = status[q]
    BY <1>0, <2>1 DEF QuitProc, KernelTypeOK, HandlerTypes
  <2>5. HandlerTypes' /\ IoCounted'
    BY <1>0, <2>1, <2>4, IoSame DEF HandlerTypes
  <2> QED BY <2>2, <2>3, <2>5 DEF HInv
<1>7. ASSUME NEW p \in Proc, DeviceDone(p) PROVE HInv'
  BY <1>7, DeviceDoneKeeps
<1>8. ASSUME NEW p \in Proc, NEW b \in DeviceBoxes \union {CLOCKBOX}, waitdevice(p, b) PROVE HInv'
  BY <1>8, WaitdeviceKeeps
<1> QED BY <1>1, <1>2, <1>3, <1>4, <1>5, <1>6, <1>7, <1>8 DEF HandlersNext

LEMMA HandlersInvariance == HandlersSpec => []HInv
BY HandlersStart, HandlersStep, PTL DEF HandlersSpec

\* Every variable of phase2.c and of handler.c keeps its type, wherever an
\* interrupt comes between two steps of a call.
THEOREM HandlersTypes == HandlersSpec => []HandlersTypeOK
<1>1. HInv => HandlersTypeOK
  BY DEF HInv, HandlerTypes, HandlersTypeOK, IInv
<1> QED BY <1>1, HandlersInvariance, PTL

\* The handlers, which send in the middle of other calls and in the sentinel,
\* neither share slots nor leak them, and leave no slots to a released box
\* (handler.c:50, 85, 119).
THEOREM HandlersKeepTables == HandlersSpec => [](SlotOwnership /\ BoxOwnership)
<1>1. HInv => SlotOwnership /\ BoxOwnership
  BY DEF HInv, IInv
<1> QED BY <1>1, HandlersInvariance, PTL

LEMMA TellsNow ==
  ASSUME HInv
  PROVE  TellsDeviceWait
<1> SUFFICES ASSUME Current = Sentinel
             PROVE  check_io = 1 <=> \E p \in io : status[p] \in Blocked
  BY DEF TellsDeviceWait
<1>1. \A p \in io : status[p] \in Blocked
  BY DEF HInv, HandlerTypes, Dispatched, IoCounted, IInv, TypeOK, KernelTypeOK
<1>2. IsFiniteSet(io) /\ IO_blocked = Cardinality(io)
  BY DEF HInv, IoCounted
<1>3. Cardinality(io) \in Nat /\ (Cardinality(io) = 0 <=> io = {})
  BY <1>2, FS_CardinalityType, FS_EmptySet
<1>4. check_io = 1 <=> io # {}
  BY <1>2, <1>3 DEF check_io
<1> QED BY <1>1, <1>4

\* When nobody can run, check_io answers 1 exactly when a process waits for a
\* device, whatever woke, zapped, released or interrupted the others
\* (handler.c:154-195).
THEOREM ChecksDevices == HandlersSpec => []TellsDeviceWait
<1>1. HInv => TellsDeviceWait
  BY TellsNow
<1> QED BY <1>1, HandlersInvariance, PTL
=============================================================================
