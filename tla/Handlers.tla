------------------------------ MODULE Handlers ------------------------------
(***************************************************************************)
(* The interrupt handlers of Phase 2 and waitdevice (src/phase2/handler.c) *)
(* on the mailboxes of phase2.c.  The calls of the processes are those of  *)
(* Mailbox: syscall_handler and the vector only lead to them.              *)
(*                                                                         *)
(* A handler runs in the process it interrupts, be it the sentinel.        *)
(* clock_handler is two steps, for its conditional send may switch to      *)
(* another process; an interrupt that comes between the send and the end   *)
(* of the handler is taken after it.  Devices report with their own        *)
(* numbers, so the early returns are not taken.                            *)
(***************************************************************************)
EXTENDS MailboxProperties

CONSTANTS
  Ticks,       \* clock interrupts from one message to the next, 5 in the code
  CLOCKBOX,    \* the mailbox of the clock device
  DeviceBoxes  \* those of the disks and terminals

ASSUME HandlersAssumption ==
  Ticks \in Nat \ {0} /\ {CLOCKBOX} \union DeviceBoxes \subseteq Box

VARIABLES
  count,       \* clock interrupts; beyond Ticks they are not told apart
  IO_blocked,
  io,          \* the processes inside waitdevice
  inHandler,   \* the processes in which clock_handler is not finished
  sending      \* those of them that sent the message and are to reset count

handlerVars == <<count, IO_blocked, io, inHandler, sending>>
allVars == <<vars, handlerVars>>

HandlersTypeOK ==
  /\ TypeOK
  /\ count \in 0 .. Ticks + 1 /\ IO_blocked \in Int
  /\ io \subseteq Proc /\ inHandler \subseteq Proc \union {Sentinel}
  /\ sending \subseteq inHandler

HandlersInit ==
  Init /\ count = 0 /\ IO_blocked = 0 /\ io = {} /\ inHandler = {} /\ sending = {}

\* The process p is interrupted.
Interrupted(p) ==
  Current = p /\ ~halted /\ p \notin inHandler /\ (p # Sentinel => psr[p])

\* A handler's conditional send of a status, in the process p.
SendStatus(p, b) ==
  /\ \/ SendInvalid(p, b, 1) \/ CondSendFails(p, b, 1)
     \/ sent < MaxMsg /\ (HandOff(p, b, 1) \/ SendToSlot(p, b, 1))
  /\ UNCHANGED mboxVars

ClockTick(p) ==
  /\ Interrupted(p)
  /\ count' = IF count > Ticks THEN count ELSE count + 1
  /\ IF count + 1 = Ticks
     THEN SendStatus(p, CLOCKBOX) /\ sending' = sending \union {p}
     ELSE UNCHANGED <<vars, sending>>
  /\ inHandler' = inHandler \union {p}
  /\ UNCHANGED <<IO_blocked, io>>

\* The rest of it, with time_slice().
ClockSlice(p) ==
  /\ Current = p /\ ~halted /\ p \in inHandler
  /\ count' = IF p \in sending THEN 0 ELSE count
  /\ IF p = Sentinel THEN UNCHANGED Current
     ELSE \E q \in Proc : /\ status[q] = "READY" /\ Priority[q] = Priority[p]
                         /\ Current' = q
  /\ inHandler' = inHandler \ {p} /\ sending' = sending \ {p}
  /\ UNCHANGED <<status, zapped, psr, mboxVars, queueVars, slotVars, callVars, halted,
                 seenVars, IO_blocked, io>>

\* disk_handler and term_handler.
device_handler(p, b) == Interrupted(p) /\ SendStatus(p, b) /\ UNCHANGED handlerVars

-----------------------------------------------------------------------------
Outside(p) == p \notin io /\ p \notin inHandler

waitdevice(p, b) ==
  /\ Outside(p)
  /\ IO_blocked' = IO_blocked + 1 /\ io' = io \union {p}
  /\ MboxReceive(p, b, TRUE, 1)
  /\ UNCHANGED <<count, inHandler, sending>>

\* Mutant: a zapped process returns before it is counted down.
DeviceDoneZapped(p) ==
  /\ p \in io /\ p \notin inHandler /\ Running(p)
  /\ IO_blocked' = IF p \in zapped THEN IO_blocked ELSE IO_blocked - 1
  /\ io' = io \ {p}
  /\ ReturnWith(p, TRUE)
  /\ UNCHANGED <<mboxVars, queueVars, slotVars, callVars, halted, seenVars,
                 count, inHandler, sending>>

\* The rest of waitdevice after its receive has returned.
DeviceDone(p) ==
  /\ p \in io /\ p \notin inHandler /\ Running(p)
  /\ IO_blocked' = IO_blocked - 1 /\ io' = io \ {p}
  /\ ReturnWith(p, TRUE)
  /\ UNCHANGED <<mboxVars, queueVars, slotVars, callVars, halted, seenVars,
                 count, inHandler, sending>>

check_io == IF IO_blocked > 0 THEN 1 ELSE 0

ZapSomebody ==
  /\ ~halted /\ \E q \in ZapTargets : Zap(q)
  /\ UNCHANGED <<mboxVars, queueVars, slotVars, callVars, halted, seenVars, handlerVars>>

Finishes(p) == p \notin inHandler /\ Resume(p) /\ UNCHANGED handlerVars
Leaves(p)   == Outside(p) /\ Quit(p) /\ UNCHANGED handlerVars

HandlersNext ==
  \/ ZapSomebody
  \/ \E p \in Proc \union {Sentinel} :
       \/ ClockTick(p) \/ ClockSlice(p)
       \/ \E b \in DeviceBoxes : device_handler(p, b)
  \/ \E p \in Proc :
       \/ Finishes(p) \/ Leaves(p) \/ DeviceDone(p)
       \/ \E b \in DeviceBoxes \union {CLOCKBOX} : waitdevice(p, b)
       \/ Outside(p) /\ Call(p) /\ UNCHANGED handlerVars

HandlersSpec == HandlersInit /\ [][HandlersNext]_allVars

-----------------------------------------------------------------------------
HandlersFairSpec ==
  /\ HandlersSpec
  /\ WF_allVars(\E p \in Proc \union {Sentinel} : ClockSlice(p))
  /\ \A p \in Proc : SF_allVars(Finishes(p) \/ DeviceDone(p)) /\ SF_allVars(Leaves(p))

\* The clock ticks for ever, in whatever process.
ClockFairSpec ==
  HandlersFairSpec /\ SF_allVars(\E p \in Proc \union {Sentinel} : ClockTick(p))

\* check_io tells Phase 1, when every process is blocked, whether this is for
\* a device or for ever: it is 1 exactly when one of them is in waitdevice,
\* whether it was woken, zapped, released from its mailbox or interrupted.
TellsDeviceWait ==
  Current = Sentinel => (check_io = 1 <=> \E p \in io : status[p] \in Blocked)

\* "A test of waitdevice for the clock" (testcases/test13.c:2) expects "after
\* waitdevice call" (testcases/testResultsExpected.txt:421): a process that
\* waits for the clock returns from waitdevice.
ClockWakes == \A p \in Proc : (p \in io /\ arg[p] = CLOCKBOX) ~> (p \notin io \/ halted)
=============================================================================
