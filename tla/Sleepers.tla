----------------------------- MODULE Sleepers -----------------------------
(***************************************************************************)
(* Sleeping processes of Phase 4 (src/phase4/phase4.c): sleep_real puts    *)
(* its process into a heap ordered by wake_time and waits on the process's *)
(* semaphore; ClockDriver takes due processes out and raises theirs.       *)
(*                                                                         *)
(* The unit of time is the period of the clock mailbox, five interrupts.   *)
(* ClockDriver has priority 2 and user processes a lower one, so they run  *)
(* while it waits for the clock, or in semv_real for one of them.  A sleep *)
(* is one step up to its P: system calls start with interrupts disabled,   *)
(* and heap_add comes before the first call that enables them.             *)
(*                                                                         *)
(* External: sys_clock, the clock interrupts and the semaphores.           *)
(***************************************************************************)
EXTENDS Integers, Sequences, FiniteSets

CONSTANTS
  Slot,        \* the entries of ProcTable, one for each process
  SEC,         \* units of time in a second
  Seconds,     \* the arguments of sleep
  MAXINT,      \* the last int; sys_clock() counts in ints
  MaxTime      \* bound: the clock stops there, the interrupts do not

ASSUME SleepersAssumption ==
  /\ IsFiniteSet(Slot) /\ SEC \in Nat \ {0} /\ Seconds \subseteq Int
  /\ MaxTime \in Nat /\ MAXINT \in Nat /\ MaxTime <= MAXINT

VARIABLES
  now,         \* sys_clock()
  wake_time,   \* [Slot -> int] (ProcTable[i].wake_time)
  block_sem,   \* [Slot -> Nat] the value of the semaphore ProcTable[i].block_sem
  sleep_heap,  \* [size, procs], procs a function on 0 .. size - 1
  driver,      \* the place of ClockDriver
  zapped,      \* start3 has zapped it
  pc,          \* [Slot -> "user" or "semp": before or in the P of sleep_real]
  asked        \* not in the code: when each process asked to be woken

vars == <<now, wake_time, block_sem, sleep_heap, driver, zapped, pc, asked>>

\* The sum is stored in an int.
Wrap(n) == ((n + MAXINT + 1) % (2 * (MAXINT + 1))) - (MAXINT + 1)

TypeOK ==
  /\ now \in 0 .. MaxTime
  /\ wake_time \in [Slot -> (-MAXINT - 1) .. MAXINT]
  /\ block_sem \in [Slot -> Nat]
  /\ sleep_heap.size \in 0 .. Cardinality(Slot)
  /\ sleep_heap.procs \in [0 .. sleep_heap.size - 1 -> Slot]
  /\ driver \in {"waitdevice", "woken", "loop", "ended"} /\ zapped \in BOOLEAN
  /\ pc \in [Slot -> {"user", "semp"}] /\ asked \in [Slot -> Int]

-----------------------------------------------------------------------------
Parent(i) == (i - 1) \div 2

\* The indices that a loop visits if it starts at index first, goes from index i
\* to next[i], and ends where that is i itself.
Visited(first, next) ==
  {j \in DOMAIN next :
     \A S \in SUBSET DOMAIN next : first \in S /\ (\A i \in S : next[i] \in S) => j \in S}

\* heap_add: the way of a process with wake time t upward from index n, to the
\* first index whose parent wakes no later.
Place(procs, t, n) ==
  Visited(n, [i \in 0 .. n |-> IF i = 0 \/ wake_time[procs[Parent(i)]] <= t THEN i
                               ELSE Parent(i)])

\* The new process goes to the highest index on the way, and every other index
\* on it takes the process of its parent.
WithNew(procs, p, t, size) ==
  LET way == Place(procs, t, size)
      top == CHOOSE i \in way : \A j \in way : i <= j
  IN  [i \in 0 .. size |-> CASE i = top             -> p
                             [] i \in way \ {top}   -> procs[Parent(i)]
                             [] OTHER               -> procs[i]]

\* Mutant: without size++.
heap_addUncounted(h, p, t) == [size |-> h.size, procs |-> WithNew(h.procs, p, t, h.size)]

heap_add(h, p, t) == [size |-> h.size + 1, procs |-> WithNew(h.procs, p, t, h.size)]

heap_peek(h) == h.procs[0]

\* The child that the process p changes places with at index i, or i itself.  The
\* tests read index size, which after size-- still holds p.
MinChild(procs, size, p, i) ==
  LET left  == 2 * i + 1
      right == 2 * i + 2
      min == IF left <= size /\ wake_time[procs[left]] < wake_time[p] THEN left ELSE i
      least == IF min = i THEN wake_time[p] ELSE wake_time[procs[min]]
  IN  IF right <= size /\ wake_time[procs[right]] < least THEN right ELSE min

\* Mutant: the last process stays at index 0.
heap_removeNoSift(h) ==
  LET size == h.size - 1
  IN  [size  |-> size,
       procs |-> [i \in 0 .. size - 1 |-> IF i = 0 THEN h.procs[size] ELSE h.procs[i]]]

\* The last process, at index size, goes to index 0 and swaps places on its way
\* down, so each index on the way takes the process of the next.  Pointers at and
\* above size are left behind in the array and never read.
WithoutFirst(procs, size) ==
  LET next == [i \in 0 .. size |-> IF 2 * i <= size THEN MinChild(procs, size, procs[size], i)
                                  ELSE i]
      way == Visited(0, next)
  IN  [i \in 0 .. size - 1 |->
         IF i \notin way THEN procs[i]
         ELSE IF next[i] = i THEN procs[size] ELSE procs[next[i]]]

heap_remove(h) ==
  [size |-> h.size - 1, procs |-> WithoutFirst(h.procs, h.size - 1)]

-----------------------------------------------------------------------------
\* start3 has initialised every entry and the heap, and ClockDriver has told it
\* that it runs.
Init ==
  /\ now = 0
  /\ wake_time = [p \in Slot |-> -1] /\ block_sem = [p \in Slot |-> 0]
  /\ sleep_heap = [size |-> 0, procs |-> [i \in {} |-> 0]]
  /\ driver = "waitdevice" /\ zapped = FALSE
  /\ pc = [p \in Slot |-> "user"] /\ asked = [p \in Slot |-> 0]

\* The fifth clock interrupt.  clock_handler sends without waiting: the message
\* is lost if the driver does not wait for it.
ClockInterrupt ==
  /\ now' = IF now < MaxTime THEN now + 1 ELSE now
  /\ driver' = IF driver = "waitdevice" THEN "woken" ELSE driver
  /\ UNCHANGED <<wake_time, block_sem, sleep_heap, zapped, pc, asked>>

\* waitdevice tells a zapped process from others when it has received.
AfterWaitdevice ==
  /\ driver = "woken"
  /\ driver' = IF zapped THEN "ended" ELSE "loop"
  /\ UNCHANGED <<now, wake_time, block_sem, sleep_heap, zapped, pc, asked>>

Due == sleep_heap.size > 0 /\ now >= wake_time[heap_peek(sleep_heap)]

\* Mutants: heap_peek for heap_remove; nobody is told; if for while.
WakeOnePeeks ==
  /\ driver = "loop" /\ Due
  /\ block_sem' = [block_sem EXCEPT ![heap_peek(sleep_heap)] = @ + 1]
  /\ UNCHANGED <<now, wake_time, sleep_heap, driver, zapped, pc, asked>>

WakeOneTellsNone ==
  /\ driver = "loop" /\ Due
  /\ sleep_heap' = heap_remove(sleep_heap)
  /\ UNCHANGED <<now, wake_time, block_sem, driver, zapped, pc, asked>>

WakeOneOnly ==
  /\ driver = "loop" /\ Due
  /\ sleep_heap' = heap_remove(sleep_heap)
  /\ block_sem' = [block_sem EXCEPT ![heap_peek(sleep_heap)] = @ + 1]
  /\ driver' = "waitdevice"
  /\ UNCHANGED <<now, wake_time, zapped, pc, asked>>

WakeOne ==
  /\ driver = "loop" /\ Due
  /\ sleep_heap' = heap_remove(sleep_heap)
  /\ block_sem' = [block_sem EXCEPT ![heap_peek(sleep_heap)] = @ + 1]
  /\ UNCHANGED <<now, wake_time, driver, zapped, pc, asked>>

WakeDone ==
  /\ driver = "loop" /\ ~Due
  /\ driver' = IF zapped THEN "ended" ELSE "waitdevice"
  /\ UNCHANGED <<now, wake_time, block_sem, sleep_heap, zapped, pc, asked>>

ClockDriver == AfterWaitdevice \/ WakeOne \/ WakeDone

\* A process enters a system call only while the driver, of a higher priority,
\* waits; it may be anywhere in its P when the driver runs.
UsersRun == driver = "waitdevice"

\* sleep takes the seconds out of the arguments; its result is that of
\* sleep_real, -1 at once for a negative number.
sleep_real(p, seconds) ==
  LET wake == Wrap(now + seconds * SEC)
  IN  /\ pc[p] = "user" /\ ~zapped /\ UsersRun
      /\ wake <= MaxTime
      /\ IF seconds < 0 THEN UNCHANGED <<wake_time, sleep_heap, pc, asked>>
         ELSE /\ wake_time' = [wake_time EXCEPT ![p] = wake]
              /\ asked' = [asked EXCEPT ![p] = now + seconds * SEC]
              /\ sleep_heap' = heap_add(sleep_heap, p, wake)
              /\ pc' = [pc EXCEPT ![p] = "semp"]
      /\ UNCHANGED <<now, block_sem, driver, zapped>>

semp_real(p) ==
  /\ pc[p] = "semp" /\ block_sem[p] > 0
  /\ block_sem' = [block_sem EXCEPT ![p] = @ - 1]
  /\ pc' = [pc EXCEPT ![p] = "user"]
  /\ UNCHANGED <<now, wake_time, sleep_heap, driver, zapped, asked>>

\* start3 zaps the driver when start4, and with it every user process, is gone.
ZapClockDriver ==
  /\ ~zapped /\ \A p \in Slot : pc[p] = "user"
  /\ zapped' = TRUE
  /\ UNCHANGED <<now, wake_time, block_sem, sleep_heap, driver, pc, asked>>

Next ==
  \/ ClockInterrupt
  \/ ClockDriver
  \/ \E p \in Slot : semp_real(p) \/ \E s \in Seconds : sleep_real(p, s)
  \/ ZapClockDriver

Spec == Init /\ [][Next]_vars

=============================================================================
