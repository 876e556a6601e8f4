------------------------- MODULE SleeperProperties -------------------------
(***************************************************************************)
(* What sleep promises while its callers have a lower priority than the    *)
(* clock driver.                                                           *)
(***************************************************************************)
EXTENDS Sleepers

Asleep == {sleep_heap.procs[i] : i \in 0 .. sleep_heap.size - 1}

\* The heap is a set of alarms that rings the earliest first, whatever its
\* array looks like after the insertions and removals before, and although
\* heap_remove looks one past its last element (phase4.c:1045, 1048).
Alarm == INSTANCE AlarmClock
           WITH alarms <- {[who |-> p, at |-> wake_time[p]] : p \in Asleep}
WakesInOrder == Alarm!Spec

\* A process that sleeps is in the heap or has been woken once, and nobody else
\* is or has: neither a wake-up before the P of sleep_real nor one that
\* the process is owed from an earlier sleep goes astray (phase4.c:281, 573).
WokenOnce ==
  \A p \in Slot :
    Cardinality({i \in 0 .. sleep_heap.size - 1 : sleep_heap.procs[i] = p}) + block_sem[p]
      = IF pc[p] = "semp" THEN 1 ELSE 0

\* "wake up any processes whose time has come" (phase4.c:279): nobody whose
\* time fits in an int is woken before it, and when the driver goes back to
\* wait for the clock it leaves nobody behind whose time has come.
OnTime ==
  [][\A p \in Asleep : /\ p \notin Asleep' /\ asked[p] <= MAXINT => now >= asked[p]
                       /\ driver = "loop" /\ driver' = "waitdevice" => asked[p] > now]_vars

-----------------------------------------------------------------------------
(***************************************************************************)
(* Fairness: the clock device keeps interrupting, the driver has a         *)
(* priority no other process keeps from it for ever, and a process whose   *)
(* semaphore was raised is run.                                            *)
(***************************************************************************)
FairSpec ==
  /\ Spec
  /\ WF_vars(ClockInterrupt) /\ WF_vars(ClockDriver)
  /\ \A p \in Slot : WF_vars(semp_real(p))

\* Every sleeper wakes up, although the driver misses the interrupts that come
\* while it works (handler.c:50).
EverySleeperWakes == \A p \in Slot : pc[p] = "semp" ~> pc[p] = "user"
=============================================================================
