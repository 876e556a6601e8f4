---------------------------- MODULE UserProcess -----------------------------
(***************************************************************************)
(* The user processes of Phase 3 (src/phase3/phase31.c): spawnReal and     *)
(* spawnLaunch, which meet in the child's mailbox, waitReal, terminateReal *)
(* and the linked lists of children.                                       *)
(*                                                                         *)
(* One processor, which the ready process of the highest priority keeps.   *)
(* The clock slices processes of the same priority anywhere in these calls *)
(* (interrupts are on), so a step is one statement on the tables of both   *)
(* sides; list operations are single steps.                                *)
(*                                                                         *)
(* Of the kernel (external): fork1 hands out ascending pids whose entry is *)
(* free and runs the child at once when its priority is higher; join waits *)
(* for a child that quits; zap waits until its target has quit; quit halts *)
(* the machine if the caller has active children.                          *)
(***************************************************************************)
EXTENDS Integers, FiniteSets

CONSTANTS
  MAXPROC,
  MaxPid,       \* bound: the last pid that fork1 hands out
  Priorities,   \* with which processes are spawned; small numbers are high
  SamePriority  \* whether processes of one priority may exist together

ASSUME UserProcessAssumption ==
  /\ MAXPROC \in Nat /\ MAXPROC >= 2 /\ MaxPid \in Nat /\ MaxPid >= 1
  /\ Priorities \subseteq Nat /\ SamePriority \in BOOLEAN

Pid  == 0 .. MaxPid
Slot == 0 .. MAXPROC - 1
NULL == -1

Start2 == 0       \* the kernel process that spawned the first user process
Start3 == 1

SlotOf(p) == p % MAXPROC

VARIABLES
  ProcTable3,     \* [Slot -> [pid, mboxID, startFunc, nextSibling, parent, children]]
  \* Of the kernel:
  parentOf, priority, zapped,
  lastPid,        \* the pid that fork1 handed out last
  halted,         \* a halt or a trap on a NULL pointer
  \* Of the calls:
  pc,             \* the place of each process: "user" outside the calls
  other,          \* the pid it is spawning or zapping
  box,            \* the mailbox it waits in
  \* Not in the code:
  ran,            \* the function each process was started with
  midRemoved      \* a child left a list in which it was neither first nor last

kernelVars == <<parentOf, priority, zapped, lastPid>>
callVars   == <<pc, other, box>>
seenVars   == <<ran, midRemoved>>
vars == <<ProcTable3, kernelVars, halted, callVars, seenVars>>

\* The function that the process p is spawned with is called p.
Func == Pid \ {Start2}

\* A process can have been given a mailbox from either side.
MBox == [of : Pid, by : {"spawnReal", "spawnLaunch"}]
NoBox == [of |-> NULL, by |-> "nobody"]

Pointer   == Slot \union {NULL}
ProcQueue == [head : Pointer, tail : Pointer, size : Nat, type : {"BLOCKED", "CHILDREN"}]

\* initProcQueue3; the entry of a process that initProc has not seen has zeroes.
EmptyQueue(type) == [head |-> NULL, tail |-> NULL, size |-> 0, type |-> type]

EmptyProc == [pid |-> -1, mboxID |-> NoBox, startFunc |-> NULL, nextSibling |-> NULL,
              parent |-> NULL, children |-> EmptyQueue("BLOCKED")]

Launching == {"L_zapped", "L_test", "L_init", "L_recv", "L_wait", "L_start"}
Spawning  == {"S_enq", "S_test", "S_init", "S_give", "S_send"}
Ending    == {"T_loop", "T_zap", "T_remove", "T_quit"}
Ended     == {"quit", "gone"}      \* gone when the parent has joined or quit
Place     == Launching \union Spawning \union Ending \union Ended \union {"none", "user", "W_join"}

TypeOK ==
  /\ ProcTable3 \in [Slot -> [pid : Pid \union {-1}, mboxID : MBox \union {NoBox},
                              startFunc : Func \union {NULL}, nextSibling : Pointer,
                              parent : Pointer, children : ProcQueue]]
  /\ parentOf \in [Pid -> Pid] /\ priority \in [Pid -> Nat]
  /\ zapped \in SUBSET Pid /\ lastPid \in Pid /\ halted \in BOOLEAN
  /\ pc \in [Pid -> Place] /\ other \in [Pid -> Pid] /\ box \in [Pid -> MBox \union {NoBox}]
  /\ ran \in [Pid -> Func \union {NULL}] /\ midRemoved \in BOOLEAN

\* start2 has emptied the table, spawned start3, which is in user mode, and
\* waits for it.  Its own list of children was never initialised.
Init ==
  /\ ProcTable3 = [s \in Slot |->
       IF s = SlotOf(Start3)
       THEN [pid |-> Start3, mboxID |-> [of |-> Start3, by |-> "spawnReal"],
             startFunc |-> Start3, nextSibling |-> NULL, parent |-> SlotOf(Start2),
             children |-> EmptyQueue("CHILDREN")]
       ELSE IF s = SlotOf(Start2)
       THEN [EmptyProc EXCEPT !.children =
               [head |-> SlotOf(Start3), tail |-> SlotOf(Start3), size |-> 1, type |-> "BLOCKED"]]
       ELSE EmptyProc]
  /\ parentOf = [p \in Pid |-> Start2]
  /\ priority = [p \in Pid |-> IF p = Start3 THEN 3 ELSE 1]
  /\ zapped = {} /\ lastPid = Start3 /\ halted = FALSE
  /\ pc = [p \in Pid |-> CASE p = Start2 -> "W_join" [] p = Start3 -> "user" [] OTHER -> "none"]
  /\ other = [p \in Pid |-> Start2] /\ box = [p \in Pid |-> NoBox]
  /\ ran = [p \in Pid |-> IF p = Start3 THEN Start3 ELSE NULL]
  /\ midRemoved = FALSE

-----------------------------------------------------------------------------
(***************************************************************************)
(* The queue operations, on the table t and the list of the entry o.       *)
(***************************************************************************)

enq3(t, o, c) ==
  LET q == t[o].children
      u == IF q.head = NULL /\ q.tail = NULL
           THEN [t EXCEPT ![o].children.head = c]
           ELSE IF q.type = "CHILDREN" THEN [t EXCEPT ![q.tail].nextSibling = c] ELSE t
  IN  [u EXCEPT ![o].children.tail = c, ![o].children.size = @ + 1]

deq3(t, o) ==
  LET q == t[o].children
  IN  IF q.head = NULL THEN t
      ELSE [t EXCEPT ![o].children = [q EXCEPT
              !.head = IF q.head = q.tail THEN NULL ELSE t[q.head].nextSibling,
              !.tail = IF q.head = q.tail THEN NULL ELSE @,
              !.size = @ - 1]]

\* The n-th entry of the list, by the links alone.
Entry(t, o) ==
  LET nth[n \in 1 .. MAXPROC] ==
        IF n = 1 THEN t[o].children.head
        ELSE IF nth[n - 1] = NULL THEN NULL ELSE t[nth[n - 1]].nextSibling
  IN  nth

\* The entries whose link leads the walk of removeChild3 to c.
Before(t, o, c) == {s \in Slot : t[s].nextSibling = c /\ \E n \in 1 .. MAXPROC : Entry(t, o)[n] = s}

\* c is in the list, but neither its first nor its last entry.
InMiddle(t, o, c) ==
  LET q == t[o].children
  IN  q.type = "CHILDREN" /\ q.head \notin {NULL, c} /\ q.tail # c /\ Before(t, o, c) # {}

\* The link past c dereferences the sibling after it, and there may be none: a
\* trap, when the child after c has been skipped before.
NothingAfter(t, o, c) == InMiddle(t, o, c) /\ t[c].nextSibling = NULL

\* Mutants: the size is counted down for a child that is not there; the last
\* child leaves without moving the tail.
removeChild3Counts(t, o, c) ==
  LET q    == t[o].children
      prev == CHOOSE s \in Before(t, o, c) : TRUE
  IN  IF q.type # "CHILDREN" THEN t
      ELSE IF q.head = c THEN deq3(t, o)
      ELSE IF Before(t, o, c) = {} THEN [t EXCEPT ![o].children.size = @ - 1]
      ELSE IF c = q.tail THEN [t EXCEPT ![o].children = [q EXCEPT !.tail = prev, !.size = @ - 1]]
      ELSE [t EXCEPT ![prev].nextSibling = t[t[c].nextSibling].nextSibling,
                     ![o].children.size = @ - 1]

removeChild3Tail(t, o, c) ==
  LET q    == t[o].children
      prev == CHOOSE s \in Before(t, o, c) : TRUE
  IN  IF q.head = NULL \/ q.type # "CHILDREN" THEN t
      ELSE IF q.head = c THEN deq3(t, o)
      ELSE IF Before(t, o, c) = {} THEN t
      ELSE [t EXCEPT ![prev].nextSibling = t[c].nextSibling, ![o].children.size = @ - 1]

\* The link past a child in the middle skips the next sibling as well.
removeChild3(t, o, c) ==
  LET q    == t[o].children
      prev == CHOOSE s \in Before(t, o, c) : TRUE
  IN  IF q.head = NULL \/ q.type # "CHILDREN" THEN t
      ELSE IF q.head = c THEN deq3(t, o)
      ELSE IF Before(t, o, c) = {} THEN t
      ELSE IF c = q.tail THEN [t EXCEPT ![o].children = [q EXCEPT !.tail = prev, !.size = @ - 1]]
      ELSE [t EXCEPT ![prev].nextSibling = t[t[c].nextSibling].nextSibling,
                     ![o].children.size = @ - 1]

initProc(t, p, by) ==
  [t EXCEPT ![SlotOf(p)] = [@ EXCEPT
     !.pid = p, !.mboxID = [of |-> p, by |-> by], !.startFunc = NULL,
     !.children = EmptyQueue("CHILDREN")]]

-----------------------------------------------------------------------------
(***************************************************************************)
(* The kernel.                                                             *)
(***************************************************************************)

Children(p) == {c \in Pid \ {Start2} : parentOf[c] = p /\ pc[c] # "none"}

Ready(p) ==
  CASE pc[p] \in Ended \union {"none", "L_wait"} -> FALSE
    [] pc[p] = "W_join" -> \E c \in Children(p) : pc[c] = "quit"
    [] pc[p] = "T_zap"  -> pc[other[p]] \in Ended
    [] OTHER            -> TRUE

Runs(p) == Ready(p) /\ ~halted /\ \A q \in Pid : Ready(q) => priority[p] <= priority[q]

\* The pid that fork1 hands out next, if its table has room.
Free(n) == \A p \in Pid : pc[p] \notin {"none", "gone"} => SlotOf(p) # SlotOf(n)
NextPid == {n \in Pid : n > lastPid /\ Free(n) /\ \A m \in lastPid + 1 .. n - 1 : ~Free(m)}

At(p, from, to) == pc[p] = from /\ pc' = [pc EXCEPT ![p] = to]

Stops(p, from) == pc[p] = from /\ halted' = TRUE /\ UNCHANGED pc

\* Where a system call ends: "terminate self if zapped".
AfterCall(p) == IF p \in zapped THEN "T_loop" ELSE "user"

-----------------------------------------------------------------------------
(***************************************************************************)
(* spawn and spawnReal.                                                    *)
(***************************************************************************)

spawn(p, prio) ==
  /\ pc[p] = "user"
  /\ SamePriority \/ \A q \in Pid : pc[q] \notin Ended \union {"none"} => priority[q] # prio
  /\ \E c \in NextPid :
       /\ pc' = [pc EXCEPT ![p] = "S_enq", ![c] = "L_zapped"]
       /\ parentOf' = [parentOf EXCEPT ![c] = p]
       /\ priority' = [priority EXCEPT ![c] = prio]
       /\ other' = [other EXCEPT ![p] = c]
       /\ lastPid' = c
  /\ UNCHANGED <<ProcTable3, zapped, halted, box, seenVars>>

\* A system call without effect on the processes: a spawn that fork1 refuses,
\* an operation on semaphores.
otherCall(p) ==
  /\ At(p, "user", AfterCall(p))
  /\ UNCHANGED <<ProcTable3, kernelVars, halted, other, box, seenVars>>

S_enq(p) ==
  /\ At(p, "S_enq", "S_test")
  /\ ProcTable3' = enq3(ProcTable3, SlotOf(p), SlotOf(other[p]))
  /\ UNCHANGED <<kernelVars, halted, other, box, seenVars>>

S_test(p) ==
  /\ At(p, "S_test", IF ProcTable3[SlotOf(other[p])].pid < 0 THEN "S_init" ELSE "S_give")
  /\ UNCHANGED <<ProcTable3, kernelVars, halted, other, box, seenVars>>

S_init(p) ==
  /\ At(p, "S_init", "S_give")
  /\ ProcTable3' = initProc(ProcTable3, other[p], "spawnReal")
  /\ UNCHANGED <<kernelVars, halted, other, box, seenVars>>

S_give(p) ==
  /\ At(p, "S_give", "S_send")
  /\ ProcTable3' = [ProcTable3 EXCEPT ![SlotOf(other[p])].startFunc = other[p],
                                      ![SlotOf(other[p])].parent = SlotOf(p)]
  /\ UNCHANGED <<kernelVars, halted, other, box, seenVars>>

\* Mutant: nobody is told.
S_sendNone(p) ==
  /\ At(p, "S_send", AfterCall(p))
  /\ UNCHANGED <<ProcTable3, kernelVars, halted, other, box, seenVars>>

\* The conditional send: a receiver in the mailbox goes on, or nothing happens.
S_send(p) ==
  LET met == {q \in Pid : pc[q] = "L_wait" /\ box[q] = ProcTable3[SlotOf(other[p])].mboxID}
  IN  /\ pc[p] = "S_send"
      /\ pc' = [q \in Pid |-> IF q = p THEN AfterCall(p)
                              ELSE IF q \in met THEN "L_start" ELSE pc[q]]
      /\ UNCHANGED <<ProcTable3, kernelVars, halted, other, box, seenVars>>

spawnReal(p) == S_enq(p) \/ S_test(p) \/ S_init(p) \/ S_give(p) \/ S_send(p)

-----------------------------------------------------------------------------
(***************************************************************************)
(* spawnLaunch.                                                            *)
(***************************************************************************)

L_zapped(p) ==
  /\ At(p, "L_zapped", IF p \in zapped THEN "T_loop" ELSE "L_test")
  /\ UNCHANGED <<ProcTable3, kernelVars, halted, other, box, seenVars>>

L_test(p) ==
  /\ At(p, "L_test", IF ProcTable3[SlotOf(p)].pid < 0 THEN "L_init" ELSE "L_start")
  /\ UNCHANGED <<ProcTable3, kernelVars, halted, other, box, seenVars>>

\* Mutant: the process does not wait for spawnReal.
L_initOnly(p) ==
  /\ At(p, "L_init", "L_start")
  /\ ProcTable3' = initProc(ProcTable3, p, "spawnLaunch")
  /\ UNCHANGED <<kernelVars, halted, other, box, seenVars>>

L_init(p) ==
  /\ At(p, "L_init", "L_recv")
  /\ ProcTable3' = initProc(ProcTable3, p, "spawnLaunch")
  /\ UNCHANGED <<kernelVars, halted, other, box, seenVars>>

L_recv(p) ==
  /\ At(p, "L_recv", "L_wait")
  /\ box' = [box EXCEPT ![p] = ProcTable3[SlotOf(p)].mboxID]
  /\ UNCHANGED <<ProcTable3, kernelVars, halted, other, seenVars>>

\* The function is called in user mode; a trap if there is none yet.
L_start(p) ==
  LET func == ProcTable3[SlotOf(p)].startFunc
  IN  /\ At(p, "L_start", "user")
      /\ halted' = (func = NULL)
      /\ ran' = [ran EXCEPT ![p] = func]
      /\ UNCHANGED <<ProcTable3, kernelVars, other, box, midRemoved>>

spawnLaunch(p) ==
  L_zapped(p) \/ L_test(p) \/ L_init(p) \/ L_recv(p) \/ L_start(p)

-----------------------------------------------------------------------------
(***************************************************************************)
(* waitReal, and what start2 does after it.                                *)
(***************************************************************************)

\* A process without children gets an error at once.
wait(p) ==
  /\ At(p, "user", IF \E c \in Children(p) : pc[c] # "gone" THEN "W_join" ELSE AfterCall(p))
  /\ UNCHANGED <<ProcTable3, kernelVars, halted, other, box, seenVars>>

waitReal(p) ==
  /\ pc[p] = "W_join"
  /\ \E c \in Children(p) :
       /\ pc[c] = "quit"
       /\ pc' = [pc EXCEPT ![c] = "gone", ![p] = IF p = Start2 THEN "T_quit" ELSE AfterCall(p)]
  /\ UNCHANGED <<ProcTable3, kernelVars, halted, other, box, seenVars>>

-----------------------------------------------------------------------------
(***************************************************************************)
(* terminateReal.                                                          *)
(***************************************************************************)

\* Terminate, the return of the function, or an invalid system call.
terminate(p) ==
  /\ At(p, "user", "T_loop")
  /\ UNCHANGED <<ProcTable3, kernelVars, halted, other, box, seenVars>>

\* Mutant: the list of children is forgotten, not worked off.
T_loopForgets(p) ==
  /\ At(p, "T_loop", "T_remove")
  /\ ProcTable3' = [ProcTable3 EXCEPT ![SlotOf(p)].children = EmptyQueue("CHILDREN")]
  /\ UNCHANGED <<zapped, halted, other, midRemoved>>

\* The next child is taken off the list and zapped.  The process traps if the
\* list has no first entry, and the kernel halts if there is no such pid.
T_loop(p) ==
  LET q     == ProcTable3[SlotOf(p)].children
      child == ProcTable3[q.head].pid
      found == q.head # NULL /\ child # -1 /\ pc[child] \notin {"none", "gone"}
  IN  \/ /\ q.size <= 0
         /\ At(p, "T_loop", "T_remove")
         /\ UNCHANGED <<ProcTable3, zapped, halted, other, midRemoved>>
      \/ /\ q.size > 0 /\ found
         /\ At(p, "T_loop", "T_zap")
         /\ ProcTable3' = deq3(ProcTable3, SlotOf(p))
         /\ zapped' = zapped \union {child}
         /\ other' = [other EXCEPT ![p] = child]
         /\ UNCHANGED <<halted, midRemoved>>
      \/ /\ q.size > 0 /\ ~found
         /\ Stops(p, "T_loop")
         /\ UNCHANGED <<ProcTable3, zapped, other, midRemoved>>

T_zap(p) ==
  /\ At(p, "T_zap", "T_loop")
  /\ UNCHANGED <<ProcTable3, zapped, halted, other, midRemoved>>

\* The process leaves the list of its parent; a trap if it has none yet.
T_remove(p) ==
  LET o     == ProcTable3[SlotOf(p)].parent
      traps == o = NULL \/ NothingAfter(ProcTable3, o, SlotOf(p))
  IN  /\ At(p, "T_remove", "T_quit")
      /\ halted' = traps
      /\ ProcTable3' = IF traps THEN ProcTable3 ELSE removeChild3(ProcTable3, o, SlotOf(p))
      /\ midRemoved' = (midRemoved \/ (o # NULL /\ InMiddle(ProcTable3, o, SlotOf(p))))
      /\ UNCHANGED <<zapped, other>>

\* quit: a process with active children halts the machine; those that have
\* quit unjoined are gone with it.
T_quit(p) ==
  LET active == \E c \in Children(p) : pc[c] \notin Ended
  IN  /\ pc[p] = "T_quit"
      /\ halted' = active
      /\ pc' = [q \in Pid |-> IF active THEN pc[q]
                              ELSE IF q = p THEN "quit"
                              ELSE IF q \in Children(p) THEN "gone" ELSE pc[q]]
      /\ UNCHANGED <<ProcTable3, zapped, other, midRemoved>>

terminateReal(p) ==
  /\ T_loop(p) \/ T_zap(p) \/ T_remove(p) \/ T_quit(p)
  /\ UNCHANGED <<parentOf, priority, lastPid, box, ran>>

-----------------------------------------------------------------------------
Call(p) ==
  /\ Runs(p)
  /\ \/ \E prio \in Priorities : spawn(p, prio)
     \/ otherCall(p) \/ wait(p) \/ terminate(p)

InCall(p) == Runs(p) /\ (spawnReal(p) \/ spawnLaunch(p) \/ waitReal(p) \/ terminateReal(p))

Next == \E p \in Pid : Call(p) \/ InCall(p)

Spec == Init /\ [][Next]_vars
=============================================================================
