----------------------------- MODULE UserProofs -----------------------------
(***************************************************************************)
(* Proof that a user process starts with the function it was spawned with, *)
(* whichever of spawnReal and spawnLaunch comes first, and that the lists  *)
(* of children hold what they should, so that terminateReal takes all the  *)
(* children along.  For any number of processes and any priorities, as     *)
(* long as no entry of the table is used twice and no two processes have   *)
(* the same priority; without either, it is not so.                        *)
(*                                                                         *)
(* The first part (SpawnInv) is about the meeting of the two sides of a    *)
(* spawn.  The second (ListInv) rests on it: first what the operations on  *)
(* a list do to the entries that its links lead to (Reach), then what a    *)
(* list has to satisfy (Sound), then every step of the processes.          *)
(***************************************************************************)
EXTENDS UserProperties, FiniteSetTheorems, WellFoundedInduction, TLAPS

NoEntryTwice == MaxPid < MAXPROC

LEMMA EntryOf ==
  ASSUME NoEntryTwice, NEW p \in Pid PROVE SlotOf(p) = p /\ p \in Slot
<1>1. p \in Nat /\ p < MAXPROC /\ MAXPROC \in Nat /\ MAXPROC > 0
  BY UserProcessAssumption DEF Pid, NoEntryTwice
<1>2. p % MAXPROC = p
  BY <1>1
<1> QED BY <1>1, <1>2 DEF SlotOf, Slot

-----------------------------------------------------------------------------
(***************************************************************************)
(* The lists of children are pointers between the entries: their           *)
(* operations leave alone what an entry says of its process.               *)
(***************************************************************************)
Queue == [head : Pointer, tail : Pointer, size : Int, type : {"BLOCKED", "CHILDREN"}]
Table == [Slot -> [pid : Pid \union {-1}, mboxID : MBox \union {NoBox},
                   startFunc : Func \union {NULL}, nextSibling : Pointer,
                   parent : Pointer, children : Queue]]

Keeps(t, u) ==
  /\ u \in Table
  /\ \A s \in Slot : /\ u[s].pid = t[s].pid /\ u[s].mboxID = t[s].mboxID
                     /\ u[s].startFunc = t[s].startFunc

LEMMA KeepsItself == ASSUME NEW t \in Table PROVE Keeps(t, t)
BY DEF Keeps

LEMMA KeepsOn ==
  ASSUME NEW t, NEW u, NEW v, Keeps(t, u), Keeps(u, v) PROVE Keeps(t, v)
BY Zenon DEF Keeps

LEMMA ChildrenSet ==
  ASSUME NEW t \in Table, NEW o \in Slot, NEW q \in Queue
  PROVE  Keeps(t, [t EXCEPT ![o].children = q])
BY DEF Table, Keeps

LEMMA LinkSet ==
  ASSUME NEW t \in Table, NEW o, NEW n \in Pointer
  PROVE  Keeps(t, [t EXCEPT ![o].nextSibling = n])
BY DEF Table, Keeps

LEMMA QueueOf ==
  ASSUME NEW t \in Table, NEW s \in Slot
  PROVE  t[s].children \in Queue /\ t[s].nextSibling \in Pointer
BY DEF Table

LEMMA QueueChanged ==
  ASSUME NEW q \in Queue, NEW h \in Pointer, NEW l \in Pointer
  PROVE  /\ [q EXCEPT !.head = h] \in Queue
         /\ [q EXCEPT !.size = @ - 1] \in Queue
         /\ [q EXCEPT !.tail = l, !.size = @ + 1] \in Queue
         /\ [q EXCEPT !.tail = l, !.size = @ - 1] \in Queue
         /\ [q EXCEPT !.head = h, !.tail = l, !.size = @ - 1] \in Queue
<1>1. q.size \in Int /\ q.size + 1 \in Int /\ q.size - 1 \in Int
  BY DEF Queue
<1>2. \A n \in Int : /\ [q EXCEPT !.size = n] \in Queue
                    /\ [q EXCEPT !.tail = l, !.size = n] \in Queue
                    /\ [q EXCEPT !.head = h, !.tail = l, !.size = n] \in Queue
  BY DEF Queue
<1>3. [q EXCEPT !.head = h] \in Queue
  BY DEF Queue
<1> QED BY <1>1, <1>2, <1>3

LEMMA EnqKeeps ==
  ASSUME NEW t \in Table, NEW o \in Slot, NEW c \in Slot PROVE Keeps(t, enq3(t, o, c))
<1> DEFINE q == t[o].children
           u == IF q.head = NULL /\ q.tail = NULL
                THEN [t EXCEPT ![o].children.head = c]
                ELSE IF q.type = "CHILDREN" THEN [t EXCEPT ![q.tail].nextSibling = c] ELSE t
           v == [u EXCEPT ![o].children.tail = c, ![o].children.size = @ + 1]
<1>1. enq3(t, o, c) = v
  BY DEF enq3
<1>2. c \in Pointer /\ q \in Queue
  BY QueueOf DEF Pointer
<1>3. Keeps(t, u)
  <2>1. Keeps(t, [t EXCEPT ![o].children.head = c])
    <3>1. [q EXCEPT !.head = c] \in Queue
      BY <1>2, QueueChanged, Zenon
    <3>2. [t EXCEPT ![o].children.head = c] = [t EXCEPT ![o].children = [q EXCEPT !.head = c]]
      OBVIOUS
    <3> QED BY <3>1, <3>2, ChildrenSet
  <2>2. Keeps(t, [t EXCEPT ![q.tail].nextSibling = c])
    BY <1>2, LinkSet
  <2>3. Keeps(t, t)
    BY KeepsItself
  <2> QED BY <2>1, <2>2, <2>3
<1> HIDE DEF u
<1>4. u \in Table
  BY <1>3 DEF Keeps
<1>5. Keeps(u, v)
  <2>1. u[o].children \in Queue
    BY <1>4, QueueOf
  <2>2. [u[o].children EXCEPT !.tail = c, !.size = @ + 1] \in Queue
    BY <1>2, <2>1, QueueChanged
  <2>3. v = [u EXCEPT ![o].children = [u[o].children EXCEPT !.tail = c, !.size = @ + 1]]
    OBVIOUS
  <2> QED BY <1>4, <2>2, <2>3, ChildrenSet
<1> HIDE DEF v
<1>6. Keeps(t, v)
  BY <1>3, <1>5, KeepsOn, Zenon
<1> QED BY <1>1, <1>6

LEMMA DeqKeeps ==
  ASSUME NEW t \in Table, NEW o \in Slot PROVE Keeps(t, deq3(t, o))
<1> DEFINE q    == t[o].children
           head == IF q.head = q.tail THEN NULL ELSE t[q.head].nextSibling
           tail == IF q.head = q.tail THEN NULL ELSE q.tail
           v    == [q EXCEPT !.head = head, !.tail = tail, !.size = @ - 1]
<1>1. Keeps(t, t)
  BY KeepsItself
<1>2. q \in Queue
  BY QueueOf
<1>3. CASE q.head = NULL
  BY <1>1, <1>3 DEF deq3
<1>4. CASE q.head # NULL
  <2>1. q.head \in Slot /\ q.tail \in Pointer /\ NULL \in Pointer
    BY <1>2, <1>4 DEF Queue, Pointer
  <2>2. head \in Pointer /\ tail \in Pointer
    BY <2>1, QueueOf
  <2>3. deq3(t, o) = [t EXCEPT ![o].children = v]
    BY <1>4 DEF deq3
  <2>4. v \in Queue
    <3> HIDE DEF head, tail, q
    <3> QED BY <1>2, <2>2, QueueChanged, Zenon
  <2> HIDE DEF v
  <2> QED BY <2>3, <2>4, ChildrenSet
<1> QED BY <1>3, <1>4

\* The link past a child in the middle is there to be followed.
LEMMA RemoveKeeps ==
  ASSUME NEW t \in Table, NEW o \in Slot, NEW c \in Slot, ~NothingAfter(t, o, c)
  PROVE  Keeps(t, removeChild3(t, o, c))
<1> DEFINE q    == t[o].children
           prev == CHOOSE s \in Before(t, o, c) : TRUE
           next == t[t[c].nextSibling].nextSibling
           u    == [t EXCEPT ![prev].nextSibling = next]
           v    == [t EXCEPT ![o].children = [q EXCEPT !.tail = prev, !.size = @ - 1]]
           w    == [u EXCEPT ![o].children.size = @ - 1]
<1>1. Keeps(t, t) /\ Keeps(t, deq3(t, o))
  BY KeepsItself, DeqKeeps
<1>2. q \in Queue /\ t[c].nextSibling \in Pointer
  BY QueueOf
<1>3. CASE q.head = NULL \/ q.type # "CHILDREN" \/ q.head = c \/ Before(t, o, c) = {}
  <2>1. removeChild3(t, o, c) \in {t, deq3(t, o)}
    BY <1>3, Zenon DEF removeChild3
  <2> QED BY <1>1, <2>1
<1>4. CASE /\ ~(q.head = NULL \/ q.type # "CHILDREN") /\ q.head # c /\ Before(t, o, c) # {}
           /\ c = q.tail
  <2>1. removeChild3(t, o, c) = v
    BY <1>4, Zenon DEF removeChild3
  <2>2. prev \in Pointer
    BY <1>4 DEF Before, Pointer
  <2>3. [q EXCEPT !.tail = prev, !.size = @ - 1] \in Queue
    <3> HIDE DEF prev, q
    <3> QED BY <1>2, <2>2, QueueChanged
  <2>4. Keeps(t, v)
    <3> DEFINE r == [q EXCEPT !.tail = prev, !.size = @ - 1]
    <3> HIDE DEF r
    <3>1. r \in Queue => Keeps(t, [t EXCEPT ![o].children = r])
      BY ChildrenSet
    <3> QED BY <2>3, <3>1 DEF r
  <2> HIDE DEF v
  <2> QED BY <2>1, <2>4
<1>5. CASE /\ ~(q.head = NULL \/ q.type # "CHILDREN") /\ q.head # c /\ Before(t, o, c) # {}
           /\ c # q.tail
  <2>1. removeChild3(t, o, c) = w
    BY <1>5, Zenon DEF removeChild3
  <2>2. t[c].nextSibling # NULL
    BY <1>5 DEF NothingAfter, InMiddle
  <2>3. next \in Pointer
    BY <1>2, <2>2, QueueOf DEF Pointer
  <2>4. Keeps(t, u)
    BY <2>3, LinkSet
  <2> HIDE DEF u
  <2>5. u \in Table
    BY <2>4 DEF Keeps
  <2>6. Keeps(u, w)
    <3>1. u[o].children \in Queue
      BY <2>5, QueueOf
    <3>2. [u[o].children EXCEPT !.size = @ - 1] \in Queue
      BY <3>1 DEF Queue
    <3>3. w = [u EXCEPT ![o].children = [u[o].children EXCEPT !.size = @ - 1]]
      OBVIOUS
    <3> QED BY <2>5, <3>2, <3>3, ChildrenSet
  <2> HIDE DEF w
  <2>7. Keeps(t, w)
    BY <2>4, <2>6, KeepsOn, Zenon
  <2> QED BY <2>1, <2>7
<1> QED BY <1>3, <1>4, <1>5

\* initProc3 fills the entry of the process and no other.
LEMMA InitFills ==
  ASSUME NoEntryTwice, NEW t \in Table, NEW p \in Pid, NEW by \in {"spawnReal", "spawnLaunch"}
  PROVE  /\ initProc(t, p, by) \in Table
         /\ initProc(t, p, by)[p].pid = p
         /\ \A s \in Slot : s # p => initProc(t, p, by)[s] = t[s]
<1>1. SlotOf(p) = p /\ p \in Slot
  BY EntryOf
<1> DEFINE box0  == [of |-> p, by |-> by]
           empty == EmptyQueue("CHILDREN")
           u == [t EXCEPT ![p] = [@ EXCEPT !.pid = p, !.mboxID = box0, !.startFunc = NULL,
                                           !.children = empty]]
<1>2. box0 \in MBox
  BY DEF MBox
<1>3. empty \in Queue
  BY DEF EmptyQueue, Queue, Pointer
<1>4. initProc(t, p, by) = u
  BY <1>1 DEF initProc
<1> HIDE DEF box0, empty
<1>5. u \in Table
  BY <1>1, <1>2, <1>3 DEF Table
<1>6. u[p].pid = p /\ \A s \in Slot : s # p => u[s] = t[s]
  BY <1>1 DEF Table
<1> HIDE DEF u
<1> QED BY <1>4, <1>5, <1>6

\* So does what spawnReal puts into it.
Given(t, c, p) == [t EXCEPT ![SlotOf(c)].startFunc = c, ![SlotOf(c)].parent = SlotOf(p)]

LEMMA GiveFills ==
  ASSUME NoEntryTwice, NEW t \in Table, NEW c \in Pid, c # Start2, NEW p \in Pid,
         NEW u, u = Given(t, c, p)
  PROVE  /\ u \in Table /\ u[c].startFunc = c
         /\ u[c].pid = t[c].pid /\ u[c].mboxID = t[c].mboxID
         /\ \A s \in Slot : s # c => u[s] = t[s]
<1>1. SlotOf(c) = c /\ c \in Slot /\ SlotOf(p) \in Pointer
  BY EntryOf DEF Pointer
<1>2. c \in Func
  BY DEF Func
<1>3. u = [t EXCEPT ![c] = [@ EXCEPT !.startFunc = c, !.parent = SlotOf(p)]]
  BY <1>1 DEF Given
<1>4. u \in Table
  BY <1>1, <1>2, <1>3 DEF Table
<1>5. /\ u[c].startFunc = c /\ u[c].pid = t[c].pid /\ u[c].mboxID = t[c].mboxID
      /\ \A s \in Slot : s # c => u[s] = t[s]
  BY <1>1, <1>3 DEF Table
<1> QED BY <1>4, <1>5

-----------------------------------------------------------------------------
(***************************************************************************)
(* The invariant.  At most one process is in the middle of a spawn, with a *)
(* child that it has not met yet, and nobody else runs until they have.    *)
(***************************************************************************)

\* The kernel's part and the table, as far as it matters here.
Kernel3 ==
  /\ lastPid \in Pid /\ lastPid >= Start3
  /\ pc \in [Pid -> Place] /\ priority \in [Pid -> Nat]
  /\ other \in [Pid -> Pid]
  /\ box = [q \in Pid |-> box[q]] /\ ran = [q \in Pid |-> ran[q]]
  /\ parentOf = [q \in Pid |-> parentOf[q]]
  /\ ProcTable3 \in Table

\* Of the pids that were not handed out nobody knows anything.
Unknown ==
  /\ \A n \in Pid : n > lastPid => pc[n] = "none" /\ ProcTable3[SlotOf(n)].pid = -1
  /\ \A n \in Pid : n \in zapped => pc[n] # "none"

Distinct == \A p, q \in Pid : p # q /\ Live(p) /\ Live(q) => priority[p] # priority[q]

\* start2 only waits for its child and quits.
Start2Waits == pc[Start2] \in {"W_join", "T_quit"} \union Ended

\* p has spawned c, and they have not met yet.
Spawns(p, c) == pc[p] \in Spawning /\ other[p] = c

Alone(p, c) ==
  \A q \in Pid : q # p /\ q # c /\ Ready(q) => priority[q] > priority[p]

\* The child has the higher priority: it gets to wait before p goes on.
ChildFirst(p, c) ==
  LET entry == ProcTable3[SlotOf(c)]
  IN  /\ priority[c] < priority[p] /\ pc[p] # "S_init"
      /\ pc[c] # "L_wait" => pc[p] = "S_enq"
      /\ pc[c] \in {"L_zapped", "L_test", "L_init", "L_recv", "L_wait"}
      /\ pc[c] \in {"L_zapped", "L_test", "L_init"} => entry.pid = -1
      /\ pc[c] \in {"L_recv", "L_wait"} => entry.pid = c
      /\ pc[c] = "L_wait" => box[c] = entry.mboxID
      /\ pc[p] = "S_send" => entry.startFunc = c

\* The parent has it: the child finds its entry filled.
ParentFirst(p, c) ==
  LET entry == ProcTable3[SlotOf(c)]
  IN  /\ priority[p] < priority[c] /\ pc[c] = "L_zapped"
      /\ pc[p] \in {"S_enq", "S_test", "S_init"} => entry.pid = -1
      /\ pc[p] \in {"S_give", "S_send"} => entry.pid = c
      /\ pc[p] = "S_send" => entry.startFunc = c

Apart(p, c) == c # p /\ c > Start3 /\ c \notin zapped /\ Alone(p, c)

Meeting ==
  \A p, c \in Pid : Spawns(p, c) => Apart(p, c) /\ (ChildFirst(p, c) \/ ParentFirst(p, c))

\* Without the parent a child is on its way to its own function.
Launched(c) ==
  /\ pc[c] \in {"L_zapped", "L_test", "L_start"}
  /\ ProcTable3[SlotOf(c)].pid = c /\ ProcTable3[SlotOf(c)].startFunc = c

Met ==
  \A c \in Pid : pc[c] \in Launching => Launched(c) \/ \E p \in Pid : Spawns(p, c)

Started ==
  \A p \in Pid \ {Start2} : pc[p] \in Spawning \union {"user", "W_join"} => ran[p] = p

SpawnInv == Kernel3 /\ Unknown /\ Distinct /\ Start2Waits /\ Meeting /\ Met /\ Started

-----------------------------------------------------------------------------
(***************************************************************************)
(* Who runs.                                                               *)
(***************************************************************************)
LEMMA ReadyLives ==
  ASSUME NEW p \in Pid, Ready(p) PROVE Live(p)
BY DEF Ready, Live, Ended

LEMMA BusyReady ==
  ASSUME NEW p \in Pid, pc[p] \in Spawning \union (Launching \ {"L_wait"}) PROVE Ready(p)
BY DEF Ready, Ended, Spawning, Launching

Quiet == \A a, d \in Pid : ~Spawns(a, d)

Only(p, c) == \A a, d \in Pid : Spawns(a, d) => a = p /\ d = c

\* Of two processes that spawn, each would have to wait for the other.
LEMMA OneSpawns ==
  ASSUME Kernel3, Meeting, NEW p \in Pid, NEW c \in Pid, Spawns(p, c) PROVE Only(p, c)
<1> SUFFICES ASSUME NEW a \in Pid, NEW d \in Pid, Spawns(a, d) PROVE a = p /\ d = c
  BY DEF Only
<1>1. CASE a = p
  BY <1>1 DEF Spawns
<1>2. CASE a # p
  <2>1. Ready(p) /\ Ready(a)
    BY BusyReady DEF Spawns
  <2>2. Alone(p, c) /\ Alone(a, d)
    BY Zenon DEF Meeting, Apart
  <2>3. pc[c] \in Launching /\ pc[d] \in Launching
    BY DEF Meeting, ChildFirst, ParentFirst, Launching
  <2>4. a # c /\ p # d
    BY <2>3 DEF Spawns, Spawning, Launching
  <2>5. priority \in [Pid -> Nat]
    BY DEF Kernel3
  <2>6. priority[a] > priority[p] /\ priority[p] > priority[a]
    BY <1>2, <2>1, <2>2, <2>4 DEF Alone
  <2> QED BY <2>5, <2>6
<1> QED BY <1>1, <1>2

\* While p and c have not met it is p that runs, unless c comes first and is
\* not waiting yet.
LEMMA WhoRuns ==
  ASSUME Kernel3, Meeting, NEW p \in Pid, Runs(p)
  PROVE  \/ Quiet
         \/ \E c \in Pid : /\ Spawns(p, c) /\ Only(p, c) /\ Apart(p, c)
                           /\ (ChildFirst(p, c) /\ pc[c] = "L_wait") \/ ParentFirst(p, c)
         \/ \E a \in Pid : /\ Spawns(a, p) /\ Only(a, p) /\ Apart(a, p)
                           /\ ChildFirst(a, p) /\ pc[p] # "L_wait"
<1> SUFFICES ASSUME NEW a \in Pid, NEW c \in Pid, Spawns(a, c)
             PROVE  \/ /\ a = p
                       /\ (ChildFirst(p, c) /\ pc[c] = "L_wait") \/ ParentFirst(p, c)
                    \/ c = p /\ ChildFirst(a, p) /\ pc[p] # "L_wait"
  BY OneSpawns, Zenon DEF Quiet, Meeting
<1>1. Apart(a, c) /\ (ChildFirst(a, c) \/ ParentFirst(a, c))
  BY Zenon DEF Meeting
<1>2. Ready(a)
  BY BusyReady DEF Spawns
<1>3. priority \in [Pid -> Nat]
  BY DEF Kernel3
<1>4. Ready(p) /\ \A q \in Pid : Ready(q) => priority[p] <= priority[q]
  BY DEF Runs
<1>5. p \in {a, c}
  BY <1>1, <1>2, <1>3, <1>4 DEF Apart, Alone
<1>6. CASE p = a
  <2>1. CASE ParentFirst(a, c)
    BY <1>6, <2>1
  <2>2. CASE ChildFirst(a, c)
    <3>1. pc[c] # "L_wait" => Ready(c)
      BY <2>2, BusyReady DEF ChildFirst, Launching
    <3>2. priority[c] < priority[p]
      BY <1>6, <2>2 DEF ChildFirst
    <3> QED BY <1>3, <1>4, <1>6, <2>2, <3>1, <3>2
  <2> QED BY <1>1, <2>1, <2>2
<1>7. CASE p = c
  <2>1. ~ParentFirst(a, c)
    BY <1>2, <1>3, <1>4, <1>7 DEF ParentFirst
  <2>2. pc[p] # "L_wait"
    BY <1>4 DEF Ready
  <2> QED BY <1>1, <1>7, <2>1, <2>2
<1> QED BY <1>5, <1>6, <1>7

\* Nobody gets ready but by a process that ends or is joined.
LEMMA ReadyBefore ==
  ASSUME Kernel3, NEW q \in Pid, Ready(q)', pc'[q] = pc[q], other'[q] = other[q],
         \A n \in Pid : pc'[n] \in Ended => pc[n] \in Ended,
         \A n \in Pid : pc'[n] = "quit" => pc[n] = "quit" /\ parentOf'[n] = parentOf[n]
  PROVE  Ready(q)
<1>1. CASE pc[q] \in Ended \union {"none", "L_wait"}
  BY <1>1 DEF Ready, Ended
<1>2. CASE pc[q] = "W_join"
  <2>1. PICK d \in Children(q)' : pc'[d] = "quit"
    BY <1>2 DEF Ready, Ended
  <2>2. d \in Children(q) /\ pc[d] = "quit"
    BY <2>1 DEF Children
  <2> QED BY <1>2, <2>2 DEF Ready, Ended
<1>3. CASE pc[q] = "T_zap"
  BY <1>3 DEF Ready, Ended, Kernel3
<1>4. CASE pc[q] \notin Ended \union {"none", "L_wait", "W_join", "T_zap"}
  BY <1>4 DEF Ready, Ended
<1> QED BY <1>1, <1>2, <1>3, <1>4

-----------------------------------------------------------------------------
(***************************************************************************)
(* Steps outside of a spawn.                                               *)
(***************************************************************************)

\* A step of p leaves the others where they are, but for those that have ended.
Goes(p) ==
  /\ pc' \in [Pid -> Place]
  /\ \A q \in Pid \ {p} : pc'[q] = pc[q] \/ (pc[q] \in Ended /\ pc'[q] \in Ended)
  /\ UNCHANGED <<lastPid, priority, parentOf>>
  /\ other' \in [Pid -> Pid] /\ box' = [q \in Pid |-> box'[q]]
  /\ ran' = [q \in Pid |-> ran'[q]] /\ \A q \in Pid \ {p} : ran'[q] = ran[q]
  /\ Keeps(ProcTable3, ProcTable3')
  /\ \A n \in Pid : n \in zapped' => n \in zapped \/ pc[n] # "none"

\* It ends where the invariant has little to say of it.
Lands(p) ==
  /\ pc'[p] \notin Spawning \union {"none"}
  /\ pc'[p] \in Launching => Launched(p)'
  /\ p # Start2 /\ pc'[p] \in {"user", "W_join"} => ran'[p] = p
  /\ p = Start2 => pc'[p] \in {"W_join", "T_quit"} \union Ended

LEMMA QuietStep ==
  ASSUME NoEntryTwice, SpawnInv, Quiet, NEW p \in Pid, Live(p), Goes(p), Lands(p)
  PROVE  SpawnInv'
<1> USE DEF SpawnInv
<1>1. \A q \in Pid \ {p} : pc'[q] = pc[q] \/ (pc[q] \in Ended /\ pc'[q] \in Ended)
  BY DEF Goes
<1>2. pc'[p] \notin Spawning \union {"none"} /\ pc[p] \notin Ended \union {"none"}
  BY DEF Lands, Live
<1>3. \A q \in Pid : SlotOf(q) \in Slot
  BY EntryOf
<1>4. \A q \in Pid : /\ ProcTable3'[SlotOf(q)].pid = ProcTable3[SlotOf(q)].pid
                     /\ ProcTable3'[SlotOf(q)].startFunc = ProcTable3[SlotOf(q)].startFunc
  BY <1>3 DEF Goes, Keeps
<1>5. \A q \in Pid \ {p} : pc'[q] \notin Ended => pc'[q] = pc[q]
  BY <1>1
<1>6. Kernel3'
  <2>1. ProcTable3' \in Table
    BY DEF Goes, Keeps
  <2>2. lastPid' \in Pid /\ lastPid' >= Start3 /\ priority' \in [Pid -> Nat]
    BY DEF Goes, Kernel3
  <2> QED BY <2>1, <2>2 DEF Goes, Kernel3
<1>7. Unknown'
  <2>1. \A n \in Pid : n > lastPid' => pc'[n] = "none" /\ ProcTable3'[SlotOf(n)].pid = -1
    <3> SUFFICES ASSUME NEW n \in Pid, n > lastPid
                 PROVE  pc'[n] = "none" /\ ProcTable3'[SlotOf(n)].pid = -1
      BY DEF Goes
    <3>1. pc[n] = "none" /\ ProcTable3[SlotOf(n)].pid = -1
      BY DEF Unknown
    <3> QED BY <1>1, <1>2, <1>4, <3>1 DEF Ended
  <2>2. \A n \in Pid : n \in zapped' => pc'[n] # "none"
    <3> SUFFICES ASSUME NEW n \in Pid, n \in zapped' PROVE pc'[n] # "none"
      OBVIOUS
    <3>1. pc[n] # "none"
      BY DEF Goes, Unknown
    <3> QED BY <1>1, <1>2, <3>1 DEF Ended
  <2> QED BY <2>1, <2>2 DEF Unknown
<1>8. Distinct'
  <2>1. \A q \in Pid : Live(q)' => Live(q)
    BY <1>2, <1>5 DEF Live
  <2> QED BY <2>1 DEF Distinct, Goes
<1>9. Start2Waits'
  <2>1. Start2 \in Pid
    BY UserProcessAssumption DEF Start2, Pid
  <2> QED BY <1>1, <2>1 DEF Start2Waits, Lands, Ended
<1>10. Quiet'
  <2> SUFFICES ASSUME NEW a \in Pid, NEW d \in Pid, Spawns(a, d)' PROVE FALSE
    BY DEF Quiet
  <2>1. a # p /\ pc[a] \in Spawning
    BY <1>2, <1>5 DEF Spawns, Spawning, Ended
  <2>2. other[a] \in Pid
    BY <2>1 DEF Kernel3
  <2> QED BY <2>1, <2>2 DEF Quiet, Spawns
<1>11. Meeting'
  BY <1>10, Zenon DEF Quiet, Meeting
<1>12. Met'
  <2> SUFFICES ASSUME NEW c \in Pid, pc'[c] \in Launching PROVE Launched(c)'
    BY Zenon DEF Met
  <2>1. CASE c = p
    BY <2>1 DEF Lands
  <2>2. CASE c # p
    <3>1. pc'[c] = pc[c]
      BY <1>5, <2>2 DEF Launching, Ended
    <3>2. Launched(c)
      BY <3>1 DEF Met, Quiet
    <3> QED BY <1>4, <3>1, <3>2 DEF Launched
  <2> QED BY <2>1, <2>2
<1>13. Started'
  <2> SUFFICES ASSUME NEW q \in Pid \ {Start2}, pc'[q] \in Spawning \union {"user", "W_join"}
               PROVE  ran'[q] = q
    BY DEF Started
  <2>1. CASE q = p
    BY <1>2, <2>1 DEF Lands
  <2>2. CASE q # p
    <3>1. pc'[q] = pc[q]
      BY <1>5, <2>2 DEF Spawning, Ended
    <3> QED BY <2>2, <3>1 DEF Started, Goes
  <2> QED BY <2>1, <2>2
<1> QED BY <1>6, <1>7, <1>8, <1>9, <1>11, <1>12, <1>13, Zenon

LEMMA Moved ==
  ASSUME Kernel3, NEW p \in Pid, NEW to \in Place, pc' = [pc EXCEPT ![p] = to]
  PROVE  pc' \in [Pid -> Place] /\ pc'[p] = to /\ \A q \in Pid \ {p} : pc'[q] = pc[q]
BY DEF Kernel3

\* What most steps leave alone.
LEMMA GoesAlone ==
  ASSUME Kernel3, NEW p \in Pid, NEW to \in Place, pc' = [pc EXCEPT ![p] = to],
         UNCHANGED <<ProcTable3, kernelVars, other, box, ran>>
  PROVE  Goes(p) /\ pc'[p] = to
<1>1. Keeps(ProcTable3, ProcTable3')
  BY KeepsItself DEF Kernel3
<1> QED BY <1>1, Moved DEF Goes, Kernel3, kernelVars

LEMMA UserIsStarted ==
  ASSUME SpawnInv, NEW p \in Pid, pc[p] = "user"
  PROVE  p # Start2 /\ ran[p] = p
BY DEF SpawnInv, Start2Waits, Started, Ended

\* The calls of the user programs other than Spawn.
LEMMA UserGoes ==
  ASSUME SpawnInv, NEW p \in Pid, otherCall(p) \/ wait(p) \/ terminate(p)
  PROVE  Goes(p) /\ Lands(p)
<1>1. Kernel3 /\ pc[p] = "user" /\ UNCHANGED <<ProcTable3, kernelVars, other, box, ran>>
  BY DEF SpawnInv, otherCall, wait, terminate, At, seenVars
<1>2. \E to \in {"user", "W_join", "T_loop"} : pc' = [pc EXCEPT ![p] = to]
  BY DEF otherCall, wait, terminate, At, AfterCall
<1>3. PICK to \in {"user", "W_join", "T_loop"} : pc' = [pc EXCEPT ![p] = to]
  BY <1>2
<1>4. to \in Place
  BY DEF Place, Ending
<1>5. Goes(p) /\ pc'[p] = to
  BY <1>1, <1>3, <1>4, GoesAlone
<1>6. p # Start2 /\ ran'[p] = p
  BY <1>1, UserIsStarted
<1> QED BY <1>5, <1>6 DEF Lands, Spawning, Launching

LEMMA WaitGoes ==
  ASSUME SpawnInv, NEW p \in Pid, waitReal(p)
  PROVE  Goes(p) /\ Lands(p)
<1> DEFINE to == IF p = Start2 THEN "T_quit" ELSE AfterCall(p)
<1>1. PICK c \in Children(p) : pc[c] = "quit" /\ pc' = [pc EXCEPT ![c] = "gone", ![p] = to]
  BY DEF waitReal
<1>2. /\ pc[p] = "W_join" /\ Kernel3
      /\ UNCHANGED <<ProcTable3, kernelVars, other, box, ran>>
  BY DEF waitReal, seenVars, SpawnInv
<1>3. to \in {"T_quit", "T_loop", "user"} /\ (p = Start2 => to = "T_quit")
  BY DEF AfterCall
<1> HIDE DEF to
<1>4. c \in Pid /\ c # p
  BY <1>1, <1>2 DEF Children
<1>5. pc \in [Pid -> Place] /\ "gone" \in Place /\ to \in Place
  BY <1>2, <1>3 DEF Kernel3, Place, Ended, Ending
<1>6. /\ pc' \in [Pid -> Place] /\ pc'[p] = to /\ pc'[c] = "gone"
      /\ \A q \in Pid \ {p, c} : pc'[q] = pc[q]
  BY <1>1, <1>4, <1>5
<1>7. Keeps(ProcTable3, ProcTable3')
  BY <1>2, KeepsItself DEF Kernel3
<1>8. Goes(p)
  <2>1. \A q \in Pid \ {p} : pc'[q] = pc[q] \/ (pc[q] \in Ended /\ pc'[q] \in Ended)
    BY <1>1, <1>6 DEF Ended
  <2> QED BY <1>2, <1>6, <1>7, <2>1 DEF Goes, Kernel3, kernelVars
<1>9. p # Start2 => ran'[p] = p
  BY <1>2 DEF SpawnInv, Started
<1> QED BY <1>3, <1>6, <1>8, <1>9 DEF Lands, Spawning, Launching

\* start2 has no list of children to work off.
LEMMA OthersEnd ==
  ASSUME SpawnInv, NEW p \in Pid, pc[p] = "T_loop" \/ pc[p] = "T_zap" \/ pc[p] = "T_remove"
  PROVE  p # Start2
BY DEF SpawnInv, Start2Waits, Ended

LEMMA LoopGoes ==
  ASSUME NoEntryTwice, SpawnInv, NEW p \in Pid, T_loop(p), UNCHANGED <<parentOf, priority, lastPid, box, ran>>
  PROVE  Goes(p) /\ Lands(p)
<1>1. Kernel3 /\ pc[p] = "T_loop" /\ p # Start2
  BY OthersEnd DEF T_loop, At, Stops, SpawnInv
<1>2. \A to \in {"T_loop", "T_remove", "T_zap"} : to \in Place
  BY DEF Place, Ending
<1>3. ran' = [q \in Pid |-> ran'[q]] /\ box' = [q \in Pid |-> box'[q]]
  BY <1>1 DEF Kernel3
<1>4. CASE UNCHANGED <<ProcTable3, zapped, other>> /\ At(p, "T_loop", "T_remove")
  <2>1. Goes(p) /\ pc'[p] = "T_remove"
    BY <1>1, <1>2, <1>4, GoesAlone DEF At, kernelVars
  <2> QED BY <1>1, <2>1 DEF Lands, Spawning, Launching
<1>5. CASE UNCHANGED <<ProcTable3, zapped, other>> /\ Stops(p, "T_loop")
  <2>1. pc' = [pc EXCEPT ![p] = "T_loop"]
    BY <1>1, <1>5 DEF Stops, Kernel3
  <2>2. Goes(p) /\ pc'[p] = "T_loop"
    BY <1>1, <1>2, <1>5, <2>1, GoesAlone DEF kernelVars
  <2> QED BY <1>1, <2>2 DEF Lands, Spawning, Launching
<1> DEFINE head  == ProcTable3[SlotOf(p)].children.head
           child == ProcTable3[head].pid
<1>6. CASE /\ head # NULL /\ child # -1 /\ pc[child] \notin {"none", "gone"}
           /\ At(p, "T_loop", "T_zap")
           /\ ProcTable3' = deq3(ProcTable3, SlotOf(p))
           /\ zapped' = zapped \union {child}
           /\ other' = [other EXCEPT ![p] = child]
  <2>1. child \in Pid
    <3>1. head \in Slot
      BY <1>1, <1>6, EntryOf, QueueOf DEF Kernel3, Queue, Pointer
    <3>2. child \in Pid \union {-1}
      BY <1>1, <3>1 DEF Kernel3, Table
    <3> QED BY <1>6, <3>2
  <2> HIDE DEF child
  <2>2. /\ pc' \in [Pid -> Place] /\ pc'[p] = "T_zap"
        /\ \A q \in Pid \ {p} : pc'[q] = pc[q]
    BY <1>1, <1>2, <1>6, Moved DEF At
  <2>3. Keeps(ProcTable3, ProcTable3')
    BY <1>1, <1>6, EntryOf, DeqKeeps DEF Kernel3
  <2>4. other' \in [Pid -> Pid]
    BY <1>1, <1>6, <2>1 DEF Kernel3
  <2>5. \A n \in Pid : n \in zapped' => n \in zapped \/ pc[n] # "none"
    BY <1>6
  <2>6. Goes(p)
    BY <1>3, <2>2, <2>3, <2>4, <2>5 DEF Goes
  <2> QED BY <1>1, <2>2, <2>6 DEF Lands, Spawning, Launching
<1> QED BY <1>4, <1>5, <1>6 DEF T_loop

LEMMA RemoveGoes ==
  ASSUME NoEntryTwice, SpawnInv, NEW p \in Pid, T_zap(p) \/ T_remove(p),
         UNCHANGED <<parentOf, priority, lastPid, box, ran>>
  PROVE  Goes(p) /\ Lands(p)
<1>1. Kernel3 /\ p # Start2
  BY OthersEnd DEF T_zap, T_remove, At, SpawnInv
<1>2. \A to \in {"T_loop", "T_quit"} : to \in Place
  BY DEF Place, Ending
<1>3. CASE T_zap(p)
  <2>1. Goes(p) /\ pc'[p] = "T_loop"
    BY <1>1, <1>2, <1>3, GoesAlone DEF T_zap, At, kernelVars
  <2> QED BY <1>1, <2>1 DEF Lands, Spawning, Launching
<1>4. CASE T_remove(p)
  <2>1. /\ pc' \in [Pid -> Place] /\ pc'[p] = "T_quit"
        /\ \A q \in Pid \ {p} : pc'[q] = pc[q]
    BY <1>1, <1>2, <1>4, Moved DEF T_remove, At
  <2>2. Keeps(ProcTable3, ProcTable3')
    <3> DEFINE o == ProcTable3[SlotOf(p)].parent
    <3>1. SlotOf(p) \in Slot /\ ProcTable3 \in Table
      BY <1>1, EntryOf DEF Kernel3
    <3>2. o \in Pointer
      BY <3>1 DEF Table
    <3>3. CASE o = NULL \/ NothingAfter(ProcTable3, o, SlotOf(p))
      BY <1>4, <3>1, <3>3, KeepsItself DEF T_remove
    <3>4. CASE o # NULL /\ ~NothingAfter(ProcTable3, o, SlotOf(p))
      <4>1. o \in Slot
        BY <3>2, <3>4 DEF Pointer
      <4> QED BY <1>4, <3>1, <3>4, <4>1, RemoveKeeps DEF T_remove
    <3> QED BY <3>3, <3>4
  <2>3. Goes(p)
    BY <1>1, <1>4, <2>1, <2>2 DEF Goes, T_remove, Kernel3
  <2> QED BY <1>1, <2>1, <2>3 DEF Lands, Spawning, Launching
<1> QED BY <1>3, <1>4

LEMMA QuitGoes ==
  ASSUME SpawnInv, NEW p \in Pid, T_quit(p), UNCHANGED <<parentOf, priority, lastPid, box, ran>>
  PROVE  Goes(p) /\ Lands(p)
<1> DEFINE active == \E c \in Children(p) : pc[c] \notin Ended
<1>1. /\ Kernel3 /\ pc[p] = "T_quit" /\ UNCHANGED <<ProcTable3, zapped, other>>
      /\ pc' = [q \in Pid |-> IF active THEN pc[q]
                              ELSE IF q = p THEN "quit"
                              ELSE IF q \in Children(p) THEN "gone" ELSE pc[q]]
  BY DEF T_quit, SpawnInv
<1>2. pc \in [Pid -> Place] /\ "quit" \in Place /\ "gone" \in Place
  BY <1>1 DEF Kernel3, Place, Ended
<1>3. pc' \in [Pid -> Place]
  BY <1>1, <1>2
<1>4. pc'[p] \in {"T_quit", "quit"}
  BY <1>1
<1>5. \A q \in Pid \ {p} : pc'[q] = pc[q] \/ (pc[q] \in Ended /\ pc'[q] \in Ended)
  BY <1>1 DEF Ended
<1>6. Keeps(ProcTable3, ProcTable3')
  BY <1>1, KeepsItself DEF Kernel3
<1>7. Goes(p)
  BY <1>1, <1>3, <1>5, <1>6 DEF Goes, Kernel3
<1> QED BY <1>4, <1>7 DEF Lands, Spawning, Launching, Ended

\* A child whose parent has gone on.
LEMMA LaunchGoes ==
  ASSUME SpawnInv, Quiet, NEW p \in Pid, spawnLaunch(p)
  PROVE  Goes(p) /\ Lands(p)
<1>1. pc[p] \in Launching
  BY DEF spawnLaunch, L_zapped, L_test, L_init, L_recv, L_start, At, Launching
<1>2. Launched(p) /\ Kernel3
  BY <1>1 DEF SpawnInv, Met, Quiet
<1>3. p # Start2
  BY <1>1 DEF SpawnInv, Start2Waits, Launching, Ended
<1>4. \A to \in {"L_test", "L_start", "T_loop", "user"} : to \in Place
  BY DEF Place, Ending, Launching
<1>5. CASE L_zapped(p)
  <2>1. PICK to \in {"L_test", "T_loop"} : pc' = [pc EXCEPT ![p] = to]
    BY <1>5 DEF L_zapped, At
  <2>2. UNCHANGED <<ProcTable3, kernelVars, other, box, ran>>
    BY <1>5 DEF L_zapped, seenVars
  <2>3. Goes(p) /\ pc'[p] = to
    BY <1>2, <1>4, <2>1, <2>2, GoesAlone
  <2>4. pc'[p] \in Launching => Launched(p)'
    BY <1>2, <2>1, <2>2, <2>3 DEF Launched, Launching
  <2> QED BY <1>3, <2>3, <2>4 DEF Lands, Spawning, Launching
<1>6. CASE L_test(p)
  <2>1. ~(ProcTable3[SlotOf(p)].pid < 0)
    BY <1>2 DEF Launched, Pid
  <2>2. UNCHANGED <<ProcTable3, kernelVars, other, box, ran>>
    BY <1>6 DEF L_test, seenVars
  <2>3. Goes(p) /\ pc'[p] = "L_start"
    BY <1>2, <1>4, <1>6, <2>1, <2>2, GoesAlone DEF L_test, At
  <2>4. Launched(p)'
    BY <1>2, <2>2, <2>3 DEF Launched
  <2> QED BY <1>3, <2>3, <2>4 DEF Lands, Spawning, Launching
<1>7. CASE L_init(p) \/ L_recv(p)
  BY <1>2, <1>7 DEF Launched, L_init, L_recv, At
<1>8. CASE L_start(p)
  <2>1. ran' = [ran EXCEPT ![p] = p]
    BY <1>2, <1>8 DEF Launched, L_start
  <2>2. /\ pc' \in [Pid -> Place] /\ pc'[p] = "user"
        /\ \A q \in Pid \ {p} : pc'[q] = pc[q]
    BY <1>2, <1>4, <1>8, Moved DEF L_start, At
  <2>3. /\ ran' = [q \in Pid |-> ran'[q]] /\ ran'[p] = p
        /\ \A q \in Pid \ {p} : ran'[q] = ran[q]
    BY <1>2, <2>1 DEF Kernel3
  <2>4. Keeps(ProcTable3, ProcTable3')
    BY <1>2, <1>8, KeepsItself DEF L_start, Kernel3
  <2>5. Goes(p)
    BY <1>2, <1>8, <2>2, <2>3, <2>4 DEF Goes, L_start, Kernel3, kernelVars
  <2> QED BY <1>3, <2>2, <2>3, <2>5 DEF Lands, Spawning, Launching
<1> QED BY <1>5, <1>6, <1>7, <1>8 DEF spawnLaunch

-----------------------------------------------------------------------------
(***************************************************************************)
(* A spawn: its beginning, the steps of the two sides until they meet, and *)
(* the meeting.                                                            *)
(***************************************************************************)
LEMMA SpawnBegins ==
  ASSUME NoEntryTwice, ~SamePriority, SpawnInv, Quiet,
         NEW p \in Pid, Runs(p), NEW prio \in Priorities, spawn(p, prio)
  PROVE  SpawnInv'
<1>1. PICK c \in NextPid :
        /\ pc' = [pc EXCEPT ![p] = "S_enq", ![c] = "L_zapped"]
        /\ parentOf' = [parentOf EXCEPT ![c] = p]
        /\ priority' = [priority EXCEPT ![c] = prio]
        /\ other' = [other EXCEPT ![p] = c]
        /\ lastPid' = c
  BY DEF spawn
<1>2. /\ pc[p] = "user" /\ UNCHANGED <<ProcTable3, zapped, box, ran>>
      /\ \A q \in Pid : Live(q) => priority[q] # prio
  BY DEF spawn, seenVars, Live
<1>3. Kernel3 /\ Unknown
  BY DEF SpawnInv
<1>4. c \in Pid /\ c > lastPid /\ c > Start3 /\ lastPid \in Int
  BY <1>3 DEF NextPid, Kernel3, Pid, Start3
<1>5. pc[c] = "none" /\ ProcTable3[SlotOf(c)].pid = -1 /\ c \notin zapped
  BY <1>3, <1>4 DEF Unknown
<1>6. c # p /\ c # Start2 /\ p # Start2 /\ ran[p] = p
  BY <1>2, <1>4, <1>5, UserIsStarted DEF Start2, Start3, Pid
<1>7. /\ pc' \in [Pid -> Place] /\ pc'[p] = "S_enq" /\ pc'[c] = "L_zapped"
      /\ \A q \in Pid \ {p, c} : pc'[q] = pc[q]
  <2>1. "S_enq" \in Place /\ "L_zapped" \in Place /\ pc \in [Pid -> Place]
    BY <1>3 DEF Kernel3, Place, Spawning, Launching
  <2> QED BY <1>1, <1>4, <1>6, <2>1
<1>8. /\ priority' \in [Pid -> Nat] /\ priority'[c] = prio
      /\ \A q \in Pid \ {c} : priority'[q] = priority[q]
  BY <1>1, <1>3, <1>4, UserProcessAssumption DEF Kernel3
<1>9. /\ other' \in [Pid -> Pid] /\ other'[p] = c
      /\ \A q \in Pid \ {p} : other'[q] = other[q]
  BY <1>1, <1>3, <1>4 DEF Kernel3
<1>10. /\ parentOf' = [q \in Pid |-> parentOf'[q]]
       /\ \A q \in Pid \ {c} : parentOf'[q] = parentOf[q]
  BY <1>1, <1>3 DEF Kernel3
<1>11. Live(p)
  BY <1>2 DEF Live, Ended
<1>12. Kernel3'
  <2>1. lastPid' \in Pid /\ lastPid' >= Start3
    BY <1>1, <1>4 DEF Start3, Pid
  <2> QED BY <1>2, <1>3, <1>7, <1>8, <1>9, <1>10, <2>1 DEF Kernel3
<1>13. Unknown'
  <2>1. ASSUME NEW n \in Pid, n > lastPid'
        PROVE  pc'[n] = "none" /\ ProcTable3'[SlotOf(n)].pid = -1
    <3>1. n > lastPid /\ n # c
      BY <1>1, <1>4, <2>1 DEF Pid
    <3>2. pc[n] = "none" /\ ProcTable3[SlotOf(n)].pid = -1
      BY <1>3, <3>1 DEF Unknown
    <3> QED BY <1>2, <1>7, <3>1, <3>2
  <2>2. ASSUME NEW n \in Pid, n \in zapped' PROVE pc'[n] # "none"
    BY <1>2, <1>3, <1>7, <2>2 DEF Unknown
  <2> QED BY <2>1, <2>2 DEF Unknown
<1>14. Distinct'
  <2>1. \A q \in Pid \ {c} : Live(q)' => Live(q)
    BY <1>7, <1>11 DEF Live
  <2>2. ASSUME NEW q \in Pid, NEW r \in Pid, q # r, Live(q)', Live(r)'
        PROVE  priority'[q] # priority'[r]
    BY <1>2, <1>8, <2>1, <2>2 DEF SpawnInv, Distinct
  <2> QED BY <2>2 DEF Distinct
<1>15. Start2Waits'
  <2>1. Start2 \in Pid
    BY UserProcessAssumption DEF Start2, Pid
  <2> QED BY <1>6, <1>7, <2>1 DEF SpawnInv, Start2Waits
<1>16. ASSUME NEW a \in Pid, NEW d \in Pid, Spawns(a, d)' PROVE a = p /\ d = c
  <2>1. a # c
    BY <1>7, <1>16 DEF Spawns, Spawning
  <2>2. CASE a = p
    BY <1>9, <1>16, <2>2 DEF Spawns
  <2>3. CASE a # p
    BY <1>7, <1>9, <1>16, <2>1, <2>3 DEF Spawns, Quiet
  <2> QED BY <2>2, <2>3
<1>17. Apart(p, c)'
  <2>1. ASSUME NEW q \in Pid, q # p, q # c, Ready(q)' PROVE priority'[q] > priority'[p]
    <3>1. Ready(q)
      BY <1>3, <1>4, <1>7, <1>9, <1>10, <2>1, ReadyBefore DEF Ended
    <3>2. priority[p] <= priority[q]
      BY <3>1 DEF Runs
    <3>3. priority[p] # priority[q]
      BY <1>11, <2>1, <3>1, ReadyLives DEF SpawnInv, Distinct
    <3>4. priority \in [Pid -> Nat]
      BY <1>3 DEF Kernel3
    <3>5. priority'[q] = priority[q] /\ priority'[p] = priority[p]
      BY <1>6, <1>8, <2>1
    <3> QED BY <3>2, <3>3, <3>4, <3>5
  <2> QED BY <1>2, <1>4, <1>5, <1>6, <2>1 DEF Apart, Alone
<1>18. ChildFirst(p, c)' \/ ParentFirst(p, c)'
  <2>1. priority'[p] \in Nat /\ priority'[c] \in Nat /\ priority'[p] # priority'[c]
    BY <1>2, <1>4, <1>6, <1>8, <1>11
  <2>2. priority'[c] < priority'[p] \/ priority'[p] < priority'[c]
    BY <2>1
  <2>3. ProcTable3'[SlotOf(c)].pid = -1
    BY <1>2, <1>5
  <2> QED BY <1>7, <2>2, <2>3 DEF ChildFirst, ParentFirst
<1>19. Meeting'
  BY <1>16, <1>17, <1>18, Zenon DEF Meeting
<1>20. Met'
  <2> SUFFICES ASSUME NEW d \in Pid, pc'[d] \in Launching
               PROVE  Launched(d)' \/ \E q \in Pid : Spawns(q, d)'
    BY DEF Met
  <2>1. CASE d = c
    <3>1. Spawns(p, c)'
      BY <1>7, <1>9 DEF Spawns, Spawning
    <3> QED BY <2>1, <3>1
  <2>2. CASE d # c
    <3>1. pc'[d] = pc[d]
      BY <1>7, <2>2 DEF Launching
    <3>2. Launched(d)
      BY <3>1 DEF SpawnInv, Met, Quiet
    <3> QED BY <1>2, <3>1, <3>2 DEF Launched
  <2> QED BY <2>1, <2>2
<1>21. Started'
  <2>1. ASSUME NEW q \in Pid \ {Start2}, pc'[q] \in Spawning \union {"user", "W_join"}
        PROVE  ran'[q] = q
    BY <1>2, <1>6, <1>7, <2>1 DEF SpawnInv, Started, Spawning
  <2> QED BY <2>1 DEF Started
<1> QED BY <1>12, <1>13, <1>14, <1>15, <1>19, <1>20, <1>21 DEF SpawnInv

\* One of p and c takes a step, and they have not met yet.
LEMMA NotMetYet ==
  ASSUME NoEntryTwice, SpawnInv, NEW p \in Pid, NEW c \in Pid,
         Spawns(p, c), Only(p, c), Apart(p, c),
         pc' \in [Pid -> Place], pc'[p] \in Spawning, pc'[c] \in Launching,
         \A q \in Pid \ {p, c} : pc'[q] = pc[q],
         UNCHANGED <<kernelVars, other, ran>>, box' = [q \in Pid |-> box'[q]],
         ProcTable3' \in Table,
         \A s \in Slot : s # c => /\ ProcTable3'[s].pid = ProcTable3[s].pid
                                  /\ ProcTable3'[s].startFunc = ProcTable3[s].startFunc,
         ChildFirst(p, c)' \/ ParentFirst(p, c)'
  PROVE  SpawnInv'
<1>1. Kernel3 /\ Unknown
  BY DEF SpawnInv
<1>2. UNCHANGED <<lastPid, priority, parentOf, zapped>>
  BY DEF kernelVars
<1>3. p # c /\ pc[p] \in Spawning /\ pc[c] \in Launching
  BY DEF Spawns, Apart, SpawnInv, Meeting, ChildFirst, ParentFirst, Launching
<1>4. \A q \in Pid \ {c} : /\ ProcTable3'[SlotOf(q)].pid = ProcTable3[SlotOf(q)].pid
                           /\ ProcTable3'[SlotOf(q)].startFunc = ProcTable3[SlotOf(q)].startFunc
  BY EntryOf
<1>5. \A q \in Pid : Live(q)' = Live(q)
  BY <1>3 DEF Live, Spawning, Launching, Ended
<1>6. Kernel3'
  BY <1>1, <1>2 DEF Kernel3
<1>7. Unknown'
  <2>1. ASSUME NEW n \in Pid, n > lastPid'
        PROVE  pc'[n] = "none" /\ ProcTable3'[SlotOf(n)].pid = -1
    <3>1. pc[n] = "none" /\ ProcTable3[SlotOf(n)].pid = -1
      BY <1>1, <1>2, <2>1 DEF Unknown
    <3>2. n # p /\ n # c
      BY <1>3, <3>1 DEF Spawning, Launching
    <3> QED BY <1>4, <3>1, <3>2
  <2>2. ASSUME NEW n \in Pid, n \in zapped' PROVE pc'[n] # "none"
    BY <1>1, <1>2, <2>2 DEF Unknown, Spawning, Launching
  <2> QED BY <2>1, <2>2 DEF Unknown
<1>8. Distinct'
  BY <1>2, <1>5 DEF SpawnInv, Distinct
<1>9. Start2Waits'
  <2>1. Start2 \in Pid
    BY UserProcessAssumption DEF Start2, Pid
  <2> QED BY <1>3, <2>1 DEF SpawnInv, Start2Waits, Ended, Spawning, Launching
<1>10. Meeting'
  <2>1. ASSUME NEW a \in Pid, NEW d \in Pid, Spawns(a, d)' PROVE a = p /\ d = c
    <3>1. a # c
      BY <2>1 DEF Spawns, Spawning, Launching
    <3>2. Spawns(a, d)
      BY <2>1, <3>1 DEF Spawns
    <3> QED BY <3>2 DEF Only
  <2>2. ASSUME NEW q \in Pid, q # p, q # c, Ready(q)' PROVE priority'[q] > priority'[p]
    <3>1. Ready(q)
      BY <1>1, <1>2, <2>2, ReadyBefore DEF Ended, Spawning, Launching
    <3> QED BY <1>2, <2>2, <3>1 DEF Apart, Alone
  <2>3. Apart(p, c)'
    BY <1>2, <2>2 DEF Apart, Alone
  <2> QED BY <2>1, <2>3, Zenon DEF Meeting
<1>11. Met'
  <2> SUFFICES ASSUME NEW d \in Pid, pc'[d] \in Launching
               PROVE  Launched(d)' \/ \E q \in Pid : Spawns(q, d)'
    BY DEF Met
  <2>1. Spawns(p, c)'
    BY DEF Spawns
  <2>2. CASE d # c
    <3>1. d # p
      BY <1>3 DEF Spawning, Launching
    <3>2. Launched(d)
      BY <2>2, <3>1 DEF SpawnInv, Met, Only
    <3> QED BY <1>4, <2>2, <3>1, <3>2 DEF Launched
  <2> QED BY <2>1, <2>2
<1>12. Started'
  <2>1. ASSUME NEW q \in Pid \ {Start2}, pc'[q] \in Spawning \union {"user", "W_join"}
        PROVE  ran'[q] = q
    <3>1. pc[q] \in Spawning \union {"user", "W_join"}
      BY <1>3, <2>1 DEF Launching, Spawning
    <3> QED BY <3>1 DEF SpawnInv, Started
  <2> QED BY <2>1 DEF Started
<1> QED BY <1>6, <1>7, <1>8, <1>9, <1>10, <1>11, <1>12 DEF SpawnInv

\* spawnReal goes on.
LEMMA ParentGoesOn ==
  ASSUME NoEntryTwice, SpawnInv, NEW p \in Pid, NEW c \in Pid,
         Spawns(p, c), Only(p, c), Apart(p, c),
         (ChildFirst(p, c) /\ pc[c] = "L_wait") \/ ParentFirst(p, c),
         S_enq(p) \/ S_test(p) \/ S_init(p) \/ S_give(p)
  PROVE  SpawnInv'
<1>1. Kernel3 /\ p # c /\ other[p] = c /\ c # Start2
  BY DEF SpawnInv, Apart, Spawns, Start2, Start3
<1>2. SlotOf(c) = c /\ SlotOf(p) = p /\ c \in Slot /\ p \in Slot
  BY EntryOf
<1>3. UNCHANGED <<kernelVars, other, box, ran>> /\ box' = [q \in Pid |-> box'[q]]
  BY <1>1 DEF S_enq, S_test, S_init, S_give, seenVars, Kernel3
<1>4. \A to \in Spawning : pc' = [pc EXCEPT ![p] = to] =>
        /\ pc' \in [Pid -> Place] /\ pc'[p] = to /\ pc'[p] \in Spawning
        /\ \A q \in Pid \ {p} : pc'[q] = pc[q]
  BY <1>1, Moved DEF Place
<1>5. pc[c] \in Launching
  BY DEF ChildFirst, ParentFirst, Launching
<1>6. UNCHANGED priority
  BY <1>3 DEF kernelVars
<1> DEFINE Fills ==
      /\ ProcTable3' \in Table
      /\ \A s \in Slot : s # c => /\ ProcTable3'[s].pid = ProcTable3[s].pid
                                  /\ ProcTable3'[s].startFunc = ProcTable3[s].startFunc
<1>7. ASSUME NEW to \in Spawning, pc' = [pc EXCEPT ![p] = to], Fills,
             ChildFirst(p, c)' \/ ParentFirst(p, c)'
      PROVE  SpawnInv'
  <2>1. /\ pc' \in [Pid -> Place] /\ pc'[p] \in Spawning
        /\ \A q \in Pid \ {p, c} : pc'[q] = pc[q]
    BY <1>4, <1>7
  <2>2. pc'[c] \in Launching
    BY <1>1, <1>4, <1>5, <1>7
  <2> QED BY <1>3, <1>7, <2>1, <2>2, NotMetYet
<1>8. CASE S_enq(p)
  <2>1. Keeps(ProcTable3, ProcTable3')
    BY <1>1, <1>2, <1>8, EnqKeeps DEF S_enq, Kernel3
  <2>2. Fills /\ UNCHANGED <<ProcTable3[c].pid, ProcTable3[c].mboxID, ProcTable3[c].startFunc>>
    BY <1>2, <2>1 DEF Keeps
  <2>3. pc' = [pc EXCEPT ![p] = "S_test"] /\ "S_test" \in Spawning /\ pc[p] = "S_enq"
    BY <1>8 DEF S_enq, At, Spawning
  <2>4. ChildFirst(p, c)' \/ ParentFirst(p, c)'
    <3>1. pc'[p] = "S_test" /\ pc'[c] = pc[c]
      BY <1>1, <1>4, <2>3
    <3> QED BY <1>2, <1>3, <1>6, <2>2, <2>3, <3>1 DEF ChildFirst, ParentFirst
  <2> QED BY <1>7, <2>2, <2>3, <2>4
<1>9. CASE S_test(p)
  <2>1. Fills /\ UNCHANGED ProcTable3
    BY <1>1, <1>9 DEF S_test, Kernel3
  <2>2. pc[p] = "S_test" /\ "S_init" \in Spawning /\ "S_give" \in Spawning
    BY <1>9 DEF S_test, At, Spawning
  <2>3. CASE ChildFirst(p, c) /\ pc[c] = "L_wait"
    <3>1. ~(ProcTable3[SlotOf(c)].pid < 0)
      BY <2>3 DEF ChildFirst, Pid
    <3>2. pc' = [pc EXCEPT ![p] = "S_give"]
      BY <1>1, <1>9, <3>1 DEF S_test, At
    <3>3. pc'[p] = "S_give" /\ pc'[c] = pc[c]
      BY <1>1, <1>4, <2>2, <3>2
    <3>4. ChildFirst(p, c)'
      BY <1>3, <1>6, <2>1, <2>3, <3>3 DEF ChildFirst
    <3> QED BY <1>7, <2>1, <2>2, <3>2, <3>4
  <2>4. CASE ParentFirst(p, c)
    <3>1. ProcTable3[SlotOf(c)].pid < 0
      BY <2>2, <2>4 DEF ParentFirst
    <3>2. pc' = [pc EXCEPT ![p] = "S_init"]
      BY <1>1, <1>9, <3>1 DEF S_test, At
    <3>3. pc'[p] = "S_init" /\ pc'[c] = pc[c]
      BY <1>1, <1>4, <2>2, <3>2
    <3>4. ParentFirst(p, c)'
      BY <1>6, <2>1, <2>2, <2>4, <3>3 DEF ParentFirst
    <3> QED BY <1>7, <2>1, <2>2, <3>2, <3>4
  <2> QED BY <2>3, <2>4
<1>10. CASE S_init(p)
  <2>1. /\ pc[p] = "S_init" /\ pc' = [pc EXCEPT ![p] = "S_give"] /\ "S_give" \in Spawning
        /\ ProcTable3' = initProc(ProcTable3, c, "spawnReal")
    BY <1>1, <1>10 DEF S_init, At, Spawning
  <2>2. ProcTable3'[c].pid = c /\ Fills
    BY <1>1, <2>1, InitFills, ZenonT(30) DEF Kernel3
  <2>3. pc'[p] = "S_give" /\ pc'[c] = pc[c]
    BY <1>1, <1>4, <2>1
  <2>4. ParentFirst(p, c)
    BY <2>1 DEF ChildFirst
  <2>5. ParentFirst(p, c)'
    BY <1>2, <1>6, <2>2, <2>3, <2>4 DEF ParentFirst
  <2> QED BY <1>7, <2>1, <2>2, <2>5
<1>11. CASE S_give(p)
  <2>1. /\ pc[p] = "S_give" /\ pc' = [pc EXCEPT ![p] = "S_send"] /\ "S_send" \in Spawning
        /\ ProcTable3' = [ProcTable3 EXCEPT ![SlotOf(c)].startFunc = c,
                                            ![SlotOf(c)].parent = SlotOf(p)]
    BY <1>1, <1>11 DEF S_give, At, Spawning
  <2>2. Fills /\ ProcTable3'[c].startFunc = c
        /\ UNCHANGED <<ProcTable3[c].pid, ProcTable3[c].mboxID>>
    <3>1. /\ ProcTable3' \in Table /\ ProcTable3'[c].startFunc = c
          /\ ProcTable3'[c].pid = ProcTable3[c].pid /\ ProcTable3'[c].mboxID = ProcTable3[c].mboxID
          /\ \A s \in Slot : s # c => ProcTable3'[s] = ProcTable3[s]
      <4>1. ProcTable3' = Given(ProcTable3, c, p)
        BY <2>1 DEF Given
      <4> QED BY <1>1, <4>1, GiveFills DEF Kernel3
    <3> QED BY <3>1
  <2>3. pc'[p] = "S_send" /\ pc'[c] = pc[c]
    BY <1>1, <1>4, <2>1
  <2>4. ChildFirst(p, c)' \/ ParentFirst(p, c)'
    BY <1>2, <1>3, <1>6, <2>1, <2>2, <2>3 DEF ChildFirst, ParentFirst
  <2> QED BY <1>7, <2>1, <2>2, <2>4
<1> QED BY <1>8, <1>9, <1>10, <1>11

\* spawnLaunch goes on.
LEMMA ChildGoesOn ==
  ASSUME NoEntryTwice, SpawnInv, NEW p \in Pid, NEW c \in Pid,
         Spawns(p, c), Only(p, c), Apart(p, c), ChildFirst(p, c), pc[c] # "L_wait",
         spawnLaunch(c)
  PROVE  SpawnInv'
<1>1. Kernel3 /\ p # c /\ pc[p] = "S_enq" /\ c \notin zapped
  BY DEF SpawnInv, Apart, ChildFirst
<1>2. SlotOf(c) = c /\ c \in Slot
  BY EntryOf
<1>3. \A to \in Launching : pc' = [pc EXCEPT ![c] = to] =>
        /\ pc' \in [Pid -> Place] /\ pc'[c] = to
        /\ \A q \in Pid \ {c} : pc'[q] = pc[q]
  BY <1>1, Moved DEF Place
<1> DEFINE Fills ==
      /\ ProcTable3' \in Table
      /\ \A s \in Slot : s # c => /\ ProcTable3'[s].pid = ProcTable3[s].pid
                                  /\ ProcTable3'[s].startFunc = ProcTable3[s].startFunc
<1>4. \A to \in {"L_test", "L_init", "L_recv", "L_wait"} : to \in Launching
  BY DEF Launching
<1>5. ASSUME NEW to \in Launching, pc' = [pc EXCEPT ![c] = to], Fills,
             UNCHANGED <<kernelVars, other, ran>>, box' = [q \in Pid |-> box'[q]],
             ChildFirst(p, c)'
      PROVE  SpawnInv'
  <2>1. /\ pc' \in [Pid -> Place] /\ pc'[c] \in Launching /\ pc'[p] \in Spawning
        /\ \A q \in Pid \ {p, c} : pc'[q] = pc[q]
    BY <1>1, <1>3, <1>5 DEF Spawning
  <2> QED BY <1>5, <2>1, NotMetYet
<1>6. CASE L_zapped(c)
  <2>1. /\ pc' = [pc EXCEPT ![c] = "L_test"] /\ Fills /\ UNCHANGED <<kernelVars, other, ran, box>>
        /\ pc[c] = "L_zapped" /\ UNCHANGED <<priority, ProcTable3>>
    BY <1>1, <1>6 DEF L_zapped, At, seenVars, kernelVars, Kernel3
  <2>2. pc'[c] = "L_test" /\ pc'[p] = "S_enq"
    BY <1>1, <1>3, <1>4, <2>1
  <2>3. ChildFirst(p, c)'
    BY <2>1, <2>2 DEF ChildFirst
  <2> QED BY <1>1, <1>4, <1>5, <2>1, <2>3 DEF Kernel3
<1>7. CASE L_test(c)
  <2>1. pc[c] = "L_test" /\ ProcTable3[SlotOf(c)].pid < 0
    BY <1>7 DEF L_test, At, ChildFirst
  <2>2. /\ pc' = [pc EXCEPT ![c] = "L_init"] /\ Fills /\ UNCHANGED <<kernelVars, other, ran, box>>
        /\ UNCHANGED <<priority, ProcTable3>>
    BY <1>1, <1>7, <2>1 DEF L_test, At, seenVars, kernelVars, Kernel3
  <2>3. pc'[c] = "L_init" /\ pc'[p] = "S_enq"
    BY <1>1, <1>3, <1>4, <2>2
  <2>4. ChildFirst(p, c)'
    BY <2>1, <2>2, <2>3 DEF ChildFirst
  <2> QED BY <1>1, <1>4, <1>5, <2>2, <2>4 DEF Kernel3
<1>8. CASE L_init(c)
  <2>1. /\ pc' = [pc EXCEPT ![c] = "L_recv"] /\ UNCHANGED <<kernelVars, other, ran, box>>
        /\ UNCHANGED priority /\ ProcTable3' = initProc(ProcTable3, c, "spawnLaunch")
    BY <1>8 DEF L_init, At, seenVars, kernelVars
  <2>2. Fills /\ ProcTable3'[c].pid = c
    BY <1>1, <2>1, InitFills, ZenonT(30) DEF Kernel3
  <2>3. pc'[c] = "L_recv" /\ pc'[p] = "S_enq"
    BY <1>1, <1>3, <1>4, <2>1
  <2>4. ChildFirst(p, c)'
    BY <1>2, <2>1, <2>2, <2>3 DEF ChildFirst
  <2> QED BY <1>1, <1>4, <1>5, <2>1, <2>2, <2>4 DEF Kernel3
<1>9. CASE L_recv(c)
  <2>1. /\ pc[c] = "L_recv" /\ pc' = [pc EXCEPT ![c] = "L_wait"] /\ Fills
        /\ UNCHANGED <<kernelVars, other, ran>> /\ UNCHANGED <<priority, ProcTable3>>
        /\ box' = [box EXCEPT ![c] = ProcTable3[SlotOf(c)].mboxID]
    BY <1>1, <1>9 DEF L_recv, At, seenVars, kernelVars, Kernel3
  <2>2. pc'[c] = "L_wait" /\ pc'[p] = "S_enq"
    BY <1>1, <1>3, <1>4, <2>1
  <2>3. box' = [q \in Pid |-> box'[q]] /\ box'[c] = ProcTable3[SlotOf(c)].mboxID
    BY <1>1, <2>1 DEF Kernel3
  <2>4. ChildFirst(p, c)'
    BY <2>1, <2>2, <2>3 DEF ChildFirst
  <2> QED BY <1>4, <1>5, <2>1, <2>3, <2>4
<1>10. CASE L_start(c)
  BY <1>10 DEF L_start, At, ChildFirst
<1> QED BY <1>6, <1>7, <1>8, <1>9, <1>10 DEF spawnLaunch

\* They meet: the send wakes the child that waits, and no other.
LEMMA TheyMeet ==
  ASSUME NoEntryTwice, SpawnInv, NEW p \in Pid, NEW c \in Pid,
         Spawns(p, c), Only(p, c), Apart(p, c),
         (ChildFirst(p, c) /\ pc[c] = "L_wait") \/ ParentFirst(p, c), S_send(p)
  PROVE  SpawnInv'
<1> DEFINE met == {q \in Pid : pc[q] = "L_wait" /\ box[q] = ProcTable3[SlotOf(c)].mboxID}
           to  == IF pc[c] = "L_wait" THEN "L_start" ELSE pc[c]
<1>1. /\ Kernel3 /\ p # c /\ other[p] = c /\ pc[p] = "S_send"
      /\ UNCHANGED <<ProcTable3, lastPid, priority, parentOf, zapped, other, box, ran>>
  BY DEF SpawnInv, Apart, Spawns, S_send, kernelVars, seenVars
<1>2. \A q \in Pid : q \in met => q = c
  <2> SUFFICES ASSUME NEW q \in Pid, pc[q] = "L_wait" PROVE q = c
    OBVIOUS
  <2>1. ~Launched(q) /\ pc[q] \in Launching
    BY DEF Launched, Launching
  <2>2. \E a \in Pid : Spawns(a, q)
    BY <2>1 DEF SpawnInv, Met
  <2> QED BY <2>2 DEF Only
<1>3. pc[c] = "L_wait" => c \in met
  BY DEF ChildFirst, ParentFirst
<1>4. \A q \in Pid : pc'[q] = IF q = p THEN AfterCall(p)
                              ELSE IF q \in met THEN "L_start" ELSE pc[q]
  BY <1>1 DEF S_send
<1>5. /\ pc'[p] \in {"user", "T_loop"} /\ pc'[c] = to
      /\ \A q \in Pid \ {p, c} : pc'[q] = pc[q]
  <2>1. pc'[p] \in {"user", "T_loop"}
    BY <1>4 DEF AfterCall
  <2>2. \A q \in Pid \ {p, c} : pc'[q] = pc[q]
    BY <1>2, <1>4
  <2>3. pc'[c] = to
    <3>1. c \in met => pc[c] = "L_wait"
      OBVIOUS
    <3> HIDE DEF met
    <3> QED BY <1>1, <1>3, <1>4, <3>1
  <2> QED BY <2>1, <2>2, <2>3
<1>6. Launched(c)'
  BY <1>1, <1>5 DEF Launched, ChildFirst, ParentFirst
<1>7. to \in Launching /\ pc[c] \in Launching
  BY DEF ChildFirst, ParentFirst, Launching
<1>8. pc' \in [Pid -> Place]
  <2>1. pc' = [q \in Pid |-> pc'[q]]
    BY DEF S_send
  <2>2. \A q \in Pid : pc'[q] \in Place
    BY <1>1, <1>5, <1>7 DEF Kernel3, Place, Ending
  <2> QED BY <2>1, <2>2
<1> HIDE DEF met, to
<1>9. \A q \in Pid : Live(q)' = Live(q)
  BY <1>1, <1>5, <1>7 DEF Live, Launching, Ended
<1>10. Kernel3'
  BY <1>1, <1>8 DEF Kernel3
<1>11. Unknown'
  <2>1. ASSUME NEW n \in Pid, n > lastPid'
        PROVE  pc'[n] = "none" /\ ProcTable3'[SlotOf(n)].pid = -1
    <3>1. pc[n] = "none" /\ ProcTable3[SlotOf(n)].pid = -1
      BY <1>1, <2>1 DEF SpawnInv, Unknown
    <3>2. n # p /\ n # c
      BY <1>1, <1>7, <3>1 DEF Launching
    <3> QED BY <1>1, <1>5, <3>1, <3>2
  <2>2. ASSUME NEW n \in Pid, n \in zapped' PROVE pc'[n] # "none"
    BY <1>1, <1>5, <1>7, <2>2 DEF SpawnInv, Unknown, Launching
  <2> QED BY <2>1, <2>2 DEF Unknown
<1>12. Distinct'
  BY <1>1, <1>9 DEF SpawnInv, Distinct
<1>13. Start2Waits'
  <2>1. Start2 \in Pid
    BY UserProcessAssumption DEF Start2, Pid
  <2> QED BY <1>1, <1>5, <1>7, <2>1 DEF SpawnInv, Start2Waits, Ended, Launching
<1>14. Meeting'
  <2>1. ASSUME NEW a \in Pid, NEW d \in Pid, Spawns(a, d)' PROVE FALSE
    <3>1. a # p /\ a # c
      BY <1>5, <1>7, <2>1 DEF Spawns, Spawning, Launching
    <3>2. Spawns(a, d)
      BY <1>1, <1>5, <2>1, <3>1 DEF Spawns
    <3> QED BY <3>1, <3>2 DEF Only
  <2> QED BY <2>1 DEF Meeting
<1>15. Met'
  <2> SUFFICES ASSUME NEW d \in Pid, pc'[d] \in Launching PROVE Launched(d)'
    BY DEF Met
  <2>1. CASE d # c
    <3>1. d # p
      BY <1>5 DEF Launching
    <3>2. Launched(d)
      BY <1>5, <2>1, <3>1 DEF SpawnInv, Met, Only
    <3> QED BY <1>1, <1>5, <2>1, <3>1, <3>2 DEF Launched
  <2> QED BY <1>6, <2>1
<1>16. Started'
  <2>1. ASSUME NEW q \in Pid \ {Start2}, pc'[q] \in Spawning \union {"user", "W_join"}
        PROVE  ran'[q] = q
    <3>1. pc[q] \in Spawning \union {"user", "W_join"}
      BY <1>1, <1>5, <1>7, <2>1 DEF Launching, Spawning
    <3> QED BY <1>1, <3>1 DEF SpawnInv, Started
  <2> QED BY <2>1 DEF Started
<1> QED BY <1>10, <1>11, <1>12, <1>13, <1>14, <1>15, <1>16 DEF SpawnInv

-----------------------------------------------------------------------------
LEMMA SpawnInit ==
  ASSUME NoEntryTwice, Init PROVE SpawnInv
<1>1. /\ Start3 \in Pid /\ Start2 \in Pid /\ Start2 # Start3
      /\ \A n \in Pid : n > Start3 => n # Start2 /\ n # Start3
  BY UserProcessAssumption DEF Start2, Start3, Pid
<1>2. \A q \in Pid : SlotOf(q) = q /\ q \in Slot
  BY EntryOf
<1>3. \A q \in Pid : pc[q] = IF q = Start2 THEN "W_join" ELSE IF q = Start3 THEN "user" ELSE "none"
  BY <1>1 DEF Init
<1>4. ProcTable3 \in Table
  <2>1. EmptyQueue("BLOCKED") \in Queue /\ EmptyQueue("CHILDREN") \in Queue
    BY DEF EmptyQueue, Queue, Pointer
  <2>2. SlotOf(Start3) \in Pointer /\ SlotOf(Start2) \in Pointer /\ NULL \in Pointer
    BY <1>1, <1>2 DEF Pointer
  <2> DEFINE list == [head |-> SlotOf(Start3), tail |-> SlotOf(Start3), size |-> 1, type |-> "BLOCKED"]
             mbox == [of |-> Start3, by |-> "spawnReal"]
             Entry0 == [pid : Pid \union {-1}, mboxID : MBox \union {NoBox},
                        startFunc : Func \union {NULL}, nextSibling : Pointer,
                        parent : Pointer, children : Queue]
  <2>3. list \in Queue /\ mbox \in MBox /\ Start3 \in Func
    BY <1>1, <2>2 DEF Queue, MBox, Func
  <2>4. EmptyProc \in Entry0
    BY <2>1, <2>2 DEF EmptyProc
  <2> HIDE DEF list, mbox
  <2>5. [EmptyProc EXCEPT !.children = list] \in Entry0
    BY <2>3, <2>4
  <2>6. [pid |-> Start3, mboxID |-> mbox, startFunc |-> Start3, nextSibling |-> NULL,
         parent |-> SlotOf(Start2), children |-> EmptyQueue("CHILDREN")] \in Entry0
    BY <1>1, <2>1, <2>2, <2>3
  <2> HIDE DEF Entry0
  <2>7. ProcTable3 \in [Slot -> Entry0]
    BY <2>4, <2>5, <2>6 DEF Init, list, mbox
  <2> QED BY <2>7 DEF Table, Entry0
<1>5. Kernel3
  <2>1. lastPid \in Pid /\ lastPid >= Start3
    BY <1>1 DEF Init, Start3
  <2>2. pc \in [Pid -> Place]
    BY DEF Init, Place
  <2>3. priority \in [Pid -> Nat]
    BY DEF Init
  <2>4. /\ other \in [Pid -> Pid] /\ box = [q \in Pid |-> box[q]] /\ ran = [q \in Pid |-> ran[q]]
        /\ parentOf = [q \in Pid |-> parentOf[q]]
    BY <1>1 DEF Init
  <2> QED BY <1>4, <2>1, <2>2, <2>3, <2>4 DEF Kernel3
<1>6. Unknown
  <2>1. ASSUME NEW n \in Pid, n > lastPid PROVE pc[n] = "none" /\ ProcTable3[SlotOf(n)].pid = -1
    <3>1. n # Start2 /\ n # Start3 /\ SlotOf(n) # SlotOf(Start3)
      BY <1>1, <1>2, <2>1 DEF Init
    <3>2. ProcTable3[SlotOf(n)].pid = -1
      BY <1>2, <3>1 DEF Init, EmptyProc
    <3> QED BY <1>3, <3>1, <3>2
  <2> QED BY <2>1 DEF Unknown, Init
<1>7. Distinct
  BY <1>1, <1>3 DEF Distinct, Init, Live, Ended
<1>8. Start2Waits
  BY <1>1, <1>3 DEF Start2Waits
<1>9. Meeting /\ Met
  BY <1>3 DEF Meeting, Met, Spawns, Spawning, Launching
<1>10. Started
  BY <1>1, <1>3 DEF Started, Init, Spawning
<1> QED BY <1>5, <1>6, <1>7, <1>8, <1>9, <1>10 DEF SpawnInv

LEMMA SpawnStep ==
  ASSUME NoEntryTwice, ~SamePriority, SpawnInv, NEW p \in Pid, Call(p) \/ InCall(p)
  PROVE  SpawnInv'
<1>1. Runs(p)
  BY DEF Call, InCall
<1>2. Live(p)
  BY <1>1, ReadyLives DEF Runs
<1>3. CASE Quiet
  <2>1. ASSUME Goes(p), Lands(p) PROVE SpawnInv'
    BY <1>2, <1>3, <2>1, QuietStep
  <2>2. CASE Call(p)
    <3>1. CASE \E prio \in Priorities : spawn(p, prio)
      BY <1>1, <1>3, <3>1, SpawnBegins
    <3>2. CASE otherCall(p) \/ wait(p) \/ terminate(p)
      BY <2>1, <3>2, UserGoes
    <3> QED BY <2>2, <3>1, <3>2 DEF Call
  <2>3. CASE spawnReal(p)
    <3>1. pc[p] \in Spawning /\ other[p] \in Pid
      BY <2>3 DEF spawnReal, S_enq, S_test, S_init, S_give, S_send, At, Spawning, SpawnInv, Kernel3
    <3> QED BY <1>3, <3>1 DEF Quiet, Spawns
  <2>4. CASE spawnLaunch(p)
    BY <1>3, <2>1, <2>4, LaunchGoes
  <2>5. CASE waitReal(p)
    BY <2>1, <2>5, WaitGoes
  <2>6. CASE terminateReal(p)
    <3>1. UNCHANGED <<parentOf, priority, lastPid, box, ran>>
      BY <2>6 DEF terminateReal
    <3>2. T_loop(p) \/ T_zap(p) \/ T_remove(p) \/ T_quit(p)
      BY <2>6, Zenon DEF terminateReal
    <3> QED BY <2>1, <3>1, <3>2, LoopGoes, RemoveGoes, QuitGoes
  <2> QED BY <2>2, <2>3, <2>4, <2>5, <2>6, Zenon DEF InCall
<1>4. ASSUME NEW c \in Pid, Spawns(p, c), Only(p, c), Apart(p, c),
             (ChildFirst(p, c) /\ pc[c] = "L_wait") \/ ParentFirst(p, c)
      PROVE  SpawnInv'
  <2>1. pc[p] \in Spawning
    BY <1>4 DEF Spawns
  <2>2. spawnReal(p)
    BY <2>1 DEF Call, InCall, Spawning, spawn, otherCall, wait, terminate, At, Stops,
                spawnLaunch, L_zapped, L_test, L_init, L_recv, L_start, waitReal,
                terminateReal, T_loop, T_zap, T_remove, T_quit
  <2>3. CASE S_enq(p) \/ S_test(p) \/ S_init(p) \/ S_give(p)
    BY <1>4, <2>3, ParentGoesOn
  <2>4. CASE S_send(p)
    BY <1>4, <2>4, TheyMeet
  <2> QED BY <2>2, <2>3, <2>4, Zenon DEF spawnReal
<1>5. ASSUME NEW a \in Pid, Spawns(a, p), Only(a, p), Apart(a, p),
             ChildFirst(a, p), pc[p] # "L_wait"
      PROVE  SpawnInv'
  <2>1. pc[p] \in Launching
    BY <1>5 DEF ChildFirst, Launching
  <2>2. spawnLaunch(p)
    BY <2>1 DEF Call, InCall, Launching, spawn, otherCall, wait, terminate, At, Stops,
                spawnReal, S_enq, S_test, S_init, S_give, S_send, waitReal,
                terminateReal, T_loop, T_zap, T_remove, T_quit
  <2> QED BY <1>5, <2>2, ChildGoesOn
<1>6. Kernel3 /\ Meeting
  BY DEF SpawnInv
<1> QED BY <1>1, <1>3, <1>4, <1>5, <1>6, WhoRuns

LEMMA SpawnRests ==
  ASSUME SpawnInv, UNCHANGED vars PROVE SpawnInv'
BY DEF vars, kernelVars, callVars, seenVars, SpawnInv, Kernel3, Unknown, Distinct,
       Start2Waits, Meeting, Met, Started, Apart, Alone, Spawns, Launched, Live,
       ChildFirst, ParentFirst, Ready, Children

\* "block until spawnReal is done" (phase31.c:240): a process in user mode has
\* been started with the function that it was spawned with, whichever of
\* spawnReal and spawnLaunch came first, and however other processes wait,
\* zap, quit and shift the lists of children in between.
THEOREM StartsOwnFunction ==
  ASSUME NoEntryTwice, ~SamePriority PROVE Spec => []OwnFunction
<1>1. Init => SpawnInv
  BY SpawnInit
<1>2. SpawnInv /\ [Next]_vars => SpawnInv'
  <2> SUFFICES ASSUME SpawnInv, [Next]_vars PROVE SpawnInv'
    OBVIOUS
  <2>1. CASE Next
    BY <2>1, SpawnStep DEF Next
  <2>2. CASE UNCHANGED vars
    BY <2>2, SpawnRests
  <2> QED BY <2>1, <2>2
<1>3. SpawnInv => OwnFunction
  BY UserIsStarted DEF OwnFunction
<1> QED BY <1>1, <1>2, <1>3, PTL DEF Spec

-----------------------------------------------------------------------------
(***************************************************************************)
(* The walk along the links of a list.  The links lead to higher entries   *)
(* (Forward), so the walk ends, and its entries are a chain.               *)
(***************************************************************************)

\* A set of numbers has a least one.
LEMMA LeastExists ==
  ASSUME NEW S, S \subseteq Nat, S # {}
  PROVE  \E x \in S : \A y \in S : x <= y
<1> DEFINE R == {ss \in Nat \X Nat : ss[1] < ss[2]}
<1>1. IsWellFoundedOn(R, Nat)
  BY NatLessThanWellFounded DEF OpToRel
<1>2. PICK x \in S : \A y \in S : ~(<<y, x>> \in R)
  <2>1. \E x \in S : \A y \in S : ~(<<y, x>> \in R)
    BY <1>1, WFMin
  <2> QED BY <2>1
<1>3. ASSUME NEW y \in S PROVE x <= y
  <2>1. x \in Nat /\ y \in Nat
    OBVIOUS
  <2>2. <<y, x>> \notin R
    BY <1>2
  <2> QED BY <2>1, <2>2
<1> QED BY <1>3

\* One step of the walk: it stays at NULL.
Onward(t, s) == IF s = NULL THEN NULL ELSE t[s].nextSibling

\* The walk of the definition Entry exists: a longest walk can be prolonged.
LEMMA EntryIs ==
  ASSUME NEW t, NEW o
  PROVE  /\ Entry(t, o)[1] = t[o].children.head
         /\ \A n \in 2 .. MAXPROC : Entry(t, o)[n] = Onward(t, Entry(t, o)[n - 1])
<1> DEFINE h == t[o].children.head
           Walks(f, m) == f = [n \in 1 .. m |-> IF n = 1 THEN h ELSE Onward(t, f[n - 1])]
           Bad == {m \in 1 .. MAXPROC : ~\E f : Walks(f, m)}
<1>1. MAXPROC \in Nat /\ MAXPROC >= 2
  BY UserProcessAssumption
<1>2. Bad = {}
  <2> SUFFICES ASSUME Bad # {} PROVE FALSE
    OBVIOUS
  <2>1. Bad \subseteq Nat
    BY <1>1
  <2> HIDE DEF Bad
  <2>2. PICK m \in Bad : \A k \in Bad : m <= k
    BY <2>1, LeastExists
  <2> USE DEF Bad
  <2>3. m \in 1 .. MAXPROC /\ ~\E f : Walks(f, m)
    OBVIOUS
  <2>4. m # 1
    <3> SUFFICES ASSUME m = 1 PROVE FALSE
      OBVIOUS
    <3> DEFINE f == [n \in 1 .. 1 |-> h]
    <3>1. f = [n \in 1 .. 1 |-> IF n = 1 THEN h ELSE Onward(t, f[n - 1])]
      OBVIOUS
    <3> HIDE DEF f, h
    <3>2. Walks(f, m)
      BY <3>1
    <3> QED BY <2>3, <3>2
  <2>5. m - 1 \in 1 .. MAXPROC /\ m - 1 \notin Bad
    BY <1>1, <2>2, <2>3, <2>4
  <2>6. PICK f : Walks(f, m - 1)
    BY <2>5
  <2> DEFINE g == [n \in 1 .. m |-> IF n < m THEN f[n] ELSE Onward(t, f[m - 1])]
             G == [n \in 1 .. m |-> IF n = 1 THEN h ELSE Onward(t, g[n - 1])]
  <2> HIDE DEF h, Bad
  <2>7. \A n \in 1 .. m - 1 : f[n] = IF n = 1 THEN h ELSE Onward(t, f[n - 1])
    BY <2>6
  <2>8. ASSUME NEW n \in 1 .. m PROVE g[n] = G[n]
    <3>1. m \in Nat /\ m > 1 /\ n \in Nat /\ n >= 1 /\ n <= m
      BY <1>1, <2>3, <2>4
    <3>2. CASE n < m
      <4>1. n \in 1 .. m - 1 /\ g[n] = f[n]
        BY <3>1, <3>2
      <4>2. n # 1 => n - 1 \in 1 .. m /\ n - 1 < m
        BY <3>1, <3>2
      <4>3. n # 1 => g[n - 1] = f[n - 1]
        BY <4>2
      <4> HIDE DEF g
      <4> QED BY <2>7, <4>1, <4>3
    <3>3. CASE n = m
      <4>1. g[m] = Onward(t, f[m - 1]) /\ g[m - 1] = f[m - 1]
        BY <3>1, <3>3
      <4> HIDE DEF g
      <4> QED BY <3>1, <3>3, <4>1
    <3> QED BY <3>1, <3>2, <3>3
  <2>9. Walks(g, m)
    <3>1. g = [n \in 1 .. m |-> g[n]] /\ G = [n \in 1 .. m |-> G[n]]
      OBVIOUS
    <3> HIDE DEF g, G
    <3>2. g = G
      BY <2>8, <3>1
    <3> QED BY <3>2 DEF G
  <2> HIDE DEF g, Walks
  <2> QED BY <2>3, <2>9
<1>3. MAXPROC \notin Bad /\ MAXPROC \in 1 .. MAXPROC
  BY <1>1, <1>2
<1>4. \E f : Walks(f, MAXPROC)
  BY <1>3
<1>5. PICK w : w = Entry(t, o)
  OBVIOUS
<1>6. w = [n \in 1 .. MAXPROC |-> IF n = 1 THEN h ELSE Onward(t, w[n - 1])]
  BY <1>4, <1>5, Zenon DEF Entry, Onward
<1>7. w[1] = h /\ \A n \in 2 .. MAXPROC : w[n] = Onward(t, w[n - 1])
  <2> HIDE DEF h
  <2>1. \A n \in 1 .. MAXPROC : w[n] = IF n = 1 THEN h ELSE Onward(t, w[n - 1])
    BY <1>6
  <2> QED BY <1>1, <2>1
<1> QED BY <1>5, <1>7

\* The entries that the walk comes to.
Reach(t, o) == {Entry(t, o)[n] : n \in 1 .. MAXPROC} \ {NULL}

Forward(t) ==
  \A s \in Slot : t[s].nextSibling = NULL \/ (t[s].nextSibling \in Slot /\ t[s].nextSibling > s)

\* C is what the links lead to from h.
Chain(t, h, C) ==
  /\ C \subseteq Slot
  /\ h = NULL => C = {}
  /\ h # NULL => h \in C
  /\ \A s \in C : t[s].nextSibling \in C \union {NULL}
  /\ \A s \in C : s = h \/ \E r \in C : t[r].nextSibling = s

LEMMA NullIsNone == NULL \notin Slot /\ Slot \subseteq Nat
BY UserProcessAssumption DEF NULL, Slot

LEMMA ReachIsChain ==
  ASSUME NEW t, Forward(t), NEW o, t[o].children.head \in Pointer
  PROVE  Chain(t, t[o].children.head, Reach(t, o))
<1> DEFINE h == t[o].children.head
           e == Entry(t, o)
           R == Reach(t, o)
<1>0. MAXPROC \in Nat /\ MAXPROC >= 2
  BY UserProcessAssumption
<1>1. e[1] = h /\ \A n \in 2 .. MAXPROC : e[n] = Onward(t, e[n - 1])
  BY EntryIs
<1>2. R = {e[n] : n \in 1 .. MAXPROC} \ {NULL}
  BY DEF Reach
<1>3. h \in Pointer
  OBVIOUS
<1> HIDE DEF h, e, R
\* The n-th entry is at place n or above.
<1>4. \A n \in 1 .. MAXPROC : e[n] = NULL \/ (e[n] \in Slot /\ e[n] >= n - 1)
  <2> DEFINE Bad == {n \in 1 .. MAXPROC : ~(e[n] = NULL \/ (e[n] \in Slot /\ e[n] >= n - 1))}
  <2> SUFFICES ASSUME Bad # {} PROVE FALSE
    OBVIOUS
  <2>1. Bad \subseteq Nat
    BY <1>0
  <2> HIDE DEF Bad
  <2>2. PICK m \in Bad : \A k \in Bad : m <= k
    BY <2>1, LeastExists
  <2> USE DEF Bad
  <2>3. m \in 1 .. MAXPROC /\ ~(e[m] = NULL \/ (e[m] \in Slot /\ e[m] >= m - 1))
    OBVIOUS
  <2>4. m # 1
    BY <1>1, <1>3, <2>3, NullIsNone DEF Pointer
  <2>5. m - 1 \in 1 .. MAXPROC /\ m - 1 \notin Bad /\ m \in 2 .. MAXPROC
    BY <1>0, <2>2, <2>3, <2>4
  <2>6. e[m - 1] = NULL \/ (e[m - 1] \in Slot /\ e[m - 1] >= m - 2)
    BY <2>5
  <2>7. e[m] = Onward(t, e[m - 1])
    BY <1>1, <2>5
  <2>8. CASE e[m - 1] = NULL
    BY <2>3, <2>7, <2>8 DEF Onward
  <2>9. CASE e[m - 1] # NULL
    <3>1. e[m] = t[e[m - 1]].nextSibling /\ e[m - 1] \in Slot /\ e[m - 1] >= m - 2
      BY <2>6, <2>7, <2>9 DEF Onward
    <3>2. e[m] = NULL \/ (e[m] \in Slot /\ e[m] > e[m - 1])
      BY <3>1 DEF Forward
    <3>3. m \in Nat /\ e[m - 1] \in Nat
      <4>1. m \in Nat
        BY <2>1
      <4>2. e[m - 1] \in Nat
        BY <3>1, NullIsNone
      <4> QED BY <4>1, <4>2
    <3>4. ASSUME NEW x \in Nat, NEW y \in Nat, y >= m - 2, x > y PROVE x >= m - 1
      BY <3>3, <3>4
    <3>5. e[m] \in Slot => e[m] \in Nat
      BY NullIsNone
    <3> QED BY <2>3, <3>1, <3>2, <3>3, <3>4, <3>5
  <2> QED BY <2>8, <2>9
<1>5. R \subseteq Slot
  BY <1>2, <1>4
<1>6. h = NULL => R = {}
  <2> SUFFICES ASSUME h = NULL PROVE \A n \in 1 .. MAXPROC : e[n] = NULL
    BY <1>2
  <2> DEFINE Bad == {n \in 1 .. MAXPROC : e[n] # NULL}
  <2> SUFFICES ASSUME Bad # {} PROVE FALSE
    OBVIOUS
  <2>1. Bad \subseteq Nat
    BY <1>0
  <2> HIDE DEF Bad
  <2>2. PICK m \in Bad : \A k \in Bad : m <= k
    BY <2>1, LeastExists
  <2> USE DEF Bad
  <2>3. m \in 1 .. MAXPROC /\ e[m] # NULL /\ m # 1
    BY <1>1
  <2>4. m - 1 \in 1 .. MAXPROC /\ m - 1 \notin Bad /\ m \in 2 .. MAXPROC
    BY <1>0, <2>2, <2>3
  <2>5. e[m - 1] = NULL /\ e[m] = Onward(t, e[m - 1])
    BY <1>1, <2>4
  <2> QED BY <2>3, <2>5 DEF Onward
<1>7. h # NULL => h \in R
  BY <1>0, <1>1, <1>2
<1>8. ASSUME NEW s \in R PROVE t[s].nextSibling \in R \union {NULL}
  <2>1. PICK n \in 1 .. MAXPROC : s = e[n]
    BY <1>2
  <2>2. s \in Slot /\ s # NULL /\ s >= n - 1
    BY <1>2, <1>4, <1>5, <2>1
  <2>3. CASE n < MAXPROC
    <3>1. n + 1 \in 2 .. MAXPROC /\ n + 1 \in 1 .. MAXPROC /\ (n + 1) - 1 = n
      BY <1>0, <2>3
    <3>2. e[n + 1] = t[s].nextSibling
      BY <1>1, <2>1, <2>2, <3>1 DEF Onward
    <3> QED BY <1>2, <3>1, <3>2
  <2>4. CASE n = MAXPROC
    <3>1. t[s].nextSibling = NULL \/ (t[s].nextSibling \in Slot /\ t[s].nextSibling > s)
      BY <2>2 DEF Forward
    <3>2. ~(t[s].nextSibling \in Slot /\ t[s].nextSibling > s)
      BY <1>0, <2>2, <2>4 DEF Slot
    <3> QED BY <3>1, <3>2
  <2> QED BY <1>0, <2>3, <2>4
<1>9. ASSUME NEW s \in R PROVE s = h \/ \E r \in R : t[r].nextSibling = s
  <2>1. PICK n \in 1 .. MAXPROC : s = e[n]
    BY <1>2
  <2>2. CASE n = 1
    BY <1>1, <2>1, <2>2
  <2>3. CASE n # 1
    <3>1. n - 1 \in 1 .. MAXPROC /\ n \in 2 .. MAXPROC
      BY <1>0, <2>3
    <3>2. s = Onward(t, e[n - 1]) /\ s # NULL
      BY <1>1, <1>2, <2>1, <3>1
    <3>3. e[n - 1] # NULL /\ s = t[e[n - 1]].nextSibling
      BY <3>2 DEF Onward
    <3>4. e[n - 1] \in R
      BY <1>2, <3>1, <3>3
    <3> QED BY <3>3, <3>4
  <2> QED BY <2>2, <2>3
<1> QED BY <1>5, <1>6, <1>7, <1>8, <1>9 DEF Chain, h, R

\* There is one chain.
LEMMA ChainWithin ==
  ASSUME NEW t, Forward(t), NEW h, NEW C, NEW D, Chain(t, h, C), Chain(t, h, D)
  PROVE  C \subseteq D
<1> SUFFICES ASSUME C \ D # {} PROVE FALSE
  OBVIOUS
<1>1. C \ D \subseteq Nat
  BY NullIsNone DEF Chain
<1>2. PICK s \in C \ D : \A r \in C \ D : s <= r
  BY <1>1, LeastExists
<1>3. s # h
  BY <1>2 DEF Chain
<1>4. PICK r \in C : t[r].nextSibling = s
  BY <1>2, <1>3 DEF Chain
<1>5. r \in Slot /\ s \in Slot /\ s > r
  BY <1>2, <1>4, NullIsNone DEF Chain, Forward
<1>6. r \in D
  <2>1. r \in Nat /\ s \in Nat /\ ~(s <= r)
    BY <1>5, NullIsNone
  <2>2. r \notin C \ D
    BY <1>2, <2>1
  <2> QED BY <1>4, <2>2
<1>7. s \in D \union {NULL}
  BY <1>4, <1>6 DEF Chain
<1> QED BY <1>2, <1>5, <1>7, NullIsNone

LEMMA ChainUnique ==
  ASSUME NEW t, Forward(t), NEW h, NEW C, NEW D, Chain(t, h, C), Chain(t, h, D)
  PROVE  C = D
<1>1. C \subseteq D
  BY ChainWithin
<1>2. D \subseteq C
  BY ChainWithin
<1> QED BY <1>1, <1>2

\* The first is the lowest, and the next of an entry the next higher one.
LEMMA ChainOrder ==
  ASSUME NEW t, Forward(t), NEW h, NEW C, Chain(t, h, C)
  PROVE  /\ \A s \in C : h # NULL /\ h \in C /\ h <= s
         /\ \A r, s \in C : r < s => /\ t[r].nextSibling \in C /\ t[r].nextSibling > r
                                     /\ t[r].nextSibling <= s
<1>1. C \subseteq Nat /\ C \subseteq Slot
  BY NullIsNone DEF Chain
<1>2. ASSUME NEW s \in C PROVE h # NULL /\ h \in C /\ h <= s
  <2>1. h # NULL /\ h \in C
    BY DEF Chain
  <2> DEFINE Bad == {x \in C : ~(h <= x)}
  <2> SUFFICES ASSUME Bad # {} PROVE FALSE
    BY <2>1
  <2>2. Bad \subseteq Nat
    BY <1>1
  <2> HIDE DEF Bad
  <2>3. PICK x \in Bad : \A y \in Bad : x <= y
    BY <2>2, LeastExists
  <2> USE DEF Bad
  <2>4. x \in C /\ ~(h <= x)
    OBVIOUS
  <2>5. x # h
    BY <1>1, <2>4
  <2>6. PICK r \in C : t[r].nextSibling = x
    BY <2>4, <2>5 DEF Chain
  <2>7. x > r
    BY <1>1, <2>4, <2>6, NullIsNone DEF Forward
  <2>8. r \notin Bad
    BY <1>1, <2>3, <2>4, <2>7
  <2> QED BY <1>1, <2>1, <2>4, <2>7, <2>8
<1>3. ASSUME NEW q \in C, NEW p \in C, q < p
      PROVE  t[q].nextSibling \in C /\ t[q].nextSibling > q /\ t[q].nextSibling <= p
  <2> DEFINE Ok(r, s) == t[r].nextSibling \in C /\ t[r].nextSibling > r /\ t[r].nextSibling <= s
             Bad == {s \in C : \E r \in C : r < s /\ ~Ok(r, s)}
  <2> SUFFICES ASSUME Bad # {} PROVE FALSE
    BY <1>3
  <2>1. Bad \subseteq Nat
    BY <1>1
  <2> HIDE DEF Bad
  <2>2. PICK s \in Bad : \A y \in Bad : s <= y
    BY <2>1, LeastExists
  <2> USE DEF Bad
  <2>3. PICK r \in C : r < s /\ ~Ok(r, s)
    OBVIOUS
  <2>4. s \in C /\ s # h
    BY <1>1, <1>2, <2>3
  <2>5. PICK x \in C : t[x].nextSibling = s
    BY <2>4 DEF Chain
  <2>6. x < s /\ x \in Nat /\ r \in Nat /\ s \in Nat
    BY <1>1, <2>4, <2>5, NullIsNone DEF Forward
  <2>7. CASE x = r
    BY <2>3, <2>4, <2>5, <2>6, <2>7
  <2>8. CASE r < x
    <3>1. x \notin Bad
      BY <2>2, <2>6
    <3>2. Ok(r, x)
      BY <2>8, <3>1
    <3>3. t[r].nextSibling \in Nat
      BY <1>1, <3>2
    <3> QED BY <2>3, <2>6, <3>2, <3>3
  <2>9. CASE x < r
    <3>1. r \notin Bad
      BY <2>2, <2>3, <2>6
    <3>2. Ok(x, r)
      BY <2>9, <3>1
    <3> QED BY <2>3, <2>5, <2>6, <3>2
  <2> QED BY <2>6, <2>7, <2>8, <2>9
<1> QED BY <1>2, <1>3

LEMMA ReachIs ==
  ASSUME NEW t, Forward(t), NEW o, t[o].children.head \in Pointer,
         NEW C, Chain(t, t[o].children.head, C)
  PROVE  Reach(t, o) = C
BY ReachIsChain, ChainUnique

\* The walk sees the first entry and the links on its way, and nothing else.
LEMMA ReachSame ==
  ASSUME NEW t, NEW u, Forward(t), Forward(u), NEW o, t[o].children.head \in Pointer,
         u[o].children.head = t[o].children.head,
         \A s \in Reach(t, o) : u[s].nextSibling = t[s].nextSibling
  PROVE  Reach(u, o) = Reach(t, o)
<1>1. Chain(t, t[o].children.head, Reach(t, o))
  BY ReachIsChain
<1>2. Chain(u, u[o].children.head, Reach(t, o))
  BY <1>1 DEF Chain
<1> QED BY <1>2, ReachIs

-----------------------------------------------------------------------------
(***************************************************************************)
(* What the operations on a list do to the pointers.                       *)
(***************************************************************************)

\* The lists of the other entries, and all links but that of one entry, stay.
Elsewhere(t, u, o, l) ==
  \A s \in Slot : /\ s # o => u[s].children = t[s].children
                  /\ s # l => u[s].nextSibling = t[s].nextSibling
                  /\ u[s].parent = t[s].parent

\* u is t with another list at o.
Relisted(t, u, o, q) == u[o].children = q /\ Elsewhere(t, u, o, NULL)

LEMMA ListSet ==
  ASSUME NEW t \in Table, NEW o \in Slot, NEW q
  PROVE  Relisted(t, [t EXCEPT ![o].children = q], o, q)
BY DEF Table, Elsewhere, Relisted

\* u is t with another link at l.
Relinked(t, u, l, c) ==
  /\ l \in Slot => u[l].nextSibling = c
  /\ \A s \in Slot : /\ s # l => u[s].nextSibling = t[s].nextSibling
                     /\ u[s].children = t[s].children /\ u[s].parent = t[s].parent

LEMMA NextSet ==
  ASSUME NEW t \in Table, NEW l, NEW c
  PROVE  Relinked(t, [t EXCEPT ![l].nextSibling = c], l, c)
BY DEF Table, Relinked

\* q is a list of these fields.
IsList(q, h, l, n, ty) ==
  q \in Queue /\ q.head = h /\ q.tail = l /\ q.size = n /\ q.type = ty

LEMMA QueueFields ==
  ASSUME NEW q \in Queue, NEW h \in Pointer, NEW l \in Pointer, NEW n \in Int
  PROVE  /\ IsList(q, q.head, q.tail, q.size, q.type)
         /\ IsList([q EXCEPT !.head = h], h, q.tail, q.size, q.type)
         /\ IsList([q EXCEPT !.tail = l, !.size = n], q.head, l, n, q.type)
         /\ IsList([q EXCEPT !.size = n], q.head, q.tail, n, q.type)
         /\ IsList([q EXCEPT !.head = h, !.tail = l, !.size = n], h, l, n, q.type)
BY DEF Queue, IsList

LEMMA EnqDoes ==
  ASSUME NEW t \in Table, NEW o \in Slot, NEW c \in Slot, t[o].children.type = "CHILDREN",
         NEW h, NEW l, NEW u, u = enq3(t, o, c), NEW q, q = t[o].children,
         h = (IF q.head = NULL /\ q.tail = NULL THEN c ELSE q.head),
         l = (IF q.head = NULL /\ q.tail = NULL THEN NULL ELSE q.tail)
  PROVE  /\ IsList(u[o].children, h, c, q.size + 1, "CHILDREN")
         /\ Elsewhere(t, u, o, l)
         /\ l \in Slot => u[l].nextSibling = c
<1> DEFINE v == IF q.head = NULL /\ q.tail = NULL
                THEN [t EXCEPT ![o].children.head = c]
                ELSE [t EXCEPT ![q.tail].nextSibling = c]
           w == [v EXCEPT ![o].children.tail = c, ![o].children.size = @ + 1]
<1>0. /\ q \in Queue /\ c \in Pointer /\ NULL \notin Slot
      /\ h \in Pointer /\ q.tail \in Pointer /\ q.size \in Int /\ q.type = "CHILDREN"
  BY QueueOf, NullIsNone DEF Pointer, Queue
<1>1. /\ v \in Table /\ IsList(v[o].children, h, q.tail, q.size, "CHILDREN")
      /\ Elsewhere(t, v, o, l)
      /\ l \in Slot => v[l].nextSibling = c
  <2>1. CASE q.head = NULL /\ q.tail = NULL
    <3> DEFINE r == [q EXCEPT !.head = c]
    <3>1. r \in Queue
      BY <1>0, QueueChanged
    <3>2. v = [t EXCEPT ![o].children = r]
      BY <2>1
    <3>3. IsList(r, c, q.tail, q.size, "CHILDREN")
      BY <1>0, QueueFields
    <3> HIDE DEF r, v
    <3>4. v \in Table
      BY <3>1, <3>2, ChildrenSet DEF Keeps
    <3>5. v[o].children = r /\ Elsewhere(t, v, o, NULL)
      <4>1. Relisted(t, v, o, r)
        BY <3>2, ListSet
      <4> QED BY <4>1 DEF Relisted
    <3> QED BY <1>0, <2>1, <3>3, <3>4, <3>5
  <2>2. CASE ~(q.head = NULL /\ q.tail = NULL)
    <3>1. v = [t EXCEPT ![l].nextSibling = c] /\ l = q.tail
      BY <2>2
    <3>2. IsList(q, h, q.tail, q.size, "CHILDREN")
      BY <1>0, <2>2 DEF IsList
    <3> HIDE DEF v
    <3>3. v \in Table
      BY <1>0, <3>1, LinkSet DEF Keeps
    <3>4. Relinked(t, v, l, c)
      BY <3>1, NextSet
    <3> QED BY <3>2, <3>3, <3>4 DEF Elsewhere, Relinked
  <2> QED BY <2>1, <2>2
<1>2. u = w
  BY DEF enq3
<1> HIDE DEF v
<1> DEFINE p == v[o].children
           r == [p EXCEPT !.tail = c, !.size = @ + 1]
<1>3. w = [v EXCEPT ![o].children = r]
  BY <1>1
<1>4. IsList(r, h, c, q.size + 1, "CHILDREN")
  <2>1. p \in Queue /\ p.head = h /\ p.size = q.size /\ p.type = "CHILDREN"
    BY <1>1 DEF IsList
  <2> DEFINE n == p.size + 1
  <2>2. n \in Int /\ n = q.size + 1
    BY <1>0, <2>1
  <2>3. r = [p EXCEPT !.tail = c, !.size = n]
    OBVIOUS
  <2> HIDE DEF p, n, r
  <2>4. IsList([p EXCEPT !.tail = c, !.size = n], p.head, c, n, p.type)
    BY <1>0, <2>1, <2>2, QueueFields
  <2> QED BY <2>1, <2>2, <2>3, <2>4
<1> HIDE DEF r, w
<1>5. w[o].children = r /\ Elsewhere(v, w, o, NULL)
  <2>1. Relisted(v, w, o, r)
    BY <1>1, <1>3, ListSet
  <2> QED BY <2>1 DEF Relisted
<1>6. Elsewhere(t, w, o, l) /\ (l \in Slot => w[l].nextSibling = c)
  BY <1>0, <1>1, <1>5 DEF Elsewhere
<1> QED BY <1>2, <1>4, <1>5, <1>6

LEMMA DeqDoes ==
  ASSUME NEW t \in Table, NEW o \in Slot, NEW u, u = deq3(t, o),
         NEW q, q = t[o].children, q.head # NULL,
         NEW h, h = (IF q.head = q.tail THEN NULL ELSE t[q.head].nextSibling),
         NEW l, l = (IF q.head = q.tail THEN NULL ELSE q.tail)
  PROVE  IsList(u[o].children, h, l, q.size - 1, q.type) /\ Elsewhere(t, u, o, NULL)
<1> DEFINE v == [q EXCEPT !.head = h, !.tail = l, !.size = @ - 1]
           n == q.size - 1
<1>1. q \in Queue /\ n \in Int
  BY QueueOf DEF Queue
<1>2. h \in Pointer /\ l \in Pointer
  <2>1. q.head \in Slot /\ q.tail \in Pointer /\ NULL \in Pointer
    BY <1>1 DEF Queue, Pointer
  <2> QED BY <2>1, QueueOf
<1>3. u = [t EXCEPT ![o].children = v]
  BY DEF deq3
<1>4. IsList(v, h, l, n, q.type)
  <2>1. v = [q EXCEPT !.head = h, !.tail = l, !.size = n]
    OBVIOUS
  <2> HIDE DEF n, v
  <2> QED BY <1>1, <1>2, <2>1, QueueFields
<1> HIDE DEF v
<1>5. u[o].children = v /\ Elsewhere(t, u, o, NULL)
  <2>1. Relisted(t, u, o, v)
    BY <1>3, ListSet
  <2> QED BY <2>1 DEF Relisted
<1> QED BY <1>4, <1>5

LEMMA HeadPointer ==
  ASSUME NEW t \in Table, NEW o \in Slot
  PROVE  t[o].children.head \in Pointer /\ t[o].children.tail \in Pointer
BY QueueOf DEF Queue

\* A link in another list changes nothing of this one.
LEMMA ReachElsewhere ==
  ASSUME NEW t \in Table, NEW u, Forward(t), Forward(u), NEW o, NEW l, Elsewhere(t, u, o, l),
         NEW p \in Slot, p # o, l \notin Reach(t, p)
  PROVE  Reach(u, p) = Reach(t, p)
<1>1. u[p].children = t[p].children
  BY DEF Elsewhere
<1>2. t[p].children.head \in Pointer
  BY HeadPointer
<1>3. Reach(t, p) \subseteq Slot
  BY <1>2, ReachIsChain DEF Chain
<1>4. \A s \in Reach(t, p) : u[s].nextSibling = t[s].nextSibling
  BY <1>3 DEF Elsewhere
<1> QED BY <1>1, <1>2, <1>4, ReachSame

\* An entry has one before it.
LEMMA ChainBefore ==
  ASSUME NEW t, Forward(t), NEW h, NEW C, Chain(t, h, C),
         NEW r \in C, NEW s \in C, t[r].nextSibling = t[s].nextSibling, t[s].nextSibling # NULL
  PROVE  r = s
<1>1. r \in Nat /\ s \in Nat
  BY NullIsNone DEF Chain
<1>2. /\ t[s].nextSibling \in Nat /\ t[s].nextSibling > s /\ t[s].nextSibling > r
  BY NullIsNone DEF Chain, Forward
<1>3. ~(r < s) /\ ~(s < r)
  BY <1>1, <1>2, ChainOrder
<1> QED BY <1>1, <1>3

LEMMA DeqReach ==
  ASSUME NEW t \in Table, Forward(t), NEW o \in Slot, NEW u, u = deq3(t, o),
         NEW q, q = t[o].children, q.head # NULL
  PROVE  /\ Forward(u)
         /\ Reach(u, o) = IF q.head = q.tail THEN {} ELSE Reach(t, o) \ {q.head}
         /\ \A p \in Slot \ {o} : Reach(u, p) = Reach(t, p)
<1> DEFINE R == Reach(t, o)
           h == q.head
           n == t[h].nextSibling
<1>1. /\ u[o].children.head = (IF h = q.tail THEN NULL ELSE n)
      /\ Elsewhere(t, u, o, NULL)
  BY DeqDoes DEF IsList
<1>2. \A s \in Slot : u[s].nextSibling = t[s].nextSibling
  BY <1>1, NullIsNone DEF Elsewhere
<1>3. Forward(u)
  BY <1>2 DEF Forward
<1>4. Chain(t, h, R)
  BY HeadPointer, ReachIsChain
<1>5. R \subseteq Slot /\ h \in R /\ n \in R \union {NULL} /\ h \in Nat
  BY <1>4, NullIsNone DEF Chain
<1> HIDE DEF R
<1>6. Reach(u, o) = IF h = q.tail THEN {} ELSE R \ {h}
  <2>1. CASE h = q.tail
    <3>1. Chain(u, u[o].children.head, {})
      BY <1>1, <2>1 DEF Chain
    <3> QED BY <1>1, <1>3, <2>1, <3>1, ReachIs DEF Pointer
  <2>2. CASE h # q.tail
    <3>1. \A s \in R : h <= s /\ (h < s => n \in R /\ n > h /\ n <= s)
      BY <1>4, <1>5, ChainOrder
    <3>2. ASSUME NEW s \in R \ {h} PROVE n \in R /\ n # NULL /\ n # h
      <4>1. s \in Nat /\ h <= s /\ s # h
        BY <1>5, <3>1, NullIsNone
      <4>2. n \in R /\ n > h
        BY <1>5, <3>1, <4>1
      <4>3. n \in Slot
        BY <1>5, <4>2
      <4> HIDE DEF n, h
      <4> QED BY <1>5, <4>2, <4>3, NullIsNone
    <3>3. n # NULL => n > h
      BY <1>5, NullIsNone DEF Forward
    <3>4. ASSUME NEW s \in R \ {h} PROVE u[s].nextSibling \in (R \ {h}) \union {NULL}
      <4>1. t[s].nextSibling \in R \union {NULL} /\ u[s].nextSibling = t[s].nextSibling
        BY <1>2, <1>4, <1>5 DEF Chain
      <4>2. t[s].nextSibling # NULL => t[s].nextSibling > s
        BY <1>5 DEF Forward
      <4>3. s \in Nat /\ h <= s
        BY <1>5, <3>1, NullIsNone
      <4> QED BY <1>5, <4>1, <4>2, <4>3
    <3>5. ASSUME NEW s \in R \ {h} PROVE s = n \/ \E r \in R \ {h} : u[r].nextSibling = s
      <4>1. PICK r \in R : t[r].nextSibling = s
        BY <1>4 DEF Chain
      <4> QED BY <1>2, <1>5, <4>1
    <3>6. Chain(u, n, R \ {h})
      <4>1. R \ {h} \subseteq Slot
        BY <1>5
      <4>2. n = NULL => R \ {h} = {}
        BY <3>2
      <4>3. n # NULL => n \in R \ {h}
        BY <1>5, <3>3
      <4> QED BY <3>4, <3>5, <4>1, <4>2, <4>3 DEF Chain
    <3>7. n \in Pointer /\ u[o].children.head = n
      BY <1>1, <1>5, <2>2 DEF Pointer
    <3> QED BY <1>3, <2>2, <3>6, <3>7, ReachIs
  <2> QED BY <2>1, <2>2
<1>7. ASSUME NEW p \in Slot \ {o} PROVE Reach(u, p) = Reach(t, p)
  <2>1. NULL \notin Reach(t, p)
    BY DEF Reach
  <2> QED BY <1>1, <1>3, <2>1, ReachElsewhere
<1> QED BY <1>3, <1>6, <1>7 DEF R

\* A new entry gets into reach if the last one is.
LEMMA EnqReach ==
  ASSUME NEW t \in Table, Forward(t), NEW o \in Slot, NEW c \in Slot, NEW u, u = enq3(t, o, c),
         NEW q, q = t[o].children, q.type = "CHILDREN",
         t[c].nextSibling = NULL, q.tail = NULL \/ q.tail < c, NEW R, R = Reach(t, o)
  PROVE  /\ Forward(u)
         /\ Reach(u, o) = IF q.head = NULL /\ q.tail = NULL THEN {c}
                          ELSE IF q.tail \in R THEN {s \in R : s <= q.tail} \union {c}
                          ELSE R
         /\ \A p \in Slot \ {o} : q.tail \notin Reach(t, p) => Reach(u, p) = Reach(t, p)
<1> DEFINE h == IF q.head = NULL /\ q.tail = NULL THEN c ELSE q.head
           l == IF q.head = NULL /\ q.tail = NULL THEN NULL ELSE q.tail
<1>0. c \in Nat /\ NULL \notin Slot /\ c # NULL /\ Slot \subseteq Nat
  BY NullIsNone
<1>1. /\ u[o].children.head = h /\ Elsewhere(t, u, o, l)
      /\ l \in Slot => u[l].nextSibling = c
  BY EnqDoes DEF IsList
<1>2. \A s \in Slot : u[s].nextSibling = IF s = l THEN c ELSE t[s].nextSibling
  BY <1>1 DEF Elsewhere
<1>3. l = NULL \/ l < c
  OBVIOUS
<1>4. Forward(u)
  BY <1>0, <1>2, <1>3 DEF Forward
<1>5. Chain(t, q.head, R) /\ q.head \in Pointer
  BY HeadPointer, ReachIsChain
<1>6. R \subseteq Slot /\ NULL \notin R
  BY <1>0, <1>5 DEF Chain
<1>7. CASE q.head = NULL /\ q.tail = NULL
  <2>1. u[c].nextSibling = NULL /\ h = c
    BY <1>0, <1>2, <1>7
  <2>2. Chain(u, h, {c})
    BY <1>0, <2>1 DEF Chain
  <2>3. Reach(u, o) = {c}
    BY <1>1, <1>4, <2>1, <2>2, ReachIs DEF Pointer
  <2>4. ASSUME NEW p \in Slot \ {o} PROVE Reach(u, p) = Reach(t, p)
    <3>1. NULL \notin Reach(t, p) /\ l = NULL
      BY <1>7 DEF Reach
    <3> QED BY <1>1, <1>4, <3>1, ReachElsewhere
  <2> QED BY <1>4, <1>7, <2>3, <2>4
<1>8. CASE ~(q.head = NULL /\ q.tail = NULL)
  <2>0. h = q.head /\ l = q.tail
    BY <1>8
  <2>1. ASSUME NEW p \in Slot \ {o}, q.tail \notin Reach(t, p) PROVE Reach(u, p) = Reach(t, p)
    BY <1>1, <1>4, <2>0, <2>1, ReachElsewhere
  <2>2. CASE q.tail \notin R
    <3>1. \A s \in R : u[s].nextSibling = t[s].nextSibling
      BY <1>2, <1>6, <2>0, <2>2
    <3> QED BY <1>1, <1>4, <1>5, <1>8, <2>0, <2>1, <2>2, <3>1, ReachSame
  <2>3. CASE q.tail \in R
    <3> DEFINE C == {s \in R : s <= q.tail} \union {c}
    <3> HIDE DEF h, l
    <3>1. q.tail \in Nat /\ q.tail # NULL /\ q.tail < c
      BY <1>0, <1>6, <2>3
    <3>2. /\ \A s \in R : q.head # NULL /\ q.head \in R /\ q.head <= s
          /\ \A r, s \in R : r < s => /\ t[r].nextSibling \in R /\ t[r].nextSibling > r
                                      /\ t[r].nextSibling <= s
      BY <1>5, ChainOrder
    <3>3. C \subseteq Slot /\ q.head # NULL /\ q.head \in C
      BY <1>6, <2>3, <3>2
    <3>4. ASSUME NEW s \in C PROVE u[s].nextSibling \in C \union {NULL}
      <4>1. CASE s = c
        BY <1>2, <2>0, <3>1, <4>1
      <4>2. CASE s = q.tail
        BY <1>2, <2>0, <3>3, <4>2
      <4>3. CASE s # c /\ s # q.tail
        <5>1. s \in R /\ s < q.tail
          BY <1>0, <1>6, <3>1, <4>3
        <5>2. t[s].nextSibling \in R /\ t[s].nextSibling <= q.tail
          BY <2>3, <3>2, <5>1
        <5> QED BY <1>2, <1>6, <2>0, <4>3, <5>1, <5>2
      <4> QED BY <4>1, <4>2, <4>3
    <3>5. ASSUME NEW s \in C PROVE s = q.head \/ \E r \in C : u[r].nextSibling = s
      <4>1. CASE s = c
        <5>1. q.tail \in C /\ u[q.tail].nextSibling = c
          BY <1>2, <1>6, <2>0, <2>3, <3>1
        <5> QED BY <4>1, <5>1
      <4>2. CASE s # c /\ s # q.head
        <5>1. s \in R /\ s <= q.tail
          BY <4>2
        <5>2. PICK r \in R : t[r].nextSibling = s
          BY <1>5, <4>2, <5>1 DEF Chain
        <5>3. r \in Nat /\ s \in Nat /\ r < s
          BY <1>0, <1>6, <5>1, <5>2 DEF Forward
        <5>4. r < q.tail
          BY <3>1, <5>1, <5>3
        <5>5. r \in C /\ r # q.tail /\ r \in Slot
          BY <1>6, <3>1, <5>3, <5>4
        <5> QED BY <1>2, <2>0, <5>2, <5>5
      <4> QED BY <4>1, <4>2
    <3>6. Chain(u, q.head, C)
      <4> HIDE DEF C
      <4> QED BY <3>3, <3>4, <3>5 DEF Chain
    <3>7. Reach(u, o) = C
      <4> HIDE DEF C
      <4> QED BY <1>1, <1>4, <1>5, <2>0, <3>6, ReachIs
    <3> QED BY <1>4, <1>8, <2>1, <2>3, <3>7
  <2> QED BY <2>2, <2>3
<1> QED BY <1>7, <1>8

\* The walk of removeChild3 stops at an entry before c if c is in reach.
LEMMA BeforeIs ==
  ASSUME NEW t \in Table, Forward(t), NEW o \in Slot, NEW c \in Slot
  PROVE  /\ Before(t, o, c) = {s \in Reach(t, o) : t[s].nextSibling = c}
         /\ c \in Reach(t, o) /\ t[o].children.head # c => Before(t, o, c) # {}
         /\ c \notin Reach(t, o) => Before(t, o, c) = {} /\ t[o].children.head # c
<1>1. Chain(t, t[o].children.head, Reach(t, o))
  BY HeadPointer, ReachIsChain
<1>2. c # NULL /\ NULL \notin Slot
  BY NullIsNone
<1>3. Before(t, o, c) = {s \in Reach(t, o) : t[s].nextSibling = c}
  <2>1. Reach(t, o) \subseteq Slot
    BY <1>1 DEF Chain
  <2>2. \A s \in Slot : s \in Reach(t, o) <=> \E n \in 1 .. MAXPROC : Entry(t, o)[n] = s
    BY <1>2 DEF Reach
  <2> QED BY <2>1, <2>2 DEF Before
<1> QED BY <1>1, <1>2, <1>3 DEF Chain

\* A child that has been taken off to be zapped is not found.
LEMMA RemoveNone ==
  ASSUME NEW t \in Table, Forward(t), NEW o \in Slot, NEW c \in Slot, c \notin Reach(t, o)
  PROVE  removeChild3(t, o, c) = t /\ ~InMiddle(t, o, c)
<1>1. Before(t, o, c) = {} /\ t[o].children.head # c
  BY BeforeIs
<1> QED BY <1>1, Zenon DEF removeChild3, InMiddle

LEMMA RemoveFirst ==
  ASSUME NEW t, NEW o, NEW c \in Slot, t[o].children.head = c, t[o].children.type = "CHILDREN"
  PROVE  removeChild3(t, o, c) = deq3(t, o) /\ ~InMiddle(t, o, c)
<1>1. c # NULL
  BY NullIsNone
<1> QED BY <1>1, Zenon DEF removeChild3, InMiddle

\* The last child leaves: its entry stays in reach.
LEMMA RemoveLast ==
  ASSUME NEW t \in Table, Forward(t), NEW o \in Slot, NEW c \in Slot, NEW q, q = t[o].children,
         q.type = "CHILDREN", c \in Reach(t, o), q.head # c, q.tail = c,
         NEW u, u = removeChild3(t, o, c)
  PROVE  /\ ~InMiddle(t, o, c) /\ Forward(u) /\ Elsewhere(t, u, o, NULL)
         /\ \E b \in Reach(t, o) : /\ t[b].nextSibling = c
                                   /\ IsList(u[o].children, q.head, b, q.size - 1, "CHILDREN")
         /\ \A p \in Slot : Reach(u, p) = Reach(t, p)
<1> DEFINE b == CHOOSE s \in Before(t, o, c) : TRUE
           n == q.size - 1
           v == [q EXCEPT !.tail = b, !.size = @ - 1]
<1>1. Chain(t, q.head, Reach(t, o)) /\ NULL \notin Slot
  BY HeadPointer, ReachIsChain, NullIsNone
<1>2. q.head # NULL /\ Before(t, o, c) # {}
  BY <1>1, BeforeIs DEF Chain
<1>3. u = [t EXCEPT ![o].children = v]
  BY <1>2, Zenon DEF removeChild3
<1>4. b \in Before(t, o, c)
  BY <1>2
<1>5. b \in Reach(t, o) /\ t[b].nextSibling = c /\ b \in Pointer
  <2>1. b \in Reach(t, o) /\ t[b].nextSibling = c
    <3> HIDE DEF b
    <3> QED BY <1>4, BeforeIs
  <2> QED BY <1>1, <2>1 DEF Chain, Pointer
<1>6. IsList(v, q.head, b, n, "CHILDREN")
  <2>1. q \in Queue /\ q.head \in Pointer /\ n \in Int
    BY QueueOf DEF Queue
  <2>2. v = [q EXCEPT !.tail = b, !.size = n]
    OBVIOUS
  <2> HIDE DEF b, n, v
  <2> QED BY <1>5, <2>1, <2>2, QueueFields
<1> HIDE DEF b, v
<1>7. u[o].children = v /\ Elsewhere(t, u, o, NULL)
  <2>1. Relisted(t, u, o, v)
    BY <1>3, ListSet
  <2> QED BY <2>1 DEF Relisted
<1>8. \A s \in Slot : u[s].nextSibling = t[s].nextSibling
  BY <1>1, <1>7 DEF Elsewhere
<1>9. Forward(u)
  BY <1>8 DEF Forward
<1>10. ASSUME NEW p \in Slot PROVE Reach(u, p) = Reach(t, p)
  <2>1. u[p].children.head = t[p].children.head /\ t[p].children.head \in Pointer
    BY <1>6, <1>7, HeadPointer DEF Elsewhere, IsList
  <2>2. Reach(t, p) \subseteq Slot
    BY <2>1, ReachIsChain DEF Chain
  <2> QED BY <1>8, <1>9, <2>1, <2>2, ReachSame
<1>11. ~InMiddle(t, o, c)
  BY DEF InMiddle
<1>12. \E x \in Reach(t, o) : /\ t[x].nextSibling = c
                              /\ IsList(u[o].children, q.head, x, q.size - 1, "CHILDREN")
  BY <1>5, <1>6, <1>7
<1> QED BY <1>7, <1>9, <1>10, <1>11, <1>12

\* A child in the middle leaves, and the entry after it is not in reach either.
LEMMA RemoveMiddle ==
  ASSUME NEW t \in Table, Forward(t), NEW o \in Slot, NEW c \in Slot, NEW q, q = t[o].children,
         q.type = "CHILDREN", c \in Reach(t, o), q.head # c, q.tail # c,
         NEW u, u = removeChild3(t, o, c), NEW n, n = t[c].nextSibling
  PROVE  /\ InMiddle(t, o, c)
         /\ n # NULL =>
              /\ Forward(u) /\ IsList(u[o].children, q.head, q.tail, q.size - 1, "CHILDREN")
              /\ Reach(u, o) = Reach(t, o) \ {c, n}
              /\ \E b \in Reach(t, o) :
                   /\ t[b].nextSibling = c /\ Elsewhere(t, u, o, b)
                   /\ \A p \in Slot \ {o} : b \notin Reach(t, p) => Reach(u, p) = Reach(t, p)
<1> DEFINE b == CHOOSE s \in Before(t, o, c) : TRUE
           z == t[n].nextSibling
           m == q.size - 1
           R == Reach(t, o)
<1>1. Chain(t, q.head, R) /\ NULL \notin Slot /\ Slot \subseteq Nat
  BY HeadPointer, ReachIsChain, NullIsNone
<1>2. q.head # NULL /\ Before(t, o, c) # {}
  BY <1>1, BeforeIs DEF Chain
<1>3. InMiddle(t, o, c)
  BY <1>2 DEF InMiddle
<1>4. b \in R /\ t[b].nextSibling = c
  <2>1. b \in Before(t, o, c)
    BY <1>2
  <2> HIDE DEF b
  <2> QED BY <2>1, BeforeIs
<1> SUFFICES ASSUME n # NULL
             PROVE  /\ Forward(u) /\ IsList(u[o].children, q.head, q.tail, m, "CHILDREN")
                    /\ Reach(u, o) = R \ {c, n} /\ Elsewhere(t, u, o, b)
                    /\ \A p \in Slot \ {o} : b \notin Reach(t, p) => Reach(u, p) = Reach(t, p)
  BY <1>3, <1>4
<1> DEFINE v == [t EXCEPT ![b].nextSibling = z]
           w == [v EXCEPT ![o].children.size = @ - 1]
<1>5. u = w
  BY <1>2, Zenon DEF removeChild3
<1> HIDE DEF b
<1>6. n \in R /\ n \in Slot /\ n > c /\ b \in Slot /\ c > b
  BY <1>1, <1>4 DEF Chain, Forward
<1>7. z \in R \union {NULL} /\ z \in Pointer /\ (z # NULL => z > n)
  BY <1>1, <1>6 DEF Chain, Forward, Pointer
<1> HIDE DEF z, R, v
<1>8. v \in Table /\ Relinked(t, v, b, z)
  BY <1>7, LinkSet, NextSet DEF Keeps, v
<1>9. v[o].children = q
  BY <1>8 DEF Relinked
<1> DEFINE r == [q EXCEPT !.size = m]
<1>10. IsList(r, q.head, q.tail, m, "CHILDREN") /\ w = [v EXCEPT ![o].children = r]
  <2>1. q \in Queue /\ q.head \in Pointer /\ q.tail \in Pointer /\ m \in Int
    BY QueueOf DEF Queue
  <2>2. IsList(r, q.head, q.tail, m, q.type)
    <3> HIDE DEF m
    <3> QED BY <2>1, QueueFields
  <2>3. w = [v EXCEPT ![o].children = r]
    BY <1>8, <1>9
  <2> QED BY <2>2, <2>3
<1> HIDE DEF r, w, m
<1>11. Relisted(v, w, o, r)
  BY <1>8, <1>10, ListSet
<1>12. Elsewhere(t, u, o, b) /\ u[o].children = r
  BY <1>1, <1>5, <1>8, <1>11 DEF Elsewhere, Relisted, Relinked
<1>13. \A s \in Slot : u[s].nextSibling = IF s = b THEN z ELSE t[s].nextSibling
  BY <1>1, <1>5, <1>6, <1>8, <1>11 DEF Elsewhere, Relisted, Relinked
<1>14. Forward(u)
  <2>1. z = NULL \/ (z \in Slot /\ z > b)
    BY <1>1, <1>6, <1>7 DEF Pointer
  <2> QED BY <1>13, <2>1 DEF Forward
<1>15. Chain(u, q.head, R \ {c, n})
  <2>1. R \subseteq Slot /\ q.head \in R /\ c \in R
    BY <1>1, <1>2 DEF Chain, R
  <2>2. q.head # n /\ b # c /\ b # n /\ z # c /\ z # n
    <3>1. q.head <= c /\ q.head \in Nat
      BY <1>1, <2>1, ChainOrder
    <3> QED BY <1>1, <1>6, <1>7, <2>1, <3>1
  <2>3. ASSUME NEW s \in R \ {c, n} PROVE u[s].nextSibling \in (R \ {c, n}) \union {NULL}
    <3>1. CASE s = b
      BY <1>6, <1>7, <1>13, <2>2, <3>1
    <3>2. CASE s # b
      <4>1. u[s].nextSibling = t[s].nextSibling /\ t[s].nextSibling \in R \union {NULL}
        BY <1>1, <1>13, <2>1, <3>2 DEF Chain
      <4>2. t[s].nextSibling # c
        BY <1>1, <1>4, <2>1, <3>2, ChainBefore
      <4>3. t[s].nextSibling # n
        BY <1>1, <2>1, ChainBefore
      <4> QED BY <4>1, <4>2, <4>3
    <3> QED BY <3>1, <3>2
  <2>4. ASSUME NEW s \in R \ {c, n} PROVE s = q.head \/ \E x \in R \ {c, n} : u[x].nextSibling = s
    <3> SUFFICES ASSUME s # q.head PROVE \E x \in R \ {c, n} : u[x].nextSibling = s
      OBVIOUS
    <3>1. PICK x \in R : t[x].nextSibling = s
      BY <1>1 DEF Chain
    <3>2. x # c /\ x # b
      BY <1>4, <3>1
    <3>3. CASE x = n
      <4>1. s = z
        BY <3>1, <3>3 DEF z
      <4>2. u[b].nextSibling = s /\ b \in R \ {c, n}
        BY <1>4, <1>6, <1>13, <2>2, <4>1
      <4> QED BY <4>2
    <3>4. CASE x # n
      <4>1. u[x].nextSibling = s
        BY <1>13, <2>1, <3>1, <3>2
      <4> QED BY <3>2, <3>4, <4>1
    <3> QED BY <3>3, <3>4
  <2>5. R \ {c, n} \subseteq Slot /\ q.head # NULL /\ q.head \in R \ {c, n}
    BY <1>2, <2>1, <2>2
  <2> QED BY <2>3, <2>4, <2>5 DEF Chain
<1>16. IsList(u[o].children, q.head, q.tail, m, "CHILDREN")
  BY <1>10, <1>12
<1>17. Reach(u, o) = R \ {c, n}
  <2>1. u[o].children.head = q.head /\ q.head \in Pointer
    BY <1>16, HeadPointer DEF IsList
  <2> QED BY <1>14, <1>15, <2>1, ReachIs
<1>18. \A p \in Slot \ {o} : b \notin Reach(t, p) => Reach(u, p) = Reach(t, p)
  BY <1>12, <1>14, ReachElsewhere
<1> QED BY <1>12, <1>14, <1>16, <1>17, <1>18

-----------------------------------------------------------------------------
(***************************************************************************)
(* The invariant of the lists.  Part of it is about the processes: who is  *)
(* whose child, and how far they are.                                      *)
(***************************************************************************)
Typed ==
  /\ parentOf \in [Pid -> Pid] /\ zapped \subseteq Pid
  /\ halted \in BOOLEAN /\ midRemoved \in BOOLEAN
  /\ box \in [Pid -> MBox \union {NoBox}] /\ ran \in [Pid -> Func \union {NULL}]

\* The entry of c tells its parent.
Filled(c) == ProcTable3[c].pid = c /\ ProcTable3[c].parent = parentOf[c]

\* A parent is older than its child and lasts longer.
Parents ==
  \A c \in Pid \ {Start2} : pc[c] # "none" =>
    /\ parentOf[c] < c /\ (parentOf[c] = Start2 => c = Start3)
    /\ pc[parentOf[c]] \notin Launching \union {"none"}
    /\ pc[c] \notin Ended => pc[parentOf[c]] \notin Ended
    /\ Spawns(parentOf[c], c) \/ Filled(c)

Newest ==
  \A p, c \in Pid : Spawns(p, c) =>
    /\ c = lastPid /\ parentOf[c] = p
    /\ pc[p] = "S_send" => ProcTable3[c].parent = p

\* An entry belongs to the process of its number, and none to start2.
Entries ==
  /\ ProcTable3[Start2].pid = -1
  /\ \A s \in Slot :
       /\ ProcTable3[s].pid \in {-1, s}
       /\ ProcTable3[s].children.type = IF ProcTable3[s].pid = -1 THEN "BLOCKED" ELSE "CHILDREN"
       /\ ProcTable3[s].pid = -1 => ProcTable3[s].children.size \in Nat
  /\ \A p \in Pid : ProcTable3[p].pid = -1 => pc[p] \in Launching \union {"none"} \/ p = Start2

\* A process that has been zapped has ended, or its parent waits for that.
ZappedDone ==
  \A c \in zapped : pc[c] \in Ended \/ (pc[parentOf[c]] = "T_zap" /\ other[parentOf[c]] = c)

\* Nobody gets in between removeChild3 and quit.
TopAtQuit ==
  \A c \in Pid : pc[c] = "T_quit" => \A q \in Pid \ {c} : Ready(q) => priority[q] > priority[c]

Family == Typed /\ Parents /\ Newest /\ Entries /\ ZappedDone /\ TopAtQuit

\* While ~midRemoved:
LeavesLast ==
  ~midRemoved => \A p \in Pid : pc[p] \in {"T_remove", "T_quit"} => \A c \in Children(p) : pc[c] \in Ended

NotHalted == ~midRemoved => ~halted

\* The other part is about the lists.  Before S_enq the child is in no list.
Appends(p, c) == pc[p] = "S_enq" /\ other[p] = c

Unlinked ==
  \A c \in Pid : pc[c] = "none" \/ (\E p \in Pid : Appends(p, c)) => ProcTable3[c].nextSibling = NULL

\* The children that the list of p may lead to: those that have ended too.
Put(p) == {c \in Children(p) : c \notin zapped /\ ~Appends(p, c)}

\* R is in reach from the first entry h, l is the last entry and n the size of
\* a list that knows K, of the children P.  An entry leaves the reach only
\* if it is the first, so the known ones come first, up to the last entry.
\* A child that leaves from the middle (mid) takes another one along.
Sound(R, h, l, n, K, P, mid) ==
  /\ R \subseteq P /\ l \in P \union {NULL}
  /\ \A r, s \in R : r < s /\ s \in K => r \in K
  /\ l \in R => l \in K /\ \A s \in R : s > l => s \notin K
  /\ n \in Nat /\ n >= Cardinality(R \intersect K)
  /\ ~mid => /\ K \subseteq R /\ n = Cardinality(K)
             /\ h = NULL => l = NULL
             /\ h # NULL => l \in R

SoundList(p) ==
  LET q == ProcTable3[p].children
  IN  Sound(Reach(ProcTable3, p), q.head, q.tail, q.size, Known(p), Put(p), midRemoved)

Lists == \A p \in Pid \ {Start2} : ProcTable3[p].pid = p => SoundList(p)

ListInv == Family /\ LeavesLast /\ NotHalted /\ Forward(ProcTable3) /\ Unlinked /\ Lists

-----------------------------------------------------------------------------
(***************************************************************************)
(* What the operations make of a sound list.                               *)
(***************************************************************************)

LEMMA PidsFinite ==
  ASSUME NEW P, P \subseteq Pid
  PROVE  IsFiniteSet(P) /\ Cardinality(P) \in Nat /\ P \subseteq Nat
<1>1. IsFiniteSet(Pid) /\ Pid \subseteq Nat
  BY UserProcessAssumption, FS_Interval DEF Pid
<1> QED BY <1>1, FS_Subset, FS_CardinalityType

\* Only the known entries that are in reach count.
LEMMA CardMonotone ==
  ASSUME NEW S, NEW T, S \subseteq T, T \subseteq Pid
  PROVE  Cardinality(S) <= Cardinality(T) /\ Cardinality(S) \in Nat /\ Cardinality(T) \in Nat
<1>1. IsFiniteSet(T) /\ Cardinality(T) \in Nat /\ S \subseteq Pid
  BY PidsFinite
<1> QED BY <1>1, FS_Subset, PidsFinite

LEMMA CardAdd ==
  ASSUME NEW S, S \subseteq Pid, NEW c, c \notin S
  PROVE  Cardinality(S \union {c}) = Cardinality(S) + 1
<1>1. IsFiniteSet(S)
  BY PidsFinite
<1> QED BY <1>1, FS_AddElement

LEMMA CardRemove ==
  ASSUME NEW S, S \subseteq Pid, NEW c \in S
  PROVE  Cardinality(S \ {c}) = Cardinality(S) - 1
<1>1. IsFiniteSet(S)
  BY PidsFinite
<1> QED BY <1>1, FS_RemoveElement

LEMMA CardEmpty == Cardinality({}) = 0
BY FS_EmptySet

\* What enq3 leaves in reach: c is appended to the last entry l, or is the first.
Longer(R, h, l, c) ==
  IF h = NULL /\ l = NULL THEN {c} ELSE IF l \in R THEN {s \in R : s <= l} \union {c} ELSE R

FirstOf(h, l, c) == IF h = NULL /\ l = NULL THEN c ELSE h

LEMMA SoundAppend ==
  ASSUME NEW R, NEW h, NEW l, NEW n, NEW K, NEW P, NEW mid, Sound(R, h, l, n, K, P, mid),
         P \subseteq Pid, K \subseteq P, NEW c \in Pid, c \notin P, l = NULL \/ l < c,
         h = NULL => R = {}
  PROVE  Sound(Longer(R, h, l, c), FirstOf(h, l, c), c, n + 1, K \union {c}, P \union {c}, mid)
<1>a. PICK S, g : S = Longer(R, h, l, c) /\ g = FirstOf(h, l, c)
  OBVIOUS
<1>b. /\ S = (IF h = NULL /\ l = NULL THEN {c}
              ELSE IF l \in R THEN {s \in R : s <= l} \union {c} ELSE R)
      /\ g = (IF h = NULL /\ l = NULL THEN c ELSE h)
  BY <1>a DEF Longer, FirstOf
<1> USE <1>b
<1> DEFINE L == K \union {c}
<1>0. R \subseteq Nat /\ P \subseteq Nat /\ c \in Nat /\ c # NULL
  BY PidsFinite DEF Sound, NULL, Pid
<1>1. S \subseteq P \union {c} /\ S \subseteq R \union {c}
  BY DEF Sound
<1>2. ASSUME NEW r \in S, NEW s \in S, r < s, s \in L PROVE r \in L
  <2>1. CASE s = c
    <3>1. l \in R /\ r \in R /\ r <= l
      BY <1>0, <1>1, <1>2, <2>1 DEF Sound
    <3>2. r = l \/ r < l
      BY <1>0, <3>1
    <3> QED BY <3>1, <3>2 DEF Sound
  <2>2. CASE s # c
    <3>1. s \in R /\ s \in K
      BY <1>1, <1>2, <2>2
    <3>2. r \in R \/ r = c
      BY <1>1
    <3> QED BY <1>2, <3>1, <3>2 DEF Sound
  <2> QED BY <2>1, <2>2
<1>3. c \in S => c \in L /\ \A s \in S : s > c => s \notin L
  <2> SUFFICES ASSUME c \in S, NEW s \in S PROVE ~(s > c)
    OBVIOUS
  <2>1. c \notin R
    BY DEF Sound
  <2>2. s = c \/ (s \in R /\ l \in R /\ s <= l)
    BY <2>1
  <2>3. l \in R => l < c /\ l \in Nat
    BY <1>0, NullIsNone DEF NULL
  <2> QED BY <1>0, <2>2, <2>3
<1>4. n + 1 \in Nat /\ n + 1 >= Cardinality(S \intersect L)
  <2>1. S \intersect L \subseteq (R \intersect K) \union {c}
    BY <1>1
  <2>2. R \intersect K \subseteq Pid /\ c \notin R \intersect K
    OBVIOUS
  <2>3. /\ Cardinality(S \intersect L) \in Nat /\ Cardinality(R \intersect K) \in Nat
        /\ Cardinality(S \intersect L) <= Cardinality(R \intersect K) + 1
    <3>1. (R \intersect K) \union {c} \subseteq Pid
      BY <2>2
    <3>2. /\ Cardinality(S \intersect L) <= Cardinality((R \intersect K) \union {c})
          /\ Cardinality(S \intersect L) \in Nat
      BY <2>1, <3>1, CardMonotone
    <3>3. Cardinality((R \intersect K) \union {c}) = Cardinality(R \intersect K) + 1
      BY <2>2, CardAdd
    <3>4. Cardinality(R \intersect K) \in Nat
      BY <2>2, PidsFinite
    <3> QED BY <3>2, <3>3, <3>4
  <2>4. n \in Nat /\ n >= Cardinality(R \intersect K)
    BY DEF Sound
  <2> QED BY <2>3, <2>4
<1>5. ASSUME ~mid
      PROVE  L \subseteq S /\ n + 1 = Cardinality(L) /\ g # NULL /\ c \in S
  <2>1. K \subseteq R /\ n = Cardinality(K) /\ (h = NULL => l = NULL) /\ (h # NULL => l \in R)
    BY <1>5 DEF Sound
  <2>2. g # NULL /\ c \in S
    BY <1>0, <2>1
  <2>3. Cardinality(L) = n + 1
    BY <2>1, CardAdd
  <2>4. ASSUME NEW s \in K PROVE s \in S
    <3>1. s \in R /\ h # NULL /\ l \in R
      BY <2>1, <2>4
    <3>2. ~(s > l)
      BY <2>4, <3>1 DEF Sound
    <3>3. s <= l
      BY <1>0, <3>1, <3>2
    <3> QED BY <3>1, <3>3
  <2> QED BY <2>2, <2>3, <2>4
<1>6. Sound(S, g, c, n + 1, L, P \union {c}, mid)
  BY <1>1, <1>2, <1>3, <1>4, <1>5 DEF Sound
<1> QED BY <1>a, <1>6

\* The first entry is taken off; g is the next one.
LEMMA SoundTake ==
  ASSUME NEW R, NEW h, NEW l, NEW n, NEW K, NEW P, NEW mid, Sound(R, h, l, n, K, P, mid),
         P \subseteq Pid, K \subseteq P, h \in R, \A s \in R : h <= s, h \in K \/ n > 0,
         NEW g, g = NULL => \A s \in R : s = h, NEW Q, Q \subseteq P, P \ {h} \subseteq Q
  PROVE  Sound(IF h = l THEN {} ELSE R \ {h}, IF h = l THEN NULL ELSE g,
               IF h = l THEN NULL ELSE l, n - 1, K \ {h}, Q, mid)
<1> DEFINE S == IF h = l THEN {} ELSE R \ {h}
           m == IF h = l THEN NULL ELSE l
           f == IF h = l THEN NULL ELSE g
           L == K \ {h}
<1>0. R \subseteq Nat /\ P \subseteq Nat /\ NULL \notin Nat
  BY PidsFinite DEF Sound, NULL
<1>1. S \subseteq Q /\ m \in Q \union {NULL} /\ S \subseteq R
  BY DEF Sound
<1>2. \A r, s \in S : r < s /\ s \in L => r \in L
  BY DEF Sound
<1>3. m \in S => m \in L /\ \A s \in S : s > m => s \notin L
  BY <1>0, <1>1 DEF Sound
<1>4. h \notin K => R \intersect K = {}
  <2> SUFFICES ASSUME NEW s \in R, s \in K PROVE h \in K
    OBVIOUS
  <2>1. h = s \/ h < s
    BY <1>0
  <2> QED BY <2>1 DEF Sound
<1>5. n - 1 \in Nat /\ n - 1 >= Cardinality(S \intersect L)
  <2>1. R \intersect K \subseteq Pid /\ S \intersect L \subseteq (R \intersect K) \ {h}
    BY <1>1
  <2>2. n \in Nat /\ n >= Cardinality(R \intersect K)
    BY DEF Sound
  <2>3. CASE h \in K
    <3>1. Cardinality((R \intersect K) \ {h}) = Cardinality(R \intersect K) - 1
      BY <2>1, <2>3, CardRemove
    <3>2. /\ Cardinality(S \intersect L) <= Cardinality((R \intersect K) \ {h})
          /\ Cardinality(S \intersect L) \in Nat /\ Cardinality((R \intersect K) \ {h}) \in Nat
      <4>1. (R \intersect K) \ {h} \subseteq Pid
        BY <2>1
      <4> QED BY <2>1, <4>1, CardMonotone
    <3>3. Cardinality(R \intersect K) \in Nat
      BY <2>1, PidsFinite
    <3> QED BY <2>2, <3>1, <3>2, <3>3
  <2>4. CASE h \notin K
    <3>1. S \intersect L = {}
      BY <1>4, <2>1, <2>4
    <3> QED BY <2>2, <2>4, <3>1, CardEmpty
  <2> QED BY <2>3, <2>4
<1>6. ASSUME ~mid
      PROVE  /\ L \subseteq S /\ n - 1 = Cardinality(L)
             /\ f = NULL => m = NULL
             /\ f # NULL => m \in S
  <2>1. K \subseteq R /\ n = Cardinality(K) /\ l \in R
    BY <1>0, <1>6 DEF Sound
  <2>2. h \in K
    <3> SUFFICES ASSUME h \notin K PROVE FALSE
      OBVIOUS
    <3>1. K = {}
      BY <1>4, <2>1
    <3> QED BY <2>1, <3>1, CardEmpty
  <2>3. Cardinality(L) = n - 1
    BY <2>1, <2>2, CardRemove
  <2>4. L \subseteq S
    <3>1. CASE h # l
      BY <2>1, <3>1
    <3>2. CASE h = l
      <4> SUFFICES ASSUME NEW s \in K PROVE s = h
        OBVIOUS
      <4>1. s \in R /\ h <= s /\ ~(s > h)
        BY <2>1, <3>2 DEF Sound
      <4> QED BY <1>0, <4>1
    <3> QED BY <3>1, <3>2
  <2>5. f = NULL => m = NULL
    BY <2>1
  <2>6. f # NULL => m \in S
    BY <2>1
  <2> QED BY <2>3, <2>4, <2>5, <2>6
<1> HIDE DEF S, m, f, L
<1>7. Sound(S, f, m, n - 1, L, Q, mid)
  BY <1>1, <1>2, <1>3, <1>5, <1>6 DEF Sound
<1> QED BY <1>7 DEF S, f, m, L

\* The last entry leaves, b is the one before it.
LEMMA SoundLast ==
  ASSUME NEW R, NEW h, NEW l, NEW n, NEW K, NEW P, NEW mid, Sound(R, h, l, n, K, P, mid),
         P \subseteq Pid, K \subseteq P, l \in R, NEW b \in R, b < l, \A s \in R : s > b => s >= l
  PROVE  Sound(R, h, b, n - 1, K \ {l}, P, mid)
<1>0. R \subseteq Nat /\ P \subseteq Nat
  BY PidsFinite DEF Sound
<1>1. l \in K /\ b \in K /\ \A s \in R : s > l => s \notin K
  BY DEF Sound
<1>2. \A r, s \in R : r < s /\ s \in K \ {l} => r \in K \ {l}
  BY <1>0, <1>1 DEF Sound
<1>3. b \in K \ {l} /\ \A s \in R : s > b => s \notin K \ {l}
  BY <1>0, <1>1
<1>4. R \intersect K \subseteq Pid /\ R \intersect (K \ {l}) = (R \intersect K) \ {l}
  OBVIOUS
<1>5. Cardinality(R \intersect (K \ {l})) = Cardinality(R \intersect K) - 1
  BY <1>1, <1>4, CardRemove
<1>6. n - 1 \in Nat /\ n - 1 >= Cardinality(R \intersect (K \ {l}))
  <2>1. n \in Nat /\ n >= Cardinality(R \intersect K)
    BY DEF Sound
  <2>2. Cardinality(R \intersect (K \ {l})) \in Nat /\ Cardinality(R \intersect K) \in Nat
    BY <1>4, PidsFinite
  <2> QED BY <1>5, <2>1, <2>2
<1>7. ~mid => K \ {l} \subseteq R /\ n - 1 = Cardinality(K \ {l}) /\ h # NULL
  <2> SUFFICES ASSUME ~mid PROVE K \ {l} \subseteq R /\ n - 1 = Cardinality(K \ {l}) /\ h # NULL
    OBVIOUS
  <2>1. K \subseteq R /\ n = Cardinality(K)
    BY DEF Sound
  <2>2. h # NULL
    BY <1>0 DEF Sound, NULL
  <2> QED BY <1>1, <2>1, <2>2, CardRemove
<1> QED BY <1>2, <1>3, <1>6, <1>7 DEF Sound

\* An entry leaves from the middle, d is the one that it takes along.
LEMMA SoundMiddle ==
  ASSUME NEW R, NEW h, NEW l, NEW n, NEW K, NEW P, NEW mid, Sound(R, h, l, n, K, P, mid),
         P \subseteq Pid, K \subseteq P, NEW c \in R, c \in K, c # l, NEW d
  PROVE  Sound(R \ {c, d}, h, l, n - 1, K \ {c}, P, TRUE)
<1> DEFINE S == R \ {c, d}
<1>1. S \subseteq P /\ l \in P \union {NULL}
  BY DEF Sound
<1>2. \A r, s \in S : r < s /\ s \in K \ {c} => r \in K \ {c}
  BY DEF Sound
<1>3. l \in S => l \in K \ {c} /\ \A s \in S : s > l => s \notin K \ {c}
  BY DEF Sound
<1>4. R \intersect K \subseteq Pid /\ S \intersect (K \ {c}) \subseteq (R \intersect K) \ {c}
  OBVIOUS
<1>5. Cardinality((R \intersect K) \ {c}) = Cardinality(R \intersect K) - 1
  BY <1>4, CardRemove
<1>6. n - 1 \in Nat /\ n - 1 >= Cardinality(S \intersect (K \ {c}))
  <2>1. n \in Nat /\ n >= Cardinality(R \intersect K)
    BY DEF Sound
  <2>2. (R \intersect K) \ {c} \subseteq Pid
    BY <1>4
  <2>3. /\ Cardinality(S \intersect (K \ {c})) <= Cardinality((R \intersect K) \ {c})
        /\ Cardinality(S \intersect (K \ {c})) \in Nat
        /\ Cardinality((R \intersect K) \ {c}) \in Nat
    BY <1>4, <2>2, CardMonotone
  <2>4. Cardinality(R \intersect K) \in Nat
    BY <1>4, PidsFinite
  <2> QED BY <1>5, <2>1, <2>3, <2>4
<1> HIDE DEF S
<1>7. Sound(S, h, l, n - 1, K \ {c}, P, TRUE)
  BY <1>1, <1>2, <1>3, <1>6 DEF Sound
<1> QED BY <1>7 DEF S

\* A child is forgotten that is not in reach.
LEMMA SoundForget ==
  ASSUME NEW R, NEW h, NEW l, NEW n, NEW K, NEW P, NEW mid, Sound(R, h, l, n, K, P, mid),
         NEW c, c \notin R
  PROVE  Sound(R, h, l, n, K \ {c}, P, mid)
<1>1. \A r, s \in R : r < s /\ s \in K \ {c} => r \in K \ {c}
  BY DEF Sound
<1>2. l \in R => l \in K \ {c} /\ \A s \in R : s > l => s \notin K \ {c}
  BY DEF Sound
<1>3. R \intersect (K \ {c}) = R \intersect K
  OBVIOUS
<1>4. ~mid => K \ {c} = K
  BY DEF Sound
<1> QED BY <1>1, <1>2, <1>3, <1>4 DEF Sound

\* An entry is forgotten that has no one after it, and is not the last one.
LEMMA SoundTrapped ==
  ASSUME NEW R, NEW h, NEW l, NEW n, NEW K, NEW P, NEW mid, Sound(R, h, l, n, K, P, mid),
         P \subseteq Pid, K \subseteq P, NEW c, c # l, \A s \in R : ~(c < s)
  PROVE  Sound(R, h, l, n, K \ {c}, P, TRUE)
<1>1. \A r, s \in R : r < s /\ s \in K \ {c} => r \in K \ {c}
  BY DEF Sound
<1>2. l \in R => l \in K \ {c} /\ \A s \in R : s > l => s \notin K \ {c}
  BY DEF Sound
<1>3. n \in Nat /\ n >= Cardinality(R \intersect (K \ {c}))
  <2>1. n \in Nat /\ n >= Cardinality(R \intersect K)
    BY DEF Sound
  <2>2. /\ Cardinality(R \intersect (K \ {c})) <= Cardinality(R \intersect K)
        /\ Cardinality(R \intersect (K \ {c})) \in Nat /\ Cardinality(R \intersect K) \in Nat
    BY CardMonotone
  <2> QED BY <2>1, <2>2
<1> QED BY <1>1, <1>2, <1>3 DEF Sound

-----------------------------------------------------------------------------
(***************************************************************************)
(* What the steps outside of the lists leave alone.                        *)
(***************************************************************************)

LEMMA EntryIsPid ==
  ASSUME NoEntryTwice
  PROVE  /\ Pid \subseteq Slot /\ Pid \subseteq Nat /\ Start2 \in Pid /\ Start3 \in Pid
         /\ \A p \in Pid : SlotOf(p) = p /\ p # NULL /\ p # -1
<1>1. \A p \in Pid : SlotOf(p) = p /\ p \in Slot
  BY EntryOf
<1> QED BY <1>1, UserProcessAssumption DEF Pid, Start2, Start3, NULL

\* Who has called removeChild3 goes on to quit.
LEMMA OnlyRunnerQuits ==
  ASSUME Kernel3, TopAtQuit, NEW p \in Pid, Runs(p), NEW c \in Pid, pc[c] = "T_quit"
  PROVE  c = p
<1> SUFFICES ASSUME c # p PROVE FALSE
  OBVIOUS
<1>1. Ready(c)
  BY DEF Ready, Ended
<1>2. priority[p] <= priority[c]
  BY <1>1 DEF Runs
<1>3. priority[p] > priority[c]
  BY DEF TopAtQuit, Runs
<1>4. priority[p] \in Nat /\ priority[c] \in Nat
  BY DEF Kernel3
<1> QED BY <1>2, <1>3, <1>4

LEMMA TopStays ==
  ASSUME Kernel3, Distinct, TopAtQuit, NEW p \in Pid, Runs(p),
         \A q \in Pid \ {p} : pc'[q] = "T_quit" => pc[q] = "T_quit",
         pc'[p] = "T_quit" => /\ UNCHANGED priority
                              /\ \A q \in Pid \ {p} : Ready(q)' => Ready(q)
  PROVE  TopAtQuit'
<1> SUFFICES ASSUME NEW c \in Pid, pc'[c] = "T_quit", NEW q \in Pid \ {c}, Ready(q)'
             PROVE  priority'[q] > priority'[c]
  BY DEF TopAtQuit
<1>1. c = p
  BY OnlyRunnerQuits
<1>2. Ready(q) /\ Ready(p) /\ UNCHANGED priority
  BY <1>1 DEF Runs
<1>3. priority[p] <= priority[q]
  BY <1>2 DEF Runs
<1>4. priority[p] # priority[q]
  BY <1>1, <1>2, ReadyLives DEF Distinct
<1>5. priority[p] \in Nat /\ priority[q] \in Nat
  BY DEF Kernel3
<1> QED BY <1>1, <1>2, <1>3, <1>4, <1>5

LEMMA ZappedStay ==
  ASSUME Unknown, Typed, ZappedDone, NEW p \in Pid, Runs(p),
         \A q \in Pid : pc[q] \in Ended => pc'[q] \in Ended,
         \A q \in Pid \ {p} : pc[q] = "T_zap" => pc'[q] = "T_zap" /\ other'[q] = other[q],
         \A c \in Pid : pc[c] # "none" => parentOf'[c] = parentOf[c]
  PROVE  \A c \in zapped : \/ pc'[c] \in Ended
                           \/ pc'[parentOf'[c]] = "T_zap" /\ other'[parentOf'[c]] = c
<1> SUFFICES ASSUME NEW c \in zapped, pc[c] \notin Ended
             PROVE  pc'[parentOf'[c]] = "T_zap" /\ other'[parentOf'[c]] = c
  BY DEF Typed
<1>1. c \in Pid /\ parentOf'[c] = parentOf[c] /\ parentOf[c] \in Pid
  BY DEF Typed, Unknown
<1>2. pc[parentOf[c]] = "T_zap" /\ other[parentOf[c]] = c
  BY DEF ZappedDone
<1>3. parentOf[c] # p
  BY <1>1, <1>2 DEF Runs, Ready, Ended
<1> QED BY <1>1, <1>2, <1>3

\* A step of p leaves the others where they are, but for those that have ended,
\* and the one that it wakes.
Step(p) ==
  /\ UNCHANGED <<parentOf, lastPid, priority>>
  /\ \A q \in Pid \ {p} :
       /\ \/ pc'[q] = pc[q]
          \/ pc[q] \in Ended /\ pc'[q] \in Ended
          \/ pc[q] = "L_wait" /\ pc'[q] = "L_start"
       /\ other'[q] = other[q]
  /\ pc[p] \notin Ended \union {"none"} /\ pc'[p] # "none"
  /\ pc'[p] \in Launching => pc[p] \in Launching
  /\ pc'[p] \in Spawning => pc[p] \in Spawning /\ other'[p] = other[p]
  /\ pc'[p] \in Ended => pc[p] = "T_quit" /\ \A c \in Children(p) : pc[c] \in Ended

LEMMA StepPlaces ==
  ASSUME NEW p \in Pid, Step(p)
  PROVE  \A q \in Pid : /\ pc'[q] = "none" <=> pc[q] = "none"
                        /\ pc[q] \in Ended => pc'[q] \in Ended
                        /\ pc'[q] \in Launching => pc[q] \in Launching
                        /\ pc'[q] \in Spawning => pc[q] \in Spawning /\ other'[q] = other[q]
                        /\ Children(q)' = Children(q)
<1>1. \A q \in Pid : pc'[q] = "none" <=> pc[q] = "none"
  BY DEF Step, Ended
<1>2. \A q \in Pid : pc[q] \in Ended => pc'[q] \in Ended
  BY DEF Step, Ended
<1>3. \A q \in Pid : pc'[q] \in Launching => pc[q] \in Launching
  BY DEF Step, Ended, Launching
<1>4. \A q \in Pid : pc'[q] \in Spawning => pc[q] \in Spawning /\ other'[q] = other[q]
  BY DEF Step, Ended, Launching, Spawning
<1>5. \A q \in Pid : Children(q)' = Children(q)
  BY <1>1 DEF Step, Children
<1> QED BY <1>1, <1>2, <1>3, <1>4, <1>5

\* An entry is left to its process, or given to it; it may get its parent while
\* the process is spawned.
TableStep ==
  \A s \in Slot :
    /\ ProcTable3'[s].parent = ProcTable3[s].parent \/ \E a \in Pid : Spawns(a, s)'
    /\ \/ ProcTable3'[s].pid = ProcTable3[s].pid
       \/ ProcTable3[s].pid = -1 /\ ProcTable3'[s].pid = s /\ s # Start2
    /\ ProcTable3'[s].children.type = IF ProcTable3'[s].pid = -1 THEN "BLOCKED" ELSE "CHILDREN"
    /\ ProcTable3'[s].pid = -1 => ProcTable3'[s].children.size \in Nat

LEMMA FamilyStep ==
  ASSUME NoEntryTwice, Kernel3, Family, NEW p \in Pid, Step(p), TableStep,
         Typed', ZappedDone', TopAtQuit',
         \A a, d \in Pid : Spawns(a, d)' /\ pc'[a] = "S_send" => ProcTable3'[d].parent = a,
         \A a, d \in Pid : Spawns(a, d) => Spawns(a, d)' \/ Filled(d)',
         pc[p] \in Launching => pc'[p] \in Launching \/ ProcTable3'[p].pid # -1
  PROVE  Family'
<1>0. Typed /\ Parents /\ Newest /\ Entries /\ UNCHANGED <<parentOf, lastPid>>
  BY DEF Family, Step
<1>1. \A q \in Pid : /\ pc'[q] = "none" <=> pc[q] = "none"
                     /\ pc[q] \in Ended => pc'[q] \in Ended
                     /\ pc'[q] \in Launching => pc[q] \in Launching
                     /\ pc'[q] \in Spawning => pc[q] \in Spawning /\ other'[q] = other[q]
                     /\ Children(q)' = Children(q)
  BY StepPlaces
<1>2. \A a, d \in Pid : Spawns(a, d)' => Spawns(a, d)
  BY <1>1 DEF Spawns
<1>3. Pid \subseteq Slot /\ Start2 \in Pid
  BY EntryIsPid
<1>4. Newest'
  BY <1>0, <1>2 DEF Newest
<1>5. Parents'
  <2> SUFFICES ASSUME NEW c \in Pid \ {Start2}, pc'[c] # "none", NEW o, o = parentOf[c]
               PROVE  /\ o < c /\ (o = Start2 => c = Start3)
                      /\ pc'[o] \notin Launching \union {"none"}
                      /\ pc'[c] \notin Ended => pc'[o] \notin Ended
                      /\ Spawns(o, c)' \/ Filled(c)'
    BY <1>0, Zenon DEF Parents
  <2>1. pc[c] # "none" /\ o \in Pid
    BY <1>0, <1>1 DEF Typed
  <2>2. /\ o < c /\ (o = Start2 => c = Start3)
        /\ pc[o] \notin Launching \union {"none"}
        /\ pc[c] \notin Ended => pc[o] \notin Ended
        /\ Spawns(o, c) \/ Filled(c)
    BY <1>0, <2>1 DEF Parents
  <2>3. pc'[o] \notin Launching \union {"none"}
    BY <1>1, <2>1, <2>2
  <2>4. pc'[c] \notin Ended => pc'[o] \notin Ended
    <3> SUFFICES ASSUME pc'[c] \notin Ended, pc'[o] \in Ended PROVE FALSE
      OBVIOUS
    <3>1. pc[c] \notin Ended /\ pc[o] \notin Ended
      BY <1>1, <2>2
    <3>2. o = p
      BY <2>1, <3>1 DEF Step, Ended
    <3>3. c \in Children(p)
      BY <2>1, <3>2 DEF Children
    <3> QED BY <3>1, <3>2, <3>3 DEF Step
  <2>5. Spawns(o, c)' \/ Filled(c)'
    <3>1. CASE Spawns(o, c)
      BY <2>1, <3>1
    <3>2. CASE Filled(c) /\ ~Spawns(o, c)
      <4>1. ~\E a \in Pid : Spawns(a, c)'
        BY <1>0, <1>2, <3>2 DEF Newest
      <4>2. ProcTable3'[c].pid = c /\ ProcTable3'[c].parent = ProcTable3[c].parent
        BY <1>3, <3>2, <4>1 DEF TableStep, Filled
      <4> QED BY <1>0, <3>2, <4>2 DEF Filled
    <3> QED BY <2>2, <3>1, <3>2
  <2> QED BY <2>2, <2>3, <2>4, <2>5
<1>6. Entries'
  <2>1. ProcTable3'[Start2].pid = -1
    BY <1>0, <1>3 DEF TableStep, Entries
  <2>2. ASSUME NEW s \in Slot
        PROVE  /\ ProcTable3'[s].pid \in {-1, s}
               /\ ProcTable3'[s].children.type = IF ProcTable3'[s].pid = -1 THEN "BLOCKED" ELSE "CHILDREN"
               /\ ProcTable3'[s].pid = -1 => ProcTable3'[s].children.size \in Nat
    BY <1>0 DEF TableStep, Entries
  <2>3. ASSUME NEW q \in Pid, ProcTable3'[q].pid = -1, q # Start2
        PROVE  pc'[q] \in Launching \union {"none"}
    <3>1. ProcTable3[q].pid = -1
      BY <1>3, <2>3, EntryIsPid DEF TableStep
    <3>2. pc[q] \in Launching \union {"none"}
      BY <1>0, <2>3, <3>1 DEF Entries
    <3>3. CASE q = p
      BY <1>1, <2>3, <3>2, <3>3
    <3>4. CASE q # p
      BY <3>2, <3>4 DEF Step, Ended, Launching
    <3> QED BY <3>3, <3>4
  <2> QED BY <2>1, <2>2, <2>3 DEF Entries
<1> QED BY <1>4, <1>5, <1>6 DEF Family

\* A step that neither puts a child into a list nor takes one out.
SamePlaces ==
  /\ UNCHANGED <<parentOf, zapped, midRemoved>>
  /\ \A q \in Pid : /\ pc'[q] = "none" <=> pc[q] = "none"
                    /\ pc'[q] = "S_enq" <=> pc[q] = "S_enq"
                    /\ pc[q] = "S_enq" => other'[q] = other[q]
                    /\ q # Start2 => (pc'[q] \in Ended \union {"T_quit"} <=> pc[q] \in Ended \union {"T_quit"})

LEMMA SameChildren ==
  ASSUME SamePlaces, NEW p \in Pid
  PROVE  /\ Children(p)' = Children(p) /\ Put(p)' = Put(p) /\ Known(p)' = Known(p)
         /\ \A c \in Pid : Appends(p, c)' <=> Appends(p, c)
<1>1. UNCHANGED <<parentOf, zapped>>
  BY DEF SamePlaces
<1>2. \A c \in Pid : Appends(p, c)' <=> Appends(p, c)
  BY DEF SamePlaces, Appends
<1>3. Children(p)' = Children(p)
  BY DEF SamePlaces, Children
<1>4. Children(p) \subseteq Pid \ {Start2}
  BY DEF Children
<1>5. Put(p)' = Put(p)
  BY <1>1, <1>2, <1>3, <1>4 DEF Put
<1>6. Known(p)' = Known(p)
  <2>1. Known(p) = {c \in Put(p) : pc[c] \notin Ended \union {"T_quit"}}
    BY DEF Known, Put, Appends
  <2>2. Known(p)' = {c \in Put(p)' : pc'[c] \notin Ended \union {"T_quit"}}
    BY DEF Known, Put, Appends
  <2>3. Put(p) \subseteq Pid \ {Start2}
    BY <1>4 DEF Put
  <2> QED BY <1>5, <2>1, <2>2, <2>3 DEF SamePlaces
<1> QED BY <1>2, <1>3, <1>5, <1>6

LEMMA KnownIsPut ==
  ASSUME NEW p
  PROVE  /\ Known(p) = {c \in Put(p) : pc[c] \notin Ended \union {"T_quit"}}
         /\ Put(p) \subseteq Children(p) /\ Children(p) \subseteq Pid \ {Start2}
         /\ \A c \in Children(p) : parentOf[c] = p /\ pc[c] # "none"
BY DEF Known, Put, Appends, Children

\* The list of a process that has just got its entry.
LEMMA SoundEmpty ==
  ASSUME NEW mid, NEW P PROVE Sound({}, NULL, NULL, 0, {}, P, mid)
<1>1. {} \intersect {} = {}
  OBVIOUS
<1> QED BY <1>1, CardEmpty DEF Sound

LEMMA ListsStay ==
  ASSUME NoEntryTwice, Kernel3, Kernel3', Parents, Forward(ProcTable3), Unlinked, Lists, SamePlaces,
         \A s \in Slot :
           /\ ProcTable3'[s].nextSibling = ProcTable3[s].nextSibling
           /\ \/ ProcTable3'[s].pid = ProcTable3[s].pid /\ ProcTable3'[s].children = ProcTable3[s].children
              \/ s \in Pid => /\ pc[s] \in Launching
                              /\ ProcTable3'[s].children = EmptyQueue("CHILDREN")
  PROVE  Forward(ProcTable3)' /\ Unlinked' /\ Lists'
<1>0. Pid \subseteq Slot /\ ProcTable3 \in Table /\ ProcTable3' \in Table
  BY EntryIsPid DEF Kernel3
<1>1. Forward(ProcTable3')
  BY DEF Forward
<1>2. Unlinked'
  <2>1. \A c \in Pid : ProcTable3'[c].nextSibling = ProcTable3[c].nextSibling
    BY <1>0
  <2>2. \A c \in Pid : pc'[c] = "none" => pc[c] = "none"
    BY DEF SamePlaces
  <2>3. \A c \in Pid, a \in Pid : Appends(a, c)' => Appends(a, c)
    BY SameChildren
  <2> QED BY <2>1, <2>2, <2>3 DEF Unlinked
<1>3. ASSUME NEW p \in Pid \ {Start2}, ProcTable3'[p].pid = p PROVE SoundList(p)'
  <2>1. Put(p)' = Put(p) /\ Known(p)' = Known(p) /\ midRemoved' = midRemoved /\ p \in Slot
    BY <1>0, SameChildren DEF SamePlaces
  <2>2. CASE ProcTable3'[p].pid = ProcTable3[p].pid /\ ProcTable3'[p].children = ProcTable3[p].children
    <3>1. SoundList(p)
      BY <1>3, <2>2 DEF Lists
    <3>2. Reach(ProcTable3', p) = Reach(ProcTable3, p)
      <4>1. ProcTable3[p].children.head \in Pointer
        BY <1>0, <2>1, HeadPointer
      <4>2. Reach(ProcTable3, p) \subseteq Slot
        BY <4>1, ReachIsChain DEF Chain
      <4> QED BY <1>1, <2>2, <4>1, <4>2, ReachSame
    <3> QED BY <2>1, <2>2, <3>1, <3>2 DEF SoundList
  <2>3. CASE pc[p] \in Launching /\ ProcTable3'[p].children = EmptyQueue("CHILDREN")
    <3>1. /\ ProcTable3'[p].children.head = NULL /\ ProcTable3'[p].children.tail = NULL
          /\ ProcTable3'[p].children.size = 0
      BY <2>3 DEF EmptyQueue
    <3>2. Reach(ProcTable3', p) = {}
      <4>1. Chain(ProcTable3', NULL, {})
        BY DEF Chain
      <4> QED BY <1>1, <3>1, <4>1, ReachIs DEF Pointer
    <3>3. Known(p) = {}
      <4> SUFFICES ASSUME NEW c \in Known(p) PROVE FALSE
        OBVIOUS
      <4>1. c \in Pid \ {Start2} /\ parentOf[c] = p /\ pc[c] # "none"
        BY KnownIsPut
      <4> QED BY <2>3, <4>1 DEF Parents
    <3>4. Sound({}, NULL, NULL, 0, {}, Put(p)', midRemoved')
      BY SoundEmpty
    <3> QED BY <2>1, <3>1, <3>2, <3>3, <3>4 DEF SoundList
  <2> QED BY <2>1, <2>2, <2>3
<1> QED BY <1>1, <1>2, <1>3 DEF Lists

LEMMA LeavesStay ==
  ASSUME LeavesLast, NEW p \in Pid, Step(p), UNCHANGED midRemoved,
         \A q \in Pid : ~midRemoved /\ pc'[q] \in {"T_remove", "T_quit"} =>
           pc[q] \in {"T_remove", "T_quit"} \/ \A c \in Children(q) : pc[c] \in Ended
  PROVE  LeavesLast'
<1> SUFFICES ASSUME ~midRemoved, NEW q \in Pid, pc'[q] \in {"T_remove", "T_quit"},
                    NEW c \in Children(q)'
             PROVE  pc'[c] \in Ended
  BY DEF LeavesLast
<1>1. c \in Children(q) /\ c \in Pid
  BY StepPlaces DEF Children
<1>2. pc[c] \in Ended
  BY <1>1 DEF LeavesLast
<1> QED BY <1>1, <1>2, StepPlaces

-----------------------------------------------------------------------------
(***************************************************************************)
(* The steps that leave the table alone.                                   *)
(***************************************************************************)

\* What spawnReal has put into the entry of the child before it sends.
LEMMA FilledAtSend ==
  ASSUME NoEntryTwice, Meeting, Newest, NEW p \in Pid, NEW c \in Pid, Spawns(p, c), pc[p] = "S_send"
  PROVE  Filled(c)
<1>1. ChildFirst(p, c) \/ ParentFirst(p, c)
  BY DEF Meeting
<1>2. ProcTable3[c].pid = c
  BY <1>1, EntryIsPid DEF ChildFirst, ParentFirst
<1> QED BY <1>2 DEF Newest, Filled

LEMMA Rests ==
  ASSUME NoEntryTwice, SpawnInv, SpawnInv', ListInv, NEW p \in Pid, Runs(p), Step(p), SamePlaces,
         UNCHANGED <<ProcTable3, other>>, Typed',
         pc[p] \in Spawning => pc'[p] \in Spawning \/ pc[p] = "S_send",
         pc'[p] # "S_send",
         pc[p] \in Launching => pc'[p] \in Launching \/ ProcTable3[p].pid # -1,
         pc'[p] = "T_quit" => \A q \in Pid \ {p} : Ready(q)' => Ready(q),
         LeavesLast', NotHalted'
  PROVE  ListInv'
<1>1. /\ Kernel3 /\ Unknown /\ Distinct /\ Meeting /\ Kernel3'
      /\ Typed /\ Parents /\ Newest /\ Entries /\ ZappedDone /\ TopAtQuit /\ Family
      /\ Forward(ProcTable3) /\ Unlinked /\ Lists
  BY DEF SpawnInv, ListInv, Family
<1>2. /\ \A q \in Pid \ {p} : \/ pc'[q] = pc[q]
                              \/ pc[q] \in Ended /\ pc'[q] \in Ended
                              \/ pc[q] = "L_wait" /\ pc'[q] = "L_start"
      /\ UNCHANGED <<parentOf, priority, zapped>>
  BY DEF Step, SamePlaces
<1>3. TableStep
  BY <1>1 DEF TableStep, Entries
<1>4. \A a, d \in Pid : Spawns(a, d)' /\ pc'[a] = "S_send" => ProcTable3'[d].parent = a
  <2> SUFFICES ASSUME NEW a \in Pid, NEW d \in Pid, Spawns(a, d)', pc'[a] = "S_send"
               PROVE  ProcTable3[d].parent = a
    OBVIOUS
  <2>1. pc[a] = "S_send"
    BY <1>2 DEF Ended
  <2> QED BY <1>1, <2>1 DEF Newest, Spawns, Spawning
<1>5. \A a, d \in Pid : Spawns(a, d) => Spawns(a, d)' \/ Filled(d)'
  <2> SUFFICES ASSUME NEW a \in Pid, NEW d \in Pid, Spawns(a, d) PROVE Spawns(a, d)' \/ Filled(d)'
    OBVIOUS
  <2>1. CASE pc'[a] \in Spawning
    BY <2>1 DEF Spawns
  <2>2. CASE pc'[a] \notin Spawning
    <3>1. pc[a] = "S_send"
      BY <1>2, <2>2 DEF Spawns, Spawning, Ended
    <3>2. Filled(d)
      BY <1>1, <3>1, FilledAtSend
    <3> QED BY <1>2, <3>2 DEF Filled
  <2> QED BY <2>1, <2>2
<1>6. ZappedDone'
  <2>1. \A q \in Pid : pc[q] \in Ended => pc'[q] \in Ended
    BY StepPlaces
  <2>2. \A q \in Pid \ {p} : pc[q] = "T_zap" => pc'[q] = "T_zap" /\ other'[q] = other[q]
    BY <1>2 DEF Ended
  <2>3. \A c \in zapped : pc'[c] \in Ended \/ (pc'[parentOf'[c]] = "T_zap" /\ other'[parentOf'[c]] = c)
    BY <1>1, <1>2, <2>1, <2>2, ZappedStay
  <2> QED BY <1>2, <2>3 DEF ZappedDone
<1>7. TopAtQuit'
  <2>1. \A q \in Pid \ {p} : pc'[q] = "T_quit" => pc[q] = "T_quit"
    BY <1>2 DEF Ended
  <2> QED BY <1>1, <1>2, <2>1, TopStays
<1>8. Family'
  BY <1>1, <1>3, <1>4, <1>5, <1>6, <1>7, FamilyStep
<1>9. Forward(ProcTable3)' /\ Unlinked' /\ Lists'
  BY <1>1, ListsStay
<1> QED BY <1>8, <1>9 DEF ListInv

\* Only p moves, and not to where its children or its parent would notice.
LEMMA RestsAlone ==
  ASSUME NoEntryTwice, SpawnInv, SpawnInv', ListInv, NEW p \in Pid, Runs(p),
         NEW to \in Place \ ({"none", "S_enq", "S_send", "T_quit"} \union Ended),
         pc' = [pc EXCEPT ![p] = to],
         UNCHANGED <<ProcTable3, kernelVars, other, midRemoved>>, Typed', NotHalted',
         pc[p] \notin {"S_enq", "S_send", "T_quit"},
         pc[p] \in Spawning <=> to \in Spawning,
         to \in Launching => pc[p] \in Launching,
         pc[p] \in Launching => to \in Launching \/ ProcTable3[p].pid # -1,
         ~midRemoved /\ to = "T_remove" => \A c \in Children(p) : pc[c] \in Ended
  PROVE  ListInv'
<1>1. pc' \in [Pid -> Place] /\ pc'[p] = to /\ \A q \in Pid \ {p} : pc'[q] = pc[q]
  BY Moved DEF SpawnInv
<1>2. pc[p] \notin Ended \union {"none"} /\ UNCHANGED <<parentOf, priority, lastPid, zapped>>
  BY ReadyLives DEF Runs, Live, kernelVars
<1>3. Step(p)
  BY <1>1, <1>2 DEF Step
<1>4. SamePlaces
  BY <1>1, <1>2 DEF SamePlaces
<1>5. LeavesLast'
  BY <1>1, <1>3, LeavesStay DEF ListInv
<1> QED BY <1>1, <1>3, <1>4, <1>5, Rests

LEMMA UserCalls ==
  ASSUME NoEntryTwice, SpawnInv, SpawnInv', ListInv, NEW p \in Pid, Runs(p),
         otherCall(p) \/ wait(p) \/ terminate(p)
  PROVE  ListInv'
<1>1. /\ pc[p] = "user"
      /\ UNCHANGED <<ProcTable3, kernelVars, other, midRemoved, parentOf, zapped, halted, box, ran>>
  BY DEF otherCall, wait, terminate, At, seenVars, kernelVars
<1>2. \E to \in {"user", "T_loop", "W_join"} : pc' = [pc EXCEPT ![p] = to]
  BY DEF otherCall, wait, terminate, At, AfterCall
<1>3. PICK to \in {"user", "T_loop", "W_join"} : pc' = [pc EXCEPT ![p] = to]
  BY <1>2
<1>4. /\ to \in Place \ ({"none", "S_enq", "S_send", "T_quit"} \union Ended)
      /\ to \notin Launching \union Spawning /\ pc[p] \notin Launching \union Spawning
  BY <1>1 DEF Place, Ending, Ended, Launching, Spawning
<1>5. Typed' /\ NotHalted'
  BY <1>1 DEF ListInv, Family, Typed, NotHalted
<1> QED BY <1>1, <1>3, <1>4, <1>5, RestsAlone

\* A child that goes on by itself finds its entry.
LEMMA LaunchPlace ==
  ASSUME NoEntryTwice, SpawnInv, NEW p \in Pid, Runs(p), pc[p] \in Launching
  PROVE  \/ ProcTable3[p].pid = p /\ ProcTable3[p].startFunc = p /\ pc[p] \in {"L_zapped", "L_test", "L_start"}
         \/ p \notin zapped /\ ProcTable3[p].pid \in {-1, p} /\ pc[p] \in {"L_zapped", "L_test", "L_init", "L_recv"}
            /\ (pc[p] \in {"L_test", "L_init"} => ProcTable3[p].pid = -1) /\ p # Start2
<1>1. SlotOf(p) = p /\ Kernel3 /\ Meeting /\ Met
  BY EntryIsPid DEF SpawnInv
<1>2. CASE Launched(p)
  BY <1>1, <1>2 DEF Launched
<1>3. CASE ~Launched(p)
  <2>1. PICK a \in Pid : Spawns(a, p)
    BY <1>1, <1>3 DEF Met
  <2>2. Apart(a, p) /\ (ChildFirst(a, p) \/ ParentFirst(a, p))
    BY <1>1, <2>1 DEF Meeting
  <2>3. ~ParentFirst(a, p)
    <3> SUFFICES ASSUME ParentFirst(a, p) PROVE FALSE
      OBVIOUS
    <3>1. Ready(a)
      BY <2>1, BusyReady DEF Spawns
    <3>2. priority[p] <= priority[a] /\ priority[a] < priority[p]
      BY <3>1 DEF Runs, ParentFirst
    <3> QED BY <1>1, <3>2 DEF Kernel3
  <2>4. ChildFirst(a, p) /\ pc[p] # "L_wait"
    BY <2>2, <2>3 DEF Runs, Ready
  <2>5. p \notin zapped /\ p # Start2
    BY <2>2 DEF Apart, Start2, Start3
  <2> QED BY <1>1, <2>4, <2>5 DEF ChildFirst
<1> QED BY <1>2, <1>3

LEMMA Launches ==
  ASSUME NoEntryTwice, SpawnInv, SpawnInv', ListInv, NEW p \in Pid, Runs(p),
         L_zapped(p) \/ L_test(p) \/ L_recv(p) \/ L_start(p)
  PROVE  ListInv'
<1>1. /\ pc[p] \in Launching \ {"L_init"}
      /\ UNCHANGED <<ProcTable3, kernelVars, other, midRemoved, parentOf, zapped>>
  BY DEF L_zapped, L_test, L_recv, L_start, At, seenVars, kernelVars, Launching
<1>2. PICK to \in {"T_loop", "L_test", "L_init", "L_start", "L_wait", "user"} :
        /\ pc' = [pc EXCEPT ![p] = to]
        /\ to = "T_loop" => p \in zapped
        /\ to = "user" => L_start(p)
  BY DEF L_zapped, L_test, L_recv, L_start, At
<1>3. \/ ProcTable3[p].pid = p /\ ProcTable3[p].startFunc = p
      \/ p \notin zapped /\ ~L_start(p)
  BY <1>1, LaunchPlace DEF L_start, At
<1>4. SlotOf(p) = p /\ p # -1 /\ p # NULL /\ p \in Slot
  BY EntryIsPid
<1>5. /\ to \in Place \ ({"none", "S_enq", "S_send", "T_quit"} \union Ended)
      /\ to \notin Spawning /\ pc[p] \notin Spawning /\ to # "T_remove"
  BY <1>1 DEF Place, Ending, Ended, Launching, Spawning
<1>6. to \in Launching \/ ProcTable3[p].pid # -1
  BY <1>2, <1>3, <1>4 DEF Launching
<1>7. /\ Typed /\ Typed = Typed /\ ProcTable3 \in Table
  BY DEF ListInv, Family, SpawnInv, Kernel3
<1>8. Typed' /\ NotHalted'
  <2>1. CASE L_start(p)
    <3>1. ProcTable3[SlotOf(p)].startFunc = p /\ ProcTable3[p].startFunc \in Func \union {NULL}
      BY <1>3, <1>4, <1>7, <2>1 DEF Table
    <3>2. halted' = FALSE /\ ran' \in [Pid -> Func \union {NULL}] /\ UNCHANGED box
      BY <1>4, <1>7, <2>1, <3>1 DEF L_start, Typed
    <3> QED BY <1>1, <1>7, <3>2 DEF Typed, NotHalted
  <2>2. CASE L_recv(p)
    <3>1. ProcTable3[p].mboxID \in MBox \union {NoBox}
      BY <1>4, <1>7 DEF Table
    <3>2. UNCHANGED <<halted, ran>> /\ box' \in [Pid -> MBox \union {NoBox}]
      BY <1>4, <1>7, <2>2, <3>1 DEF L_recv, Typed, seenVars
    <3> QED BY <1>1, <1>7, <3>2 DEF ListInv, Typed, NotHalted
  <2>3. CASE L_zapped(p) \/ L_test(p)
    <3>1. UNCHANGED <<halted, ran, box>>
      BY <2>3 DEF L_zapped, L_test, seenVars
    <3> QED BY <1>1, <1>7, <3>1 DEF ListInv, Typed, NotHalted
  <2> QED BY <2>1, <2>2, <2>3
<1> QED BY <1>1, <1>2, <1>5, <1>6, <1>8, RestsAlone DEF Launching

LEMMA Tests ==
  ASSUME NoEntryTwice, SpawnInv, SpawnInv', ListInv, NEW p \in Pid, Runs(p), S_test(p)
  PROVE  ListInv'
<1>1. /\ pc[p] = "S_test"
      /\ UNCHANGED <<ProcTable3, kernelVars, other, midRemoved, parentOf, zapped, halted, box, ran>>
  BY DEF S_test, At, seenVars, kernelVars
<1>2. PICK to \in {"S_init", "S_give"} : pc' = [pc EXCEPT ![p] = to]
  BY DEF S_test, At
<1>3. /\ to \in Place \ ({"none", "S_enq", "S_send", "T_quit"} \union Ended)
      /\ to \in Spawning /\ pc[p] \in Spawning /\ pc[p] \notin Launching /\ to \notin Launching
  BY <1>1 DEF Place, Ending, Ended, Launching, Spawning
<1>4. Typed' /\ NotHalted'
  BY <1>1 DEF ListInv, Family, Typed, NotHalted
<1> QED BY <1>1, <1>2, <1>3, <1>4, RestsAlone

LEMMA Sends ==
  ASSUME NoEntryTwice, SpawnInv, SpawnInv', ListInv, NEW p \in Pid, Runs(p), S_send(p)
  PROVE  ListInv'
<1> DEFINE met == {q \in Pid : pc[q] = "L_wait" /\ box[q] = ProcTable3[SlotOf(other[p])].mboxID}
<1>1. /\ pc[p] = "S_send"
      /\ UNCHANGED <<ProcTable3, kernelVars, other, midRemoved, parentOf, zapped, halted, box, ran, lastPid, priority>>
  BY DEF S_send, seenVars, kernelVars
<1>2. \A q \in Pid : pc'[q] = IF q = p THEN AfterCall(p) ELSE IF q \in met THEN "L_start" ELSE pc[q]
  BY DEF S_send
<1>3. \A q \in Pid \ {p} : pc'[q] = pc[q] \/ (pc[q] = "L_wait" /\ pc'[q] = "L_start")
  BY <1>2
<1>4. pc'[p] \in {"user", "T_loop"}
  BY <1>2 DEF AfterCall
<1> HIDE DEF met
<1>5. Step(p)
  BY <1>1, <1>3, <1>4 DEF Step, Ended, Launching, Spawning
<1>6. SamePlaces
  BY <1>1, <1>3, <1>4 DEF SamePlaces, Ended
<1>7. Typed' /\ NotHalted'
  BY <1>1 DEF ListInv, Family, Typed, NotHalted
<1>8. LeavesLast'
  <2>1. \A q \in Pid : pc'[q] \in {"T_remove", "T_quit"} => pc[q] \in {"T_remove", "T_quit"}
    BY <1>3, <1>4
  <2> QED BY <1>1, <1>5, <2>1, LeavesStay DEF ListInv
<1>9. pc[p] \notin Launching
  BY <1>1 DEF Launching
<1> QED BY <1>1, <1>4, <1>5, <1>6, <1>7, <1>8, <1>9, Rests

LEMMA WaitsReal ==
  ASSUME NoEntryTwice, SpawnInv, SpawnInv', ListInv, NEW p \in Pid, Runs(p), waitReal(p)
  PROVE  ListInv'
<1>1. PICK c \in Children(p) :
        /\ pc[c] = "quit"
        /\ pc' = [pc EXCEPT ![c] = "gone", ![p] = IF p = Start2 THEN "T_quit" ELSE AfterCall(p)]
  BY DEF waitReal
<1>2. /\ pc[p] = "W_join" /\ Kernel3
      /\ UNCHANGED <<ProcTable3, kernelVars, other, midRemoved, parentOf, zapped, halted, box, ran, lastPid, priority>>
  BY DEF waitReal, seenVars, kernelVars, SpawnInv
<1>3. /\ c \in Pid /\ c # p /\ pc \in [Pid -> Place]
      /\ \A q \in Children(p) : parentOf[q] = p /\ q \in Pid \ {Start2} /\ pc[q] # "none"
  BY <1>1, <1>2 DEF Children, Kernel3
<1>4. /\ pc'[p] = (IF p = Start2 THEN "T_quit" ELSE AfterCall(p)) /\ pc'[c] = "gone"
      /\ \A q \in Pid \ {p, c} : pc'[q] = pc[q]
  BY <1>1, <1>3
<1>5. AfterCall(p) \in {"user", "T_loop"}
  BY DEF AfterCall
<1>6. \A q \in Pid \ {p} : pc'[q] = pc[q] \/ (pc[q] \in Ended /\ pc'[q] \in Ended)
  BY <1>1, <1>4 DEF Ended
<1>7. Step(p)
  BY <1>2, <1>4, <1>5, <1>6 DEF Step, Ended, Launching, Spawning
<1>8. SamePlaces
  <2>1. pc'[p] \in {"user", "T_loop", "T_quit"} /\ (p # Start2 => pc'[p] # "T_quit")
    BY <1>4, <1>5
  <2>2. UNCHANGED <<parentOf, zapped, midRemoved>> /\ UNCHANGED other
    BY <1>2
  <2> QED BY <1>2, <1>6, <2>1, <2>2 DEF SamePlaces, Ended
<1>9. Typed' /\ NotHalted'
  BY <1>2 DEF ListInv, Family, Typed, NotHalted
<1>10. LeavesLast'
  <2>1. ASSUME NEW q \in Pid, pc'[q] \in {"T_remove", "T_quit"}
        PROVE  pc[q] \in {"T_remove", "T_quit"} \/ \A d \in Children(q) : pc[d] \in Ended
    <3>1. CASE q # p
      BY <1>6, <2>1, <3>1 DEF Ended
    <3>2. CASE q = p
      <4>1. p = Start2
        BY <1>4, <1>5, <2>1, <3>2
      <4>2. \A d \in Children(p) : d = Start3
        BY <1>3, <4>1 DEF ListInv, Family, Parents
      <4> QED BY <1>1, <3>2, <4>2 DEF Ended
    <3> QED BY <3>1, <3>2
  <2> QED BY <1>2, <1>7, <2>1, LeavesStay DEF ListInv
<1>11. pc'[p] = "T_quit" => \A q \in Pid \ {p} : Ready(q)' => Ready(q)
  <2> SUFFICES ASSUME pc'[p] = "T_quit", NEW q \in Pid \ {p}, Ready(q)' PROVE Ready(q)
    OBVIOUS
  <2>1. pc'[q] = pc[q]
    BY <1>4 DEF Ready, Ended
  <2>2. /\ \A n \in Pid : pc'[n] \in Ended => pc[n] \in Ended
        /\ \A n \in Pid : pc'[n] = "quit" => pc[n] = "quit" /\ parentOf'[n] = parentOf[n]
    BY <1>1, <1>2, <1>4, <1>5 DEF Ended
  <2> QED BY <1>2, <2>1, <2>2, ReadyBefore
<1>12. pc[p] \notin Launching \union Spawning /\ pc'[p] # "S_send"
  BY <1>2, <1>4, <1>5 DEF Launching, Spawning
<1> QED BY <1>2, <1>7, <1>8, <1>9, <1>10, <1>11, <1>12, Rests

LEMMA Quits ==
  ASSUME NoEntryTwice, SpawnInv, SpawnInv', ListInv, NEW p \in Pid, Runs(p), T_quit(p),
         UNCHANGED <<parentOf, priority, lastPid, box, ran>>
  PROVE  ListInv'
<1> DEFINE active == \E c \in Children(p) : pc[c] \notin Ended
<1>1. /\ pc[p] = "T_quit" /\ halted' = active /\ Kernel3
      /\ UNCHANGED <<ProcTable3, kernelVars, other, midRemoved, zapped>>
  BY DEF T_quit, kernelVars, SpawnInv
<1>2. \A q \in Pid : pc'[q] = IF active THEN pc[q]
                              ELSE IF q = p THEN "quit"
                              ELSE IF q \in Children(p) THEN "gone" ELSE pc[q]
  BY DEF T_quit
<1>3. pc'[p] = IF active THEN "T_quit" ELSE "quit"
  BY <1>1, <1>2
<1>4. \A q \in Pid \ {p} : pc'[q] = pc[q] \/ (pc[q] \in Ended /\ pc'[q] \in Ended)
  BY <1>2 DEF Ended
<1>5. pc'[p] \in Ended => \A c \in Children(p) : pc[c] \in Ended
  BY <1>3 DEF Ended
<1>6. active => pc' = pc
  BY <1>1 DEF T_quit, Kernel3
<1>7. pc'[p] \in {"quit", "T_quit"}
  BY <1>3
<1>8. Step(p)
  BY <1>1, <1>4, <1>5, <1>7 DEF Step, Ended, Launching, Spawning
<1>9. SamePlaces
  BY <1>1, <1>4, <1>7 DEF SamePlaces, Ended
<1>10. Typed'
  BY <1>1 DEF ListInv, Family, Typed
<1>11. NotHalted'
  BY <1>1 DEF ListInv, NotHalted, LeavesLast
<1>12. LeavesLast'
  <2>1. \A q \in Pid : pc'[q] \in {"T_remove", "T_quit"} => pc[q] \in {"T_remove", "T_quit"}
    BY <1>1, <1>4 DEF Ended
  <2> QED BY <1>1, <1>8, <2>1, LeavesStay DEF ListInv
<1>13. pc'[p] = "T_quit" => \A q \in Pid \ {p} : Ready(q)' => Ready(q)
  <2> SUFFICES ASSUME pc'[p] = "T_quit", NEW q \in Pid \ {p}, Ready(q)' PROVE Ready(q)
    OBVIOUS
  <2>1. pc' = pc
    BY <1>3, <1>6
  <2> QED BY <1>1, <2>1, ReadyBefore
<1>14. pc[p] \notin Launching \union Spawning /\ pc'[p] # "S_send"
  BY <1>1, <1>7 DEF Launching, Spawning
<1> HIDE DEF active
<1> QED BY <1>1, <1>8, <1>9, <1>10, <1>11, <1>12, <1>13, <1>14, Rests

-----------------------------------------------------------------------------
(***************************************************************************)
(* The steps that fill an entry.                                           *)
(***************************************************************************)

\* initProc3 gives an entry an empty list; the pointers to siblings stay.
LEMMA InitList ==
  ASSUME NoEntryTwice, NEW t \in Table, NEW c \in Pid, NEW by, NEW u, u = initProc(t, c, by)
  PROVE  /\ u[c].pid = c /\ u[c].children = EmptyQueue("CHILDREN")
         /\ \A s \in Slot : /\ u[s].nextSibling = t[s].nextSibling /\ u[s].parent = t[s].parent
                            /\ s # c => u[s].pid = t[s].pid /\ u[s].children = t[s].children
<1>1. SlotOf(c) = c /\ c \in Slot
  BY EntryOf
<1> DEFINE e == EmptyQueue("CHILDREN")
           b == [of |-> c, by |-> by]
           v == [t EXCEPT ![c] = [@ EXCEPT !.pid = c, !.mboxID = b, !.startFunc = NULL, !.children = e]]
<1>2. u = v
  BY <1>1 DEF initProc
<1> HIDE DEF e, b
<1>3. /\ v[c].pid = c /\ v[c].children = e
      /\ \A s \in Slot : /\ v[s].nextSibling = t[s].nextSibling /\ v[s].parent = t[s].parent
                         /\ s # c => v[s].pid = t[s].pid /\ v[s].children = t[s].children
  BY <1>1 DEF Table
<1> HIDE DEF v
<1> QED BY <1>2, <1>3 DEF e

LEMMA GiveList ==
  ASSUME NoEntryTwice, NEW t \in Table, NEW c \in Pid, NEW p \in Pid, NEW u, u = Given(t, c, p)
  PROVE  /\ u[c].parent = p
         /\ \A s \in Slot : /\ u[s].nextSibling = t[s].nextSibling /\ u[s].pid = t[s].pid
                            /\ u[s].children = t[s].children
                            /\ s # c => u[s].parent = t[s].parent
<1>1. SlotOf(c) = c /\ c \in Slot /\ SlotOf(p) = p
  BY EntryOf
<1>2. u = [t EXCEPT ![c].startFunc = c, ![c].parent = p]
  BY <1>1 DEF Given
<1> QED BY <1>1, <1>2 DEF Table

\* An entry is filled, by its process or by the parent.
FillsOnly(p, c) ==
  \A s \in Slot :
    /\ ProcTable3'[s].nextSibling = ProcTable3[s].nextSibling
    /\ ProcTable3'[s].parent = ProcTable3[s].parent \/ (s = c /\ Spawns(p, c)')
    /\ \/ ProcTable3'[s].pid = ProcTable3[s].pid /\ ProcTable3'[s].children = ProcTable3[s].children
       \/ /\ s = c /\ ProcTable3[s].pid = -1 /\ ProcTable3'[s].pid = s
          /\ ProcTable3'[s].children = EmptyQueue("CHILDREN")

\* A step of the two sides of a spawn before they meet.
LEMMA FillStep ==
  ASSUME NoEntryTwice, SpawnInv, SpawnInv', ListInv, NEW p \in Pid, Runs(p), NEW c \in Pid,
         NEW to \in (Spawning \union Launching) \ {"S_enq", "L_zapped"}, pc' = [pc EXCEPT ![p] = to],
         UNCHANGED <<kernelVars, other, halted, box, ran, midRemoved>>,
         pc[p] # "S_enq", pc[p] # "S_send",
         \/ pc[p] \in Launching /\ to \in Launching
         \/ pc[p] \in Spawning /\ to \in Spawning /\ Only(p, c),
         pc[c] \in Launching, c # Start2,
         FillsOnly(p, c),
         to = "S_send" => ProcTable3'[c].parent = p
  PROVE  ListInv'
<1>1. /\ Kernel3 /\ Unknown /\ Distinct /\ Kernel3'
      /\ Typed /\ Parents /\ Newest /\ Entries /\ ZappedDone /\ TopAtQuit /\ Family
      /\ Forward(ProcTable3) /\ Unlinked /\ Lists
  BY DEF SpawnInv, ListInv, Family
<1>2. UNCHANGED <<parentOf, priority, lastPid, zapped, other, halted, midRemoved>>
  BY DEF kernelVars
<1>3. pc'[p] = to /\ \A q \in Pid \ {p} : pc'[q] = pc[q]
  BY <1>1, Moved DEF Place
<1>4. /\ to \notin {"none", "T_quit", "T_remove", "T_zap"} \union Ended
      /\ pc[p] \notin {"none", "T_quit", "T_remove", "T_zap"} \union Ended
      /\ to \in Launching => to \notin Spawning
      /\ to \in Spawning => to \notin Launching
  BY DEF Spawning, Launching, Ended
<1>5. Step(p)
  BY <1>2, <1>3, <1>4 DEF Step
<1>6. SamePlaces
  BY <1>2, <1>3, <1>4 DEF SamePlaces
<1>7. c \in Slot /\ c # -1 /\ -1 \notin Slot
  BY EntryIsPid, NullIsNone DEF NULL
<1>8. TableStep
  <2>1. ASSUME NEW s \in Slot
        PROVE  /\ ProcTable3'[s].parent = ProcTable3[s].parent \/ \E a \in Pid : Spawns(a, s)'
               /\ \/ ProcTable3'[s].pid = ProcTable3[s].pid
                  \/ ProcTable3[s].pid = -1 /\ ProcTable3'[s].pid = s /\ s # Start2
    BY DEF FillsOnly
  <2>2. ASSUME NEW s \in Slot
        PROVE  /\ ProcTable3'[s].children.type = IF ProcTable3'[s].pid = -1 THEN "BLOCKED" ELSE "CHILDREN"
               /\ ProcTable3'[s].pid = -1 => ProcTable3'[s].children.size \in Nat
    <3>1. CASE ProcTable3'[s].pid = ProcTable3[s].pid /\ ProcTable3'[s].children = ProcTable3[s].children
      BY <1>1, <3>1 DEF Entries
    <3>2. CASE s = c /\ ProcTable3'[s].pid = s /\ ProcTable3'[s].children = EmptyQueue("CHILDREN")
      BY <1>7, <3>2 DEF EmptyQueue
    <3> QED BY <3>1, <3>2 DEF FillsOnly
  <2> QED BY <2>1, <2>2 DEF TableStep
<1>9. \A a, d \in Pid : Spawns(a, d)' /\ pc'[a] = "S_send" => ProcTable3'[d].parent = a
  <2> SUFFICES ASSUME NEW a \in Pid, NEW d \in Pid, Spawns(a, d)', pc'[a] = "S_send"
               PROVE  ProcTable3'[d].parent = a
    OBVIOUS
  <2>1. Spawns(a, d)
    BY <1>5, StepPlaces DEF Spawns
  <2>2. CASE a = p
    <3>1. to = "S_send" /\ d = c
      BY <1>3, <1>4, <2>1, <2>2 DEF Only, Spawns
    <3> QED BY <2>2, <3>1
  <2>3. CASE a # p
    <3>1. pc[a] = "S_send" /\ pc[a] \in Spawning
      BY <1>3, <2>1, <2>3 DEF Spawns
    <3>2. ProcTable3[d].parent = a
      BY <1>1, <2>1, <3>1 DEF Newest
    <3>3. pc[p] \notin Spawning
      BY <2>1, <2>3 DEF Only, Spawning, Launching
    <3>4. ~Spawns(p, c)'
      BY <1>3, <1>4, <3>3 DEF Spawns
    <3> QED BY <3>2, <3>4, EntryIsPid DEF FillsOnly
  <2> QED BY <2>2, <2>3
<1>10. \A a, d \in Pid : Spawns(a, d) => Spawns(a, d)' \/ Filled(d)'
  <2> SUFFICES ASSUME NEW a \in Pid, NEW d \in Pid, Spawns(a, d) PROVE Spawns(a, d)'
    OBVIOUS
  <2>1. pc[p] \in Spawning => to \in Spawning
    BY DEF Spawning, Launching
  <2> QED BY <1>2, <1>3, <2>1 DEF Spawns
<1>11. ZappedDone'
  <2>1. \A q \in Pid : pc[q] \in Ended => pc'[q] \in Ended
    BY <1>5, StepPlaces
  <2>2. \A x \in zapped : pc'[x] \in Ended \/ (pc'[parentOf'[x]] = "T_zap" /\ other'[parentOf'[x]] = x)
    BY <1>1, <1>2, <1>3, <2>1, ZappedStay
  <2> QED BY <1>2, <2>2 DEF ZappedDone
<1>12. TopAtQuit'
  BY <1>1, <1>3, <1>4, TopStays
<1>13. pc[p] \in Launching => pc'[p] \in Launching
  BY <1>3 DEF Launching, Spawning
<1>14. Typed' /\ NotHalted'
  BY <1>1, <1>2 DEF ListInv, Typed, NotHalted
<1>15. Family'
  BY <1>1, <1>5, <1>8, <1>9, <1>10, <1>11, <1>12, <1>13, <1>14, FamilyStep
<1>16. Forward(ProcTable3)' /\ Unlinked' /\ Lists'
  <2>1. \A s \in Slot :
          /\ ProcTable3'[s].nextSibling = ProcTable3[s].nextSibling
          /\ \/ ProcTable3'[s].pid = ProcTable3[s].pid /\ ProcTable3'[s].children = ProcTable3[s].children
             \/ s \in Pid => /\ pc[s] \in Launching
                             /\ ProcTable3'[s].children = EmptyQueue("CHILDREN")
    BY DEF FillsOnly
  <2> QED BY <1>1, <1>6, <2>1, ListsStay
<1>17. LeavesLast'
  BY <1>2, <1>3, <1>4, <1>5, LeavesStay DEF ListInv
<1> QED BY <1>14, <1>15, <1>16, <1>17 DEF ListInv

LEMMA Inits ==
  ASSUME NoEntryTwice, SpawnInv, SpawnInv', ListInv, NEW p \in Pid, Runs(p),
         S_init(p) \/ L_init(p) \/ S_give(p)
  PROVE  ListInv'
<1>1. Kernel3 /\ Meeting /\ ProcTable3 \in Table
  BY DEF SpawnInv, Kernel3
<1>2. UNCHANGED <<kernelVars, other, halted, box, ran, midRemoved>>
  BY DEF S_init, L_init, S_give, seenVars
<1>3. CASE L_init(p)
  <2>1. pc[p] = "L_init" /\ pc' = [pc EXCEPT ![p] = "L_recv"] /\ ProcTable3' = initProc(ProcTable3, p, "spawnLaunch")
    BY <1>3 DEF L_init, At
  <2>2. pc[p] \in Launching /\ "L_recv" \in Launching \ {"L_zapped", "S_enq"}
    BY <2>1 DEF Launching
  <2>3. ProcTable3[p].pid = -1 /\ p # Start2
    BY <2>1, <2>2, LaunchPlace
  <2>4. /\ ProcTable3'[p].pid = p /\ ProcTable3'[p].children = EmptyQueue("CHILDREN")
        /\ \A s \in Slot :
             /\ ProcTable3'[s].nextSibling = ProcTable3[s].nextSibling /\ ProcTable3'[s].parent = ProcTable3[s].parent
             /\ s # p => ProcTable3'[s].pid = ProcTable3[s].pid /\ ProcTable3'[s].children = ProcTable3[s].children
    BY <1>1, <2>1, InitList
  <2>5. FillsOnly(p, p)
    BY <2>3, <2>4 DEF FillsOnly
  <2> QED BY <1>2, <2>1, <2>2, <2>3, <2>5, FillStep
<1> DEFINE c == other[p]
<1>4. CASE S_init(p) \/ S_give(p)
  <2>1. pc[p] \in {"S_init", "S_give"} /\ pc[p] \in Spawning /\ c \in Pid
    BY <1>1, <1>4 DEF S_init, S_give, At, Spawning, Kernel3
  <2>2. Spawns(p, c)
    BY <2>1 DEF Spawns
  <2>3. /\ Apart(p, c) /\ Only(p, c) /\ c # Start2 /\ pc[c] \in Launching
        /\ ChildFirst(p, c) \/ ParentFirst(p, c)
    BY <1>1, <2>1, <2>2, OneSpawns DEF Meeting, Apart, Start2, Start3, ChildFirst, ParentFirst, Launching
  <2>4. CASE S_init(p)
    <3>1. /\ pc[p] = "S_init" /\ pc' = [pc EXCEPT ![p] = "S_give"]
          /\ ProcTable3' = initProc(ProcTable3, c, "spawnReal")
      BY <2>4 DEF S_init, At
    <3>2. ProcTable3[c].pid = -1
      BY <2>1, <2>3, <3>1, EntryIsPid DEF ChildFirst, ParentFirst
    <3>3. /\ ProcTable3'[c].pid = c /\ ProcTable3'[c].children = EmptyQueue("CHILDREN")
          /\ \A s \in Slot :
               /\ ProcTable3'[s].nextSibling = ProcTable3[s].nextSibling /\ ProcTable3'[s].parent = ProcTable3[s].parent
               /\ s # c => ProcTable3'[s].pid = ProcTable3[s].pid /\ ProcTable3'[s].children = ProcTable3[s].children
      BY <1>1, <2>1, <3>1, InitList
    <3>4. "S_give" \in (Spawning \union Launching) \ {"S_enq", "L_zapped"} /\ "S_give" \in Spawning
      BY DEF Spawning
    <3>5. FillsOnly(p, c)
      BY <3>2, <3>3 DEF FillsOnly
    <3> HIDE DEF c
    <3> QED BY <1>2, <2>1, <2>3, <3>1, <3>4, <3>5, FillStep
  <2>5. CASE S_give(p)
    <3>1. /\ pc[p] = "S_give" /\ pc' = [pc EXCEPT ![p] = "S_send"]
          /\ ProcTable3' = Given(ProcTable3, c, p)
      BY <2>5 DEF S_give, At, Given
    <3>2. /\ ProcTable3'[c].parent = p
          /\ \A s \in Slot :
               /\ ProcTable3'[s].nextSibling = ProcTable3[s].nextSibling /\ ProcTable3'[s].pid = ProcTable3[s].pid
               /\ ProcTable3'[s].children = ProcTable3[s].children
               /\ s # c => ProcTable3'[s].parent = ProcTable3[s].parent
      BY <1>1, <2>1, <3>1, GiveList
    <3>3. "S_send" \in (Spawning \union Launching) \ {"S_enq", "L_zapped"} /\ "S_send" \in Spawning
      BY DEF Spawning
    <3>4. Spawns(p, c)'
      BY <1>1, <1>2, <3>1, <3>3 DEF Spawns, Kernel3
    <3>5. FillsOnly(p, c)
      BY <3>2, <3>4 DEF FillsOnly
    <3> HIDE DEF c
    <3> QED BY <1>2, <2>1, <2>3, <3>1, <3>2, <3>3, <3>5, FillStep
  <2> QED BY <1>4, <2>4, <2>5
<1> QED BY <1>3, <1>4

-----------------------------------------------------------------------------
(***************************************************************************)
(* The steps that put a child into a list or take one out.                 *)
(***************************************************************************)

\* A process that has its entry has a sound list.
LEMMA OwnList ==
  ASSUME NoEntryTwice, Entries, Lists, NEW p \in Pid \ {Start2}, pc[p] \notin Launching \union {"none"}
  PROVE  /\ ProcTable3[p].pid = p /\ ProcTable3[p].children.type = "CHILDREN"
         /\ SoundList(p) /\ p \in Slot
<1>1. p \in Slot /\ p # -1
  BY EntryIsPid
<1>2. ProcTable3[p].pid = p
  BY <1>1 DEF Entries
<1> QED BY <1>1, <1>2 DEF Entries, Lists

\* Where the list of p leads to.
LEMMA ListReach ==
  ASSUME NoEntryTwice, Kernel3, Forward(ProcTable3), NEW p \in Pid, SoundList(p),
         NEW q, q = ProcTable3[p].children, NEW R, R = Reach(ProcTable3, p)
  PROVE  /\ Sound(R, q.head, q.tail, q.size, Known(p), Put(p), midRemoved)
         /\ Chain(ProcTable3, q.head, R)
         /\ R \subseteq Put(p) /\ Known(p) \subseteq Put(p) /\ Put(p) \subseteq Children(p)
         /\ Put(p) \subseteq Pid /\ R \subseteq Nat
         /\ \A s \in R : q.head # NULL /\ q.head \in R /\ q.head <= s
<1>1. p \in Slot /\ Pid \subseteq Nat /\ ProcTable3 \in Table
  BY EntryIsPid DEF Kernel3
<1>2. Sound(R, q.head, q.tail, q.size, Known(p), Put(p), midRemoved)
  BY DEF SoundList
<1>3. Chain(ProcTable3, q.head, R)
  BY <1>1, HeadPointer, ReachIsChain
<1>4. R \subseteq Put(p)
  BY <1>2 DEF Sound
<1>5. Known(p) \subseteq Put(p) /\ Put(p) \subseteq Children(p) /\ Put(p) \subseteq Pid
  BY KnownIsPut
<1>6. \A s \in R : q.head # NULL /\ q.head \in R /\ q.head <= s
  BY <1>3, ChainOrder
<1> QED BY <1>1, <1>2, <1>3, <1>4, <1>5, <1>6

LEMMA ZapsDone ==
  ASSUME NoEntryTwice, SpawnInv, SpawnInv', ListInv, NEW p \in Pid, Runs(p), T_zap(p),
         UNCHANGED <<parentOf, priority, lastPid, box, ran>>
  PROVE  ListInv'
<1>1. /\ pc[p] = "T_zap" /\ pc' = [pc EXCEPT ![p] = "T_loop"]
      /\ UNCHANGED <<ProcTable3, kernelVars, other, midRemoved, halted, zapped>>
  BY DEF T_zap, At, kernelVars
<1>2. /\ "T_loop" \in Place \ ({"none", "S_enq", "S_send", "T_quit"} \union Ended)
      /\ "T_loop" \notin Launching \union Spawning /\ pc[p] \notin Launching \union Spawning
  BY <1>1 DEF Place, Ending, Ended, Launching, Spawning
<1>3. Typed' /\ NotHalted'
  BY <1>1 DEF ListInv, Family, Typed, NotHalted
<1> QED BY <1>1, <1>2, <1>3, RestsAlone

\* "zap all children": with an empty list all the children have ended.
LEMMA LoopEnds ==
  ASSUME NoEntryTwice, SpawnInv, ListInv, NEW p \in Pid, Runs(p), pc[p] = "T_loop", ~midRemoved,
         ProcTable3[p].children.size <= 0
  PROVE  \A c \in Children(p) : pc[c] \in Ended
<1>1. /\ Kernel3 /\ Typed /\ Parents /\ Entries /\ ZappedDone /\ TopAtQuit
      /\ Forward(ProcTable3) /\ Lists /\ p # Start2
  BY OthersEnd DEF SpawnInv, ListInv, Family
<1>2. SoundList(p)
  BY <1>1, OwnList DEF Launching
<1>3. Known(p) = {}
  <2>1. Known(p) \subseteq Pid
    BY KnownIsPut
  <2>2. IsFiniteSet(Known(p)) /\ Cardinality(Known(p)) \in Nat
    BY <2>1, PidsFinite
  <2>3. Cardinality(Known(p)) = 0
    BY <1>2, <2>2 DEF SoundList, Sound
  <2> QED BY <2>2, <2>3, FS_EmptySet
<1> SUFFICES ASSUME NEW c \in Children(p), pc[c] \notin Ended PROVE FALSE
  OBVIOUS
<1>4. c \in Pid \ {Start2} /\ parentOf[c] = p /\ pc[c] # "none"
  BY KnownIsPut
<1>5. c \notin zapped
  BY <1>1, <1>4 DEF ZappedDone
<1>6. pc[c] = "T_quit"
  BY <1>3, <1>5 DEF Known
<1>7. c = p
  BY <1>1, <1>4, <1>6, OnlyRunnerQuits
<1> QED BY <1>6, <1>7

\* The first entry of a list is that of a child.
LEMMA HeadIsChild ==
  ASSUME NoEntryTwice, SpawnInv, ListInv, NEW p \in Pid, pc[p] = "T_loop",
         NEW h, h = ProcTable3[p].children.head, h # NULL
  PROVE  /\ h \in Reach(ProcTable3, p) /\ h \in Put(p) /\ h \in Pid \ {Start2} /\ parentOf[h] = p
         /\ pc[h] # "none" /\ ProcTable3[h].pid = h /\ p # h
<1>1. /\ Kernel3 /\ Typed /\ Parents /\ Entries /\ Forward(ProcTable3) /\ Lists /\ p # Start2
  BY OthersEnd DEF SpawnInv, ListInv, Family
<1>2. SoundList(p)
  BY <1>1, OwnList DEF Launching
<1>3. h \in Reach(ProcTable3, p) /\ h \in Put(p)
  BY <1>1, <1>2, ListReach DEF Chain
<1>4. h \in Pid \ {Start2} /\ parentOf[h] = p /\ pc[h] # "none"
  BY <1>3, KnownIsPut
<1>5. p < h /\ (Spawns(p, h) \/ Filled(h))
  BY <1>1, <1>4 DEF Parents
<1>6. ~Spawns(p, h)
  BY DEF Spawns, Spawning
<1>7. p # h
  BY <1>5, EntryIsPid
<1> QED BY <1>3, <1>4, <1>5, <1>6, <1>7 DEF Filled

\* A list that is not empty has a first entry, whose process has not ended.
LEMMA LoopFinds ==
  ASSUME NoEntryTwice, SpawnInv, ListInv, NEW p \in Pid, pc[p] = "T_loop", ~midRemoved,
         NEW q, q = ProcTable3[p].children, q.size > 0
  PROVE  q.head # NULL /\ q.head \in Known(p) /\ ProcTable3[q.head].pid = q.head
<1>1. /\ Kernel3 /\ Entries /\ Forward(ProcTable3) /\ Lists /\ p # Start2
  BY OthersEnd DEF SpawnInv, ListInv, Family
<1>2. SoundList(p)
  BY <1>1, OwnList DEF Launching
<1> DEFINE R == Reach(ProcTable3, p)
<1>3. /\ Sound(R, q.head, q.tail, q.size, Known(p), Put(p), midRemoved)
      /\ \A s \in R : q.head # NULL /\ q.head \in R /\ q.head <= s
      /\ R \subseteq Nat
  BY <1>1, <1>2, ListReach
<1> HIDE DEF R
<1>4. Known(p) \subseteq R /\ q.size = Cardinality(Known(p))
  BY <1>3 DEF Sound
<1>5. Known(p) # {}
  BY <1>4, CardEmpty
<1>6. PICK k \in Known(p) : TRUE
  BY <1>5
<1>7. q.head # NULL /\ q.head \in R /\ (q.head = k \/ q.head < k)
  <2>1. k \in R
    BY <1>4, <1>6
  <2>2. q.head # NULL /\ q.head \in R /\ q.head <= k
    BY <1>3, <2>1
  <2>3. q.head \in Nat /\ k \in Nat
    BY <1>3, <2>1, <2>2
  <2> QED BY <2>2, <2>3
<1>8. q.head \in Known(p)
  BY <1>3, <1>4, <1>7 DEF Sound
<1> QED BY <1>7, <1>8, HeadIsChild

\* The child is zapped as it is taken off the list.
LEMMA LoopTakes ==
  ASSUME NoEntryTwice, SpawnInv, SpawnInv', ListInv, NEW p \in Pid, Runs(p), pc[p] = "T_loop",
         UNCHANGED <<parentOf, priority, lastPid, box, ran, halted, midRemoved>>,
         NEW q, q = ProcTable3[p].children, q.size > 0, q.head # NULL,
         NEW child, child = ProcTable3[q.head].pid,
         pc' = [pc EXCEPT ![p] = "T_zap"],
         ProcTable3' = deq3(ProcTable3, p), zapped' = zapped \union {child},
         other' = [other EXCEPT ![p] = child]
  PROVE  ListInv'
<1> DEFINE t == ProcTable3
           u == ProcTable3'
           h == q.head
           R == Reach(t, p)
<1>1. /\ Kernel3 /\ Unknown /\ Distinct /\ Kernel3' /\ p # Start2
      /\ Typed /\ Parents /\ Newest /\ Entries /\ ZappedDone /\ TopAtQuit /\ Family
      /\ Forward(t) /\ Unlinked /\ Lists
  BY OthersEnd DEF SpawnInv, ListInv, Family
<1>2. /\ h \in R /\ h \in Put(p) /\ h \in Pid \ {Start2} /\ parentOf[h] = p
      /\ pc[h] # "none" /\ child = h /\ p # h
  BY HeadIsChild
<1>3. SoundList(p) /\ p \in Slot /\ t \in Table /\ q.type = "CHILDREN" /\ Pid \subseteq Slot
  BY <1>1, OwnList, EntryIsPid DEF Launching, Kernel3
<1>4. pc'[p] = "T_zap" /\ \A x \in Pid \ {p} : pc'[x] = pc[x]
  BY <1>1, Moved DEF Place, Ending
<1>5. other'[p] = h /\ \A x \in Pid \ {p} : other'[x] = other[x]
  BY <1>1, <1>2 DEF Kernel3
<1>6. Step(p)
  BY <1>4, <1>5 DEF Step, Ended, Launching, Spawning
<1> DEFINE g == IF h = q.tail THEN NULL ELSE t[h].nextSibling
           l == IF h = q.tail THEN NULL ELSE q.tail
<1>7. IsList(u[p].children, g, l, q.size - 1, q.type) /\ Elsewhere(t, u, p, NULL)
  BY <1>3, DeqDoes
<1>8. /\ Forward(u)
      /\ Reach(u, p) = IF h = q.tail THEN {} ELSE R \ {h}
      /\ \A o \in Slot \ {p} : Reach(u, o) = Reach(t, o)
  BY <1>1, <1>3, DeqReach
<1>9. /\ \A s \in Slot : u[s].pid = t[s].pid /\ u[s].nextSibling = t[s].nextSibling /\ u[s].parent = t[s].parent
      /\ \A s \in Slot \ {p} : u[s].children = t[s].children
  <2>1. Keeps(t, u)
    BY <1>3, DeqKeeps
  <2> QED BY <1>7, <2>1, NullIsNone DEF Elsewhere, Keeps
<1> HIDE DEF g, l, R
<1>10. /\ \A x \in Pid \ {p} : Put(x)' = Put(x) /\ Known(x)' = Known(x)
       /\ Put(p)' = Put(p) \ {h} /\ Known(p)' = Known(p) \ {h}
  <2>1. \A x \in Pid : Children(x)' = Children(x)
    BY <1>6, StepPlaces
  <2>2. \A x, c \in Pid : Appends(x, c)' <=> Appends(x, c)
    BY <1>4, <1>5 DEF Appends
  <2>3. \A x \in Pid : Put(x)' = Put(x) \ {h}
    BY <1>2, <2>1, <2>2 DEF Put, Children
  <2>4. \A x \in Pid : Known(x)' = {c \in Put(x)' : pc'[c] \notin Ended \union {"T_quit"}}
    BY DEF Known, Put, Appends
  <2>5. \A x \in Pid : Known(x) = {c \in Put(x) : pc[c] \notin Ended \union {"T_quit"}} /\ Put(x) \subseteq Pid
    BY KnownIsPut
  <2>6. \A c \in Pid : pc'[c] \in Ended \union {"T_quit"} <=> pc[c] \in Ended \union {"T_quit"}
    BY <1>4 DEF Ended
  <2>7. \A x \in Pid : Known(x)' = Known(x) \ {h}
    BY <2>3, <2>4, <2>5, <2>6
  <2>8. \A x \in Pid \ {p} : h \notin Put(x) /\ h \notin Known(x)
    BY <1>2, KnownIsPut
  <2>9. ASSUME NEW x \in Pid \ {p} PROVE Put(x)' = Put(x) /\ Known(x)' = Known(x)
    <3>1. Put(x) \ {h} = Put(x) /\ Known(x) \ {h} = Known(x)
      BY <2>8
    <3>2. Put(x)' = Put(x) \ {h} /\ Known(x)' = Known(x) \ {h}
      BY <2>3, <2>7
    <3> QED BY <3>1, <3>2
  <2>10. Put(p)' = Put(p) \ {h} /\ Known(p)' = Known(p) \ {h}
    BY <2>3, <2>7
  <2> QED BY <2>9, <2>10
<1>11. Typed'
  BY <1>1, <1>2 DEF Typed
<1>12. ZappedDone'
  <2>1. \A x \in Pid : pc[x] \in Ended => pc'[x] \in Ended
    BY <1>6, StepPlaces
  <2>2. \A c \in zapped : pc'[c] \in Ended \/ (pc'[parentOf'[c]] = "T_zap" /\ other'[parentOf'[c]] = c)
    BY <1>1, <1>4, <1>5, <2>1, ZappedStay
  <2> QED BY <1>2, <1>4, <1>5, <2>2 DEF ZappedDone
<1>13. TopAtQuit'
  BY <1>1, <1>4, TopStays
<1>14. TableStep
  <2>1. u[p].children.type = "CHILDREN" /\ t[p].children.type = "CHILDREN"
    BY <1>3, <1>7 DEF IsList
  <2>2. \A s \in Slot : /\ t[s].children.type = IF t[s].pid = -1 THEN "BLOCKED" ELSE "CHILDREN"
                        /\ t[s].pid = -1 => t[s].children.size \in Nat
    BY <1>1 DEF Entries
  <2>3. t[p].pid # -1
    BY <1>3, <2>1, <2>2
  <2> QED BY <1>9, <2>1, <2>2, <2>3 DEF TableStep
<1>15. \A a, d \in Pid : Spawns(a, d)' /\ pc'[a] = "S_send" => ProcTable3'[d].parent = a
  <2> SUFFICES ASSUME NEW a \in Pid, NEW d \in Pid, Spawns(a, d)', pc'[a] = "S_send"
               PROVE  ProcTable3'[d].parent = a
    OBVIOUS
  <2>1. a # p
    BY <1>4
  <2>2. Spawns(a, d) /\ pc[a] = "S_send"
    BY <1>4, <1>5, <2>1 DEF Spawns
  <2> QED BY <1>1, <1>3, <1>9, <2>2 DEF Newest
<1>16. \A a, d \in Pid : Spawns(a, d) => Spawns(a, d)' \/ Filled(d)'
  BY <1>4, <1>5 DEF Spawns, Spawning
<1>17. Family'
  BY <1>1, <1>6, <1>11, <1>12, <1>13, <1>14, <1>15, <1>16, FamilyStep DEF Launching
<1>18. LeavesLast' /\ NotHalted'
  BY <1>4, <1>6, LeavesStay DEF ListInv, NotHalted
<1>19. Unlinked'
  <2>1. \A c \in Pid, a \in Pid : Appends(a, c)' => Appends(a, c)
    BY <1>4, <1>5 DEF Appends
  <2>2. \A c \in Pid : pc'[c] = "none" => pc[c] = "none"
    BY <1>4
  <2> QED BY <1>1, <1>3, <1>9, <2>1, <2>2 DEF Unlinked
<1>20. SoundList(p)'
  <2>1. /\ Sound(R, h, q.tail, q.size, Known(p), Put(p), midRemoved)
        /\ Chain(t, h, R) /\ Known(p) \subseteq Put(p) /\ Put(p) \subseteq Pid
        /\ \A s \in R : h <= s
    BY <1>1, <1>3, ListReach DEF R
  <2>2. t[h].nextSibling = NULL => \A s \in R : s = h
    <3> SUFFICES ASSUME t[h].nextSibling = NULL, NEW s \in R, s # h PROVE FALSE
      OBVIOUS
    <3>1. h <= s /\ R \subseteq Slot /\ Slot \subseteq Nat /\ NULL \notin Slot
      BY <2>1, NullIsNone DEF Chain
    <3>2. h \in Nat /\ s \in Nat /\ h # s
      BY <1>2, <3>1
    <3>3. h < s
      BY <3>1, <3>2
    <3>4. t[h].nextSibling \in R
      BY <1>1, <1>2, <2>1, <3>3, ChainOrder
    <3> QED BY <3>1, <3>4
  <2> DEFINE z == t[h].nextSibling
             K == Known(p)
             P == Put(p)
  <2> HIDE DEF z, K, P
  <2>3. Sound(IF h = q.tail THEN {} ELSE R \ {h}, IF h = q.tail THEN NULL ELSE z,
              IF h = q.tail THEN NULL ELSE q.tail, q.size - 1, K \ {h}, P \ {h}, midRemoved)
    <3>1. Sound(R, h, q.tail, q.size, K, P, midRemoved) /\ K \subseteq P /\ P \subseteq Pid
      BY <2>1 DEF K, P
    <3>2. z = NULL => \A s \in R : s = h
      BY <2>2 DEF z
    <3> QED BY <1>2, <2>1, <3>1, <3>2, SoundTake
  <2>4. /\ u[p].children.head = (IF h = q.tail THEN NULL ELSE z)
        /\ u[p].children.tail = (IF h = q.tail THEN NULL ELSE q.tail)
        /\ u[p].children.size = q.size - 1
    BY <1>7 DEF IsList, g, l, z
  <2>5. Known(p)' = K \ {h} /\ Put(p)' = P \ {h} /\ midRemoved' = midRemoved
    BY <1>10 DEF K, P
  <2> QED BY <1>8, <2>3, <2>4, <2>5 DEF SoundList
<1>21. ASSUME NEW x \in Pid \ {Start2}, x # p, u[x].pid = x PROVE SoundList(x)'
  <2>1. x \in Slot /\ SoundList(x) /\ u[x].children = t[x].children /\ Reach(u, x) = Reach(t, x)
    BY <1>1, <1>3, <1>8, <1>9, <1>21 DEF Lists
  <2> QED BY <1>10, <1>21, <2>1 DEF SoundList
<1>22. Lists'
  BY <1>20, <1>21 DEF Lists
<1> QED BY <1>8, <1>17, <1>18, <1>19, <1>22 DEF ListInv

LEMMA Loops ==
  ASSUME NoEntryTwice, SpawnInv, SpawnInv', ListInv, NEW p \in Pid, Runs(p), T_loop(p),
         UNCHANGED <<parentOf, priority, lastPid, box, ran>>
  PROVE  ListInv'
<1> DEFINE q     == ProcTable3[p].children
           child == ProcTable3[q.head].pid
           found == q.head # NULL /\ child # -1 /\ pc[child] \notin {"none", "gone"}
<1>1. pc[p] = "T_loop" /\ SlotOf(p) = p /\ Kernel3 /\ ~halted
  BY EntryIsPid DEF T_loop, At, Stops, SpawnInv, Runs
<1>2. /\ "T_remove" \in Place \ ({"none", "S_enq", "S_send", "T_quit"} \union Ended)
      /\ "T_remove" \notin Launching \union Spawning /\ pc[p] \notin Launching \union Spawning
  BY <1>1 DEF Place, Ending, Ended, Launching, Spawning
<1>3. CASE q.size <= 0 /\ At(p, "T_loop", "T_remove") /\ UNCHANGED <<ProcTable3, zapped, halted, other, midRemoved>>
  <2>1. ~midRemoved => \A c \in Children(p) : pc[c] \in Ended
    BY <1>1, <1>3, LoopEnds
  <2>2. Typed' /\ NotHalted'
    BY <1>3 DEF ListInv, Family, Typed, NotHalted
  <2>3. pc' = [pc EXCEPT ![p] = "T_remove"] /\ UNCHANGED <<ProcTable3, kernelVars, other, midRemoved>>
    BY <1>3 DEF At, kernelVars
  <2> QED BY <1>1, <1>2, <2>1, <2>2, <2>3, RestsAlone
<1>4. CASE /\ q.size > 0 /\ found /\ At(p, "T_loop", "T_zap")
           /\ ProcTable3' = deq3(ProcTable3, p)
           /\ zapped' = zapped \union {child}
           /\ other' = [other EXCEPT ![p] = child]
           /\ UNCHANGED <<halted, midRemoved>>
  <2>1. pc' = [pc EXCEPT ![p] = "T_zap"]
    BY <1>4 DEF At
  <2> QED BY <1>1, <1>4, <2>1, LoopTakes
<1>5. CASE /\ q.size > 0 /\ ~found /\ Stops(p, "T_loop")
           /\ UNCHANGED <<ProcTable3, zapped, other, midRemoved>>
  <2>1. midRemoved
    <3> SUFFICES ASSUME ~midRemoved PROVE FALSE
      OBVIOUS
    <3>1. q.head # NULL /\ q.head \in Known(p) /\ child = q.head
      BY <1>1, <1>5, LoopFinds
    <3>2. q.head # -1 /\ pc[q.head] \notin {"none", "gone"}
      BY <3>1, EntryIsPid DEF Known, Children, Ended
    <3> QED BY <1>5, <3>1, <3>2
  <2>2. UNCHANGED pc /\ halted' = TRUE
    BY <1>5 DEF Stops
  <2>3. Typed' /\ NotHalted'
    BY <1>5, <2>1, <2>2 DEF ListInv, Family, Typed, NotHalted
  <2>4. Step(p)
    BY <1>1, <1>5, <2>2 DEF Step, Ended, Launching, Spawning
  <2>5. SamePlaces
    BY <1>5, <2>2 DEF SamePlaces
  <2>6. LeavesLast'
    BY <1>5, <2>1 DEF LeavesLast
  <2> QED BY <1>1, <1>2, <1>5, <2>2, <2>3, <2>4, <2>5, <2>6, Rests
<1> QED BY <1>1, <1>3, <1>4, <1>5 DEF T_loop

\* The entry of a process that ends names its parent.
LEMMA RemovesFrom ==
  ASSUME NoEntryTwice, SpawnInv, ListInv, NEW p \in Pid, pc[p] = "T_remove",
         NEW o, o = ProcTable3[p].parent
  PROVE  /\ o = parentOf[p] /\ o \in Pid /\ o \in Slot /\ o # NULL /\ o # p /\ p \in Children(o)
         /\ pc[o] \notin Launching \union {"none"} /\ p # Start2 /\ p \in Slot
         /\ \A a \in Pid : ~Spawns(a, p)
<1>1. Kernel3 /\ Meeting /\ Typed /\ Parents /\ p # Start2
  BY OthersEnd DEF SpawnInv, ListInv, Family
<1>2. \A a \in Pid : ~Spawns(a, p)
  BY <1>1 DEF Meeting, ChildFirst, ParentFirst
<1>3. parentOf[p] \in Pid /\ parentOf[p] < p /\ Filled(p) /\ pc[parentOf[p]] \notin Launching \union {"none"}
  BY <1>1, <1>2 DEF Typed, Parents
<1>4. o = parentOf[p] /\ o \in Pid /\ p \in Children(o) /\ o # p
  <2>1. o = parentOf[p]
    BY <1>3 DEF Filled
  <2>2. p \in Nat
    BY EntryIsPid
  <2> QED BY <1>1, <1>3, <2>1, <2>2 DEF Children
<1> QED BY <1>1, <1>2, <1>3, <1>4, EntryIsPid

\* u is the table after removeChild3: the list of o is sound without p, and the
\* others are what they were.
Removed(u, o, p) ==
  LET q == u[o].children
  IN  /\ Forward(u) /\ q.type = "CHILDREN"
      /\ Sound(Reach(u, o), q.head, q.tail, q.size, Known(o) \ {p}, Put(o),
               midRemoved \/ InMiddle(ProcTable3, o, p))
      /\ \E b \in Put(o) \union {NULL} : Elsewhere(ProcTable3, u, o, b)
      /\ \A x \in Slot \ {o} : Reach(ProcTable3, x) \intersect Put(o) = {} =>
           Reach(u, x) = Reach(ProcTable3, x)

\* What deq3 leaves in reach.
TakenOff(t, u, o) ==
  LET q == t[o].children
  IN  /\ Forward(u)
      /\ Reach(u, o) = IF q.head = q.tail THEN {} ELSE Reach(t, o) \ {q.head}
      /\ \A x \in Slot \ {o} : Reach(u, x) = Reach(t, x)

LEMMA DeqTakesOff ==
  ASSUME NEW t \in Table, Forward(t), NEW o \in Slot, t[o].children.head # NULL
  PROVE  TakenOff(t, deq3(t, o), o)
BY DeqReach DEF TakenOff

LEMMA RemovesSound ==
  ASSUME NoEntryTwice, SpawnInv, ListInv, NEW p \in Pid, pc[p] = "T_remove",
         NEW o, o = ProcTable3[p].parent, o # Start2,
         NEW u, u = IF NothingAfter(ProcTable3, o, p) THEN ProcTable3 ELSE removeChild3(ProcTable3, o, p)
  PROVE  Removed(u, o, p)
<1> DEFINE t == ProcTable3
           q == t[o].children
           R == Reach(t, o)
           K == Known(o)
           P == Put(o)
           n == t[p].nextSibling
           mid == midRemoved \/ InMiddle(t, o, p)
<1>1. Kernel3 /\ Entries /\ Forward(t) /\ Lists /\ t \in Table
  BY DEF SpawnInv, ListInv, Family, Kernel3
<1>2. /\ o \in Pid /\ o \in Slot /\ o # p /\ p \in Children(o) /\ p \in Slot
      /\ pc[o] \notin Launching \union {"none"} /\ \A a \in Pid : ~Spawns(a, p)
  BY RemovesFrom
<1>3. SoundList(o) /\ q.type = "CHILDREN"
  BY <1>1, <1>2, OwnList
<1>4. /\ Sound(R, q.head, q.tail, q.size, K, P, midRemoved)
      /\ Chain(t, q.head, R) /\ R \subseteq P /\ K \subseteq P /\ P \subseteq Pid /\ R \subseteq Nat
      /\ \A s \in R : q.head # NULL /\ q.head \in R /\ q.head <= s
  BY <1>1, <1>2, <1>3, ListReach
<1>5. p \in R => p \in K
  BY <1>4, KnownIsPut DEF Ended
<1>6. R \subseteq Slot /\ NULL \notin Slot /\ p # NULL /\ Slot \subseteq Nat
  BY <1>2, <1>4, NullIsNone DEF Chain
<1>7. \A r, s \in R : r < s => t[r].nextSibling \in R /\ t[r].nextSibling <= s
  BY <1>1, <1>4, ChainOrder
<1> HIDE DEF R, K, P, n, mid
<1>8. ASSUME NEW v, Forward(v), v[o].children.type = "CHILDREN",
             Sound(Reach(v, o), v[o].children.head, v[o].children.tail, v[o].children.size, K \ {p}, P, mid),
             NEW b \in P \union {NULL}, Elsewhere(t, v, o, b),
             \A x \in Slot \ {o} : Reach(t, x) \intersect P = {} => Reach(v, x) = Reach(t, x)
      PROVE  Removed(v, o, p)
  BY <1>8 DEF Removed, K, P, mid
<1>9. CASE p \notin R
  <2>1. removeChild3(t, o, p) = t /\ ~InMiddle(t, o, p)
    BY <1>1, <1>2, <1>9, RemoveNone DEF R
  <2>2. u = t
    BY <2>1 DEF NothingAfter
  <2>3. Sound(R, q.head, q.tail, q.size, K \ {p}, P, midRemoved)
    <3>1. Sound(R, q.head, q.tail, q.size, K, P, midRemoved)
      BY <1>4
    <3> HIDE DEF q
    <3> QED BY <1>9, <3>1, SoundForget
  <2>4. mid = midRemoved
    BY <2>1, <1>1 DEF mid, ListInv, Family, Typed
  <2>5. Elsewhere(t, t, o, NULL)
    BY DEF Elsewhere
  <2> QED BY <1>1, <1>3, <1>8, <2>2, <2>3, <2>4, <2>5 DEF R
<1>10. CASE p \in R /\ q.head = p
  <2>1. removeChild3(t, o, p) = deq3(t, o) /\ ~InMiddle(t, o, p)
    BY <1>2, <1>3, <1>10, RemoveFirst
  <2>2. u = deq3(t, o)
    BY <2>1 DEF NothingAfter
  <2>0. mid = midRemoved
    BY <2>1 DEF mid, ListInv, Family, Typed
  <2> DEFINE h == IF p = q.tail THEN NULL ELSE n
             l == IF p = q.tail THEN NULL ELSE q.tail
             S == IF p = q.tail THEN {} ELSE R \ {p}
  <2>3. IsList(u[o].children, h, l, q.size - 1, q.type) /\ Elsewhere(t, u, o, NULL)
    BY <1>1, <1>2, <1>6, <1>10, <2>2, DeqDoes DEF n
  <2>4. Forward(u) /\ Reach(u, o) = S /\ \A x \in Slot \ {o} : Reach(u, x) = Reach(t, x)
    <3>1. q.head # NULL
      BY <1>6, <1>10
    <3>2. /\ Forward(u)
          /\ Reach(u, o) = IF q.head = q.tail THEN {} ELSE Reach(t, o) \ {q.head}
          /\ \A x \in Slot \ {o} : Reach(u, x) = Reach(t, x)
      <4>1. TakenOff(t, deq3(t, o), o)
        BY <1>1, <1>2, <3>1, DeqTakesOff
      <4>2. TakenOff(t, u, o)
        BY <2>2, <4>1
      <4> QED BY <4>2 DEF TakenOff
    <3> HIDE DEF q
    <3> QED BY <1>10, <3>2 DEF R
  <2>5. n = NULL => \A s \in R : s = p
    <3> SUFFICES ASSUME n = NULL, NEW s \in R, s # p PROVE FALSE
      OBVIOUS
    <3>1. p <= s /\ p \in Nat /\ s \in Nat
      BY <1>4, <1>10
    <3>2. p < s
      BY <3>1
    <3>3. n \in R
      BY <1>7, <1>10, <3>2 DEF n
    <3> QED BY <1>6, <3>3
  <2>6. \A s \in R : p <= s
    BY <1>4, <1>10
  <2>7. Sound(S, h, l, q.size - 1, K \ {p}, P, midRemoved)
    <3>1. /\ Sound(R, p, q.tail, q.size, K, P, midRemoved) /\ K \subseteq P /\ P \subseteq Pid
          /\ p \in R /\ p \in K /\ P \ {p} \subseteq P
      BY <1>4, <1>5, <1>10
    <3> HIDE DEF q
    <3>2. Sound(IF p = q.tail THEN {} ELSE R \ {p}, IF p = q.tail THEN NULL ELSE n,
                IF p = q.tail THEN NULL ELSE q.tail, q.size - 1, K \ {p}, P, midRemoved)
      BY <2>5, <2>6, <3>1, SoundTake
    <3> QED BY <3>2
  <2> HIDE DEF h, l, S
  <2> QED BY <1>3, <1>8, <2>0, <2>3, <2>4, <2>7 DEF IsList
<1>11. CASE p \in R /\ q.head # p /\ q.tail = p
  <2>1. ~InMiddle(t, o, p)
    BY <1>11 DEF InMiddle
  <2>2. u = removeChild3(t, o, p) /\ mid = midRemoved
    BY <2>1 DEF NothingAfter, mid, ListInv, Family, Typed
  <2>3. /\ Forward(u) /\ Elsewhere(t, u, o, NULL)
        /\ \E b \in R : /\ t[b].nextSibling = p
                        /\ IsList(u[o].children, q.head, b, q.size - 1, "CHILDREN")
        /\ \A x \in Slot : Reach(u, x) = Reach(t, x)
    BY <1>1, <1>2, <1>3, <1>11, <2>2, RemoveLast DEF R
  <2>4. PICK b \in R : /\ t[b].nextSibling = p
                       /\ IsList(u[o].children, q.head, b, q.size - 1, "CHILDREN")
    BY <2>3
  <2>5. b < p
    BY <1>1, <1>6, <2>4 DEF Forward
  <2>6. \A s \in R : s > b => s >= p
    <3> SUFFICES ASSUME NEW s \in R, s > b PROVE s >= p
      OBVIOUS
    <3>1. b \in Nat /\ s \in Nat /\ p \in Nat
      BY <1>4, <1>11
    <3>2. p <= s
      BY <1>7, <2>4, <3>1
    <3> QED BY <3>1, <3>2
  <2>7. Sound(R, q.head, b, q.size - 1, K \ {p}, P, midRemoved)
    <3>1. Sound(R, q.head, p, q.size, K, P, midRemoved)
      BY <1>4, <1>11
    <3> QED BY <1>4, <1>11, <2>5, <2>6, <3>1, SoundLast
  <2>8. Reach(u, o) = R
    BY <1>2, <2>3 DEF R
  <2> QED BY <1>8, <2>2, <2>3, <2>4, <2>7, <2>8 DEF IsList
<1>12. CASE p \in R /\ q.head # p /\ q.tail # p
  <2>1. /\ InMiddle(t, o, p)
        /\ n # NULL =>
             LET v == removeChild3(t, o, p)
             IN  /\ Forward(v) /\ IsList(v[o].children, q.head, q.tail, q.size - 1, "CHILDREN")
                 /\ Reach(v, o) = R \ {p, n}
                 /\ \E b \in R :
                      /\ t[b].nextSibling = p /\ Elsewhere(t, v, o, b)
                      /\ \A x \in Slot \ {o} : b \notin Reach(t, x) => Reach(v, x) = Reach(t, x)
    BY <1>1, <1>2, <1>3, <1>12, RemoveMiddle DEF R, n
  <2>2. mid = TRUE
    BY <2>1 DEF mid
  <2>3. CASE n = NULL
    <3>1. u = t
      BY <2>1, <2>3 DEF NothingAfter, n
    <3>2. \A s \in R : ~(p < s)
      BY <1>6, <1>7, <1>12, <2>3 DEF n
    <3>3. Sound(R, q.head, q.tail, q.size, K \ {p}, P, TRUE)
      BY <1>4, <1>12, <3>2, SoundTrapped
    <3>4. Elsewhere(t, t, o, NULL)
      BY DEF Elsewhere
    <3> QED BY <1>1, <1>3, <1>8, <2>2, <3>1, <3>3, <3>4 DEF R
  <2>4. CASE n # NULL
    <3>1. u = removeChild3(t, o, p)
      BY <2>4 DEF NothingAfter, n
    <3>2. /\ Forward(u) /\ IsList(u[o].children, q.head, q.tail, q.size - 1, "CHILDREN")
          /\ Reach(u, o) = R \ {p, n}
          /\ \E b \in R :
               /\ Elsewhere(t, u, o, b)
               /\ \A x \in Slot \ {o} : b \notin Reach(t, x) => Reach(u, x) = Reach(t, x)
      BY <2>1, <2>4, <3>1
    <3>3. PICK b \in R : /\ Elsewhere(t, u, o, b)
                         /\ \A x \in Slot \ {o} : b \notin Reach(t, x) => Reach(u, x) = Reach(t, x)
      BY <3>2
    <3>4. \A x \in Slot \ {o} : Reach(t, x) \intersect P = {} => Reach(u, x) = Reach(t, x)
      BY <1>4, <3>3
    <3>5. Sound(R \ {p, n}, q.head, q.tail, q.size - 1, K \ {p}, P, TRUE)
      BY <1>4, <1>5, <1>12, SoundMiddle
    <3> QED BY <1>4, <1>8, <2>2, <3>2, <3>3, <3>4, <3>5 DEF IsList
  <2> QED BY <2>3, <2>4
<1> QED BY <1>9, <1>10, <1>11, <1>12

\* The list of start2 was never initialised, and is left as it is.
LEMMA RemovesNone ==
  ASSUME Entries, Start2 \in Slot, NEW p
  PROVE  removeChild3(ProcTable3, Start2, p) = ProcTable3 /\ ~InMiddle(ProcTable3, Start2, p)
<1>1. ProcTable3[Start2].children.type # "CHILDREN"
  BY DEF Entries
<1> QED BY <1>1, Zenon DEF removeChild3, InMiddle

\* A list that is not touched stays sound.
LEMMA OtherList ==
  ASSUME NEW x, SoundList(x), ProcTable3'[x].children = ProcTable3[x].children,
         Reach(ProcTable3', x) = Reach(ProcTable3, x), Put(x)' = Put(x), Known(x)' = Known(x),
         midRemoved => midRemoved'
  PROVE  SoundList(x)'
BY DEF SoundList, Sound

\* Who a child leaves behind when it gets to its quit.
LEMMA LeavesKnown ==
  ASSUME NEW p \in Pid \ {Start2}, Step(p), UNCHANGED <<zapped, other>>,
         pc[p] = "T_remove", pc'[p] = "T_quit", \A q \in Pid \ {p} : pc'[q] = pc[q]
  PROVE  /\ \A x \in Pid : Put(x)' = Put(x) /\ Known(x)' = Known(x) \ {p}
         /\ \A x \in Pid : x # parentOf[p] => Known(x)' = Known(x)
<1>1. \A x \in Pid : Children(x)' = Children(x)
  BY StepPlaces
<1>2. \A x, c \in Pid : Appends(x, c)' <=> Appends(x, c)
  BY DEF Appends
<1>3. \A x \in Pid : Put(x)' = Put(x)
  BY <1>1, <1>2 DEF Put, Children
<1>4. \A x \in Pid : Known(x)' = {c \in Put(x)' : pc'[c] \notin Ended \union {"T_quit"}}
  BY DEF Known, Put, Appends
<1>5. \A x \in Pid : Known(x) = {c \in Put(x) : pc[c] \notin Ended \union {"T_quit"}} /\ Put(x) \subseteq Pid
  BY KnownIsPut
<1>6. \A x \in Pid : Known(x)' = Known(x) \ {p}
  BY <1>3, <1>4, <1>5
<1>7. ASSUME NEW x \in Pid, x # parentOf[p] PROVE Known(x)' = Known(x)
  <2>1. p \notin Known(x)
    BY <1>7, KnownIsPut
  <2>2. Known(x) \ {p} = Known(x)
    BY <2>1
  <2> QED BY <1>6, <2>2
<1> QED BY <1>3, <1>6, <1>7

LEMMA Removes ==
  ASSUME NoEntryTwice, SpawnInv, SpawnInv', ListInv, NEW p \in Pid, Runs(p), T_remove(p),
         UNCHANGED <<parentOf, priority, lastPid, box, ran>>
  PROVE  ListInv'
<1> DEFINE t == ProcTable3
           u == ProcTable3'
<1>0. PICK o : o = t[p].parent
  OBVIOUS
<1>1. /\ Kernel3 /\ Unknown /\ Distinct /\ Kernel3'
      /\ Typed /\ Parents /\ Newest /\ Entries /\ ZappedDone /\ TopAtQuit /\ Family
      /\ Forward(t) /\ Unlinked /\ Lists /\ LeavesLast /\ t \in Table
  BY DEF SpawnInv, ListInv, Family, Kernel3
<1>2. pc[p] = "T_remove" /\ pc' = [pc EXCEPT ![p] = "T_quit"] /\ UNCHANGED <<zapped, other>>
  BY DEF T_remove, At
<1>3. /\ o = parentOf[p] /\ o \in Pid /\ o \in Slot /\ o # NULL /\ o # p /\ p \in Children(o)
      /\ pc[o] \notin Launching \union {"none"} /\ p # Start2 /\ p \in Slot
      /\ \A a \in Pid : ~Spawns(a, p)
  BY <1>0, <1>2, RemovesFrom
<1>4. SlotOf(p) = p /\ Pid \subseteq Slot /\ Start2 \in Slot
  BY EntryIsPid
<1>5. /\ halted' = NothingAfter(t, o, p)
      /\ u = IF NothingAfter(t, o, p) THEN t ELSE removeChild3(t, o, p)
      /\ midRemoved' = (midRemoved \/ InMiddle(t, o, p))
  <2>1. o = ProcTable3[SlotOf(p)].parent /\ o # NULL
    BY <1>0, <1>3, <1>4
  <2>2. /\ halted' = (o = NULL \/ NothingAfter(t, o, SlotOf(p)))
        /\ u = IF o = NULL \/ NothingAfter(t, o, SlotOf(p)) THEN t ELSE removeChild3(t, o, SlotOf(p))
        /\ midRemoved' = (midRemoved \/ (o # NULL /\ InMiddle(t, o, SlotOf(p))))
    BY <2>1, Zenon DEF T_remove
  <2>3. SlotOf(p) = p
    BY <1>4
  <2>4. halted' = (o = NULL \/ NothingAfter(t, o, p))
    BY <2>2, <2>3
  <2>5. midRemoved' = (midRemoved \/ (o # NULL /\ InMiddle(t, o, p)))
    BY <2>2, <2>3
  <2>6. u = IF o = NULL \/ NothingAfter(t, o, p) THEN t ELSE removeChild3(t, o, p)
    BY <2>2, <2>3
  <2>7. halted' = NothingAfter(t, o, p)
    BY <2>1, <2>4 DEF NothingAfter
  <2>8. midRemoved' = (midRemoved \/ InMiddle(t, o, p))
    BY <2>1, <2>5, Zenon
  <2>9. u = IF NothingAfter(t, o, p) THEN t ELSE removeChild3(t, o, p)
    BY <2>1, <2>6, Zenon
  <2> QED BY <2>7, <2>8, <2>9
<1>6. pc'[p] = "T_quit" /\ \A x \in Pid \ {p} : pc'[x] = pc[x]
  BY <1>1, <1>2, Moved DEF Place, Ending
<1>7. Step(p)
  BY <1>2, <1>6 DEF Step, Ended, Launching, Spawning
<1>8. /\ \A x \in Pid : Put(x)' = Put(x) /\ Known(x)' = Known(x) \ {p}
      /\ \A x \in Pid : x # o => Known(x)' = Known(x)
  BY <1>2, <1>3, <1>6, <1>7, LeavesKnown
<1>9. o = Start2 => u = t /\ ~InMiddle(t, o, p)
  BY <1>1, <1>4, <1>5, RemovesNone
<1>10. o # Start2 => Removed(u, o, p)
  BY <1>0, <1>2, <1>5, RemovesSound
<1>11. Keeps(t, u)
  <2>1. CASE NothingAfter(t, o, p)
    BY <1>1, <1>5, <2>1, KeepsItself
  <2>2. CASE ~NothingAfter(t, o, p)
    BY <1>1, <1>3, <1>5, <2>2, RemoveKeeps
  <2> QED BY <2>1, <2>2
<1>12. PICK b \in Put(o) \union {NULL} : Elsewhere(t, u, o, b)
  <2>1. Elsewhere(t, t, o, NULL)
    BY DEF Elsewhere
  <2> QED BY <1>9, <1>10, <2>1 DEF Removed
<1>13. Forward(u)
  BY <1>1, <1>9, <1>10 DEF Removed
<1>14. /\ \A s \in Slot : u[s].pid = t[s].pid /\ u[s].parent = t[s].parent
       /\ \A s \in Slot \ {o} : u[s].children = t[s].children
       /\ \A s \in Slot \ {b} : u[s].nextSibling = t[s].nextSibling
  BY <1>11, <1>12 DEF Keeps, Elsewhere
<1>15. TableStep
  <2>1. \A s \in Slot : /\ t[s].children.type = IF t[s].pid = -1 THEN "BLOCKED" ELSE "CHILDREN"
                        /\ t[s].pid = -1 => t[s].children.size \in Nat
    BY <1>1 DEF Entries
  <2>2. CASE o = Start2
    BY <1>9, <2>1, <2>2 DEF TableStep
  <2>3. CASE o # Start2
    <3>1. t[o].pid = o /\ o # -1
      BY <1>1, <1>3, <2>3, OwnList, EntryIsPid
    <3>2. u[o].children.type = "CHILDREN"
      BY <1>10, <2>3 DEF Removed
    <3> QED BY <1>14, <2>1, <3>1, <3>2 DEF TableStep
  <2> QED BY <2>2, <2>3
<1>16. Typed'
  BY <1>1, <1>2, <1>5 DEF Typed, NothingAfter, InMiddle
<1>17. ZappedDone'
  <2>1. \A x \in Pid : pc[x] \in Ended => pc'[x] \in Ended
    BY <1>7, StepPlaces
  <2>2. \A c \in zapped : pc'[c] \in Ended \/ (pc'[parentOf'[c]] = "T_zap" /\ other'[parentOf'[c]] = c)
    BY <1>1, <1>2, <1>6, <2>1, ZappedStay
  <2> QED BY <1>2, <2>2 DEF ZappedDone
<1>18. TopAtQuit'
  <2>1. ASSUME NEW q \in Pid \ {p}, Ready(q)' PROVE Ready(q)
    <3>1. \A n \in Pid : pc'[n] \in Ended => pc[n] \in Ended
      BY <1>6 DEF Ended
    <3>2. \A n \in Pid : pc'[n] = "quit" => pc[n] = "quit" /\ parentOf'[n] = parentOf[n]
      BY <1>6
    <3> QED BY <1>1, <1>2, <1>6, <2>1, <3>1, <3>2, ReadyBefore
  <2> QED BY <1>1, <1>6, <2>1, TopStays
<1>19. \A a, d \in Pid : Spawns(a, d)' => Spawns(a, d) /\ pc'[a] = pc[a]
  BY <1>2, <1>6 DEF Spawns, Spawning
<1>20. \A a, d \in Pid : Spawns(a, d)' /\ pc'[a] = "S_send" => ProcTable3'[d].parent = a
  BY <1>1, <1>4, <1>14, <1>19 DEF Newest
<1>21. \A a, d \in Pid : Spawns(a, d) => Spawns(a, d)' \/ Filled(d)'
  BY <1>2, <1>6 DEF Spawns, Spawning
<1>22. Family'
  BY <1>1, <1>2, <1>7, <1>15, <1>16, <1>17, <1>18, <1>20, <1>21, FamilyStep DEF Launching
<1>23. NotHalted'
  BY <1>5 DEF NotHalted, NothingAfter
<1>24. LeavesLast'
  <2> SUFFICES ASSUME ~midRemoved', NEW q \in Pid, pc'[q] \in {"T_remove", "T_quit"},
                      NEW c \in Children(q)'
               PROVE  pc'[c] \in Ended
    BY DEF LeavesLast
  <2>1. ~midRemoved /\ pc[q] \in {"T_remove", "T_quit"} /\ c \in Children(q) /\ c \in Pid
    BY <1>2, <1>5, <1>6, <1>7, StepPlaces DEF Children
  <2> QED BY <1>1, <1>7, <2>1, StepPlaces DEF LeavesLast
<1>25. Unlinked'
  <2> SUFFICES ASSUME NEW c \in Pid, pc'[c] = "none" \/ \E a \in Pid : Appends(a, c)'
               PROVE  u[c].nextSibling = NULL
    BY DEF Unlinked
  <2>1. pc[c] = "none" \/ \E a \in Pid : Appends(a, c)
    BY <1>2, <1>6 DEF Appends
  <2>2. t[c].nextSibling = NULL
    BY <1>1, <2>1 DEF Unlinked
  <2>3. c \notin Put(o)
    <3> SUFFICES ASSUME c \in Put(o) PROVE FALSE
      OBVIOUS
    <3>1. parentOf[c] = o /\ pc[c] # "none" /\ ~Appends(o, c)
      BY KnownIsPut DEF Put
    <3>2. PICK a \in Pid : Appends(a, c)
      BY <2>1, <3>1
    <3>3. a = parentOf[c]
      BY <1>1, <3>2 DEF Appends, Newest, Spawns, Spawning
    <3> QED BY <3>1, <3>2, <3>3
  <2>4. c # b /\ c \in Slot
    BY <1>4, <2>3, EntryIsPid
  <2> QED BY <1>14, <2>2, <2>4
<1>26. ASSUME NEW x \in Pid \ {Start2}, u[x].pid = x PROVE SoundList(x)'
  <2>1. SoundList(x) /\ x \in Slot
    BY <1>1, <1>4, <1>14, <1>26 DEF Lists
  <2>2. CASE o = Start2
    <3>1. x # o /\ midRemoved => midRemoved'
      BY <1>5, <1>26, <2>2
    <3> QED BY <1>8, <1>9, <2>1, <2>2, <3>1, OtherList
  <2>3. CASE o # Start2 /\ x # o
    <3>1. Reach(t, x) \subseteq Put(x)
      BY <1>1, <2>1, ListReach
    <3>2. Put(x) \intersect Put(o) = {}
      BY <2>3, KnownIsPut
    <3>3. Reach(u, x) = Reach(t, x)
      <4>1. Reach(t, x) \intersect Put(o) = {}
        BY <3>1, <3>2
      <4> QED BY <1>10, <2>1, <2>3, <4>1 DEF Removed
    <3>4. u[x].children = t[x].children /\ Put(x)' = Put(x) /\ Known(x)' = Known(x)
      BY <1>8, <1>14, <2>1, <2>3
    <3>5. midRemoved => midRemoved'
      BY <1>5
    <3> QED BY <2>1, <3>3, <3>4, <3>5, OtherList
  <2>4. CASE o # Start2 /\ x = o
    <3>1. Sound(Reach(u, o), u[o].children.head, u[o].children.tail, u[o].children.size,
                Known(o) \ {p}, Put(o), midRemoved \/ InMiddle(t, o, p))
      BY <1>10, <2>4 DEF Removed
    <3>2. Known(o)' = Known(o) \ {p} /\ Put(o)' = Put(o)
      BY <1>3, <1>8
    <3>3. Sound(Reach(u, o), u[o].children.head, u[o].children.tail, u[o].children.size,
                Known(o)', Put(o)', midRemoved')
      BY <1>5, <3>1, <3>2
    <3>4. SoundList(o)'
      <4> QED BY <3>3 DEF SoundList
    <3> QED BY <2>4, <3>4
  <2> QED BY <2>2, <2>3, <2>4
<1>27. Lists'
  BY <1>26 DEF Lists
<1> QED BY <1>13, <1>22, <1>23, <1>24, <1>25, <1>27 DEF ListInv

\* The child that spawnReal appends is the newest one, and in no list.
LEMMA EnqFrom ==
  ASSUME NoEntryTwice, SpawnInv, ListInv, NEW p \in Pid, pc[p] = "S_enq", NEW c, c = other[p]
  PROVE  /\ c \in Pid \ {Start2} /\ c \in Slot /\ p # Start2 /\ p \in Slot /\ c \notin zapped
         /\ pc[c] \in Launching /\ parentOf[c] = p /\ c = lastPid /\ Spawns(p, c)
         /\ ProcTable3[c].nextSibling = NULL
         /\ SoundList(p) /\ ProcTable3[p].children.type = "CHILDREN" /\ ProcTable3[p].pid = p
<1>1. /\ Kernel3 /\ Meeting /\ Newest /\ Entries /\ Lists /\ Unlinked
      /\ pc[Start2] \in {"W_join", "T_quit"} \union Ended
  BY DEF SpawnInv, ListInv, Family, Start2Waits
<1>2. p # Start2 /\ pc[p] \notin Launching \union {"none"}
  BY <1>1 DEF Ended, Launching
<1>3. Spawns(p, c) /\ c \in Pid
  BY <1>1 DEF Spawns, Spawning, Kernel3
<1>4. Apart(p, c) /\ pc[c] \in Launching
  BY <1>1, <1>3 DEF Meeting, ChildFirst, ParentFirst, Launching
<1>5. c # Start2 /\ c \notin zapped
  BY <1>4 DEF Apart, Start2, Start3
<1>6. parentOf[c] = p /\ c = lastPid
  BY <1>1, <1>3 DEF Newest
<1>7. ProcTable3[c].nextSibling = NULL
  BY <1>1, <1>3 DEF Unlinked, Appends
<1> QED BY <1>1, <1>2, <1>3, <1>4, <1>5, <1>6, <1>7, OwnList, EntryIsPid

LEMMA EnqKnown ==
  ASSUME NoEntryTwice, SpawnInv, ListInv, NEW p \in Pid, pc[p] = "S_enq", NEW c, c = other[p],
         Step(p), UNCHANGED <<zapped, other>>, pc'[p] = "S_test",
         \A q \in Pid \ {p} : pc'[q] = pc[q]
  PROVE  /\ \A x \in Pid \ {p} : Put(x)' = Put(x) /\ Known(x)' = Known(x)
         /\ Put(p)' = Put(p) \union {c} /\ Known(p)' = Known(p) \union {c} /\ c \notin Put(p)
         /\ \A x, d \in Pid : Appends(x, d)' => Appends(x, d) /\ x # p
<1>1. \A x \in Pid : Children(x)' = Children(x)
  BY StepPlaces
<1>2. \A x \in Pid, d \in Pid : Appends(x, d)' <=> Appends(x, d) /\ x # p
  BY DEF Appends
<1>3. /\ c \in Pid \ {Start2} /\ c \notin zapped
      /\ pc[c] \in Launching /\ parentOf[c] = p
  BY EnqFrom
<1>4. c \in Children(p) /\ Appends(p, c) /\ \A d \in Pid : Appends(p, d) => d = c
  BY <1>3 DEF Children, Launching, Appends
<1>5. \A x \in Pid \ {p} : Put(x)' = Put(x)
  BY <1>1, <1>2 DEF Put, Children
<1>6. Put(p)' = Put(p) \union {c} /\ c \notin Put(p)
  BY <1>1, <1>2, <1>3, <1>4 DEF Put, Children
<1>7. \A x \in Pid : Known(x)' = {d \in Put(x)' : pc'[d] \notin Ended \union {"T_quit"}}
  BY DEF Known, Put, Appends
<1>8. \A x \in Pid : Known(x) = {d \in Put(x) : pc[d] \notin Ended \union {"T_quit"}} /\ Put(x) \subseteq Pid
  BY KnownIsPut
<1>9. \A d \in Pid : pc'[d] \in Ended \union {"T_quit"} <=> pc[d] \in Ended \union {"T_quit"}
  BY DEF Ended
<1>10. ASSUME NEW x \in Pid \ {p} PROVE Known(x)' = Known(x)
  <2>1. Known(x)' = {d \in Put(x) : pc'[d] \notin Ended \union {"T_quit"}}
    BY <1>5, <1>7
  <2>2. Known(x) = {d \in Put(x) : pc[d] \notin Ended \union {"T_quit"}} /\ Put(x) \subseteq Pid
    BY <1>8
  <2> QED BY <1>9, <2>1, <2>2
<1>11. Known(p)' = Known(p) \union {c}
  <2>1. pc[c] \notin Ended \union {"T_quit"}
    BY <1>3 DEF Launching, Ended
  <2>2. Known(p)' = {d \in Put(p) \union {c} : pc'[d] \notin Ended \union {"T_quit"}}
    BY <1>6, <1>7
  <2>3. Known(p) = {d \in Put(p) : pc[d] \notin Ended \union {"T_quit"}} /\ Put(p) \subseteq Pid
    BY <1>8
  <2> QED BY <1>3, <1>9, <2>1, <2>2, <2>3
<1> QED BY <1>2, <1>5, <1>6, <1>10, <1>11

LEMMA Enqueues ==
  ASSUME NoEntryTwice, SpawnInv, SpawnInv', ListInv, NEW p \in Pid, Runs(p), S_enq(p)
  PROVE  ListInv'
<1> DEFINE t == ProcTable3
           u == ProcTable3'
<1>1. /\ Kernel3 /\ Unknown /\ Distinct /\ Kernel3'
      /\ Typed /\ Parents /\ Newest /\ Entries /\ ZappedDone /\ TopAtQuit /\ Family
      /\ Forward(t) /\ Unlinked /\ Lists /\ LeavesLast /\ t \in Table
  BY DEF SpawnInv, ListInv, Family, Kernel3
<1>0. PICK c : c = other[p]
  OBVIOUS
<1>2. /\ pc[p] = "S_enq" /\ pc' = [pc EXCEPT ![p] = "S_test"]
      /\ UNCHANGED <<kernelVars, other, halted, box, ran, midRemoved, parentOf, priority, zapped, lastPid>>
  BY DEF S_enq, At, seenVars, kernelVars
<1>3. /\ c \in Pid \ {Start2} /\ c \in Slot /\ p # Start2 /\ p \in Slot /\ c \notin zapped
      /\ pc[c] \in Launching /\ parentOf[c] = p /\ c = lastPid /\ Spawns(p, c)
      /\ t[c].nextSibling = NULL
      /\ SoundList(p) /\ t[p].children.type = "CHILDREN" /\ t[p].pid = p
  BY <1>0, <1>2, EnqFrom
<1>4. SlotOf(p) = p /\ SlotOf(c) = c /\ Pid \subseteq Slot /\ Pid \subseteq Nat /\ NULL \notin Slot
  BY <1>3, EntryIsPid, NullIsNone
<1>5. u = enq3(t, p, c)
  BY <1>0, <1>4 DEF S_enq
<1>6. pc'[p] = "S_test" /\ \A x \in Pid \ {p} : pc'[x] = pc[x]
  BY <1>1, <1>2, Moved DEF Place, Spawning
<1>7. Step(p)
  BY <1>2, <1>6 DEF Step, Ended, Launching, Spawning
<1>8. /\ \A x \in Pid \ {p} : Put(x)' = Put(x) /\ Known(x)' = Known(x)
      /\ Put(p)' = Put(p) \union {c} /\ Known(p)' = Known(p) \union {c} /\ c \notin Put(p)
      /\ \A x, d \in Pid : Appends(x, d)' => Appends(x, d) /\ x # p
  BY <1>0, <1>2, <1>6, <1>7, EnqKnown
<1>9. PICK q : q = t[p].children
  OBVIOUS
<1>10. PICK R : R = Reach(t, p)
  OBVIOUS
<1>11. /\ Sound(R, q.head, q.tail, q.size, Known(p), Put(p), midRemoved)
       /\ Chain(t, q.head, R) /\ R \subseteq Put(p) /\ Known(p) \subseteq Put(p)
       /\ Put(p) \subseteq Children(p) /\ Put(p) \subseteq Pid
  BY <1>1, <1>3, <1>9, <1>10, ListReach
<1>12. q.tail \in Put(p) \union {NULL} /\ (q.tail = NULL \/ q.tail < c)
  <2>1. q.tail \in Put(p) \union {NULL}
    BY <1>11 DEF Sound
  <2>2. ASSUME NEW s \in Put(p) PROVE s < c
    <3>1. s \in Pid /\ pc[s] # "none" /\ s # c /\ s \in Nat /\ c \in Nat
      BY <1>3, <1>4, <1>8, <2>2, KnownIsPut
    <3>2. ~(s > c)
      BY <1>1, <1>3, <3>1 DEF Unknown
    <3> QED BY <3>1, <3>2
  <2> QED BY <2>1, <2>2
<1>13. PICK h, l : /\ h = IF q.head = NULL /\ q.tail = NULL THEN c ELSE q.head
                   /\ l = IF q.head = NULL /\ q.tail = NULL THEN NULL ELSE q.tail
  OBVIOUS
<1>14. IsList(u[p].children, h, c, q.size + 1, "CHILDREN") /\ Elsewhere(t, u, p, l)
  BY <1>1, <1>3, <1>5, <1>9, <1>13, EnqDoes
<1>15. /\ Forward(u)
       /\ Reach(u, p) = IF q.head = NULL /\ q.tail = NULL THEN {c}
                        ELSE IF q.tail \in R THEN {s \in R : s <= q.tail} \union {c} ELSE R
       /\ \A x \in Slot \ {p} : q.tail \notin Reach(t, x) => Reach(u, x) = Reach(t, x)
  BY <1>1, <1>3, <1>5, <1>9, <1>10, <1>12, EnqReach
<1>16. /\ \A s \in Slot : u[s].pid = t[s].pid /\ u[s].parent = t[s].parent
       /\ \A s \in Slot \ {p} : u[s].children = t[s].children
       /\ \A s \in Slot \ {l} : u[s].nextSibling = t[s].nextSibling
  <2>1. Keeps(t, u)
    BY <1>1, <1>3, <1>5, EnqKeeps
  <2> QED BY <1>14, <2>1 DEF Keeps, Elsewhere
<1>17. TableStep
  <2>1. \A s \in Slot : /\ t[s].children.type = IF t[s].pid = -1 THEN "BLOCKED" ELSE "CHILDREN"
                        /\ t[s].pid = -1 => t[s].children.size \in Nat
    BY <1>1 DEF Entries
  <2>2. u[p].children.type = "CHILDREN" /\ t[p].pid # -1
    BY <1>3, <1>14, EntryIsPid DEF IsList
  <2> QED BY <1>16, <2>1, <2>2 DEF TableStep
<1>18. Typed' /\ NotHalted'
  BY <1>1, <1>2 DEF Typed, NotHalted, ListInv
<1>19. ZappedDone'
  <2>1. \A x \in Pid : pc[x] \in Ended => pc'[x] \in Ended
    BY <1>7, StepPlaces
  <2>2. \A d \in zapped : pc'[d] \in Ended \/ (pc'[parentOf'[d]] = "T_zap" /\ other'[parentOf'[d]] = d)
    BY <1>1, <1>2, <1>6, <2>1, ZappedStay
  <2> QED BY <1>2, <2>2 DEF ZappedDone
<1>20. TopAtQuit'
  BY <1>1, <1>6, TopStays
<1>21. \A a, d \in Pid : Spawns(a, d)' /\ pc'[a] = "S_send" => u[d].parent = a
  <2> SUFFICES ASSUME NEW a \in Pid, NEW d \in Pid, Spawns(a, d)', pc'[a] = "S_send"
               PROVE  u[d].parent = a
    OBVIOUS
  <2>1. Spawns(a, d) /\ pc[a] = "S_send"
    BY <1>2, <1>6 DEF Spawns
  <2> QED BY <1>1, <1>4, <1>16, <2>1 DEF Newest
<1>22. \A a, d \in Pid : Spawns(a, d) => Spawns(a, d)' \/ Filled(d)'
  BY <1>2, <1>6 DEF Spawns, Spawning
<1>23. Family'
  BY <1>1, <1>2, <1>7, <1>17, <1>18, <1>19, <1>20, <1>21, <1>22, FamilyStep DEF Launching
<1>24. LeavesLast'
  BY <1>1, <1>2, <1>6, <1>7, LeavesStay
<1>25. Unlinked'
  <2> SUFFICES ASSUME NEW d \in Pid, pc'[d] = "none" \/ \E a \in Pid : Appends(a, d)'
               PROVE  u[d].nextSibling = NULL
    BY DEF Unlinked
  <2>1. pc[d] = "none" \/ \E a \in Pid \ {p} : Appends(a, d)
    BY <1>6, <1>8
  <2>2. t[d].nextSibling = NULL
    BY <1>1, <2>1 DEF Unlinked
  <2>3. d \notin Put(p)
    <3> SUFFICES ASSUME d \in Put(p) PROVE FALSE
      OBVIOUS
    <3>1. parentOf[d] = p /\ pc[d] # "none"
      BY <1>11, KnownIsPut
    <3>2. PICK a \in Pid \ {p} : Appends(a, d)
      BY <2>1, <3>1
    <3>3. a = parentOf[d]
      BY <1>1, <3>2 DEF Appends, Newest, Spawns, Spawning
    <3> QED BY <3>1, <3>2, <3>3
  <2>4. d # l /\ d \in Slot
    BY <1>4, <1>12, <1>13, <2>3
  <2> QED BY <1>16, <2>2, <2>4
<1>26. SoundList(p)'
  <2>1. PICK S : S = Reach(u, p)
    OBVIOUS
  <2>2. PICK K, P : K = Known(p) /\ P = Put(p)
    OBVIOUS
  <2>3. q.head = NULL => R = {}
    BY <1>11 DEF Chain
  <2>4. Sound(S, h, c, q.size + 1, K \union {c}, P \union {c}, midRemoved)
    <3>1. S = Longer(R, q.head, q.tail, c)
      BY <1>15, <2>1 DEF Longer
    <3>2. /\ Sound(R, q.head, q.tail, q.size, K, P, midRemoved)
          /\ P \subseteq Pid /\ K \subseteq P /\ c \in Pid /\ c \notin P
      BY <1>3, <1>8, <1>11, <2>2
    <3>3. q.tail = NULL \/ q.tail < c
      BY <1>12
    <3>4. h = FirstOf(q.head, q.tail, c)
      BY <1>13 DEF FirstOf
    <3> QED BY <2>3, <3>1, <3>2, <3>3, <3>4, SoundAppend
  <2>5. Known(p)' = K \union {c} /\ Put(p)' = P \union {c} /\ UNCHANGED midRemoved
    BY <1>2, <1>8, <2>2
  <2>6. u[p].children.head = h /\ u[p].children.tail = c /\ u[p].children.size = q.size + 1
    BY <1>14 DEF IsList
  <2> QED BY <2>1, <2>4, <2>5, <2>6 DEF SoundList
<1>27. ASSUME NEW x \in Pid \ {Start2}, x # p, u[x].pid = x PROVE SoundList(x)'
  <2>1. SoundList(x) /\ x \in Slot /\ u[x].children = t[x].children
    BY <1>1, <1>4, <1>16, <1>27 DEF Lists
  <2>2. Reach(t, x) \subseteq Put(x) /\ Put(x) \intersect Put(p) = {}
    BY <1>1, <1>27, <2>1, ListReach, KnownIsPut
  <2>3. NULL \notin Reach(t, x)
    BY DEF Reach
  <2>4. Reach(u, x) = Reach(t, x)
    BY <1>12, <1>15, <1>27, <2>1, <2>2, <2>3
  <2> QED BY <1>2, <1>8, <1>27, <2>1, <2>4, OtherList
<1>28. Lists'
  BY <1>26, <1>27 DEF Lists
<1> QED BY <1>15, <1>18, <1>23, <1>24, <1>25, <1>28 DEF ListInv

\* The newest process is a child of p that is in no list yet.
Begins(p, c) ==
  /\ pc[p] = "user" /\ pc[c] = "none" /\ p < c /\ p # Start2 /\ c # Start2 /\ c \notin zapped
  /\ pc'[p] = "S_enq" /\ pc'[c] = "L_zapped" /\ \A q \in Pid \ {p, c} : pc'[q] = pc[q]
  /\ parentOf' \in [Pid -> Pid] /\ parentOf'[c] = p /\ \A q \in Pid \ {c} : parentOf'[q] = parentOf[q]
  /\ other'[p] = c /\ \A q \in Pid \ {p} : other'[q] = other[q]
  /\ lastPid' = c /\ UNCHANGED <<ProcTable3, zapped, halted, box, ran, midRemoved>>

LEMMA BeginsWith ==
  ASSUME NoEntryTwice, SpawnInv, ListInv, NEW p \in Pid, Runs(p), NEW prio \in Priorities, spawn(p, prio)
  PROVE  Quiet /\ \E c \in Pid : Begins(p, c)
<1>1. PICK c \in NextPid :
        /\ pc' = [pc EXCEPT ![p] = "S_enq", ![c] = "L_zapped"]
        /\ parentOf' = [parentOf EXCEPT ![c] = p]
        /\ other' = [other EXCEPT ![p] = c]
        /\ lastPid' = c
  BY DEF spawn
<1>2. pc[p] = "user" /\ UNCHANGED <<ProcTable3, zapped, halted, box, ran, midRemoved>>
  BY DEF spawn, seenVars
<1>3. Kernel3 /\ Unknown /\ Meeting /\ Typed /\ pc[Start2] \in {"W_join", "T_quit"} \union Ended
  BY DEF SpawnInv, ListInv, Family, Start2Waits
<1>4. Quiet
  BY <1>2, <1>3, WhoRuns DEF Spawns, Spawning, ChildFirst
<1>5. c \in Pid /\ c > lastPid /\ lastPid \in Pid /\ lastPid >= Start3
  BY <1>1, <1>3 DEF NextPid, Kernel3
<1>6. pc[c] = "none" /\ c \notin zapped
  BY <1>3, <1>5 DEF Unknown
<1>7. c # p /\ ~(p > lastPid) /\ p # Start2
  BY <1>2, <1>3, <1>6 DEF Unknown, Ended
<1>8. p \in Nat /\ c \in Nat /\ lastPid \in Nat /\ p < c /\ c # Start2
  BY <1>5, <1>7, EntryIsPid DEF Start2, Start3
<1>9. pc'[p] = "S_enq" /\ pc'[c] = "L_zapped" /\ \A q \in Pid \ {p, c} : pc'[q] = pc[q]
  BY <1>1, <1>3, <1>5, <1>7 DEF Kernel3
<1>10. /\ parentOf' \in [Pid -> Pid] /\ parentOf'[c] = p /\ \A q \in Pid \ {c} : parentOf'[q] = parentOf[q]
       /\ other'[p] = c /\ \A q \in Pid \ {p} : other'[q] = other[q]
  BY <1>1, <1>3, <1>5 DEF Kernel3, Typed
<1> QED BY <1>1, <1>2, <1>4, <1>5, <1>6, <1>7, <1>8, <1>9, <1>10 DEF Begins

LEMMA BeginFamily ==
  ASSUME NoEntryTwice, SpawnInv, ListInv, NEW p \in Pid, Runs(p), Quiet, NEW c \in Pid, Begins(p, c)
  PROVE  Family'
<1>1. /\ Kernel3 /\ Unknown /\ Distinct /\ Typed /\ Parents /\ Newest /\ Entries /\ ZappedDone /\ TopAtQuit
  BY DEF SpawnInv, ListInv, Family
<1>2. /\ pc[p] = "user" /\ pc[c] = "none" /\ p < c /\ p # Start2 /\ c # Start2 /\ c \notin zapped
      /\ pc'[p] = "S_enq" /\ pc'[c] = "L_zapped" /\ \A q \in Pid \ {p, c} : pc'[q] = pc[q]
      /\ parentOf' \in [Pid -> Pid] /\ parentOf'[c] = p /\ \A q \in Pid \ {c} : parentOf'[q] = parentOf[q]
      /\ other'[p] = c /\ \A q \in Pid \ {p} : other'[q] = other[q]
      /\ lastPid' = c /\ UNCHANGED <<ProcTable3, zapped, halted, box, ran, midRemoved>>
  BY DEF Begins
<1>3. \A a, d \in Pid : Spawns(a, d)' <=> a = p /\ d = c
  <2>1. \A a \in Pid \ {p} : pc'[a] \notin Spawning
    <3> SUFFICES ASSUME NEW a \in Pid \ {p}, pc'[a] \in Spawning PROVE FALSE
      OBVIOUS
    <3>1. pc[a] \in Spawning /\ other[a] \in Pid
      BY <1>1, <1>2 DEF Spawning, Kernel3
    <3> QED BY <3>1 DEF Quiet, Spawns
  <2> QED BY <1>2, <2>1 DEF Spawns, Spawning
<1>4. Typed'
  BY <1>1, <1>2 DEF Typed
<1>5. Newest'
  BY <1>2, <1>3 DEF Newest
<1>6. Parents'
  <2> SUFFICES ASSUME NEW d \in Pid \ {Start2}, pc'[d] # "none", NEW o, o = parentOf'[d]
               PROVE  /\ o < d /\ (o = Start2 => d = Start3)
                      /\ pc'[o] \notin Launching \union {"none"}
                      /\ pc'[d] \notin Ended => pc'[o] \notin Ended
                      /\ Spawns(o, d)' \/ Filled(d)'
    BY Zenon DEF Parents
  <2>1. CASE d = c
    <3>1. o = p /\ Spawns(p, c)'
      BY <1>2, <1>3, <2>1
    <3> QED BY <1>2, <2>1, <3>1 DEF Launching, Ended
  <2>2. CASE d # c
    <3>1. o = parentOf[d] /\ pc[d] # "none" /\ o \in Pid
      BY <1>1, <1>2, <2>2 DEF Typed
    <3>2. /\ o < d /\ (o = Start2 => d = Start3)
          /\ pc[o] \notin Launching \union {"none"}
          /\ pc[d] \notin Ended => pc[o] \notin Ended
          /\ Spawns(o, d) \/ Filled(d)
      BY <1>1, <3>1 DEF Parents
    <3>3. Filled(d)'
      <4>1. Filled(d)
        BY <3>1, <3>2 DEF Quiet
      <4> QED BY <1>2, <2>2, <4>1 DEF Filled
    <3>4. o # c /\ pc'[o] \notin Launching \union {"none"}
      BY <1>2, <3>1, <3>2 DEF Launching
    <3>5. pc'[d] \notin Ended => pc'[o] \notin Ended
      BY <1>2, <2>2, <3>1, <3>2, <3>4 DEF Ended
    <3> QED BY <3>2, <3>3, <3>4, <3>5
  <2> QED BY <2>1, <2>2
<1>7. Entries'
  <2>1. \A q \in Pid : ProcTable3[q].pid = -1 => pc'[q] \in Launching \union {"none"} \/ q = Start2
    BY <1>1, <1>2 DEF Entries, Launching
  <2> QED BY <1>1, <1>2, <2>1 DEF Entries
<1>8. ZappedDone'
  <2>1. \A q \in Pid : pc[q] \in Ended => pc'[q] \in Ended
    BY <1>2 DEF Ended
  <2>2. \A q \in Pid \ {p} : pc[q] = "T_zap" => pc'[q] = "T_zap" /\ other'[q] = other[q]
    BY <1>2
  <2>3. \A d \in Pid : pc[d] # "none" => parentOf'[d] = parentOf[d]
    BY <1>2
  <2>4. \A d \in zapped : pc'[d] \in Ended \/ (pc'[parentOf'[d]] = "T_zap" /\ other'[parentOf'[d]] = d)
    BY <1>1, <2>1, <2>2, <2>3, ZappedStay
  <2> QED BY <1>2, <2>4 DEF ZappedDone
<1>9. TopAtQuit'
  BY <1>1, <1>2, TopStays
<1> QED BY <1>4, <1>5, <1>6, <1>7, <1>8, <1>9 DEF Family

LEMMA BeginPlaces ==
  ASSUME SpawnInv, NEW p \in Pid, Quiet, NEW c \in Pid, Begins(p, c)
  PROVE  /\ \A x \in Pid : Put(x)' = Put(x) /\ Known(x)' = Known(x)
         /\ \A x \in Pid \ {p} : Children(x)' = Children(x)
         /\ \A a, d \in Pid : Appends(a, d)' => d = c
<1>2. /\ pc[p] = "user" /\ pc[c] = "none" /\ p < c /\ p # Start2 /\ c # Start2 /\ c \notin zapped
      /\ pc'[p] = "S_enq" /\ pc'[c] = "L_zapped" /\ \A q \in Pid \ {p, c} : pc'[q] = pc[q]
      /\ parentOf'[c] = p /\ \A q \in Pid \ {c} : parentOf'[q] = parentOf[q]
      /\ other'[p] = c /\ \A q \in Pid \ {p} : other'[q] = other[q]
      /\ zapped' = zapped
  BY DEF Begins
<1>3. \A a, d \in Pid : ~Appends(a, d)
  BY DEF Appends, Quiet, Spawns, Spawning
<1>4. \A a, d \in Pid : Appends(a, d)' <=> a = p /\ d = c
  BY <1>2, <1>3 DEF Appends
<1>5. \A x \in Pid \ {p} : Children(x)' = Children(x)
  BY <1>2 DEF Children
<1>6. Children(p)' = Children(p) \union {c} /\ c \notin Children(p)
  BY <1>2 DEF Children
<1>7. \A x \in Pid : Put(x) = {d \in Children(x) : d \notin zapped}
  BY <1>3, KnownIsPut DEF Put
<1>8. \A x \in Pid : Children(x)' \subseteq Pid
  BY DEF Children
<1>9. ASSUME NEW x \in Pid PROVE Put(x)' = Put(x)
  <2>1. CASE x = p
    <3>1. Put(p)' = {d \in Children(p)' : d \notin zapped /\ d # c}
      BY <1>2, <1>4, <1>8 DEF Put
    <3> QED BY <1>6, <1>7, <2>1, <3>1
  <2>2. CASE x # p
    <3>1. Put(x)' = {d \in Children(x)' : d \notin zapped}
      BY <1>2, <1>4, <1>8, <2>2 DEF Put
    <3> QED BY <1>5, <1>7, <2>2, <3>1
  <2> QED BY <2>1, <2>2
<1>10. ASSUME NEW x \in Pid PROVE Known(x)' = Known(x)
  <2>1. Known(x)' = {d \in Put(x)' : pc'[d] \notin Ended \union {"T_quit"}}
    BY DEF Known, Put, Appends
  <2>2. /\ Known(x) = {d \in Put(x) : pc[d] \notin Ended \union {"T_quit"}} /\ Put(x) \subseteq Pid
        /\ c \notin Put(x)
    BY <1>2, KnownIsPut
  <2>3. \A d \in Pid \ {c} : pc'[d] \in Ended \union {"T_quit"} <=> pc[d] \in Ended \union {"T_quit"}
    BY <1>2 DEF Ended
  <2> QED BY <1>9, <2>1, <2>2, <2>3
<1> QED BY <1>4, <1>5, <1>9, <1>10

LEMMA SpawnsOne ==
  ASSUME NoEntryTwice, SpawnInv, ListInv, NEW p \in Pid, Runs(p),
         NEW prio \in Priorities, spawn(p, prio)
  PROVE  ListInv'
<1>1. /\ Kernel3 /\ Family /\ LeavesLast /\ NotHalted /\ Forward(ProcTable3) /\ Unlinked /\ Lists
  BY DEF SpawnInv, ListInv
<1>2. Quiet
  BY BeginsWith
<1>3. PICK c \in Pid : Begins(p, c)
  BY BeginsWith
<1>4. /\ pc[p] = "user" /\ pc[c] = "none"
      /\ pc'[p] = "S_enq" /\ pc'[c] = "L_zapped" /\ \A q \in Pid \ {p, c} : pc'[q] = pc[q]
      /\ UNCHANGED <<ProcTable3, zapped, halted, midRemoved>>
  BY <1>3 DEF Begins
<1>5. /\ \A x \in Pid : Put(x)' = Put(x) /\ Known(x)' = Known(x)
      /\ \A x \in Pid \ {p} : Children(x)' = Children(x)
      /\ \A a, d \in Pid : Appends(a, d)' => d = c
  BY <1>2, <1>3, BeginPlaces
<1>6. Family'
  BY <1>2, <1>3, BeginFamily
<1>7. NotHalted' /\ Forward(ProcTable3)'
  BY <1>1, <1>4 DEF NotHalted, Forward
<1>8. LeavesLast'
  <2> SUFFICES ASSUME ~midRemoved', NEW q \in Pid, pc'[q] \in {"T_remove", "T_quit"},
                      NEW d \in Children(q)'
               PROVE  pc'[d] \in Ended
    BY DEF LeavesLast
  <2>1. q \in Pid \ {p, c} /\ pc[q] \in {"T_remove", "T_quit"} /\ ~midRemoved
    BY <1>4
  <2>2. d \in Children(q) /\ d \in Pid
    BY <1>5, <2>1, KnownIsPut
  <2>3. pc[d] \in Ended
    BY <1>1, <2>1, <2>2 DEF LeavesLast
  <2> QED BY <1>4, <2>2, <2>3 DEF Ended
<1>9. Unlinked'
  BY <1>1, <1>4, <1>5 DEF Unlinked
<1>10. Lists'
  <2> SUFFICES ASSUME NEW x \in Pid \ {Start2}, ProcTable3'[x].pid = x PROVE SoundList(x)'
    BY DEF Lists
  <2>1. SoundList(x)
    BY <1>1, <1>4 DEF Lists
  <2>2. ProcTable3'[x].children = ProcTable3[x].children /\ Reach(ProcTable3', x) = Reach(ProcTable3, x)
    BY <1>4
  <2> QED BY <1>4, <1>5, <2>1, <2>2, OtherList
<1> QED BY <1>6, <1>7, <1>8, <1>9, <1>10 DEF ListInv

-----------------------------------------------------------------------------
(***************************************************************************)
(* The invariant holds.                                                    *)
(***************************************************************************)
LEMMA ListStart ==
  ASSUME NoEntryTwice, Init, SpawnInv PROVE ListInv
<1>1. /\ Pid \subseteq Slot /\ Pid \subseteq Nat /\ Start2 \in Pid /\ Start3 \in Pid /\ NULL \notin Slot
      /\ Start2 = 0 /\ Start3 = 1 /\ NULL = -1 /\ SlotOf(Start2) = 0 /\ SlotOf(Start3) = 1
      /\ Slot \subseteq Nat
  BY EntryIsPid, NullIsNone DEF Start2, Start3, NULL
<1>2. \A s \in Slot :
        ProcTable3[s] = IF s = 1
                        THEN [pid |-> 1, mboxID |-> [of |-> 1, by |-> "spawnReal"],
                              startFunc |-> 1, nextSibling |-> NULL, parent |-> 0,
                              children |-> EmptyQueue("CHILDREN")]
                        ELSE IF s = 0
                        THEN [EmptyProc EXCEPT !.children = [head |-> 1, tail |-> 1, size |-> 1, type |-> "BLOCKED"]]
                        ELSE EmptyProc
  BY <1>1 DEF Init
<1>3. /\ ProcTable3[1].pid = 1 /\ ProcTable3[1].parent = 0 /\ ProcTable3[1].nextSibling = NULL
      /\ ProcTable3[1].children.type = "CHILDREN"
      /\ ProcTable3[1].children.head = NULL /\ ProcTable3[1].children.tail = NULL
      /\ ProcTable3[1].children.size = 0
  BY <1>1, <1>2 DEF EmptyQueue
<1>4. \A s \in Slot \ {1} : /\ ProcTable3[s].pid = -1 /\ ProcTable3[s].nextSibling = NULL
                            /\ ProcTable3[s].children.type = "BLOCKED"
                            /\ ProcTable3[s].children.size \in Nat
  <2> SUFFICES ASSUME NEW s \in Slot \ {1}
               PROVE  /\ ProcTable3[s].pid = -1 /\ ProcTable3[s].nextSibling = NULL
                      /\ ProcTable3[s].children.type = "BLOCKED"
                      /\ ProcTable3[s].children.size \in Nat
    OBVIOUS
  <2>1. CASE s = 0
    BY <1>2, <2>1 DEF EmptyProc
  <2>2. CASE s # 0
    BY <1>2, <2>2 DEF EmptyProc, EmptyQueue
  <2> QED BY <2>1, <2>2
<1>5. /\ \A q \in Pid : parentOf[q] = 0
      /\ zapped = {} /\ lastPid = 1 /\ halted = FALSE /\ midRemoved = FALSE
      /\ pc[0] = "W_join" /\ pc[1] = "user" /\ \A q \in Pid \ {0, 1} : pc[q] = "none"
  BY <1>1 DEF Init
<1>6. Typed
  BY <1>1, <1>5 DEF Init, Typed, Func
<1>7. Parents
  BY <1>1, <1>3, <1>5 DEF Parents, Filled, Launching, Ended
<1>8. \A a \in Pid : pc[a] \in {"W_join", "user", "none"}
  BY <1>5
<1>9. Newest /\ ZappedDone /\ TopAtQuit /\ LeavesLast /\ NotHalted
  BY <1>5, <1>8 DEF Newest, Spawns, Spawning, ZappedDone, TopAtQuit, LeavesLast, NotHalted
<1>10. Entries
  BY <1>1, <1>3, <1>4, <1>5 DEF Entries
<1>11. Forward(ProcTable3) /\ Unlinked
  <2>1. \A s \in Slot : ProcTable3[s].nextSibling = NULL
    BY <1>3, <1>4
  <2> QED BY <1>1, <2>1 DEF Forward, Unlinked
<1>12. Lists
  <2> SUFFICES ASSUME NEW x \in Pid \ {Start2}, ProcTable3[x].pid = x PROVE SoundList(x)
    BY DEF Lists
  <2>1. x = 1
    BY <1>1, <1>4, EntryIsPid
  <2>2. Known(1) = {}
    BY <1>5 DEF Known, Children
  <2>3. Reach(ProcTable3, 1) = {}
    <3>1. Chain(ProcTable3, NULL, {})
      BY DEF Chain
    <3> QED BY <1>3, <1>11, <3>1, ReachIs DEF Pointer
  <2>4. Sound({}, NULL, NULL, 0, {}, Put(1), midRemoved)
    BY SoundEmpty
  <2> QED BY <1>3, <2>1, <2>2, <2>3, <2>4 DEF SoundList
<1> QED BY <1>6, <1>7, <1>9, <1>10, <1>11, <1>12 DEF ListInv, Family

LEMMA ListStep ==
  ASSUME NoEntryTwice, ~SamePriority, SpawnInv, ListInv, NEW p \in Pid, Call(p) \/ InCall(p)
  PROVE  ListInv'
<1>1. Runs(p)
  BY DEF Call, InCall
<1>2. SpawnInv'
  BY SpawnStep
<1>3. CASE Call(p)
  BY <1>1, <1>2, <1>3, SpawnsOne, UserCalls DEF Call
<1>4. CASE spawnReal(p)
  BY <1>1, <1>2, <1>4, Enqueues, Tests, Inits, Sends, Zenon DEF spawnReal
<1>5. CASE spawnLaunch(p)
  BY <1>1, <1>2, <1>5, Launches, Inits, Zenon DEF spawnLaunch
<1>6. CASE waitReal(p)
  BY <1>1, <1>2, <1>6, WaitsReal
<1>7. CASE terminateReal(p)
  BY <1>1, <1>2, <1>7, Loops, ZapsDone, Removes, Quits, Zenon DEF terminateReal
<1> QED BY <1>3, <1>4, <1>5, <1>6, <1>7, Zenon DEF InCall

LEMMA ListRests ==
  ASSUME ListInv, UNCHANGED vars PROVE ListInv'
<1>1. /\ ProcTable3' = ProcTable3 /\ parentOf' = parentOf /\ priority' = priority /\ zapped' = zapped
      /\ lastPid' = lastPid /\ halted' = halted /\ pc' = pc /\ other' = other /\ box' = box
      /\ ran' = ran /\ midRemoved' = midRemoved
  BY DEF vars, kernelVars, callVars, seenVars
<1>2. \A q : Ready(q)' = Ready(q) /\ Children(q)' = Children(q)
  BY <1>1 DEF Ready, Children
<1>3. \A q : Put(q)' = Put(q) /\ Known(q)' = Known(q)
  BY <1>1, <1>2 DEF Put, Known, Appends
<1>4. Family'
  BY <1>1, <1>2 DEF ListInv, Family, Typed, Parents, Newest, Entries, ZappedDone, TopAtQuit, Filled, Spawns
<1>5. LeavesLast' /\ NotHalted' /\ Forward(ProcTable3)' /\ Unlinked'
  BY <1>1, <1>2 DEF ListInv, LeavesLast, NotHalted, Forward, Unlinked, Appends
<1>6. Lists'
  BY <1>1, <1>3 DEF ListInv, Lists, SoundList
<1> QED BY <1>4, <1>5, <1>6 DEF ListInv

UserInv == SpawnInv /\ ListInv

LEMMA UserInvariant ==
  ASSUME NoEntryTwice, ~SamePriority PROVE Spec => []UserInv
<1>1. Init => UserInv
  BY SpawnInit, ListStart DEF UserInv
<1>2. UserInv /\ [Next]_vars => UserInv'
  <2> SUFFICES ASSUME UserInv, [Next]_vars PROVE UserInv'
    OBVIOUS
  <2>1. CASE Next
    BY <2>1, SpawnStep, ListStep DEF Next, UserInv
  <2>2. CASE UNCHANGED vars
    BY <2>2, ListRests, SpawnRests DEF UserInv
  <2> QED BY <2>1, <2>2
<1> QED BY <1>1, <1>2, PTL DEF Spec

\* The tables, the kernel's part and the sizes of the lists stay what they are
\* declared to be (procStruct3 and procQueue of sems1.h): no list that is worked
\* off by terminateReal while its children leave it counts below zero, although
\* a child that left from the middle may take another one along.
THEOREM UserTypes ==
  ASSUME NoEntryTwice, ~SamePriority PROVE Spec => []TypeOK
<1>1. UserInv => TypeOK
  <2> SUFFICES ASSUME UserInv PROVE TypeOK
    OBVIOUS
  <2>1. Kernel3 /\ Typed /\ Entries /\ Lists /\ ProcTable3 \in Table
    BY DEF UserInv, SpawnInv, ListInv, Family, Kernel3
  <2>2. ASSUME NEW s \in Slot PROVE ProcTable3[s].children \in ProcQueue
    <3>1. ProcTable3[s].children \in Queue /\ ProcTable3[s].pid \in Pid \union {-1}
      BY <2>1 DEF Table
    <3>2. CASE ProcTable3[s].pid = -1
      BY <2>1, <3>1, <3>2 DEF Entries, Queue, ProcQueue
    <3>3. CASE ProcTable3[s].pid # -1
      <4>1. ProcTable3[s].pid = s /\ s \in Pid \ {Start2}
        BY <2>1, <3>1, <3>3 DEF Entries
      <4>2. SoundList(s)
        BY <2>1, <4>1 DEF Lists
      <4>3. ProcTable3[s].children.size \in Nat
        BY <4>2 DEF SoundList, Sound
      <4> QED BY <3>1, <4>3 DEF Queue, ProcQueue
    <3> QED BY <3>2, <3>3
  <2>3. ProcTable3 \in [Slot -> [pid : Pid \union {-1}, mboxID : MBox \union {NoBox},
                                 startFunc : Func \union {NULL}, nextSibling : Pointer,
                                 parent : Pointer, children : ProcQueue]]
    BY <2>1, <2>2 DEF Table
  <2> QED BY <2>1, <2>3 DEF TypeOK, Kernel3, Typed
<1> QED BY <1>1, UserInvariant, PTL

\* "zap all children" (phase31.c:314): until a child has left a list from its
\* middle, a process that gets to its quit has no child that has not ended,
\* however deep the tree below it, and nothing in terminateReal or the kernel
\* halts the machine.
THEOREM TakesAllChildren ==
  ASSUME NoEntryTwice, ~SamePriority PROVE Spec => []TakesChildren
<1>1. UserInv => TakesChildren
  BY DEF UserInv, ListInv, LeavesLast, NotHalted, TakesChildren, LastToQuit
<1> QED BY <1>1, UserInvariant, PTL

-----------------------------------------------------------------------------
(***************************************************************************)
(* What a list holds, read from its first entry to its last one.           *)
(***************************************************************************)

\* The walk climbs until it stops.
LEMMA EntryOrder ==
  ASSUME NEW t, Forward(t), NEW o, t[o].children.head \in Pointer,
         NEW e, e = Entry(t, o)
  PROVE  \A n \in 1 .. MAXPROC : e[n] # NULL =>
           /\ e[n] \in Reach(t, o)
           /\ \A m \in 1 .. n - 1 : e[m] \in Reach(t, o) /\ e[m] < e[n]
<1>0. MAXPROC \in Nat /\ NULL \notin Slot /\ Slot \subseteq Nat
  BY UserProcessAssumption, NullIsNone
<1>1. \A n \in 2 .. MAXPROC : e[n] = Onward(t, e[n - 1])
  BY EntryIs
<1>2. Chain(t, t[o].children.head, Reach(t, o))
  BY ReachIsChain
<1>3. \A n \in 1 .. MAXPROC : e[n] # NULL => e[n] \in Reach(t, o) /\ e[n] \in Slot /\ e[n] \in Nat
  BY <1>0, <1>2 DEF Reach, Chain
<1> DEFINE Ok(n) == e[n] # NULL => \A m \in 1 .. n - 1 : e[m] \in Reach(t, o) /\ e[m] < e[n]
           Bad   == {n \in 1 .. MAXPROC : ~Ok(n)}
<1>4. Bad = {}
  <2> SUFFICES ASSUME Bad # {} PROVE FALSE
    OBVIOUS
  <2>1. Bad \subseteq Nat
    BY <1>0
  <2> HIDE DEF Bad
  <2>2. PICK n \in Bad : \A k \in Bad : n <= k
    BY <2>1, LeastExists
  <2> USE DEF Bad
  <2>3. n \in 1 .. MAXPROC /\ ~Ok(n)
    BY <2>2
  <2>4. n # 1 /\ n \in 2 .. MAXPROC /\ n - 1 \in 1 .. MAXPROC /\ n - 1 \notin Bad
    BY <1>0, <2>2, <2>3
  <2>5. e[n] # NULL /\ Ok(n - 1)
    BY <2>3, <2>4
  <2>6. e[n - 1] # NULL /\ e[n] = t[e[n - 1]].nextSibling
    BY <1>1, <2>4, <2>5 DEF Onward
  <2>7. e[n - 1] < e[n] /\ e[n - 1] \in Nat /\ e[n] \in Nat /\ e[n - 1] \in Reach(t, o)
    BY <1>3, <2>3, <2>4, <2>5, <2>6 DEF Forward
  <2>8. ASSUME NEW m \in 1 .. n - 1 PROVE e[m] \in Reach(t, o) /\ e[m] < e[n]
    <3>1. CASE m = n - 1
      BY <2>7, <3>1
    <3>2. CASE m # n - 1
      <4>1. m \in 1 .. (n - 1) - 1 /\ m \in 1 .. MAXPROC
        BY <1>0, <2>3, <3>2
      <4>2. e[m] \in Reach(t, o) /\ e[m] < e[n - 1]
        BY <2>5, <2>6, <4>1
      <4>3. e[m] \in Nat
        BY <1>3, <4>1, <4>2 DEF Reach
      <4> QED BY <2>7, <4>2, <4>3
    <3> QED BY <3>1, <3>2
  <2> QED BY <2>3, <2>8
<1>5. ASSUME NEW n \in 1 .. MAXPROC PROVE Ok(n)
  BY <1>4
<1> HIDE DEF Bad
<1> QED BY <1>3, <1>5

\* The entries in reach up to the last one of the list are those listed.
LEMMA ListedIs ==
  ASSUME ProcTable3 \in Table, Forward(ProcTable3), NEW o \in Slot,
         NEW l, l = ProcTable3[o].children.tail, NEW R, R = Reach(ProcTable3, o), l \in R
  PROVE  Listed(o) = {s \in R : s <= l}
<1>1. PICK e : e = Entry(ProcTable3, o)
  OBVIOUS
<1> DEFINE Upto(n) == \A m \in 1 .. n - 1 : e[m] \notin {NULL, l}
<1>2. Listed(o) = {e[n] : n \in {m \in 1 .. MAXPROC : Upto(m)}} \ {NULL}
  BY <1>1 DEF Listed
<1>3. ProcTable3[o].children.head \in Pointer
  BY HeadPointer
<1>4. PICK h : h = ProcTable3[o].children.head
  OBVIOUS
<1>5. /\ \A n \in 1 .. MAXPROC : e[n] # NULL =>
           e[n] \in R /\ \A m \in 1 .. n - 1 : e[m] \in R /\ e[m] < e[n]
      /\ e[1] = h /\ \A n \in 2 .. MAXPROC : e[n] = Onward(ProcTable3, e[n - 1])
      /\ R = {e[n] : n \in 1 .. MAXPROC} \ {NULL}
  BY <1>1, <1>3, <1>4, EntryOrder, EntryIs DEF Reach
<1>6. MAXPROC \in Nat /\ R \subseteq Nat /\ NULL \notin R
  BY <1>3, ReachIsChain, NullIsNone, UserProcessAssumption DEF Chain
<1>7. /\ \A s \in R : h <= s
      /\ \A r, s \in R : r < s => ProcTable3[r].nextSibling <= s
  BY <1>3, <1>4, ReachIsChain, ChainOrder
<1> HIDE DEF Upto
<1>8. ASSUME NEW s \in R, s <= l PROVE s \in Listed(o)
  <2>1. PICK n \in 1 .. MAXPROC : s = e[n]
    BY <1>5
  <2>2. s # NULL /\ s \in Nat /\ l \in Nat
    BY <1>6
  <2>3. ASSUME NEW m \in 1 .. n - 1 PROVE e[m] \notin {NULL, l}
    <3>1. e[m] \in R /\ e[m] < s
      BY <1>5, <2>1, <2>2
    <3>2. e[m] \in Nat /\ e[m] # NULL
      BY <1>6, <3>1
    <3> QED BY <1>8, <2>2, <3>1, <3>2
  <2>4. Upto(n)
    BY <2>3 DEF Upto
  <2> QED BY <1>2, <2>1, <2>2, <2>4
<1>9. ASSUME NEW n \in 1 .. MAXPROC, Upto(n), e[n] # NULL PROVE e[n] <= l
  <2> DEFINE Bad == {k \in 1 .. MAXPROC : Upto(k) /\ e[k] # NULL /\ ~(e[k] <= l)}
  <2> SUFFICES ASSUME Bad # {} PROVE FALSE
    BY <1>9
  <2>1. Bad \subseteq Nat
    BY <1>6
  <2> HIDE DEF Bad
  <2>2. PICK k \in Bad : \A m \in Bad : k <= m
    BY <2>1, LeastExists
  <2> USE DEF Bad
  <2>3. k \in 1 .. MAXPROC /\ Upto(k) /\ e[k] # NULL /\ ~(e[k] <= l)
    BY <2>2
  <2>4. k # 1
    BY <1>5, <1>7, <2>3
  <2>5. k - 1 \in 1 .. k - 1 /\ k \in 2 .. MAXPROC /\ k - 1 \in 1 .. MAXPROC /\ k - 1 \notin Bad
    BY <1>6, <2>2, <2>3, <2>4
  <2>6. e[k - 1] \in R /\ e[k - 1] < e[k] /\ e[k - 1] # l /\ e[k - 1] # NULL
    BY <1>5, <2>3, <2>5 DEF Upto
  <2>7. Upto(k - 1)
    BY <1>6, <2>3 DEF Upto
  <2>8. e[k - 1] <= l
    BY <2>5, <2>6, <2>7
  <2>9. e[k - 1] < l
    <3>1. e[k - 1] \in Nat /\ l \in Nat
      BY <1>6, <2>6
    <3> QED BY <2>6, <2>8, <3>1
  <2>10. e[k] = ProcTable3[e[k - 1]].nextSibling
    BY <1>5, <2>5, <2>6 DEF Onward
  <2> QED BY <1>7, <2>3, <2>6, <2>9, <2>10
<1> QED BY <1>2, <1>5, <1>8, <1>9

\* The list of a process, read from its first entry to its last one, holds just
\* the children that the process knows, and as many as its size says, while
\* entries that leave keep their links and terminateReal works the list off
\* (phase31.c:317, 321), until a child has left from the middle.
THEOREM ListsChildren ==
  ASSUME NoEntryTwice, ~SamePriority PROVE Spec => []ChildrenListed
<1>1. UserInv => ChildrenListed
  <2> SUFFICES ASSUME UserInv, ~midRemoved, NEW p \in Pid \ {Start2}, Live(p),
                      ProcTable3[SlotOf(p)].pid = p
               PROVE  /\ Listed(SlotOf(p)) = {SlotOf(c) : c \in Known(p)}
                      /\ ProcTable3[SlotOf(p)].children.size = Cardinality(Known(p))
    BY DEF ChildrenListed
  <2>1. Kernel3 /\ Forward(ProcTable3) /\ Lists /\ ProcTable3 \in Table
    BY DEF UserInv, SpawnInv, ListInv, Kernel3
  <2>2. SlotOf(p) = p /\ p \in Slot /\ \A c \in Pid : SlotOf(c) = c
    BY EntryOf
  <2>3. SoundList(p)
    BY <2>1, <2>2 DEF Lists
  <2>4. PICK q, R, K : q = ProcTable3[p].children /\ R = Reach(ProcTable3, p) /\ K = Known(p)
    OBVIOUS
  <2>5. /\ Sound(R, q.head, q.tail, q.size, K, Put(p), midRemoved)
        /\ Chain(ProcTable3, q.head, R) /\ R \subseteq Nat
    BY <2>1, <2>3, <2>4, ListReach
  <2>6. /\ K \subseteq R /\ q.size = Cardinality(K)
        /\ \A r, s \in R : r < s /\ s \in K => r \in K
        /\ q.tail \in R => q.tail \in K /\ \A s \in R : s > q.tail => s \notin K
        /\ q.head # NULL => q.tail \in R
    BY <2>5 DEF Sound
  <2>7. Listed(p) = K
    <3>1. CASE q.head = NULL
      <4>1. R = {}
        BY <2>5, <3>1 DEF Chain
      <4>2. Listed(p) \subseteq R
        BY <2>4 DEF Listed, Reach
      <4> QED BY <2>6, <4>1, <4>2
    <3>2. CASE q.head # NULL
      <4>1. Listed(p) = {s \in R : s <= q.tail}
        BY <2>1, <2>2, <2>4, <2>6, <3>2, ListedIs
      <4>2. ASSUME NEW s \in R PROVE s \in K <=> s <= q.tail
        <5>1. s \in Nat /\ q.tail \in Nat /\ q.tail \in R
          BY <2>5, <2>6, <3>2
        <5>2. s < q.tail \/ s = q.tail \/ s > q.tail
          BY <5>1
        <5> QED BY <2>6, <5>1, <5>2
      <4> QED BY <2>6, <4>1, <4>2
    <3> QED BY <3>1, <3>2
  <2>8. K \subseteq Pid
    BY <2>4, KnownIsPut
  <2>9. {SlotOf(c) : c \in K} = K
    BY <2>2, <2>8
  <2> QED BY <2>2, <2>4, <2>6, <2>7, <2>9
<1> QED BY <1>1, UserInvariant, PTL
=============================================================================
