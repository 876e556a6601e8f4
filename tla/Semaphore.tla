----------------------------- MODULE Semaphore ------------------------------
(***************************************************************************)
(* The semaphores of Phase 3 (src/phase3/phase31.c): semCreate, semP, semV *)
(* and semFree.  A semaphore is an entry of SemTable with two mailboxes: a *)
(* mutex of one slot, locked by a send, and a private one in which a P     *)
(* waits.                                                                  *)
(*                                                                         *)
(* The mailboxes are those of the library below (Phase 2): a send waits    *)
(* for room or a receiver, a receive for a message, and both return at     *)
(* once with an error for the id -1.  They enable interrupts, so any       *)
(* process may run between two mailbox calls: what a process does from     *)
(* one call to the next is a step, and so is the evaluation of the         *)
(* mailbox argument in between, which reads the table unprotected.         *)
(* Messages go to the receivers of a box in the order of their calls.      *)
(*                                                                         *)
(* The mailboxes of a freed semaphore are never released.                  *)
(***************************************************************************)
EXTENDS Integers, Sequences, FiniteSets, SequencesExt

CONSTANTS
  Proc,        \* the user processes
  MAXSEMS,
  Values,      \* the values they create semaphores with
  MaxBox,      \* bound: how many mailboxes are created
  MaxValue     \* bound: a V or P starts only while values are within it

Sem == 0 .. MAXSEMS - 1
Box == 1 .. MaxBox

NoBox == -1     \* the id in an entry that is not in use
Unset == 0      \* the argument of the next call is not evaluated yet

ASSUME SemaphoreAssumption ==
  /\ MAXSEMS \in Nat \ {0} /\ MaxBox \in Nat /\ MaxValue \in Nat
  /\ Values \subseteq Nat /\ IsFiniteSet(Proc)

VARIABLES
  SemTable,      \* [Sem -> [id, value, blockedProcs, priv, mutex]]
  numSems,
  slots, mail,   \* of each mailbox: its slots, the messages in it
  line,          \* and the processes in an MboxReceive on it
  boxes,         \* how many mailboxes there are
  pc,            \* the place of each process: "user" outside the calls
  handle,        \* the argument of its call; of semCreate, the entry found
  at,            \* the mailbox of the mailbox call it is in, or Unset
  mine,          \* mutexID of semFreeReal, mutex_mBoxID of semCreateReal
  \* About the users, not in the code:
  open,          \* the handles that semCreate returned and nobody freed yet
  events         \* what has happened so far: users were not orderly ("disorder"),
                 \* a V found nobody to wake ("surplus"), a P got to its private
                 \* mailbox before one that was queued before it ("overtaken")

semVars  == <<SemTable, numSems>>
boxVars  == <<slots, mail, line, boxes>>
callVars == <<pc, handle, at, mine>>
userVars == <<open, events>>
vars == <<semVars, boxVars, callVars, userVars>>

MutexCalls == {"P_lock", "P_out", "P_in", "P_unlock", "V_lock", "V_out", "V_in",
               "V_unlock", "F_lock"}
PrivCalls  == {"P_wait", "P_take", "V_send"}
Receives   == {"P_out", "P_wait", "P_take", "P_unlock", "V_out", "V_unlock", "F_unlock"}
Place      == MutexCalls \union PrivCalls
              \union {"user", "dead", "F_send", "F_unlock", "C_find", "C_fill"}

FreeEntry == [id |-> -1, value |-> -1, blockedProcs |-> <<>>, priv |-> NoBox, mutex |-> NoBox]

BoxId == Box \union {NoBox}
Entry == [id : Sem \union {-1}, value : Int, blockedProcs : Seq(Proc), priv : BoxId, mutex : BoxId]

TypeOK ==
  /\ SemTable \in [Sem -> Entry] /\ numSems \in Int
  /\ slots \in [Box -> Nat] /\ mail \in [Box -> Nat]
  /\ line \in [Box -> Seq(Proc)] /\ boxes \in 0 .. MaxBox
  /\ pc \in [Proc -> Place] /\ handle \in [Proc -> Sem]
  /\ at \in [Proc -> BoxId \union {Unset}]
  /\ mine \in [Proc -> BoxId \union {Unset}]
  /\ open \in SUBSET Sem /\ events \in SUBSET {"disorder", "surplus", "overtaken"}

\* start2 has initialised the tables.
Init ==
  /\ SemTable = [h \in Sem |-> FreeEntry] /\ numSems = 0
  /\ slots = [b \in Box |-> 0] /\ mail = [b \in Box |-> 0]
  /\ line = [b \in Box |-> <<>>] /\ boxes = 0
  /\ pc = [p \in Proc |-> "user"] /\ handle = [p \in Proc |-> 0]
  /\ at = [p \in Proc |-> Unset] /\ mine = [p \in Proc |-> Unset]
  /\ open = {} /\ events = {}

-----------------------------------------------------------------------------
(***************************************************************************)
(* The mailbox calls.                                                      *)
(***************************************************************************)

\* p's MboxSend returns: a slot is free, or a receiver that no other message
\* is meant for is waiting.
Sent(p) ==
  /\ \/ at[p] = NoBox /\ UNCHANGED mail
     \/ /\ at[p] \in Box
        /\ mail[at[p]] < slots[at[p]] \/ mail[at[p]] < Len(line[at[p]])
        /\ mail' = [mail EXCEPT ![at[p]] = @ + 1]
  /\ UNCHANGED line

\* p's MboxReceive returns: one of the messages is for p.
Received(p) ==
  \/ at[p] = NoBox /\ UNCHANGED <<mail, line>>
  \/ /\ at[p] \in Box
     /\ \E i \in DOMAIN line[at[p]] :
          /\ i <= mail[at[p]] /\ line[at[p]][i] = p
          /\ line' = [line EXCEPT ![at[p]] = RemoveAt(@, i)]
     /\ mail' = [mail EXCEPT ![at[p]] = @ - 1]

Goto(p, place) ==
  /\ pc' = [pc EXCEPT ![p] = place]
  /\ at' = [at EXCEPT ![p] = Unset]

\* A process that joined the queue before p, still in it or taken off by a V,
\* has not yet called the receive it is to wait in.
Overtakes(p) ==
  LET queue == SemTable[handle[p]].blockedProcs
      Before(q) == \A i, j \in DOMAIN queue : queue[i] = p /\ queue[j] = q => j < i
  IN  pc[p] = "P_wait" /\ \E q \in Proc \ {p} :
        /\ pc[q] = "P_out" \/ (pc[q] = "P_wait" /\ at[q] = Unset)
        /\ handle[q] = handle[p] /\ Before(q)

\* The argument of the next call is read from the table as it is now, and the
\* call is made.
Evaluate(p) ==
  LET b == IF pc[p] = "F_unlock" THEN mine[p]
           ELSE IF pc[p] \in PrivCalls THEN SemTable[handle[p]].priv
           ELSE SemTable[handle[p]].mutex
  IN  /\ at[p] = Unset /\ pc[p] \in MutexCalls \union PrivCalls \union {"F_unlock"}
      /\ at' = [at EXCEPT ![p] = b]
      /\ line' = IF pc[p] \in Receives /\ b \in Box THEN [line EXCEPT ![b] = Append(@, p)] ELSE line
      /\ mine' = IF pc[p] = "F_lock" THEN [mine EXCEPT ![p] = b] ELSE mine
      /\ events' = IF Overtakes(p) THEN events \union {"overtaken"} ELSE events
      /\ UNCHANGED <<semVars, slots, mail, boxes, pc, handle, open>>

-----------------------------------------------------------------------------
(***************************************************************************)
(* The system calls.  Users may call anything.  These calls are disorder:  *)
(* on a handle that the user does not hold; semFree unless every other     *)
(* process in a call on the semaphore is waiting for a V; semCreate while  *)
(* somebody is in a call on a freed semaphore; and semFree and semCreate   *)
(* while somebody else is in semCreate, which may find the same entry.     *)
(* Bound: no call starts after disorder or after an overtaking.            *)
(***************************************************************************)

Idle == {"user", "dead"}

Regular == events \subseteq {"surplus"}

\* The call is disorder unless it is orderly.
Judge(orderlyCall) == events' = IF orderlyCall THEN events ELSE events \union {"disorder"}

\* q waits in the private mailbox of its semaphore, and no V has reached it.
WaitsForV(q) ==
  LET queue == SemTable[handle[q]].blockedProcs
  IN  pc[q] = "P_wait" /\ at[q] # Unset /\ \E i \in DOMAIN queue : queue[i] = q

NobodyCreates == \A q \in Proc : pc[q] \notin {"C_find", "C_fill"}

OnlyWaitersOf(p, h) ==
  \A q \in Proc \ {p} : pc[q] \notin Idle /\ handle[q] = h => WaitsForV(q)

AllSettled(p) == \A q \in Proc \ {p} : pc[q] \notin Idle => handle[q] \in open

Enter(p, h, place) ==
  /\ pc[p] = "user" /\ Regular
  /\ handle' = [handle EXCEPT ![p] = h]
  /\ Goto(p, place)
  /\ UNCHANGED <<semVars, boxVars, mine>>

InBounds(h) == -MaxValue <= SemTable[h].value /\ SemTable[h].value < MaxValue

semP(p, h) ==
  /\ InBounds(h)
  /\ Enter(p, h, "P_lock")
  /\ Judge(h \in open)
  /\ UNCHANGED open

semV(p, h) ==
  /\ InBounds(h)
  /\ Enter(p, h, "V_lock")
  /\ Judge(h \in open)
  /\ UNCHANGED open

semFree(p, h) ==
  /\ numSems > -MaxValue
  /\ Enter(p, h, "F_lock")
  /\ Judge(h \in open /\ NobodyCreates /\ OnlyWaitersOf(p, h))
  /\ open' = open \ {h}

\* Mutant: the mutex of the new semaphore is not locked.
semCreateUnlocked(p, v) ==
  /\ pc[p] = "user" /\ Regular /\ numSems # MAXSEMS /\ boxes + 2 <= MaxBox
  /\ numSems' = numSems + 1
  /\ boxes' = boxes + 2
  /\ slots' = [slots EXCEPT ![boxes + 1] = v, ![boxes + 2] = 1]
  /\ mine' = [mine EXCEPT ![p] = boxes + 2]
  /\ Goto(p, "C_find")
  /\ Judge(NobodyCreates /\ AllSettled(p))
  /\ UNCHANGED <<SemTable, mail, line, handle, open>>

\* Both mailboxes are created, and the mutex is locked, before the table is
\* searched.
semCreate(p, v) ==
  /\ pc[p] = "user" /\ Regular /\ numSems # MAXSEMS /\ boxes + 2 <= MaxBox
  /\ numSems' = numSems + 1
  /\ boxes' = boxes + 2
  /\ slots' = [slots EXCEPT ![boxes + 1] = v, ![boxes + 2] = 1]
  /\ mail' = [mail EXCEPT ![boxes + 2] = 1]
  /\ mine' = [mine EXCEPT ![p] = boxes + 2]
  /\ Goto(p, "C_find")
  /\ Judge(NobodyCreates /\ AllSettled(p))
  /\ UNCHANGED <<SemTable, line, handle, open>>

-----------------------------------------------------------------------------
(***************************************************************************)
(* semCreateReal.                                                          *)
(***************************************************************************)

FreeEntries == {h \in Sem : SemTable[h].id = -1}

\* The first entry that is free.
C_find(p) ==
  /\ pc[p] = "C_find" /\ FreeEntries # {}
  /\ handle' = [handle EXCEPT ![p] = CHOOSE h \in FreeEntries : \A g \in FreeEntries : h <= g]
  /\ Goto(p, "C_fill")
  /\ UNCHANGED <<semVars, boxVars, mine, userVars>>

\* It is filled, whoever else has found it; the private mailbox gets as many
\* messages as it has slots, and the mutex is unlocked.
C_fill(p) ==
  LET priv == mine[p] - 1
  IN  /\ pc[p] = "C_fill"
      /\ SemTable' = [SemTable EXCEPT ![handle[p]] =
            [id |-> handle[p], value |-> slots[priv], blockedProcs |-> <<>>,
             priv |-> priv, mutex |-> mine[p]]]
      /\ mail' = [mail EXCEPT ![priv] = slots[priv], ![mine[p]] = @ - 1]
      /\ open' = open \union {handle[p]}
      /\ Goto(p, "user")
      /\ UNCHANGED <<numSems, slots, line, boxes, handle, mine, events>>

-----------------------------------------------------------------------------
(***************************************************************************)
(* semPReal.                                                               *)
(***************************************************************************)

\* With the mutex: at zero, into the queue and off to wait; otherwise one is
\* taken off the value, and off its message in the private mailbox.
P_lock(p) ==
  LET h == handle[p]
  IN  /\ pc[p] = "P_lock" /\ Sent(p)
      /\ IF SemTable[h].value = 0
         THEN /\ SemTable' = [SemTable EXCEPT ![h].blockedProcs = Append(@, p)]
              /\ Goto(p, "P_out")
         ELSE /\ SemTable' = [SemTable EXCEPT ![h].value = @ - 1]
              /\ Goto(p, "P_take")
      /\ UNCHANGED <<numSems, slots, boxes, handle, mine, userVars>>

\* The mutex is given back before the wait.
P_out(p) ==
  /\ pc[p] = "P_out" /\ Received(p) /\ Goto(p, "P_wait")
  /\ UNCHANGED <<semVars, slots, boxes, handle, mine, userVars>>

\* Mutant: the mutex is not taken again.
P_waitOnly(p) ==
  /\ pc[p] = "P_wait" /\ Received(p)
  /\ Goto(p, IF SemTable[handle[p]].id < 0 THEN "dead" ELSE "P_unlock")
  /\ UNCHANGED <<semVars, slots, boxes, handle, mine, userVars>>

\* Woken: the process terminates when the entry is not in use any more, which
\* is read without the mutex.
P_wait(p) ==
  /\ pc[p] = "P_wait" /\ Received(p)
  /\ Goto(p, IF SemTable[handle[p]].id < 0 THEN "dead" ELSE "P_in")
  /\ UNCHANGED <<semVars, slots, boxes, handle, mine, userVars>>

P_in(p) ==
  /\ pc[p] = "P_in" /\ Sent(p) /\ Goto(p, "P_unlock")
  /\ UNCHANGED <<semVars, slots, boxes, handle, mine, userVars>>

\* The receive from the private mailbox, with the mutex held.
P_take(p) ==
  /\ pc[p] = "P_take" /\ Received(p) /\ Goto(p, "P_unlock")
  /\ UNCHANGED <<semVars, slots, boxes, handle, mine, userVars>>

P_unlock(p) ==
  /\ pc[p] = "P_unlock" /\ Received(p) /\ Goto(p, "user")
  /\ UNCHANGED <<semVars, slots, boxes, handle, mine, userVars>>

semPReal(p) == P_lock(p) \/ P_out(p) \/ P_wait(p) \/ P_in(p) \/ P_take(p) \/ P_unlock(p)

-----------------------------------------------------------------------------
(***************************************************************************)
(* semVReal.                                                               *)
(***************************************************************************)

\* Mutant: the value is raised for the waiter as well.
V_lockRaises(p) ==
  LET h == handle[p]
  IN  /\ pc[p] = "V_lock" /\ Sent(p)
      /\ SemTable' = [SemTable EXCEPT ![h].value = @ + 1,
                        ![h].blockedProcs = SubSeq(@, 2, Len(@))]
      /\ Goto(p, IF SemTable[h].blockedProcs = <<>> THEN "V_unlock" ELSE "V_out")
      /\ events' = IF SemTable[h].blockedProcs = <<>> THEN events \union {"surplus"} ELSE events
      /\ UNCHANGED <<numSems, slots, boxes, handle, mine, open>>

\* Mutant: the mutex is not given back before the waiter is sent its message.
V_lockKeeps(p) ==
  LET h == handle[p]
  IN  /\ pc[p] = "V_lock" /\ Sent(p)
      /\ IF SemTable[h].blockedProcs # <<>>
         THEN /\ SemTable' = [SemTable EXCEPT ![h].blockedProcs = Tail(@)]
              /\ Goto(p, "V_send")
              /\ UNCHANGED events
         ELSE /\ SemTable' = [SemTable EXCEPT ![h].value = @ + 1]
              /\ Goto(p, "V_unlock")
              /\ events' = events \union {"surplus"}
      /\ UNCHANGED <<numSems, slots, boxes, handle, mine, open>>

\* With the mutex: the first waiter leaves the queue, to be sent a message
\* without the mutex; if there is none the value is raised.
V_lock(p) ==
  LET h == handle[p]
  IN  /\ pc[p] = "V_lock" /\ Sent(p)
      /\ IF SemTable[h].blockedProcs # <<>>
         THEN /\ SemTable' = [SemTable EXCEPT ![h].blockedProcs = Tail(@)]
              /\ Goto(p, "V_out")
              /\ UNCHANGED events
         ELSE /\ SemTable' = [SemTable EXCEPT ![h].value = @ + 1]
              /\ Goto(p, "V_unlock")
              /\ events' = events \union {"surplus"}
      /\ UNCHANGED <<numSems, slots, boxes, handle, mine, open>>

V_out(p) ==
  /\ pc[p] = "V_out" /\ Received(p) /\ Goto(p, "V_send")
  /\ UNCHANGED <<semVars, slots, boxes, handle, mine, userVars>>

V_send(p) ==
  /\ pc[p] = "V_send" /\ Sent(p) /\ Goto(p, "V_in")
  /\ UNCHANGED <<semVars, slots, boxes, handle, mine, userVars>>

V_in(p) ==
  /\ pc[p] = "V_in" /\ Sent(p) /\ Goto(p, "V_unlock")
  /\ UNCHANGED <<semVars, slots, boxes, handle, mine, userVars>>

V_unlock(p) ==
  /\ pc[p] = "V_unlock" /\ Received(p) /\ Goto(p, "user")
  /\ UNCHANGED <<semVars, slots, boxes, handle, mine, userVars>>

semVReal(p) == V_lock(p) \/ V_out(p) \/ V_send(p) \/ V_in(p) \/ V_unlock(p)

-----------------------------------------------------------------------------
(***************************************************************************)
(* semFreeReal.                                                            *)
(***************************************************************************)

\* The next waiter leaves the queue of entry e and is sent a message to the
\* box b; when there is none left, the mutex is unlocked.
NextFreed(p, e, b) ==
  IF e.blockedProcs # <<>>
  THEN /\ SemTable' = [SemTable EXCEPT ![handle[p]] = [e EXCEPT !.blockedProcs = Tail(@)]]
       /\ pc' = [pc EXCEPT ![p] = "F_send"] /\ at' = [at EXCEPT ![p] = b]
  ELSE /\ SemTable' = [SemTable EXCEPT ![handle[p]] = e]
       /\ Goto(p, "F_unlock")

\* Mutants: the semaphores are not counted down; the entry keeps its id.
F_lockUncounted(p) ==
  LET e == SemTable[handle[p]]
  IN  /\ pc[p] = "F_lock" /\ Sent(p)
      /\ NextFreed(p, [FreeEntry EXCEPT !.blockedProcs = e.blockedProcs], e.priv)
      /\ UNCHANGED <<numSems, slots, boxes, handle, mine, userVars>>

F_lockKeepsId(p) ==
  LET e == SemTable[handle[p]]
  IN  /\ pc[p] = "F_lock" /\ Sent(p)
      /\ NextFreed(p, [FreeEntry EXCEPT !.blockedProcs = e.blockedProcs, !.id = e.id], e.priv)
      /\ numSems' = numSems - 1
      /\ UNCHANGED <<slots, boxes, handle, mine, userVars>>

\* With the mutex: the entry is cleared but for its queue.
F_lock(p) ==
  LET e == SemTable[handle[p]]
  IN  /\ pc[p] = "F_lock" /\ Sent(p)
      /\ NextFreed(p, [FreeEntry EXCEPT !.blockedProcs = e.blockedProcs], e.priv)
      /\ numSems' = numSems - 1
      /\ UNCHANGED <<slots, boxes, handle, mine, userVars>>

F_send(p) ==
  /\ pc[p] = "F_send" /\ Sent(p) /\ NextFreed(p, SemTable[handle[p]], at[p])
  /\ UNCHANGED <<numSems, slots, boxes, handle, mine, userVars>>

F_unlock(p) ==
  /\ pc[p] = "F_unlock" /\ Received(p) /\ Goto(p, "user")
  /\ UNCHANGED <<semVars, slots, boxes, handle, mine, userVars>>

semFreeReal(p) == F_lock(p) \/ F_send(p) \/ F_unlock(p)

-----------------------------------------------------------------------------
Call(p) ==
  \/ \E h \in Sem : semP(p, h) \/ semV(p, h) \/ semFree(p, h)
  \/ \E v \in Values : semCreate(p, v)

\* The rest of a call that p is in.
InCall(p) ==
  Evaluate(p) \/ C_find(p) \/ C_fill(p) \/ semPReal(p) \/ semVReal(p) \/ semFreeReal(p)

Next == \E p \in Proc : Call(p) \/ InCall(p)

Spec == Init /\ [][Next]_vars
=============================================================================
