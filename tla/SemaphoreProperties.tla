------------------------ MODULE SemaphoreProperties -------------------------
(***************************************************************************)
(* What the semaphores of Phase 3 get right, for users that keep to the    *)
(* rules (orderly), and what happens to a P that follows a V.              *)
(***************************************************************************)
EXTENDS Semaphore

orderly == "disorder" \notin events

\* Between taking the mutex of a semaphore and giving it back.
Inside == {"P_out", "P_take", "P_unlock", "V_out", "V_unlock", "F_send", "F_unlock"}

\* The mutex mailbox excludes: the value and the queue of a semaphore are
\* changed by one process at a time, although a P gives the mutex back before
\* it waits and takes it again afterwards, a V in the middle of waking gives it
\* up, and a free clears the id of the mailbox that the others read
\* (phase31.c:415, 424, 477-481, 526).
OneInside ==
  orderly => \A p, q \in Proc :
    pc[p] \in Inside /\ pc[q] \in Inside /\ handle[p] = handle[q] => p = q

\* numSems, which is counted before the entry exists and decides whether there
\* is one, is the number of entries in use or on their way; so a semCreate that
\* was let in finds an entry (phase31.c:338, 362, 527).
TableCounted ==
  orderly =>
    /\ numSems = Cardinality({h \in Sem : SemTable[h].id # -1})
                 + Cardinality({p \in Proc : pc[p] \in {"C_find", "C_fill"}})
    /\ \A p \in Proc : pc[p] = "C_find" => FreeEntries # {}

Waiting(h) == {p \in Proc : pc[p] \in {"P_out", "P_wait"} /\ handle[p] = h}
Taking(h)  == {p \in Proc : pc[p] = "P_take" /\ handle[p] = h}

\* A V counts from the moment it raises the value or takes a waiter off the
\* queue, a P when its message has come.
Count ==
  [h \in Sem |->
     IF h \notin open THEN -1
     ELSE SemTable[h].value + Cardinality(Taking(h))
          + Cardinality(Waiting(h)) - Len(SemTable[h].blockedProcs)]

CS == INSTANCE CountingSemaphore WITH count <- Count

\* In orderly use the entry, its two mailboxes and the places of the processes
\* are a counting semaphore: never do more Ps pass than the start value and the
\* Vs allow, whoever takes whose message (phase31.c:410-441, 471-487).
Counts == CS!Init /\ [][orderly' => CS!Next]_Count

-----------------------------------------------------------------------------
(***************************************************************************)
(* Fairness: a process that may go on does so sooner or later (the clock   *)
(* slices), and mailboxes serve their waiting processes in order, so none  *)
(* is passed over for ever: strong fairness of the steps in a call.        *)
(***************************************************************************)
FairSpec == Spec /\ \A p \in Proc : SF_vars(InCall(p))

\* Outside the calls, or waiting in a semaphore for a V.
Settled(p) ==
  \/ pc[p] \in Idle
  \/ \E i \in DOMAIN SemTable[handle[p]].blockedProcs : SemTable[handle[p]].blockedProcs[i] = p

\* As long as users are orderly and no V comes that has nobody to wake, every
\* call ends or waits for a V: the P that a V or a free has taken off the queue
\* gets its message, and the V or free that sends it gets past a private
\* mailbox without slots (phase31.c:479, 531-544).
CallsEnd ==
  [](events = {}) => \A p \in Proc : ~Settled(p) ~> Settled(p)

\* A P that waits when its semaphore is freed is terminated and does not return
\* as if it had passed: "terminate if the semaphore freed while we were blocked"
\* (phase31.c:419).  It finds out from an entry that may be in use again by
\* then; being orderly includes that nobody creates a semaphore so soon.
FreedWaitersTerminate ==
  [](events = {}) => \A p \in Proc :
    (pc[p] = "P_wait" /\ handle[p] \notin open) ~> pc[p] = "dead"

\* "block if value is 0" (phase31.c:412): a P that finds the value above 0 does
\* not block for good.
PassesWhenPositive == \A p \in Proc : pc[p] = "P_take" ~> pc[p] # "P_take"
=============================================================================
