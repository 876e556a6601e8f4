------------------------- MODULE CountingSemaphore --------------------------
(***************************************************************************)
(* What the semaphores of Phase 3 promise: a counter per handle that V     *)
(* raises and P lowers, never below zero.  P passes only against its start *)
(* value or a V, each of which lets one P pass.                            *)
(***************************************************************************)
EXTENDS Integers

CONSTANTS Sem, Values

VARIABLE count     \* per handle, or None while there is no such semaphore

None == -1

Init == count = [h \in Sem |-> None]

Create(h) ==
  /\ count[h] = None
  /\ \E v \in Values : count' = [count EXCEPT ![h] = v]

V(h) == count[h] # None /\ count' = [count EXCEPT ![h] = @ + 1]

P(h) == count[h] > 0 /\ count' = [count EXCEPT ![h] = @ - 1]

Free(h) == count[h] # None /\ count' = [count EXCEPT ![h] = None]

Next == \E h \in Sem : Create(h) \/ V(h) \/ P(h) \/ Free(h)

Spec == Init /\ [][Next]_count
=============================================================================
