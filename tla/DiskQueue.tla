------------------------------ MODULE DiskQueue -----------------------------
(***************************************************************************)
(* The disk queue of Phase 4 (src/phase4/phase4.c, p4structs.h): a doubly  *)
(* linked ring of processes in the order of their tracks.  head is the one *)
(* with the lowest track, tail the one with the highest, curr the one that *)
(* the driver serves.  A single entry is not linked to itself when it is   *)
(* the first to be added, and is when it is the last to remain.            *)
(*                                                                         *)
(* A queue is a record of head, tail, curr, size and the pointers next and *)
(* prev of every process, which outlive its stay in the queue.             *)
(***************************************************************************)
EXTENDS Naturals, Sequences

CONSTANTS Proc, NULL

ASSUME DiskQueueAssumption == NULL \notin Proc

Pointer == Proc \union {NULL}

Queue == [head : Pointer, tail : Pointer, curr : Pointer, size : Nat,
          next : [Proc -> Pointer], prev : [Proc -> Pointer]]

EmptyQueue ==
  [head |-> NULL, tail |-> NULL, curr |-> NULL, size |-> 0,
   next |-> [p \in Proc |-> NULL], prev |-> [p \in Proc |-> NULL]]

\* The pointer reached from head by following next n times, n <= size.
Walk(q) ==
  LET w[n \in 0 .. q.size] == IF n = 0 THEN q.head ELSE q.next[w[n - 1]]
  IN  w

\* Where the search of add_disk_queue for a place before the first higher track
\* ends: at NULL, at a higher track, or at head again.
Place(q, track, t) ==
  LET w == Walk(q)
      stop(n) == w[n] = NULL \/ (n > 0 /\ w[n] = q.head) \/ track[w[n]] > t
  IN  CHOOSE n \in 0 .. q.size : stop(n) /\ \A m \in 0 .. n - 1 : ~stop(m)

\* Mutant: the tail stays where it was.
InsertTailKept(q, track, p) ==
  LET n == Place(q, track, track[p])
      before == IF n = 0 THEN q.tail ELSE Walk(q)[n - 1]
      after  == IF Walk(q)[n] = NULL THEN q.head ELSE Walk(q)[n]
  IN  [q EXCEPT !.next = [@ EXCEPT ![before] = p, ![p] = after],
                !.prev = [@ EXCEPT ![p] = before, ![after] = p],
                !.head = IF track[p] < track[q.head] THEN p ELSE @,
                !.size = @ + 1]

\* Between the entries at which the search ended; p becomes the head or the
\* tail when it is the lowest or the highest.
Insert(q, track, p) ==
  LET n == Place(q, track, track[p])
      before == IF n = 0 THEN q.tail ELSE Walk(q)[n - 1]
      after  == IF Walk(q)[n] = NULL THEN q.head ELSE Walk(q)[n]
  IN  [q EXCEPT !.next = [@ EXCEPT ![before] = p, ![p] = after],
                !.prev = [@ EXCEPT ![p] = before, ![after] = p],
                !.head = IF track[p] < track[q.head] THEN p ELSE @,
                !.tail = IF track[p] >= track[q.tail] THEN p ELSE @,
                !.size = @ + 1]

add_disk_queue(q, track, p) ==
  IF q.head = NULL
  THEN [q EXCEPT !.head = p, !.tail = p, !.next[p] = NULL, !.prev[p] = NULL, !.size = @ + 1]
  ELSE Insert(q, track, p)

peek_disk_queue(q) == IF q.curr = NULL THEN [q EXCEPT !.curr = q.head] ELSE q

\* Mutant: after the tail the scan stays at the tail.
RemoveTailStays(q) ==
  LET new == q.prev[q.tail]
  IN  [q EXCEPT !.tail = new, !.next[new] = q.head, !.prev[q.head] = new, !.curr = new]

RemoveHead(q) ==
  LET new == q.next[q.head]
  IN  [q EXCEPT !.head = new, !.prev[new] = q.tail, !.next[q.tail] = new, !.curr = new]

RemoveTail(q) ==
  LET new == q.prev[q.tail]
  IN  [q EXCEPT !.tail = new, !.next[new] = q.head, !.prev[q.head] = new, !.curr = q.head]

RemoveOther(q) ==
  [q EXCEPT !.next[q.prev[q.curr]] = q.next[q.curr],
            !.prev[q.next[q.curr]] = q.prev[q.curr],
            !.curr = q.next[q.curr]]

\* The entry at curr (the head, when there is no curr) leaves, and curr moves on.
remove_disk_queue(queue) ==
  LET q == peek_disk_queue(queue)
      rest == IF q.size = 1 THEN [q EXCEPT !.head = NULL, !.tail = NULL, !.curr = NULL]
              ELSE IF q.curr = q.head THEN RemoveHead(q)
              ELSE IF q.curr = q.tail THEN RemoveTail(q)
              ELSE RemoveOther(q)
  IN  IF queue.size = 0 THEN queue ELSE [rest EXCEPT !.size = @ - 1]

-----------------------------------------------------------------------------
\* The processes in the queue, from the head on.
Entries(q) == [i \in 1 .. q.size |-> Walk(q)[i - 1]]

\* The pointers are one ring of size processes: next and prev agree, head and
\* tail are its ends, curr is in it, and a lone entry may end in NULL.
Ring(q) ==
  LET e == Entries(q)
  IN  /\ \A i \in 1 .. q.size : e[i] \in Proc
      /\ \A i, j \in 1 .. q.size : e[i] = e[j] => i = j
      /\ IF q.size = 0 THEN q.head = NULL /\ q.tail = NULL /\ q.curr = NULL
         ELSE /\ q.head = e[1] /\ q.tail = e[q.size]
              /\ q.curr = NULL \/ \E i \in 1 .. q.size : e[i] = q.curr
              /\ \/ q.next[q.tail] = q.head /\ q.prev[q.head] = q.tail
                 \/ q.size = 1 /\ q.next[q.tail] = NULL /\ q.prev[q.head] = NULL
      /\ \A i \in 1 .. q.size - 1 : q.prev[e[i + 1]] = e[i]

Sorted(q, track) == \A i \in 1 .. q.size - 1 : track[Entries(q)[i]] <= track[Entries(q)[i + 1]]
=============================================================================
