----------------------------- MODULE DiskProofs -----------------------------
(***************************************************************************)
(* Proofs about the disk driver, for any number of processes, any disk and *)
(* any requests:                                                           *)
(*  - its semaphore counts the requests it has not begun, for which nothing*)
(*    needs to be known of the links;                                      *)
(*  - the links of the queue are a ring in the order of the tracks, and the*)
(*    processes in it are those that wait: add_disk_queue and              *)
(*    remove_disk_queue do to the pointers what adding an entry to a       *)
(*    sequence and taking one out of it would do;                          *)
(*  - so the queue is the circular scan of Elevator: the requests of a track*)
(*    are a stretch of it, a new one joins its stretch at the end, and the *)
(*    next one to serve is where the scan would go;                        *)
(*  - a request moves exactly its sectors, because what is moved and what  *)
(*    the fields of the process still name always make up what it asked    *)
(*    for.                                                                 *)
(***************************************************************************)
EXTENDS DiskProperties, FiniteSetTheorems, WellFoundedInduction, TLAPS

Sized(q) == "size" \in DOMAIN q /\ q.size \in Nat

LEMMA AddSize ==
  ASSUME NEW q, Sized(q), NEW t, NEW p
  PROVE  Sized(add_disk_queue(q, t, p)) /\ add_disk_queue(q, t, p).size = q.size + 1
<1>1. CASE q.head = NULL
  BY <1>1 DEF add_disk_queue, Sized
<1>2. CASE q.head # NULL
  <2>1. Sized(Insert(q, t, p)) /\ Insert(q, t, p).size = q.size + 1
    BY DEF Insert, Sized
  <2> QED BY <1>2, <2>1 DEF add_disk_queue
<1> QED BY <1>1, <1>2

LEMMA PeekSize ==
  ASSUME NEW q, Sized(q)
  PROVE  Sized(peek_disk_queue(q)) /\ peek_disk_queue(q).size = q.size
BY DEF peek_disk_queue, Sized

LEMMA RemoveSize ==
  ASSUME NEW q, Sized(q), q.size > 0
  PROVE  Sized(remove_disk_queue(q)) /\ remove_disk_queue(q).size = q.size - 1
<1> DEFINE r == peek_disk_queue(q)
<1>1. Sized(r) /\ r.size = q.size
  BY PeekSize
<1> HIDE DEF r
<1> DEFINE rest == IF r.size = 1 THEN [r EXCEPT !.head = NULL, !.tail = NULL, !.curr = NULL]
                   ELSE IF r.curr = r.head THEN RemoveHead(r)
                   ELSE IF r.curr = r.tail THEN RemoveTail(r)
                   ELSE RemoveOther(r)
<1>2. Sized([r EXCEPT !.head = NULL, !.tail = NULL, !.curr = NULL])
      /\ [r EXCEPT !.head = NULL, !.tail = NULL, !.curr = NULL].size = q.size
  BY <1>1 DEF Sized
<1>3. Sized(RemoveHead(r)) /\ RemoveHead(r).size = q.size
  BY <1>1 DEF Sized, RemoveHead
<1>4. Sized(RemoveTail(r)) /\ RemoveTail(r).size = q.size
  BY <1>1 DEF Sized, RemoveTail
<1>5. Sized(RemoveOther(r)) /\ RemoveOther(r).size = q.size
  BY <1>1 DEF Sized, RemoveOther
<1>6. Sized(rest) /\ rest.size = q.size
  BY <1>2, <1>3, <1>4, <1>5
<1>7. remove_disk_queue(q) = [rest EXCEPT !.size = @ - 1]
  BY <1>1 DEF remove_disk_queue, r, Sized
<1> HIDE DEF rest
<1>8. QED
  BY <1>6, <1>7 DEF Sized

-----------------------------------------------------------------------------
\* Besides the property: the semaphore's value is a number, and the driver is
\* somewhere in its loop, nobody having zapped it.
Counts ==
  /\ Sized(queue)
  /\ driverSem \in Nat
  /\ driver \in {"semp", "tracks", "seek", "transfer"}
  /\ zapped = FALSE

IInv == Counts /\ RequestsCounted

LEMMA InitIInv == Init => IInv
BY DEF Init, IInv, Counts, Sized, RequestsCounted, EmptyQueue

\* A request enters the queue and the semaphore together.
LEMMA EnqueueCounted ==
  ASSUME IInv, NEW p, NEW t, Enqueue(p, t), UNCHANGED <<driver, zapped>>
  PROVE  IInv'
<1>1. Sized(queue') /\ queue'.size = queue.size + 1
  BY AddSize DEF Enqueue, IInv, Counts
<1>2. driverSem' = driverSem + 1
  BY DEF Enqueue
<1> QED BY <1>1, <1>2 DEF IInv, Counts, RequestsCounted, Sized

\* The driver finishes the request that it had begun.
LEMMA FinishCounted ==
  ASSUME IInv, driver # "semp", Finish(queue), UNCHANGED <<driverSem, zapped>>
  PROVE  IInv'
<1>1. queue.size > 0
  BY DEF IInv, Counts, RequestsCounted, Sized
<1>2. Sized(queue') /\ queue'.size = queue.size - 1
  BY <1>1, RemoveSize DEF Finish, IInv, Counts
<1>3. driver' = "semp"
  BY DEF Finish
<1> QED BY <1>2, <1>3 DEF IInv, Counts, RequestsCounted, Sized

\* The driver stays at the same request.
LEMMA GoOnCounted ==
  ASSUME IInv, driver # "semp", driver' \in {"seek", "transfer"},
         UNCHANGED <<queue, driverSem, zapped>>
  PROVE  IInv'
BY DEF IInv, Counts, RequestsCounted, Sized

LEMMA WakeCounted ==
  ASSUME IInv, Wake
  PROVE  IInv'
<1> USE DEF IInv, Counts
<1>1. /\ driver = "semp" /\ driverSem > 0 /\ driverSem' = driverSem - 1
      /\ zapped = FALSE /\ zapped' = FALSE
  BY DEF Wake, DriverReady
<1>2. queue.size > 0
  BY <1>1 DEF RequestsCounted, Sized
<1>3. Begin(peek_disk_queue(queue))
  BY <1>1, <1>2 DEF Wake
<1> DEFINE q == peek_disk_queue(queue)
<1>4. Sized(q) /\ q.size = queue.size
  BY PeekSize
<1>5. CASE queue' = q /\ driver' \in {"tracks", "seek"}
  BY <1>1, <1>4, <1>5 DEF RequestsCounted, Sized
<1>6. CASE Finish(q)
  <2> HIDE DEF q
  <2>1. Sized(queue') /\ queue'.size = queue.size - 1
    BY <1>2, <1>4, <1>6, RemoveSize DEF Finish
  <2>2. driver' = "semp"
    BY <1>6 DEF Finish
  <2> QED BY <1>1, <2>1, <2>2 DEF RequestsCounted, Sized
<1> QED BY <1>3, <1>5, <1>6 DEF Begin, Seek

LEMMA StepIInv ==
  ASSUME IInv, [Next]_vars
  PROVE  IInv'
<1>1. ASSUME NEW p \in Proc, NEW r \in Requests, disk_read_or_write_real(p, r)
      PROVE  IInv'
  BY <1>1, EnqueueCounted DEF disk_read_or_write_real, driverVars
<1>2. ASSUME NEW p \in Proc, disk_size_real(p)
      PROVE  IInv'
  BY <1>2, EnqueueCounted DEF disk_size_real, driverVars
<1>3. ASSUME NEW p \in Proc, Return(p)
      PROVE  IInv'
  BY <1>3 DEF Return, driverVars, IInv, Counts, RequestsCounted, Sized
<1>4. CASE Wake
  BY <1>4, WakeCounted
<1>5. CASE TracksKnown
  BY <1>5, FinishCounted DEF TracksKnown, Interrupted
<1>6. CASE SeekDone
  BY <1>6, GoOnCounted DEF SeekDone, Interrupted, Transfer, NextTrack, Seek
<1>7. CASE SectorDone
  <2>1. driver # "semp" /\ UNCHANGED <<driverSem, zapped>>
    BY <1>7 DEF SectorDone, Interrupted
  <2>2. CASE Finish(queue)
    BY <2>1, <2>2, FinishCounted
  <2>3. CASE UNCHANGED queue /\ driver' \in {"seek", "transfer"}
    BY <2>1, <2>3, GoOnCounted
  <2> QED BY <1>7, <2>2, <2>3 DEF SectorDone, Transfer, NextTrack, Seek
<1>8. CASE UNCHANGED vars
  BY <1>8 DEF vars, driverVars, semVars, IInv, Counts, RequestsCounted, Sized
<1> QED BY <1>1, <1>2, <1>3, <1>4, <1>5, <1>6, <1>7, <1>8 DEF Next, Driver, Process

\* For any number of processes, any disk and any requests, the driver's
\* semaphore counts the requests in the queue that it has not begun: it never
\* sleeps while one waits and never serves an empty queue (phase4.c:314-323,
\* 667-669).
THEOREM SemaphoreCounts == Spec => []RequestsCounted
<1>1. Init => IInv
  BY InitIInv
<1>2. IInv /\ [Next]_vars => IInv'
  BY StepIInv
<1>3. IInv => RequestsCounted
  BY DEF IInv
<1> QED BY <1>1, <1>2, <1>3, PTL DEF Spec

-----------------------------------------------------------------------------
\* A set of numbers has a least one.
LEMMA LeastExists ==
  ASSUME NEW S, S \subseteq Nat, S # {}
  PROVE  \E x \in S : \A y \in S : x <= y
<1> DEFINE R == {ss \in Nat \X Nat : ss[1] < ss[2]}
<1>1. IsWellFoundedOn(R, Nat)
  BY NatLessThanWellFounded DEF OpToRel
<1>2. PICK x \in S : \A y \in S : ~(<<y, x>> \in R)
  <2>1. \E x \in S : \A y \in S : ~(<<y, x>> \in R)
    BY <1>1, WFMin
  <2> QED BY <2>1
<1>3. ASSUME NEW y \in S PROVE x <= y
  <2>1. x \in Nat /\ y \in Nat
    OBVIOUS
  <2>2. <<y, x>> \notin R
    BY <1>2
  <2> QED BY <2>1, <2>2
<1> QED BY <1>3

\* The queue links the processes of e, in this order.
Chain(q, e) ==
  /\ q \in Queue /\ e \in Seq(Proc) /\ Len(e) = q.size
  /\ \A i, j \in 1 .. q.size : e[i] = e[j] => i = j
  /\ \A i \in 1 .. q.size - 1 : q.next[e[i]] = e[i + 1] /\ q.prev[e[i + 1]] = e[i]
  /\ IF q.size = 0 THEN q.head = NULL /\ q.tail = NULL /\ q.curr = NULL
     ELSE /\ q.head = e[1] /\ q.tail = e[q.size]
          /\ q.curr = NULL \/ \E i \in 1 .. q.size : e[i] = q.curr
          /\ \/ q.next[e[q.size]] = e[1] /\ q.prev[e[1]] = e[q.size]
             \/ q.size = 1 /\ q.next[e[q.size]] = NULL /\ q.prev[e[1]] = NULL

\* What following next from the head gives.
LEMMA WalkIs ==
  ASSUME NEW q, NEW e, Chain(q, e), q.size # 0
  PROVE  /\ \A i \in 1 .. q.size : Walk(q)[i - 1] = e[i]
         /\ Walk(q)[q.size] = NULL \/ Walk(q)[q.size] = q.head
<1> DEFINE n == q.size
           W == [m \in 0 .. n |-> IF m < n THEN e[m + 1] ELSE q.next[e[n]]]
<1>1. n \in Nat \ {0} /\ q.head = e[1] /\ e \in Seq(Proc) /\ Len(e) = n
  BY DEF Chain, Queue
<1>2. \A m \in 0 .. n : W[m] = IF m = 0 THEN q.head ELSE q.next[W[m - 1]]
  <2> SUFFICES ASSUME NEW m \in 0 .. n PROVE W[m] = IF m = 0 THEN q.head ELSE q.next[W[m - 1]]
    OBVIOUS
  <2>1. CASE m = 0
    BY <1>1, <2>1
  <2>2. CASE m # 0
    <3>1. W[m - 1] = e[m] /\ m \in 1 .. n
      BY <1>1, <2>2
    <3>2. m < n => q.next[e[m]] = e[m + 1]
      BY <1>1, <3>1 DEF Chain
    <3> QED BY <1>1, <2>2, <3>1, <3>2
  <2> QED BY <2>1, <2>2
<1>3. W = [m \in 0 .. n |-> IF m = 0 THEN q.head ELSE q.next[W[m - 1]]]
  <2> DEFINE V == [m \in 0 .. n |-> IF m = 0 THEN q.head ELSE q.next[W[m - 1]]]
  <2>1. W = [m \in 0 .. n |-> W[m]] /\ V = [m \in 0 .. n |-> V[m]]
    OBVIOUS
  <2>2. \A m \in 0 .. n : V[m] = IF m = 0 THEN q.head ELSE q.next[W[m - 1]]
    OBVIOUS
  <2> HIDE DEF W, V
  <2>3. \A m \in 0 .. n : W[m] = V[m]
    BY <1>2, <2>2
  <2>4. W = V
    BY <2>1, <2>3
  <2> QED BY <2>4 DEF V
<1>4. \E w : w = [m \in 0 .. n |-> IF m = 0 THEN q.head ELSE q.next[w[m - 1]]]
  <2> HIDE DEF W
  <2> QED BY <1>3
<1>5. PICK w : w = Walk(q)
  OBVIOUS
<1>6. w = [m \in 0 .. n |-> IF m = 0 THEN q.head ELSE q.next[w[m - 1]]]
  BY <1>4, <1>5, Zenon DEF Walk
<1>7. \A m \in 0 .. n : w[m] = W[m]
  <2> DEFINE Bad == {m \in 0 .. n : w[m] # W[m]}
  <2> SUFFICES ASSUME Bad # {} PROVE FALSE
    OBVIOUS
  <2>1. Bad \subseteq Nat
    BY <1>1
  <2>2. PICK m \in Bad : \A k \in Bad : m <= k
    BY <2>1, LeastExists
  <2>3. m \in 0 .. n /\ w[m] # W[m]
    OBVIOUS
  <2> HIDE DEF W
  <2>4. m # 0
    BY <1>2, <1>6, <2>3
  <2>5. m - 1 \in 0 .. n /\ m - 1 \notin Bad
    BY <1>1, <2>2, <2>3, <2>4
  <2>6. w[m - 1] = W[m - 1]
    BY <2>5
  <2>7. w[m] = q.next[w[m - 1]] /\ W[m] = q.next[W[m - 1]]
    BY <1>2, <1>6, <2>3, <2>4
  <2> QED BY <2>3, <2>6, <2>7
<1>8. \A i \in 1 .. n : w[i - 1] = e[i]
  <2> SUFFICES ASSUME NEW i \in 1 .. n PROVE w[i - 1] = e[i]
    OBVIOUS
  <2>1. i - 1 \in 0 .. n /\ i - 1 < n /\ W[i - 1] = e[i]
    BY <1>1
  <2> HIDE DEF W
  <2> QED BY <1>7, <2>1
<1>9. w[n] = q.next[e[n]]
  <2>1. n \in 0 .. n /\ W[n] = q.next[e[n]]
    BY <1>1
  <2> HIDE DEF W
  <2> QED BY <1>7, <2>1
<1>10. w[n] = NULL \/ w[n] = q.head
  BY <1>1, <1>9 DEF Chain
<1> QED BY <1>5, <1>8, <1>10

LEMMA EntriesAre ==
  ASSUME NEW q, NEW e, Chain(q, e)
  PROVE  Entries(q) = e
<1>1. q.size \in Nat /\ e \in Seq(Proc) /\ Len(e) = q.size
  BY DEF Chain, Queue
<1>2. CASE q.size = 0
  BY <1>1, <1>2 DEF Entries
<1>3. CASE q.size # 0
  <2>1. \A i \in 1 .. q.size : Walk(q)[i - 1] = e[i]
    BY <1>3, WalkIs
  <2>2. e = [i \in 1 .. q.size |-> e[i]]
    BY <1>1
  <2> QED BY <2>1, <2>2 DEF Entries
<1> QED BY <1>2, <1>3

LEMMA ChainIsRing ==
  ASSUME NEW q, NEW e, Chain(q, e)
  PROVE  Ring(q)
<1>1. Entries(q) = e
  BY EntriesAre
<1>2. \A i \in 1 .. q.size : e[i] \in Proc
  BY DEF Chain, Queue
<1> HIDE DEF Entries
<1> QED BY <1>1, <1>2 DEF Chain, Ring, Queue

-----------------------------------------------------------------------------
\* p is one of the entries of e.
In(e, p) == \E i \in 1 .. Len(e) : e[i] = p

\* The entries are in the order of their tracks t.
Increasing(e, t) == \A i, j \in 1 .. Len(e) : i < j => t[e[i]] <= t[e[j]]

\* e with p after its first n entries.
Added(e, n, p) ==
  [i \in 1 .. Len(e) + 1 |-> IF i <= n THEN e[i] ELSE IF i = n + 1 THEN p ELSE e[i - 1]]

LEMMA PlaceIs ==
  ASSUME NEW q, NEW e, Chain(q, e), q.size # 0, NEW t \in [Proc -> Int], NEW v \in Int
  PROVE  /\ Place(q, t, v) \in 0 .. q.size
         /\ \A i \in 1 .. Place(q, t, v) : t[e[i]] <= v
         /\ Place(q, t, v) < q.size => t[e[Place(q, t, v) + 1]] > v
<1> DEFINE n == q.size
           stop(m) == Walk(q)[m] = NULL \/ (m > 0 /\ Walk(q)[m] = q.head) \/ t[Walk(q)[m]] > v
           S == {m \in 0 .. n : stop(m)}
           P(m) == stop(m) /\ \A k \in 0 .. m - 1 : ~stop(k)
<1>1. n \in Nat \ {0} /\ q.head = e[1] /\ e \in Seq(Proc) /\ Len(e) = n
  BY DEF Chain, Queue
<1>2. \A i \in 1 .. n : Walk(q)[i - 1] = e[i]
  BY WalkIs
<1>3. Walk(q)[n] = NULL \/ Walk(q)[n] = q.head
  BY WalkIs
<1>4. stop(n)
  BY <1>1, <1>3
<1>5. ASSUME NEW m \in 0 .. n - 1 PROVE stop(m) <=> t[e[m + 1]] > v
  <2>1. Walk(q)[m] = e[m + 1] /\ m + 1 \in 1 .. n /\ 1 \in 1 .. n
    <3>1. m + 1 \in 1 .. n /\ (m + 1) - 1 = m /\ 1 \in 1 .. n
      BY <1>1
    <3> HIDE DEF n
    <3> QED BY <1>2, <3>1
  <2>2. e[m + 1] # NULL
    BY <1>1, <2>1, DiskQueueAssumption
  <2>3. m > 0 => e[m + 1] # e[1]
    BY <1>1, <2>1 DEF Chain
  <2> QED BY <1>1, <2>1, <2>2, <2>3
<1> HIDE DEF stop
<1>6. \E m \in 0 .. n : P(m)
  <2>1. S \subseteq Nat /\ S # {}
    BY <1>1, <1>4
  <2>2. PICK m \in S : \A k \in S : m <= k
    BY <2>1, LeastExists
  <2>3. \A k \in 0 .. m - 1 : k \notin S
    BY <2>1, <2>2, <1>1
  <2>4. \A k \in 0 .. m - 1 : ~stop(k)
    BY <2>2, <2>3, <1>1
  <2> QED BY <2>2, <2>4
<1>7. Place(q, t, v) = CHOOSE m \in 0 .. n : P(m)
  BY Zenon DEF Place, stop
<1>8. PICK m : m = Place(q, t, v)
  OBVIOUS
<1>9. m \in 0 .. n /\ P(m)
  <2> HIDE DEF P
  <2> QED BY <1>6, <1>7, <1>8, Zenon
<1>10. \A i \in 1 .. m : t[e[i]] <= v
  <2> SUFFICES ASSUME NEW i \in 1 .. m PROVE t[e[i]] <= v
    OBVIOUS
  <2>1. i - 1 \in 0 .. m - 1 /\ i - 1 \in 0 .. n - 1 /\ (i - 1) + 1 = i /\ i \in 1 .. n
    BY <1>1, <1>9
  <2>2. ~stop(i - 1)
    BY <1>9, <2>1
  <2>3. ~(t[e[(i - 1) + 1]] > v)
    BY <1>5, <2>1, <2>2
  <2>4. e[i] \in Proc
    BY <1>1, <2>1
  <2> QED BY <2>1, <2>3, <2>4
<1>11. m < n => t[e[m + 1]] > v
  BY <1>1, <1>5, <1>9
<1> QED BY <1>8, <1>9, <1>10, <1>11

LEMMA AddedIs ==
  ASSUME NEW e \in Seq(Proc), NEW n \in 0 .. Len(e), NEW p \in Proc, ~In(e, p)
  PROVE  /\ Added(e, n, p) \in Seq(Proc) /\ Len(Added(e, n, p)) = Len(e) + 1
         /\ \A i \in 1 .. n : Added(e, n, p)[i] = e[i]
         /\ Added(e, n, p)[n + 1] = p
         /\ \A i \in n + 2 .. Len(e) + 1 : Added(e, n, p)[i] = e[i - 1]
<1>1. Len(e) \in Nat /\ \A i \in 1 .. Len(e) : e[i] \in Proc
  OBVIOUS
<1>2. Added(e, n, p) \in [1 .. Len(e) + 1 -> Proc]
  BY <1>1 DEF Added
<1>3. Added(e, n, p) \in Seq(Proc) /\ Len(Added(e, n, p)) = Len(e) + 1
  BY <1>1, <1>2
<1> QED BY <1>1, <1>3 DEF Added

LEMMA AddedHas ==
  ASSUME NEW e \in Seq(Proc), NEW n \in 0 .. Len(e), NEW p \in Proc, ~In(e, p)
  PROVE  \A x : In(Added(e, n, p), x) <=> In(e, x) \/ x = p
<1> DEFINE f == Added(e, n, p)
<1>1. /\ f \in Seq(Proc) /\ Len(f) = Len(e) + 1 /\ Len(e) \in Nat
      /\ \A i \in 1 .. n : f[i] = e[i]
      /\ f[n + 1] = p
      /\ \A i \in n + 2 .. Len(e) + 1 : f[i] = e[i - 1]
  BY AddedIs
<1> HIDE DEF f
<1>2. ASSUME NEW x, In(f, x) PROVE In(e, x) \/ x = p
  <2>1. PICK i \in 1 .. Len(f) : f[i] = x
    BY <1>2 DEF In
  <2>2. CASE i <= n
    BY <1>1, <2>1, <2>2 DEF In
  <2>3. CASE i = n + 1
    BY <1>1, <2>1, <2>3
  <2>4. CASE i > n + 1
    <3>1. i - 1 \in 1 .. Len(e) /\ e[i - 1] = x
      BY <1>1, <2>1, <2>4
    <3> QED BY <3>1 DEF In
  <2> QED BY <1>1, <2>1, <2>2, <2>3, <2>4
<1>3. ASSUME NEW x, In(e, x) \/ x = p PROVE In(f, x)
  <2>1. CASE x = p
    BY <1>1, <2>1 DEF In
  <2>2. CASE In(e, x)
    <3>1. PICK i \in 1 .. Len(e) : e[i] = x
      BY <2>2 DEF In
    <3>2. CASE i <= n
      BY <1>1, <3>1, <3>2 DEF In
    <3>3. CASE i > n
      <4>1. i + 1 \in n + 2 .. Len(e) + 1 /\ f[i + 1] = e[(i + 1) - 1] /\ (i + 1) - 1 = i
        BY <1>1, <3>1, <3>3
      <4> QED BY <1>1, <3>1, <4>1 DEF In
    <3> QED BY <1>1, <3>1, <3>2, <3>3
  <2> QED BY <1>3, <2>1, <2>2
<1> QED BY <1>2, <1>3 DEF f

LEMMA AddedIncreasing ==
  ASSUME NEW e \in Seq(Proc), NEW n \in 0 .. Len(e), NEW p \in Proc, ~In(e, p),
         NEW t \in [Proc -> Int], Increasing(e, t),
         \A i \in 1 .. n : t[e[i]] <= t[p], n < Len(e) => t[e[n + 1]] > t[p]
  PROVE  Increasing(Added(e, n, p), t)
<1> DEFINE f == Added(e, n, p)
<1>1. /\ f \in Seq(Proc) /\ Len(f) = Len(e) + 1 /\ Len(e) \in Nat
      /\ \A i \in 1 .. n : f[i] = e[i]
      /\ f[n + 1] = p
      /\ \A i \in n + 2 .. Len(e) + 1 : f[i] = e[i - 1]
  BY AddedIs
<1> HIDE DEF f
<1>a. Len(e) \in Nat /\ Len(f) = Len(e) + 1 /\ n \in Nat /\ n <= Len(e)
  BY <1>1
<1>b. \A i \in 1 .. n : f[i] = e[i]
  BY <1>1
<1>c. \A i \in n + 2 .. Len(e) + 1 : f[i] = e[i - 1]
  BY <1>1
<1>2. \A i \in n + 1 .. Len(e) : t[e[i]] > t[p]
  <2> SUFFICES ASSUME NEW i \in n + 1 .. Len(e) PROVE t[e[i]] > t[p]
    OBVIOUS
  <2>1. n + 1 \in 1 .. Len(e) /\ i \in 1 .. Len(e) /\ n < Len(e)
    BY <1>1, SMTT(30)
  <2>2. e[i] \in Proc /\ e[n + 1] \in Proc
    BY <2>1
  <2>3. t[e[i]] \in Int /\ t[e[n + 1]] \in Int /\ t[p] \in Int
    BY <2>2
  <2>4. i # n + 1 => t[e[n + 1]] <= t[e[i]]
    BY <2>1 DEF Increasing
  <2> QED BY <2>1, <2>3, <2>4
<1>3. ASSUME NEW i \in 1 .. Len(f), NEW j \in 1 .. Len(f), i < j PROVE t[f[i]] <= t[f[j]]
  <2>0. \A k \in 1 .. Len(e) : e[k] \in Proc /\ t[e[k]] \in Int
    OBVIOUS
  <2>1. CASE j <= n
    <3>1. i \in 1 .. Len(e) /\ j \in 1 .. Len(e) /\ i \in 1 .. n /\ j \in 1 .. n
      BY <1>a, <1>3, <2>1
    <3>2. f[i] = e[i] /\ f[j] = e[j]
      BY <1>b, <3>1
    <3> QED BY <1>3, <3>1, <3>2 DEF Increasing
  <2>2. CASE j = n + 1
    <3>1. i \in 1 .. n
      BY <1>a, <1>3, <2>2
    <3>2. f[i] = e[i] /\ f[j] = p /\ t[e[i]] <= t[p]
      BY <1>1, <1>b, <2>2, <3>1
    <3> QED BY <3>2
  <2>3. CASE i <= n /\ j > n + 1
    <3>1. i \in 1 .. Len(e) /\ i \in 1 .. n /\ j - 1 \in 1 .. Len(e) /\ j \in n + 2 .. Len(e) + 1 /\ i < j - 1
      BY <1>a, <1>3, <2>3
    <3>2. f[i] = e[i] /\ f[j] = e[j - 1]
      BY <1>b, <1>c, <3>1
    <3> QED BY <3>1, <3>2 DEF Increasing
  <2>4. CASE i = n + 1 /\ j > n + 1
    <3>1. j - 1 \in n + 1 .. Len(e) /\ f[i] = p /\ f[j] = e[j - 1]
      BY <1>1, <1>3, <2>4, SMTT(30)
    <3>2. t[e[j - 1]] > t[p] /\ t[e[j - 1]] \in Int /\ t[p] \in Int
      BY <1>1, <1>2, <2>0, <3>1, SMTT(30)
    <3> QED BY <3>1, <3>2
  <2>5. CASE i > n + 1
    <3>1. /\ i - 1 \in 1 .. Len(e) /\ j - 1 \in 1 .. Len(e) /\ i - 1 < j - 1
          /\ i \in n + 2 .. Len(e) + 1 /\ j \in n + 2 .. Len(e) + 1
      BY <1>a, <1>3, <2>5
    <3>2. f[i] = e[i - 1] /\ f[j] = e[j - 1]
      BY <1>c, <3>1
    <3> QED BY <3>1, <3>2 DEF Increasing
  <2> QED BY <1>1, <1>3, <2>1, <2>2, <2>3, <2>4, <2>5
<1> QED BY <1>3 DEF Increasing, f

\* Both ends of the links between the n processes of e.
Linked(next, prev, e, n) ==
  \A i \in 1 .. n - 1 : next[e[i]] = e[i + 1] /\ prev[e[i + 1]] = e[i]

\* The neighbours of an entry that goes after the first n of the ring e.
Before(e, n) == IF n = 0 THEN e[Len(e)] ELSE e[n]
After(e, n) == IF n = Len(e) THEN e[1] ELSE e[n + 1]

Relinked(link, a, x, b, y) == [link EXCEPT ![a] = x, ![b] = y]

Distinct(e) == \A i, j \in 1 .. Len(e) : e[i] = e[j] => i = j

\* A lone entry need not be linked to itself.
Closed(next, prev, e) == Len(e) > 1 => next[e[Len(e)]] = e[1] /\ prev[e[1]] = e[Len(e)]

\* The pointers close the ring of the processes of e.
Looped(next, prev, e) ==
  /\ next \in [Proc -> Pointer] /\ prev \in [Proc -> Pointer]
  /\ Linked(next, prev, e, Len(e))
  /\ next[e[Len(e)]] = e[1] /\ prev[e[1]] = e[Len(e)]

LEMMA InsertLinks ==
  ASSUME NEW e \in Seq(Proc), NEW n \in 0 .. Len(e), NEW p \in Proc, ~In(e, p), Len(e) # 0,
         Distinct(e),
         NEW next \in [Proc -> Pointer], NEW prev \in [Proc -> Pointer],
         Linked(next, prev, e, Len(e)),
         Closed(next, prev, e),
         NEW before, before = Before(e, n), NEW after, after = After(e, n),
         NEW next2, next2 = Relinked(next, before, p, p, after),
         NEW prev2, prev2 = Relinked(prev, p, before, after, p),
         NEW f, f = Added(e, n, p)
  PROVE  Looped(next2, prev2, f)
<1>a. Len(e) \in Nat \ {0} /\ n \in Nat /\ n <= Len(e) /\ f \in Seq(Proc) /\ Len(f) = Len(e) + 1
  BY AddedIs
<1>b. \A i \in 1 .. n : f[i] = e[i]
  BY AddedIs
<1>c. f[n + 1] = p
  BY AddedIs
<1>d. \A i \in n + 2 .. Len(e) + 1 : f[i] = e[i - 1]
  BY AddedIs
<1>e. \A i \in 1 .. Len(e) : e[i] \in Proc /\ e[i] # p
  BY DEF In
<1>f. /\ before = IF n = 0 THEN e[Len(e)] ELSE e[n]
      /\ after = IF n = Len(e) THEN e[1] ELSE e[n + 1]
  BY DEF Before, After
<1>g. \A i, j \in 1 .. Len(e) : e[i] = e[j] => i = j
  BY DEF Distinct
<1>h. Len(e) > 1 => next[e[Len(e)]] = e[1] /\ prev[e[1]] = e[Len(e)]
  BY DEF Closed
<1>1. before \in Proc /\ after \in Proc /\ before # p /\ after # p
  BY <1>a, <1>e, <1>f
<1>2. /\ next2 \in [Proc -> Pointer] /\ prev2 \in [Proc -> Pointer]
      /\ next2[before] = p /\ next2[p] = after
      /\ prev2[p] = before /\ prev2[after] = p
  BY <1>1 DEF Pointer, Relinked
<1>3. \A x \in Proc : x # before /\ x # p => next2[x] = next[x]
  BY <1>1 DEF Relinked
<1>4. \A x \in Proc : x # after /\ x # p => prev2[x] = prev[x]
  BY <1>1 DEF Relinked
<1>5. ASSUME NEW i \in 1 .. Len(f) - 1
      PROVE  next2[f[i]] = f[i + 1] /\ prev2[f[i + 1]] = f[i]
  <2>1. CASE i < n
    <3>1. /\ i \in 1 .. Len(e) - 1 /\ i \in 1 .. n /\ i + 1 \in 1 .. n
          /\ i \in 1 .. Len(e) /\ i + 1 \in 1 .. Len(e) /\ n \in 1 .. Len(e) /\ n # 0
      BY <1>a, <2>1
    <3>2. f[i] = e[i] /\ f[i + 1] = e[i + 1]
      BY <1>b, <3>1
    <3>3. e[i] # before
      BY <1>f, <1>g, <2>1, <3>1
    <3>4. e[i + 1] # after
      <4>1. CASE n = Len(e)
        BY <1>a, <1>f, <1>g, <3>1, <4>1
      <4>2. CASE n # Len(e)
        <5>1. n + 1 \in 1 .. Len(e) /\ i + 1 # n + 1
          BY <1>a, <2>1, <4>2
        <5> QED BY <1>f, <1>g, <3>1, <4>2, <5>1
      <4> QED BY <4>1, <4>2
    <3>5. next[e[i]] = e[i + 1] /\ prev[e[i + 1]] = e[i]
      BY <3>1 DEF Linked
    <3>6. e[i] \in Proc /\ e[i + 1] \in Proc /\ e[i] # p /\ e[i + 1] # p
      BY <1>e, <3>1
    <3> QED BY <1>3, <1>4, <3>2, <3>3, <3>4, <3>5, <3>6
  <2>2. CASE i = n
    <3>1. i \in 1 .. n /\ f[i] = e[i] /\ f[i + 1] = p /\ before = e[i]
      BY <1>a, <1>f, <1>b, <1>c, <2>2
    <3> QED BY <1>2, <3>1
  <2>3. CASE i = n + 1
    <3>1. i + 1 \in n + 2 .. Len(e) + 1 /\ (i + 1) - 1 = i /\ n # Len(e)
      BY <1>a, <2>3
    <3>2. f[i + 1] = e[i] /\ f[i] = p /\ after = e[i]
      BY <1>f, <1>c, <1>d, <2>3, <3>1
    <3> QED BY <1>2, <3>2
  <2>4. CASE i > n + 1
    <3>1. /\ i + 1 \in n + 2 .. Len(e) + 1 /\ (i + 1) - 1 = i /\ i \in n + 2 .. Len(e) + 1
          /\ i \in 1 .. Len(e) /\ i - 1 \in 1 .. Len(e) /\ i - 1 \in 1 .. Len(e) - 1
          /\ (i - 1) + 1 = i /\ n + 1 \in 1 .. Len(e) /\ n # Len(e) /\ Len(e) \in 1 .. Len(e)
          /\ (n # 0 => n \in 1 .. Len(e))
      BY <1>a, <2>4
    <3>2. f[i] = e[i - 1] /\ f[i + 1] = e[i]
      BY <1>d, <3>1
    <3>3. e[i - 1] # before
      <4>1. CASE n = 0
        <5>1. i - 1 # Len(e)
          BY <1>a
        <5> QED BY <1>f, <1>g, <3>1, <4>1, <5>1
      <4>2. CASE n # 0
        <5>1. i - 1 # n
          BY <1>a, <2>4
        <5> QED BY <1>f, <1>g, <3>1, <4>2, <5>1
      <4> QED BY <4>1, <4>2
    <3>4. e[i] # after
      BY <1>f, <1>g, <2>4, <3>1
    <3>5. next[e[i - 1]] = e[i] /\ prev[e[i]] = e[i - 1]
      <4>1. next[e[i - 1]] = e[(i - 1) + 1] /\ prev[e[(i - 1) + 1]] = e[i - 1]
        BY <3>1 DEF Linked
      <4> QED BY <3>1, <4>1
    <3>6. e[i] \in Proc /\ e[i - 1] \in Proc /\ e[i] # p /\ e[i - 1] # p
      BY <1>e, <3>1
    <3> QED BY <1>3, <1>4, <3>2, <3>3, <3>4, <3>5, <3>6
  <2> QED BY <1>a, <2>1, <2>2, <2>3, <2>4
<1>6. next2[f[Len(f)]] = f[1] /\ prev2[f[1]] = f[Len(f)]
  <2>0. 1 \in 1 .. Len(e) /\ Len(e) \in 1 .. Len(e)
    BY <1>a
  <2>1. CASE n = Len(e)
    <3>1. 1 \in 1 .. n /\ Len(f) = n + 1
      BY <1>a, <2>1
    <3>2. f[1] = e[1] /\ f[Len(f)] = p /\ after = e[1]
      BY <1>f, <1>b, <1>c, <2>1, <3>1
    <3> QED BY <1>2, <3>2
  <2>2. CASE n = 0
    <3>1. Len(f) \in n + 2 .. Len(e) + 1 /\ Len(f) - 1 = Len(e)
      BY <1>a, <2>2
    <3>2. f[1] = p /\ f[Len(f)] = e[Len(e)] /\ before = e[Len(e)]
      BY <1>f, <1>c, <1>d, <2>2, <3>1
    <3> QED BY <1>2, <3>2
  <2>3. CASE n # 0 /\ n # Len(e)
    <3>1. /\ Len(f) \in n + 2 .. Len(e) + 1 /\ Len(f) - 1 = Len(e) /\ 1 \in 1 .. n /\ Len(e) > 1
          /\ n \in 1 .. Len(e) /\ n + 1 \in 1 .. Len(e) /\ n + 1 # 1
      BY <1>a, <2>3
    <3>2. f[1] = e[1] /\ f[Len(f)] = e[Len(e)]
      BY <1>b, <1>d, <3>1
    <3>3. e[Len(e)] # before /\ e[1] # after
      BY <1>f, <1>g, <2>0, <2>3, <3>1
    <3>4. e[1] \in Proc /\ e[Len(e)] \in Proc /\ e[1] # p /\ e[Len(e)] # p
      BY <1>e, <2>0
    <3> QED BY <1>3, <1>4, <1>h, <3>1, <3>2, <3>3, <3>4
  <2> QED BY <2>1, <2>2, <2>3
<1> QED BY <1>2, <1>5, <1>6 DEF Linked, Looped

LEMMA InsertLooped ==
  ASSUME NEW e \in Seq(Proc), NEW n \in 0 .. Len(e), NEW p \in Proc, ~In(e, p), Len(e) # 0,
         Distinct(e),
         NEW next \in [Proc -> Pointer], NEW prev \in [Proc -> Pointer],
         Linked(next, prev, e, Len(e)),
         Closed(next, prev, e)
  PROVE  Looped(Relinked(next, Before(e, n), p, p, After(e, n)),
                Relinked(prev, p, Before(e, n), After(e, n), p), Added(e, n, p))
<1>1. PICK before : before = Before(e, n)
  OBVIOUS
<1>2. PICK after : after = After(e, n)
  OBVIOUS
<1>3. PICK next2 : next2 = Relinked(next, before, p, p, after)
  OBVIOUS
<1>4. PICK prev2 : prev2 = Relinked(prev, p, before, after, p)
  OBVIOUS
<1>5. PICK f : f = Added(e, n, p)
  OBVIOUS
<1>6. Looped(next2, prev2, f)
  BY <1>1, <1>2, <1>3, <1>4, <1>5, InsertLinks
<1> QED BY ONLY <1>1, <1>2, <1>3, <1>4, <1>5, <1>6, Zenon

LEMMA AddedDistinct ==
  ASSUME NEW e \in Seq(Proc), NEW n \in 0 .. Len(e), NEW p \in Proc, ~In(e, p),
         Distinct(e),
         NEW f, f = Added(e, n, p)
  PROVE  Distinct(f)
<1>a. Len(e) \in Nat /\ n \in Nat /\ n <= Len(e) /\ f \in Seq(Proc) /\ Len(f) = Len(e) + 1
  BY AddedIs
<1>b. \A i \in 1 .. n : f[i] = e[i]
  BY AddedIs
<1>c. f[n + 1] = p
  BY AddedIs
<1>d. \A i \in n + 2 .. Len(e) + 1 : f[i] = e[i - 1]
  BY AddedIs
<1>e. \A i \in 1 .. Len(e) : e[i] # p
  BY DEF In
<1> DEFINE o(i) == IF i <= n THEN i ELSE i - 1
<1>1. \A i \in 1 .. Len(f) : i # n + 1 => o(i) \in 1 .. Len(e) /\ f[i] = e[o(i)]
  <2> SUFFICES ASSUME NEW i \in 1 .. Len(f), i # n + 1 PROVE o(i) \in 1 .. Len(e) /\ f[i] = e[o(i)]
    OBVIOUS
  <2>1. CASE i <= n
    BY <1>a, <1>b, <2>1
  <2>2. CASE i > n
    <3>1. i \in n + 2 .. Len(e) + 1 /\ i - 1 \in 1 .. Len(e) /\ o(i) = i - 1
      BY <1>a, <2>2
    <3> QED BY <1>d, <3>1
  <2> QED BY <1>a, <2>1, <2>2
<1>2. \A i, j \in 1 .. Len(f) : i # n + 1 /\ j # n + 1 /\ o(i) = o(j) => i = j
  BY <1>a
<1> HIDE DEF o
<1> SUFFICES ASSUME NEW i \in 1 .. Len(f), NEW j \in 1 .. Len(f), f[i] = f[j] PROVE i = j
  BY DEF Distinct
<1>3. CASE i # n + 1 /\ j # n + 1
  BY <1>1, <1>2, <1>3 DEF Distinct
<1>4. CASE i = n + 1 \/ j = n + 1
  BY <1>1, <1>c, <1>e, <1>4
<1> QED BY <1>3, <1>4

\* What Insert makes of the record, given the entries it puts p between.
Left(q, n) == IF n = 0 THEN q.tail ELSE Walk(q)[n - 1]
Right(q, n) == IF Walk(q)[n] = NULL THEN q.head ELSE Walk(q)[n]

LEMMA InsertFields ==
  ASSUME NEW q \in Queue, NEW t, NEW p \in Proc, NEW n, n = Place(q, t, t[p]),
         NEW r, r = Insert(q, t, p)
  PROVE  /\ r = [head |-> r.head, tail |-> r.tail, curr |-> r.curr, size |-> r.size,
                 next |-> r.next, prev |-> r.prev]
         /\ r.next = [q.next EXCEPT ![Left(q, n)] = p, ![p] = Right(q, n)]
         /\ r.prev = [q.prev EXCEPT ![p] = Left(q, n), ![Right(q, n)] = p]
         /\ r.head = (IF t[p] < t[q.head] THEN p ELSE q.head)
         /\ r.tail = (IF t[p] >= t[q.tail] THEN p ELSE q.tail)
         /\ r.curr = q.curr /\ r.size = q.size + 1
<1>1. Insert(q, t, p) =
        [q EXCEPT !.next = [@ EXCEPT ![Left(q, n)] = p, ![p] = Right(q, n)],
                  !.prev = [@ EXCEPT ![p] = Left(q, n), ![Right(q, n)] = p],
                  !.head = IF t[p] < t[q.head] THEN p ELSE @,
                  !.tail = IF t[p] >= t[q.tail] THEN p ELSE @,
                  !.size = @ + 1]
  BY Zenon DEF Insert, Left, Right
<1> QED BY <1>1 DEF Queue

\* p goes behind the entries whose tracks are not higher.
Inserted(e, f, t, p) ==
  \E n \in 0 .. Len(e) :
    /\ f = Added(e, n, p)
    /\ \A i \in 1 .. n : t[e[i]] <= t[p]
    /\ n < Len(e) => t[e[n + 1]] > t[p]

LEMMA InsertChain ==
  ASSUME NEW q, NEW e, Chain(q, e), q.size # 0,
         NEW t \in [Proc -> Int], Increasing(e, t), NEW p \in Proc, ~In(e, p)
  PROVE  \E f : /\ Chain(Insert(q, t, p), f) /\ Increasing(f, t) /\ Inserted(e, f, t, p)
                /\ \A x : In(f, x) <=> In(e, x) \/ x = p
<1>n. PICK n : n = Place(q, t, t[p])
  OBVIOUS
<1>f. PICK f : f = Added(e, n, p)
  OBVIOUS
<1>r. PICK r : r = Insert(q, t, p)
  OBVIOUS
<1>1. /\ q \in Queue /\ e \in Seq(Proc) /\ Len(e) = q.size /\ Len(e) \in Nat \ {0}
      /\ q.head = e[1] /\ q.tail = e[Len(e)] /\ \A i, j \in 1 .. Len(e) : e[i] = e[j] => i = j
      /\ q.head # NULL
  <2>1. /\ q \in Queue /\ e \in Seq(Proc) /\ Len(e) = q.size /\ q.size \in Nat \ {0}
        /\ q.head = e[1] /\ q.tail = e[q.size] /\ \A i, j \in 1 .. q.size : e[i] = e[j] => i = j
    BY DEF Chain, Queue
  <2> QED BY <2>1, DiskQueueAssumption
<1>2. q.next \in [Proc -> Pointer] /\ q.prev \in [Proc -> Pointer] /\ q.size \in Nat
  BY <1>1 DEF Queue
<1>3. Linked(q.next, q.prev, e, Len(e))
  BY <1>1 DEF Chain, Linked
<1>4. Len(e) > 1 => q.next[e[Len(e)]] = e[1] /\ q.prev[e[1]] = e[Len(e)]
  BY <1>1 DEF Chain
<1>5. t[p] \in Int
  OBVIOUS
<1>6. n \in 0 .. q.size /\ (\A i \in 1 .. n : t[e[i]] <= t[p]) /\ (n < q.size => t[e[n + 1]] > t[p])
  BY <1>5, <1>n, PlaceIs
<1>7. \A i \in 1 .. q.size : Walk(q)[i - 1] = e[i]
  BY WalkIs
<1>8. Walk(q)[q.size] = NULL \/ Walk(q)[q.size] = q.head
  BY WalkIs
<1>9. PICK before : before = IF n = 0 THEN q.tail ELSE Walk(q)[n - 1]
  OBVIOUS
<1>10. PICK after : after = IF Walk(q)[n] = NULL THEN q.head ELSE Walk(q)[n]
  OBVIOUS
<1>11. before = IF n = 0 THEN e[Len(e)] ELSE e[n]
  <2>1. n # 0 => n \in 1 .. q.size
    BY <1>2, <1>6
  <2> QED BY <1>1, <1>7, <1>9, <2>1
<1>12. after = IF n = Len(e) THEN e[1] ELSE e[n + 1]
  <2>1. CASE n = Len(e)
    BY <1>1, <1>8, <1>10, <2>1
  <2>2. CASE n # Len(e)
    <3>1. n + 1 \in 1 .. q.size /\ (n + 1) - 1 = n
      BY <1>1, <1>6, <2>2
    <3>2. Walk(q)[n] = e[n + 1] /\ e[n + 1] # NULL
      <4>1. Walk(q)[(n + 1) - 1] = e[n + 1]
        BY <1>7, <3>1
      <4>2. e[n + 1] \in Proc
        BY <1>1, <3>1
      <4> QED BY <3>1, <4>1, <4>2, DiskQueueAssumption
    <3> QED BY <1>10, <2>2, <3>2
  <2> QED BY <2>1, <2>2
<1>13. /\ r = [head |-> r.head, tail |-> r.tail, curr |-> r.curr, size |-> r.size,
                     next |-> r.next, prev |-> r.prev]
       /\ r.next = [q.next EXCEPT ![before] = p, ![p] = after]
       /\ r.prev = [q.prev EXCEPT ![p] = before, ![after] = p]
       /\ r.head = (IF t[p] < t[q.head] THEN p ELSE q.head)
       /\ r.tail = (IF t[p] >= t[q.tail] THEN p ELSE q.tail)
       /\ r.curr = q.curr /\ r.size = q.size + 1
  <2>1. q \in Queue
    BY <1>1
  <2>2. /\ r = [head |-> r.head, tail |-> r.tail, curr |-> r.curr, size |-> r.size,
                 next |-> r.next, prev |-> r.prev]
        /\ r.next = [q.next EXCEPT ![Left(q, n)] = p, ![p] = Right(q, n)]
        /\ r.prev = [q.prev EXCEPT ![p] = Left(q, n), ![Right(q, n)] = p]
        /\ r.head = (IF t[p] < t[q.head] THEN p ELSE q.head)
        /\ r.tail = (IF t[p] >= t[q.tail] THEN p ELSE q.tail)
        /\ r.curr = q.curr /\ r.size = q.size + 1
    BY <1>n, <1>r, <2>1, InsertFields
  <2>3. before = Left(q, n) /\ after = Right(q, n)
    BY <1>9, <1>10 DEF Left, Right
  <2> QED BY <2>2, <2>3
<1>14. n \in 0 .. Len(e)
  BY <1>1, <1>6
<1>b. /\ before = (IF n = 0 THEN e[Len(e)] ELSE e[n])
      /\ after = (IF n = Len(e) THEN e[1] ELSE e[n + 1]) /\ Len(e) # 0
  BY <1>1, <1>11, <1>12
<1>15. /\ r.next \in [Proc -> Pointer] /\ r.prev \in [Proc -> Pointer]
       /\ Linked(r.next, r.prev, f, Len(f))
       /\ r.next[f[Len(f)]] = f[1] /\ r.prev[f[1]] = f[Len(f)]
  <2>1. /\ r.next = Relinked(q.next, before, p, p, after)
        /\ r.prev = Relinked(q.prev, p, before, after, p)
    BY <1>13 DEF Relinked
  <2>2. e \in Seq(Proc) /\ Distinct(e) /\ Len(e) # 0
    BY <1>1 DEF Distinct
  <2>3. before = Before(e, n) /\ after = After(e, n)
    BY <1>b DEF Before, After
  <2>4. Closed(q.next, q.prev, e)
    BY <1>4 DEF Closed
  <2>5. Looped(Relinked(q.next, Before(e, n), p, p, After(e, n)),
               Relinked(q.prev, p, Before(e, n), After(e, n), p), Added(e, n, p))
    BY ONLY <1>2, <1>3, <1>14, <2>2, <2>4, p \in Proc, ~In(e, p), InsertLooped
  <2>6. Looped(r.next, r.prev, f)
    BY ONLY <1>f, <2>1, <2>3, <2>5, Zenon
  <2> QED BY ONLY <2>6, Zenon DEF Looped
<1>16. f \in Seq(Proc) /\ Len(f) = Len(e) + 1 /\ f[n + 1] = p
  <2>1. e \in Seq(Proc)
    BY <1>1
  <2> QED BY <1>14, <1>f, <2>1, AddedIs, Zenon
<1>17. (\A i \in 1 .. n : f[i] = e[i]) /\ (\A i \in n + 2 .. Len(e) + 1 : f[i] = e[i - 1])
  <2>1. e \in Seq(Proc)
    BY <1>1
  <2> QED BY <1>14, <1>f, <2>1, AddedIs, Zenon
<1>18. \A i, j \in 1 .. Len(f) : f[i] = f[j] => i = j
  <2>1. e \in Seq(Proc) /\ Distinct(e)
    BY <1>1 DEF Distinct
  <2>2. Distinct(f)
    BY <1>14, <1>f, <2>1, AddedDistinct
  <2> QED BY <2>2 DEF Distinct
<1>19. Increasing(f, t)
  BY <1>1, <1>6, <1>14, <1>f, AddedIncreasing
<1>20. \A x : In(f, x) <=> In(e, x) \/ x = p
  BY <1>1, <1>14, <1>f, AddedHas
<1>0. 1 \in 1 .. Len(e) /\ Len(e) \in 1 .. Len(e) /\ e[1] \in Proc /\ e[Len(e)] \in Proc
  BY <1>1
<1>21. r.head = f[1]
  <2>1. CASE n = 0
    <3>1. t[e[1]] > t[p]
      BY <1>1, <1>6, <2>1
    <3> QED BY <1>0, <1>1, <1>13, <1>16, <2>1, <3>1
  <2>2. CASE n # 0
    <3>1. 1 \in 1 .. n
      BY <1>6, <2>2, <1>1
    <3>2. t[e[1]] <= t[p] /\ f[1] = e[1]
      BY <1>6, <1>17, <3>1
    <3>3. t[e[1]] \in Int
      BY <1>0
    <3> QED BY <1>1, <1>5, <1>13, <3>2, <3>3
  <2> QED BY <2>1, <2>2
<1>22. r.tail = f[Len(f)]
  <2>0. t[e[Len(e)]] \in Int
    BY <1>0
  <2>1. CASE n = Len(e)
    <3>1. Len(e) \in 1 .. n
      BY <1>0, <2>1
    <3>2. t[e[Len(e)]] <= t[p]
      BY <1>6, <3>1
    <3>3. f[Len(f)] = p
      BY <1>16, <2>1
    <3> QED BY <1>1, <1>5, <1>13, <2>0, <3>2, <3>3
  <2>2. CASE n # Len(e)
    <3>0. Len(e) \in Nat /\ q.size = Len(e) /\ Len(f) = Len(e) + 1
      BY <1>1, <1>16
    <3>1. n + 1 \in 1 .. Len(e) /\ n < q.size /\ Len(f) \in n + 2 .. Len(e) + 1 /\ Len(f) - 1 = Len(e)
      BY <1>14, <2>2, <3>0
    <3>2. f[Len(f)] = e[Len(e)]
      BY <1>17, <3>1
    <3>3. t[e[n + 1]] > t[p] /\ t[e[n + 1]] \in Int
      BY <1>1, <1>6, <3>1
    <3>4. n + 1 < Len(e) => t[e[n + 1]] <= t[e[Len(e)]]
      BY <1>0, <3>1 DEF Increasing
    <3>5. n + 1 = Len(e) \/ n + 1 < Len(e)
      BY <1>1, <3>1
    <3>6. t[e[Len(e)]] > t[p]
      BY <1>5, <2>0, <3>3, <3>4, <3>5
    <3> QED BY <1>1, <1>5, <1>13, <2>0, <3>2, <3>6
  <2> QED BY <2>1, <2>2
<1>23. q.curr \in Pointer /\ (q.curr = NULL \/ In(e, q.curr))
  BY <1>1, <1>2 DEF Chain, Queue, In
<1>24. r.curr = NULL \/ \E i \in 1 .. r.size : f[i] = r.curr
  <2>1. q.curr # NULL => In(f, q.curr)
    BY <1>20, <1>23
  <2>2. r.curr = q.curr /\ r.size = Len(f)
    BY <1>1, <1>13, <1>16
  <2> QED BY <2>1, <2>2 DEF In
<1>25. r \in Queue
  <2>1. r.head \in Pointer /\ r.tail \in Pointer
    BY <1>0, <1>1, <1>13 DEF Pointer
  <2>2. r.curr \in Pointer /\ r.size \in Nat
    BY <1>2, <1>13, <1>23
  <2> QED BY <1>13, <1>15, <2>1, <2>2 DEF Queue
<1>26. r.size = Len(f) /\ r.size # 0
  BY <1>1, <1>13, <1>16
<1>27. \A i \in 1 .. r.size - 1 : r.next[f[i]] = f[i + 1] /\ r.prev[f[i + 1]] = f[i]
  BY <1>15, <1>26 DEF Linked
<1>28. Chain(r, f)
  BY <1>15, <1>16, <1>18, <1>21, <1>22, <1>24, <1>25, <1>26, <1>27 DEF Chain
<1>29. Inserted(e, f, t, p)
  <2>1. n < Len(e) => t[e[n + 1]] > t[p]
    BY <1>1, <1>6
  <2> QED BY <1>6, <1>14, <1>f, <2>1 DEF Inserted
<1> QED BY <1>19, <1>20, <1>28, <1>29, <1>r

LEMMA AddChain ==
  ASSUME NEW q, NEW e, Chain(q, e),
         NEW t \in [Proc -> Int], Increasing(e, t), NEW p \in Proc, ~In(e, p)
  PROVE  \E f : /\ Chain(add_disk_queue(q, t, p), f) /\ Increasing(f, t) /\ Inserted(e, f, t, p)
                /\ \A x : In(f, x) <=> In(e, x) \/ x = p
<1>1. q \in Queue /\ e \in Seq(Proc) /\ Len(e) = q.size /\ q.size \in Nat
  BY DEF Chain, Queue
<1>2. CASE q.size # 0
  <2>1. q.head \in Proc
    <3>1. q.head = e[1] /\ 1 \in 1 .. Len(e)
      BY <1>1, <1>2 DEF Chain
    <3> QED BY <1>1, <3>1
  <2>2. add_disk_queue(q, t, p) = Insert(q, t, p)
    BY <2>1, DiskQueueAssumption DEF add_disk_queue
  <2> QED BY <1>2, <2>2, InsertChain
<1>3. CASE q.size = 0
  <2> DEFINE f == <<p>>
             r == [q EXCEPT !.head = p, !.tail = p, !.next[p] = NULL, !.prev[p] = NULL,
                            !.size = @ + 1]
  <2>1. q.head = NULL /\ q.tail = NULL /\ q.curr = NULL
    BY <1>3 DEF Chain
  <2>2. add_disk_queue(q, t, p) = r
    BY <2>1 DEF add_disk_queue
  <2>0. /\ q.next \in [Proc -> Pointer] /\ q.prev \in [Proc -> Pointer] /\ NULL \in Pointer /\ p \in Pointer
        /\ q = [head |-> NULL, tail |-> NULL, curr |-> NULL, size |-> 0,
                next |-> q.next, prev |-> q.prev]
    BY <1>1, <1>3, <2>1 DEF Queue, Pointer
  <2>a. r = [q EXCEPT !.head = p, !.tail = p, !.next = [q.next EXCEPT ![p] = NULL],
                      !.prev = [q.prev EXCEPT ![p] = NULL], !.size = 1]
    BY <1>1, <1>3 DEF Queue
  <2> HIDE DEF r
  <2>b. [q.next EXCEPT ![p] = NULL] \in [Proc -> Pointer] /\ [q.prev EXCEPT ![p] = NULL] \in [Proc -> Pointer]
    BY <2>0
  <2>c. /\ r = [head |-> r.head, tail |-> r.tail, curr |-> r.curr, size |-> r.size,
                 next |-> r.next, prev |-> r.prev]
        /\ r.head = p /\ r.tail = p /\ r.curr = NULL /\ r.size = 1
        /\ r.next = [q.next EXCEPT ![p] = NULL] /\ r.prev = [q.prev EXCEPT ![p] = NULL]
    BY <1>1, <2>1, <2>a DEF Queue
  <2>d. r.next \in [Proc -> Pointer] /\ r.prev \in [Proc -> Pointer]
    BY <2>b, <2>c
  <2>e. r.next[p] = NULL /\ r.prev[p] = NULL
    BY <2>0, <2>c
  <2>3. /\ r \in Queue /\ r.head = p /\ r.tail = p /\ r.curr = NULL /\ r.size = 1
        /\ r.next[p] = NULL /\ r.prev[p] = NULL
    BY <2>0, <2>c, <2>d, <2>e DEF Queue
  <2>4. f \in Seq(Proc) /\ Len(f) = 1 /\ f[1] = p
    OBVIOUS
  <2>5. \A x : ~In(e, x)
    BY <1>1, <1>3 DEF In
  <2> HIDE DEF f
  <2>6. Chain(r, f)
    BY <2>3, <2>4 DEF Chain
  <2>7. Increasing(f, t)
    BY <2>4 DEF Increasing
  <2>9. \A x : In(f, x) <=> x = p
    BY <2>4 DEF In
  <2>8. \A x : In(f, x) <=> In(e, x) \/ x = p
    BY <2>5, <2>9
  <2>10. Inserted(e, f, t, p)
    <3>1. Len(e) = 0
      BY <1>1, <1>3
    <3>2. Added(e, 0, p) = [i \in 1 .. 1 |-> p]
      BY <3>1 DEF Added
    <3>3. f = Added(e, 0, p)
      BY <2>4, <3>2
    <3> QED BY <3>1, <3>3 DEF Inserted
  <2> QED BY <2>2, <2>6, <2>7, <2>8, <2>10
<1> QED BY <1>2, <1>3

-----------------------------------------------------------------------------
\* e without its k-th entry.
Removed(e, k) == [i \in 1 .. Len(e) - 1 |-> IF i < k THEN e[i] ELSE e[i + 1]]

LEMMA RemovedIs ==
  ASSUME NEW e \in Seq(Proc), NEW k \in 1 .. Len(e), NEW f, f = Removed(e, k)
  PROVE  /\ f \in Seq(Proc) /\ Len(f) = Len(e) - 1
         /\ \A i \in 1 .. k - 1 : f[i] = e[i]
         /\ \A i \in k .. Len(e) - 1 : f[i] = e[i + 1]
<1>1. Len(e) \in Nat \ {0} /\ \A i \in 1 .. Len(e) : e[i] \in Proc
  OBVIOUS
<1>2. f \in [1 .. Len(e) - 1 -> Proc]
  BY <1>1 DEF Removed
<1>3. f \in Seq(Proc) /\ Len(f) = Len(e) - 1
  BY <1>1, <1>2
<1> QED BY <1>1, <1>3 DEF Removed

\* Where the entries of e without the k-th come from.
From(i, k) == IF i < k THEN i ELSE i + 1

LEMMA RemovedFrom ==
  ASSUME NEW e \in Seq(Proc), NEW k \in 1 .. Len(e), NEW f, f = Removed(e, k)
  PROVE  /\ f \in Seq(Proc) /\ Len(f) = Len(e) - 1
         /\ \A i \in 1 .. Len(f) : From(i, k) \in 1 .. Len(e) /\ From(i, k) # k /\ f[i] = e[From(i, k)]
         /\ \A i, j \in 1 .. Len(f) : i < j => From(i, k) < From(j, k)
         /\ \A m \in 1 .. Len(e) : m # k => \E i \in 1 .. Len(f) : From(i, k) = m
<1>1. /\ f \in Seq(Proc) /\ Len(f) = Len(e) - 1 /\ Len(e) \in Nat \ {0}
      /\ \A i \in 1 .. k - 1 : f[i] = e[i]
      /\ \A i \in k .. Len(e) - 1 : f[i] = e[i + 1]
  BY RemovedIs
<1>2. ASSUME NEW i \in 1 .. Len(f)
      PROVE  From(i, k) \in 1 .. Len(e) /\ From(i, k) # k /\ f[i] = e[From(i, k)]
  <2>1. CASE i < k
    BY <1>1, <2>1 DEF From
  <2>2. CASE i >= k
    BY <1>1, <2>2 DEF From
  <2> QED BY <1>1, <2>1, <2>2
<1>3. \A i, j \in 1 .. Len(f) : i < j => From(i, k) < From(j, k)
  BY <1>1 DEF From
<1>4. ASSUME NEW m \in 1 .. Len(e), m # k
      PROVE  \E i \in 1 .. Len(f) : From(i, k) = m
  <2>1. CASE m < k
    BY <1>1, <2>1 DEF From
  <2>2. CASE m > k
    <3>1. m - 1 \in 1 .. Len(f) /\ From(m - 1, k) = m
      BY <1>1, <2>2 DEF From
    <3> QED BY <3>1
  <2> QED BY <1>1, <1>4, <2>1, <2>2
<1> QED BY <1>1, <1>2, <1>3, <1>4

LEMMA RemovedIncreasing ==
  ASSUME NEW e \in Seq(Proc), NEW k \in 1 .. Len(e), NEW t, Increasing(e, t)
  PROVE  Increasing(Removed(e, k), t)
<1>1. PICK f : f = Removed(e, k)
  OBVIOUS
<1>2. /\ \A i \in 1 .. Len(f) : From(i, k) \in 1 .. Len(e) /\ f[i] = e[From(i, k)]
      /\ \A i, j \in 1 .. Len(f) : i < j => From(i, k) < From(j, k)
  BY <1>1, RemovedFrom
<1>3. Increasing(f, t)
  BY <1>2 DEF Increasing
<1> QED BY <1>1, <1>3

LEMMA RemovedDistinct ==
  ASSUME NEW e \in Seq(Proc), NEW k \in 1 .. Len(e), Distinct(e)
  PROVE  /\ Distinct(Removed(e, k))
         /\ \A x : In(Removed(e, k), x) <=> In(e, x) /\ x # e[k]
<1>1. PICK f : f = Removed(e, k)
  OBVIOUS
<1>2. /\ Len(f) \in Nat
      /\ \A i \in 1 .. Len(f) : From(i, k) \in 1 .. Len(e) /\ From(i, k) # k /\ f[i] = e[From(i, k)]
      /\ \A i, j \in 1 .. Len(f) : i < j => From(i, k) < From(j, k)
      /\ \A m \in 1 .. Len(e) : m # k => \E i \in 1 .. Len(f) : From(i, k) = m
  BY <1>1, RemovedFrom
<1>3. Distinct(f)
  <2> SUFFICES ASSUME NEW i \in 1 .. Len(f), NEW j \in 1 .. Len(f), f[i] = f[j] PROVE i = j
    BY DEF Distinct
  <2>1. From(i, k) = From(j, k)
    BY <1>2 DEF Distinct
  <2>2. ~(i < j) /\ ~(j < i)
    BY <1>2, <2>1
  <2> QED BY <1>2, <2>2
<1>4. ASSUME NEW x, In(f, x) PROVE In(e, x) /\ x # e[k]
  <2>1. PICK i \in 1 .. Len(f) : f[i] = x
    BY <1>4 DEF In
  <2>2. From(i, k) \in 1 .. Len(e) /\ From(i, k) # k /\ x = e[From(i, k)]
    BY <1>2, <2>1
  <2> QED BY <2>2 DEF In, Distinct
<1>5. ASSUME NEW x, In(e, x), x # e[k] PROVE In(f, x)
  <2>1. PICK m \in 1 .. Len(e) : e[m] = x
    BY <1>5 DEF In
  <2>2. PICK i \in 1 .. Len(f) : From(i, k) = m
    BY <1>2, <1>5, <2>1
  <2> QED BY <1>2, <2>1, <2>2 DEF In
<1> QED BY <1>1, <1>3, <1>4, <1>5

\* The neighbours of the k-th entry of the ring e.
Previous(e, k) == IF k = 1 THEN e[Len(e)] ELSE e[k - 1]
Following(e, k) == IF k = Len(e) THEN e[1] ELSE e[k + 1]

Linking(link, a, b) == [link EXCEPT ![a] = b]

LEMMA UnlinkLinks ==
  ASSUME NEW e \in Seq(Proc), NEW k \in 1 .. Len(e), Len(e) > 1, Distinct(e),
         NEW next \in [Proc -> Pointer], NEW prev \in [Proc -> Pointer],
         Linked(next, prev, e, Len(e)), Closed(next, prev, e),
         NEW a, a = Previous(e, k), NEW b, b = Following(e, k),
         NEW next2, next2 = Linking(next, a, b), NEW prev2, prev2 = Linking(prev, b, a),
         NEW f, f = Removed(e, k)
  PROVE  /\ next2 \in [Proc -> Pointer] /\ prev2 \in [Proc -> Pointer]
         /\ Linked(next2, prev2, f, Len(f))
         /\ next2[f[Len(f)]] = f[1] /\ prev2[f[1]] = f[Len(f)]
<1>1. f \in Seq(Proc) /\ Len(f) = Len(e) - 1 /\ Len(e) \in Nat \ {0, 1}
  BY RemovedIs
<1>2. \A i \in 1 .. k - 1 : f[i] = e[i]
  BY RemovedIs
<1>3. \A i \in k .. Len(e) - 1 : f[i] = e[i + 1]
  BY RemovedIs
<1>4. \A i \in 1 .. Len(e) : e[i] \in Proc
  OBVIOUS
<1>5. \A i, j \in 1 .. Len(e) : e[i] = e[j] => i = j
  BY DEF Distinct
<1>6. next[e[Len(e)]] = e[1] /\ prev[e[1]] = e[Len(e)]
  BY DEF Closed
<1>7. /\ a = IF k = 1 THEN e[Len(e)] ELSE e[k - 1]
      /\ b = IF k = Len(e) THEN e[1] ELSE e[k + 1]
  BY DEF Previous, Following
<1>8. 1 \in 1 .. Len(e) /\ Len(e) \in 1 .. Len(e) /\ (k # 1 => k - 1 \in 1 .. Len(e))
      /\ (k # Len(e) => k + 1 \in 1 .. Len(e))
  BY <1>1
<1>9. a \in Proc /\ b \in Proc
  BY <1>4, <1>7, <1>8
<1>10. /\ next2 \in [Proc -> Pointer] /\ prev2 \in [Proc -> Pointer]
       /\ next2[a] = b /\ prev2[b] = a
  BY <1>9 DEF Pointer, Linking
<1>11. \A x \in Proc : x # a => next2[x] = next[x]
  BY <1>9 DEF Linking
<1>12. \A x \in Proc : x # b => prev2[x] = prev[x]
  BY <1>9 DEF Linking
<1>13. ASSUME NEW i \in 1 .. Len(f) - 1
       PROVE  next2[f[i]] = f[i + 1] /\ prev2[f[i + 1]] = f[i]
  <2>1. CASE i < k - 1
    <3>1. /\ i \in 1 .. k - 1 /\ i + 1 \in 1 .. k - 1 /\ i \in 1 .. Len(e) /\ i + 1 \in 1 .. Len(e)
          /\ i \in 1 .. Len(e) - 1 /\ k # 1 /\ i # k - 1 /\ i + 1 # k + 1 /\ i + 1 # 1
      BY <1>1, <2>1
    <3>2. f[i] = e[i] /\ f[i + 1] = e[i + 1]
      BY <1>2, <3>1
    <3>3. e[i] # a
      BY <1>5, <1>7, <1>8, <3>1
    <3>4. e[i + 1] # b
      BY <1>5, <1>7, <1>8, <3>1
    <3>5. next[e[i]] = e[i + 1] /\ prev[e[i + 1]] = e[i]
      BY <3>1 DEF Linked
    <3> QED BY <1>4, <1>11, <1>12, <3>1, <3>2, <3>3, <3>4, <3>5
  <2>2. CASE i = k - 1
    <3>1. /\ i \in 1 .. k - 1 /\ k \in k .. Len(e) - 1 /\ i + 1 = k /\ k # 1 /\ k # Len(e)
      BY <1>1, <2>2
    <3>2. f[i] = a /\ f[i + 1] = b
      BY <1>2, <1>3, <1>7, <2>2, <3>1
    <3> QED BY <1>10, <3>2
  <2>3. CASE i >= k
    <3>1. /\ i \in k .. Len(e) - 1 /\ i + 1 \in k .. Len(e) - 1 /\ i + 1 \in 1 .. Len(e)
          /\ (i + 1) + 1 \in 1 .. Len(e) /\ i + 1 \in 1 .. Len(e) - 1
          /\ k # Len(e) /\ i + 1 # Len(e) /\ i + 1 # k - 1 /\ (i + 1) + 1 # k + 1
      BY <1>1, <2>3
    <3>2. f[i] = e[i + 1] /\ f[i + 1] = e[(i + 1) + 1]
      BY <1>3, <3>1
    <3>3. e[i + 1] # a
      BY <1>5, <1>7, <1>8, <3>1
    <3>4. e[(i + 1) + 1] # b
      BY <1>5, <1>7, <1>8, <3>1
    <3>5. next[e[i + 1]] = e[(i + 1) + 1] /\ prev[e[(i + 1) + 1]] = e[i + 1]
      BY <3>1 DEF Linked
    <3> QED BY <1>4, <1>11, <1>12, <3>1, <3>2, <3>3, <3>4, <3>5
  <2> QED BY <1>1, <2>1, <2>2, <2>3
<1>14. next2[f[Len(f)]] = f[1] /\ prev2[f[1]] = f[Len(f)]
  <2>1. CASE k = Len(e)
    <3>1. 1 \in 1 .. k - 1 /\ Len(f) \in 1 .. k - 1 /\ Len(f) = k - 1 /\ k # 1
      BY <1>1, <2>1
    <3>2. f[1] = b /\ f[Len(f)] = a
      BY <1>2, <1>7, <2>1, <3>1
    <3> QED BY <1>10, <3>2
  <2>2. CASE k = 1
    <3>1. 1 \in k .. Len(e) - 1 /\ Len(f) \in k .. Len(e) - 1 /\ Len(f) + 1 = Len(e) /\ k # Len(e)
      BY <1>1, <2>2
    <3>2. f[1] = b /\ f[Len(f)] = a
      BY <1>3, <1>7, <2>2, <3>1
    <3> QED BY <1>10, <3>2
  <2>3. CASE k # 1 /\ k # Len(e)
    <3>1. /\ 1 \in 1 .. k - 1 /\ Len(f) \in k .. Len(e) - 1 /\ Len(f) + 1 = Len(e)
          /\ k - 1 # Len(e) /\ k + 1 # 1
      BY <1>1, <2>3
    <3>2. f[1] = e[1] /\ f[Len(f)] = e[Len(e)]
      BY <1>2, <1>3, <3>1
    <3>3. e[Len(e)] # a /\ e[1] # b
      BY <1>5, <1>7, <1>8, <2>3, <3>1
    <3> QED BY <1>4, <1>6, <1>8, <1>11, <1>12, <3>2, <3>3
  <2> QED BY <2>1, <2>2, <2>3
<1> QED BY <1>10, <1>13, <1>14 DEF Linked

\* When the entry at curr leaves, the links, the ends and curr move as they
\* would if it were unlinked and curr went on to its successor.
Unlinked(r, q, e, k) ==
  /\ r = [head |-> r.head, tail |-> r.tail, curr |-> r.curr, size |-> r.size,
          next |-> r.next, prev |-> r.prev]
  /\ r.next = [q.next EXCEPT ![Previous(e, k)] = Following(e, k)]
  /\ r.prev = [q.prev EXCEPT ![Following(e, k)] = Previous(e, k)]
  /\ r.head = (IF k = 1 THEN e[2] ELSE e[1])
  /\ r.tail = (IF k = Len(e) THEN e[Len(e) - 1] ELSE e[Len(e)])
  /\ r.curr = Following(e, k)
  /\ r.size = q.size

Rest(q) ==
  IF q.size = 1 THEN [q EXCEPT !.head = NULL, !.tail = NULL, !.curr = NULL]
  ELSE IF q.curr = q.head THEN RemoveHead(q)
  ELSE IF q.curr = q.tail THEN RemoveTail(q)
  ELSE RemoveOther(q)

LEMMA ChainParts ==
  ASSUME NEW q, NEW e, Chain(q, e)
  PROVE  /\ q \in Queue /\ q.next \in [Proc -> Pointer] /\ q.prev \in [Proc -> Pointer]
         /\ q.size \in Nat /\ Len(e) = q.size /\ e \in Seq(Proc) /\ Distinct(e)
         /\ Linked(q.next, q.prev, e, Len(e)) /\ Closed(q.next, q.prev, e)
         /\ q.curr = NULL \/ In(e, q.curr)
         /\ q.size # 0 => q.head = e[1] /\ q.tail = e[Len(e)]
<1>1. q \in Queue /\ q.next \in [Proc -> Pointer] /\ q.prev \in [Proc -> Pointer] /\ q.size \in Nat
  BY DEF Chain, Queue
<1>2. Len(e) = q.size /\ e \in Seq(Proc)
  BY DEF Chain
<1>3. Distinct(e) /\ Linked(q.next, q.prev, e, Len(e))
  BY <1>2 DEF Chain, Distinct, Linked
<1>4. Closed(q.next, q.prev, e)
  BY <1>1, <1>2 DEF Chain, Closed
<1>5. q.curr = NULL \/ In(e, q.curr)
  BY <1>1, <1>2 DEF Chain, In
<1>6. q.size # 0 => q.head = e[1] /\ q.tail = e[Len(e)]
  BY <1>2 DEF Chain
<1> QED BY <1>1, <1>2, <1>3, <1>4, <1>5, <1>6

LEMMA RestUnlinked ==
  ASSUME NEW q, NEW e, Chain(q, e), q.size > 1, NEW k \in 1 .. Len(e), q.curr = e[k]
  PROVE  Unlinked(Rest(q), q, e, k)
<1>1. /\ q \in Queue /\ q.size \in Nat /\ Len(e) = q.size /\ e \in Seq(Proc)
      /\ q.head = e[1] /\ q.tail = e[Len(e)]
  BY ChainParts
<1>2. \A i, j \in 1 .. Len(e) : e[i] = e[j] => i = j
  BY ChainParts DEF Distinct
<1>3. Linked(q.next, q.prev, e, Len(e)) /\ Closed(q.next, q.prev, e)
  BY ChainParts
<1>4. \A i \in 1 .. Len(e) - 1 : q.next[e[i]] = e[i + 1] /\ q.prev[e[i + 1]] = e[i]
  BY <1>3 DEF Linked
<1>5. Len(e) \in Nat \ {0, 1} /\ 1 \in 1 .. Len(e) /\ Len(e) \in 1 .. Len(e)
  BY <1>1
<1>6. CASE k = 1
  <2>1. 1 \in 1 .. Len(e) - 1 /\ k # Len(e)
    BY <1>5, <1>6
  <2>2. q.next[q.head] = e[2]
    BY <1>1, <1>4, <2>1
  <2>3. Rest(q) = RemoveHead(q)
    BY <1>1, <1>6 DEF Rest
  <2>4. Previous(e, k) = q.tail /\ Following(e, k) = e[2]
    BY <1>1, <1>6, <2>1 DEF Previous, Following
  <2>5. PICK r : r = RemoveHead(q)
    OBVIOUS
  <2>6. r = [q EXCEPT !.head = e[2], !.prev[e[2]] = q.tail, !.next[q.tail] = e[2], !.curr = e[2]]
    BY <2>2, <2>5 DEF RemoveHead
  <2>7. /\ r = [head |-> r.head, tail |-> r.tail, curr |-> r.curr, size |-> r.size,
                next |-> r.next, prev |-> r.prev]
        /\ r.next = [q.next EXCEPT ![q.tail] = e[2]]
        /\ r.prev = [q.prev EXCEPT ![e[2]] = q.tail]
        /\ r.head = e[2] /\ r.tail = q.tail /\ r.curr = e[2] /\ r.size = q.size
    BY <1>1, <2>6 DEF Queue
  <2> QED BY <1>1, <1>6, <2>1, <2>3, <2>4, <2>5, <2>7 DEF Unlinked
<1>7. CASE k = Len(e)
  <2>1. Len(e) - 1 \in 1 .. Len(e) - 1 /\ (Len(e) - 1) + 1 = Len(e) /\ k # 1
    BY <1>5, <1>7
  <2>2. q.prev[q.tail] = e[Len(e) - 1]
    BY <1>1, <1>4, <2>1
  <2>3. q.curr # q.head /\ q.curr = q.tail
    BY <1>1, <1>2, <1>5, <1>7, <2>1
  <2>4. Rest(q) = RemoveTail(q)
    BY <2>3 DEF Rest
  <2>5. PICK a : a = e[Len(e) - 1]
    OBVIOUS
  <2>6. Previous(e, k) = a /\ Following(e, k) = q.head
    BY <1>1, <1>7, <2>1, <2>5 DEF Previous, Following
  <2>7. PICK r : r = RemoveTail(q)
    OBVIOUS
  <2>8. r = [q EXCEPT !.tail = a, !.next[a] = q.head, !.prev[q.head] = a, !.curr = q.head]
    BY <2>2, <2>5, <2>7 DEF RemoveTail
  <2>9. /\ r = [head |-> r.head, tail |-> r.tail, curr |-> r.curr, size |-> r.size,
                next |-> r.next, prev |-> r.prev]
        /\ r.next = [q.next EXCEPT ![a] = q.head]
        /\ r.prev = [q.prev EXCEPT ![q.head] = a]
        /\ r.head = q.head /\ r.tail = a /\ r.curr = q.head /\ r.size = q.size
    BY <1>1, <2>8 DEF Queue
  <2> QED BY <1>1, <1>7, <2>1, <2>4, <2>5, <2>6, <2>7, <2>9 DEF Unlinked
<1>8. CASE k # 1 /\ k # Len(e)
  <2>1. k \in 1 .. Len(e) - 1 /\ k - 1 \in 1 .. Len(e) - 1 /\ (k - 1) + 1 = k
    BY <1>5, <1>8
  <2>2. q.curr # q.head /\ q.curr # q.tail
    BY <1>1, <1>2, <1>5, <1>8
  <2>3. Rest(q) = RemoveOther(q)
    BY <2>2 DEF Rest
  <2>4. PICK a : a = e[k - 1]
    OBVIOUS
  <2>5. PICK b : b = e[k + 1]
    OBVIOUS
  <2>6. q.prev[q.curr] = a /\ q.next[q.curr] = b
    BY <1>4, <2>1, <2>4, <2>5
  <2>7. Previous(e, k) = a /\ Following(e, k) = b
    BY <1>8, <2>4, <2>5 DEF Previous, Following
  <2>8. PICK r : r = RemoveOther(q)
    OBVIOUS
  <2>9. r = [q EXCEPT !.next[a] = b, !.prev[b] = a, !.curr = b]
    BY <2>6, <2>8 DEF RemoveOther
  <2>10. /\ r = [head |-> r.head, tail |-> r.tail, curr |-> r.curr, size |-> r.size,
                 next |-> r.next, prev |-> r.prev]
         /\ r.next = [q.next EXCEPT ![a] = b]
         /\ r.prev = [q.prev EXCEPT ![b] = a]
         /\ r.head = q.head /\ r.tail = q.tail /\ r.curr = b /\ r.size = q.size
    BY <1>1, <2>9 DEF Queue
  <2> QED BY <1>1, <1>8, <2>3, <2>7, <2>8, <2>10 DEF Unlinked
<1> QED BY <1>6, <1>7, <1>8

LEMMA PeekChain ==
  ASSUME NEW q, NEW e, Chain(q, e), q.size # 0
  PROVE  /\ Chain(peek_disk_queue(q), e) /\ peek_disk_queue(q).size = q.size
         /\ peek_disk_queue(q).curr \in Proc /\ In(e, peek_disk_queue(q).curr)
<1>1. /\ q \in Queue /\ q.size \in Nat /\ Len(e) = q.size /\ e \in Seq(Proc)
      /\ q.head = e[1] /\ (q.curr = NULL \/ In(e, q.curr))
  BY ChainParts
<1>2. 1 \in 1 .. Len(e) /\ e[1] \in Proc
  BY <1>1
<1>3. CASE q.curr = NULL
  <2>1. PICK r : r = [q EXCEPT !.curr = q.head]
    OBVIOUS
  <2>2. r \in Queue /\ r.curr = e[1]
    BY <1>1, <1>2, <2>1 DEF Queue, Pointer
  <2>3. r.head = q.head /\ r.tail = q.tail /\ r.next = q.next /\ r.prev = q.prev /\ r.size = q.size
    BY <1>1, <2>1 DEF Queue
  <2>4. \E i \in 1 .. r.size : e[i] = r.curr
    BY <1>1, <1>2, <2>2, <2>3
  <2>5. Chain(r, e)
    BY <1>1, <2>2, <2>3, <2>4 DEF Chain
  <2>6. In(e, e[1])
    BY <1>2 DEF In
  <2> QED BY <1>2, <1>3, <2>1, <2>2, <2>3, <2>5, <2>6 DEF peek_disk_queue
<1>4. CASE q.curr # NULL
  <2>1. In(e, q.curr)
    BY <1>1, <1>4
  <2>2. q.curr \in Proc
    BY <1>1, <2>1 DEF In
  <2> QED BY <1>4, <2>1, <2>2 DEF peek_disk_queue
<1> QED BY <1>3, <1>4

\* c leaves, and curr goes on to its successor.
TakenOut(e, f, c, curr) ==
  \E k \in 1 .. Len(e) :
    /\ e[k] = c /\ f = Removed(e, k)
    /\ curr = IF Len(e) = 1 THEN NULL ELSE Following(e, k)

LEMMA RemoveChain ==
  ASSUME NEW q, NEW e, Chain(q, e), q.size # 0, NEW t, Increasing(e, t),
         NEW c, c = peek_disk_queue(q).curr
  PROVE  \E f : /\ Chain(remove_disk_queue(q), f) /\ Increasing(f, t)
                /\ TakenOut(e, f, c, remove_disk_queue(q).curr)
                /\ \A x : In(f, x) <=> In(e, x) /\ x # c
<1>1. PICK p : p = peek_disk_queue(q)
  OBVIOUS
<1>2. Chain(p, e) /\ p.size = q.size /\ In(e, p.curr) /\ p.curr = c
  BY <1>1, PeekChain
<1>3. /\ p \in Queue /\ p.next \in [Proc -> Pointer] /\ p.prev \in [Proc -> Pointer]
      /\ p.size \in Nat \ {0} /\ Len(e) = p.size /\ e \in Seq(Proc) /\ Distinct(e)
      /\ Linked(p.next, p.prev, e, Len(e)) /\ Closed(p.next, p.prev, e)
  BY <1>2, ChainParts
<1>4. PICK k \in 1 .. Len(e) : e[k] = p.curr
  BY <1>2 DEF In
<1>5. remove_disk_queue(q) = [Rest(p) EXCEPT !.size = @ - 1]
  BY <1>1 DEF remove_disk_queue, Rest
<1>6. PICK r : r = remove_disk_queue(q)
  OBVIOUS
<1>7. PICK f : f = Removed(e, k)
  OBVIOUS
<1>8. /\ f \in Seq(Proc) /\ Len(f) = Len(e) - 1
      /\ \A i \in 1 .. k - 1 : f[i] = e[i]
      /\ \A i \in k .. Len(e) - 1 : f[i] = e[i + 1]
  BY <1>3, <1>7, RemovedIs
<1>9. Distinct(f) /\ \A x : In(f, x) <=> In(e, x) /\ x # c
  BY <1>2, <1>3, <1>4, <1>7, RemovedDistinct
<1>10. Increasing(f, t)
  BY <1>3, <1>7, RemovedIncreasing
<1>11. CASE p.size = 1
  <2>1. PICK u : u = [p EXCEPT !.head = NULL, !.tail = NULL, !.curr = NULL]
    OBVIOUS
  <2>2. Rest(p) = u
    BY <1>11, <2>1 DEF Rest
  <2>3. u \in Queue /\ u.head = NULL /\ u.tail = NULL /\ u.curr = NULL /\ u.size = 1
    BY <1>3, <1>11, <2>1 DEF Queue, Pointer
  <2>4. r = [u EXCEPT !.size = 0]
    BY <1>5, <1>6, <2>2, <2>3
  <2>5. r \in Queue /\ r.head = NULL /\ r.tail = NULL /\ r.curr = NULL /\ r.size = 0
    BY <2>3, <2>4 DEF Queue
  <2>6. f \in Seq(Proc) /\ Len(f) = 0
    BY <1>3, <1>8, <1>11
  <2>7. Chain(r, f)
    BY <2>5, <2>6 DEF Chain
  <2>8. TakenOut(e, f, c, r.curr)
    BY <1>2, <1>3, <1>4, <1>7, <1>11, <2>5 DEF TakenOut
  <2> QED BY <1>6, <1>9, <1>10, <2>7, <2>8
<1>12. CASE p.size # 1
  <2>0. p.size > 1 /\ Len(e) > 1 /\ Len(e) \in Nat
    BY <1>3, <1>12
  <2>1. PICK u : u = Rest(p)
    OBVIOUS
  <2>2. Unlinked(u, p, e, k)
    BY <1>2, <1>4, <2>0, <2>1, RestUnlinked
  <2>3. PICK a : a = Previous(e, k)
    OBVIOUS
  <2>4. PICK b : b = Following(e, k)
    OBVIOUS
  <2>5. /\ u = [head |-> u.head, tail |-> u.tail, curr |-> u.curr, size |-> u.size,
                next |-> u.next, prev |-> u.prev]
        /\ u.next = [p.next EXCEPT ![a] = b] /\ u.prev = [p.prev EXCEPT ![b] = a]
        /\ u.head = (IF k = 1 THEN e[2] ELSE e[1])
        /\ u.tail = (IF k = Len(e) THEN e[Len(e) - 1] ELSE e[Len(e)])
        /\ u.curr = b /\ u.size = p.size
    BY <2>2, <2>3, <2>4 DEF Unlinked
  <2>6. /\ u.next \in [Proc -> Pointer] /\ u.prev \in [Proc -> Pointer]
        /\ Linked(u.next, u.prev, f, Len(f))
        /\ u.next[f[Len(f)]] = f[1] /\ u.prev[f[1]] = f[Len(f)]
    <3>1. u.next = Linking(p.next, a, b) /\ u.prev = Linking(p.prev, b, a)
      BY <2>5 DEF Linking
    <3> QED BY <1>3, <1>7, <2>0, <2>3, <2>4, <3>1, UnlinkLinks, SMTT(30)
  <2>7. r = [u EXCEPT !.size = p.size - 1]
    BY <1>5, <1>6, <2>1, <2>5
  <2>8. /\ r.head = u.head /\ r.tail = u.tail /\ r.curr = b /\ r.size = p.size - 1
        /\ r.next = u.next /\ r.prev = u.prev
        /\ r = [head |-> r.head, tail |-> r.tail, curr |-> r.curr, size |-> r.size,
                next |-> r.next, prev |-> r.prev]
    BY <2>5, <2>7
  <2>9. r.size = Len(f) /\ r.size # 0 /\ r.size \in Nat
    BY <1>3, <1>8, <2>0, <2>8
  <2>10. r.head = f[1]
    <3>1. CASE k = 1
      <4>1. 1 \in k .. Len(e) - 1
        BY <2>0, <3>1
      <4>2. f[1] = e[1 + 1]
        BY <1>8, <4>1
      <4> QED BY <2>5, <2>8, <3>1, <4>2
    <3>2. CASE k # 1
      <4>1. 1 \in 1 .. k - 1
        BY <3>2
      <4>2. f[1] = e[1]
        BY <1>8, <4>1
      <4> QED BY <2>5, <2>8, <3>2, <4>2
    <3> QED BY <3>1, <3>2
  <2>11. r.tail = f[Len(f)]
    <3>1. CASE k = Len(e)
      <4>1. Len(f) \in 1 .. k - 1 /\ Len(f) = Len(e) - 1
        BY <1>8, <2>0, <3>1
      <4>2. f[Len(f)] = e[Len(e) - 1]
        BY <1>8, <4>1
      <4> QED BY <2>5, <2>8, <3>1, <4>2
    <3>2. CASE k # Len(e)
      <4>1. Len(f) \in k .. Len(e) - 1 /\ Len(f) + 1 = Len(e)
        BY <1>8, <2>0, <3>2
      <4>2. f[Len(f)] = e[Len(e)]
        BY <1>8, <4>1
      <4> QED BY <2>5, <2>8, <3>2, <4>2
    <3> QED BY <3>1, <3>2
  <2>12. In(f, b)
    <3>1. CASE k = Len(e)
      <4>1. 1 \in 1 .. k - 1 /\ 1 \in 1 .. Len(f)
        BY <1>8, <2>0, <3>1
      <4>2. f[1] = b
        BY <1>8, <2>4, <3>1, <4>1 DEF Following
      <4> QED BY <4>1, <4>2 DEF In
    <3>2. CASE k # Len(e)
      <4>1. k \in k .. Len(e) - 1 /\ k \in 1 .. Len(f)
        BY <1>8, <2>0, <3>2
      <4>2. f[k] = b
        BY <1>8, <2>4, <3>2, <4>1 DEF Following
      <4> QED BY <4>1, <4>2 DEF In
    <3> QED BY <3>1, <3>2
  <2>13. \E i \in 1 .. r.size : f[i] = r.curr
    BY <2>8, <2>9, <2>12 DEF In
  <2>14. \A i \in 1 .. Len(f) : f[i] \in Proc /\ f[i] \in Pointer
    BY <1>8 DEF Pointer
  <2>15. r \in Queue
    <3>1. r.head \in Pointer /\ r.tail \in Pointer
      <4>1. 1 \in 1 .. Len(f) /\ Len(f) \in 1 .. Len(f)
        BY <2>9
      <4> QED BY <2>10, <2>11, <2>14, <4>1
    <3>2. r.curr \in Pointer
      BY <2>9, <2>13, <2>14
    <3> QED BY <2>6, <2>8, <2>9, <3>1, <3>2 DEF Queue
  <2>16. \A i, j \in 1 .. r.size : f[i] = f[j] => i = j
    BY <1>9, <2>9 DEF Distinct
  <2>17. \A i \in 1 .. r.size - 1 : r.next[f[i]] = f[i + 1] /\ r.prev[f[i + 1]] = f[i]
    BY <2>6, <2>8, <2>9 DEF Linked
  <2>18. r.next[f[r.size]] = f[1] /\ r.prev[f[1]] = f[r.size]
    BY <2>6, <2>8, <2>9
  <2>19. Chain(r, f)
    BY <1>8, <2>9, <2>10, <2>11, <2>13, <2>15, <2>16, <2>17, <2>18 DEF Chain
  <2>20. TakenOut(e, f, c, r.curr)
    <3>1. k \in 1 .. Len(e) /\ e[k] = c /\ f = Removed(e, k)
      BY <1>2, <1>4, <1>7
    <3>2. r.curr = IF Len(e) = 1 THEN NULL ELSE Following(e, k)
      <4>1. Len(e) # 1
        BY ONLY <1>3, <1>12, Zenon
      <4>2. r.curr = Following(e, k)
        BY ONLY <2>4, <2>8, Zenon
      <4> QED BY ONLY <4>1, <4>2, Zenon
    <3> QED BY ONLY <3>1, <3>2, Zenon DEF TakenOut
  <2> QED BY <1>6, <1>9, <1>10, <2>19, <2>20
<1> QED BY <1>11, <1>12

-----------------------------------------------------------------------------
\* The queue holds the processes of w in the order of their tracks.
Listed(q, t, w) ==
  \E e : Chain(q, e) /\ Increasing(e, t) /\ \A p : In(e, p) <=> p \in w

LEMMA AddListed ==
  ASSUME NEW q, NEW t \in [Proc -> Int], NEW w, Listed(q, t, w),
         NEW p \in Proc, p \notin w, NEW v \in Int, NEW u, u = [t EXCEPT ![p] = v]
  PROVE  Listed(add_disk_queue(q, u, p), u, w \union {p})
<1>1. PICK e : Chain(q, e) /\ Increasing(e, t) /\ \A x : In(e, x) <=> x \in w
  BY DEF Listed
<1>2. e \in Seq(Proc) /\ ~In(e, p)
  BY <1>1, ChainParts
<1>3. u \in [Proc -> Int] /\ \A x \in Proc : x # p => u[x] = t[x]
  OBVIOUS
<1>4. \A i \in 1 .. Len(e) : e[i] \in Proc /\ e[i] # p
  BY <1>2 DEF In
<1>5. Increasing(e, u)
  <2> SUFFICES ASSUME NEW i \in 1 .. Len(e), NEW j \in 1 .. Len(e), i < j
               PROVE  u[e[i]] <= u[e[j]]
    BY DEF Increasing
  <2>1. t[e[i]] <= t[e[j]]
    BY <1>1 DEF Increasing
  <2> QED BY <1>3, <1>4, <2>1
<1>6. PICK f : /\ Chain(add_disk_queue(q, u, p), f) /\ Increasing(f, u)
               /\ \A x : In(f, x) <=> In(e, x) \/ x = p
  <2>1. Chain(q, e) /\ u \in [Proc -> Int]
    BY <1>1, <1>3
  <2> QED BY ONLY <1>2, <1>5, <2>1, p \in Proc, AddChain, SMTT(30)
<1>7. \A x : In(f, x) <=> x \in w \union {p}
  BY <1>1, <1>6
<1> QED BY <1>6, <1>7 DEF Listed

LEMMA RemoveListed ==
  ASSUME NEW q, NEW t, NEW w, Listed(q, t, w), q.size # 0,
         NEW c, c = peek_disk_queue(q).curr
  PROVE  c \in w /\ c \in Proc /\ Listed(remove_disk_queue(q), t, w \ {c})
<1>1. PICK e : Chain(q, e) /\ Increasing(e, t) /\ \A x : In(e, x) <=> x \in w
  BY DEF Listed
<1>2. c \in Proc /\ In(e, c)
  BY <1>1, PeekChain
<1>3. PICK f : /\ Chain(remove_disk_queue(q), f) /\ Increasing(f, t)
               /\ \A x : In(f, x) <=> In(e, x) /\ x # c
  BY <1>1, RemoveChain
<1>4. \A x : In(f, x) <=> x \in w \ {c}
  BY <1>1, <1>3
<1> QED BY <1>1, <1>2, <1>3, <1>4 DEF Listed

LEMMA PeekListed ==
  ASSUME NEW q, NEW t, NEW w, Listed(q, t, w), q.size # 0
  PROVE  /\ Listed(peek_disk_queue(q), t, w) /\ peek_disk_queue(q).size = q.size
         /\ peek_disk_queue(q).curr \in w
<1>1. PICK e : Chain(q, e) /\ Increasing(e, t) /\ \A x : In(e, x) <=> x \in w
  BY DEF Listed
<1>2. /\ Chain(peek_disk_queue(q), e) /\ peek_disk_queue(q).size = q.size
      /\ In(e, peek_disk_queue(q).curr)
  BY <1>1, PeekChain
<1> QED BY <1>1, <1>2 DEF Listed

LEMMA PeekOnce ==
  ASSUME NEW q, q.curr # NULL
  PROVE  peek_disk_queue(q) = q
BY DEF peek_disk_queue

LEMMA AddCurr ==
  ASSUME NEW q \in Queue, NEW t, NEW p
  PROVE  add_disk_queue(q, t, p).curr = q.curr
<1>1. CASE q.head = NULL
  BY <1>1 DEF add_disk_queue, Queue
<1>2. CASE q.head # NULL
  <2>1. Insert(q, t, p).curr = q.curr
    BY DEF Insert, Queue
  <2> QED BY <1>2, <2>1 DEF add_disk_queue
<1> QED BY <1>1, <1>2

LEMMA ListedQueue ==
  ASSUME NEW q, NEW t, NEW w, Listed(q, t, w)
  PROVE  q \in Queue /\ q.curr \in Pointer
BY ChainParts DEF Listed, Queue

LEMMA EmptyListed ==
  ASSUME NEW t
  PROVE  Listed(EmptyQueue, t, {})
<1>1. PICK e : e = <<>>
  OBVIOUS
<1>2. e \in Seq(Proc) /\ Len(e) = 0
  BY <1>1
<1>3. PICK q : q = EmptyQueue
  OBVIOUS
<1>4. q \in Queue /\ q.size = 0 /\ q.head = NULL /\ q.tail = NULL /\ q.curr = NULL
  BY <1>3 DEF EmptyQueue, Queue, Pointer
<1>5. Chain(q, e)
  BY <1>2, <1>4 DEF Chain
<1>6. Increasing(e, t) /\ \A p : ~In(e, p)
  BY <1>2 DEF Increasing, In
<1> QED BY <1>3, <1>5, <1>6 DEF Listed

-----------------------------------------------------------------------------
\* The processes that wait for the disk.
Waiting == {p \in Proc : pc[p] = "blocked" /\ procSem[p] = 0}

Types ==
  /\ disk_track \in [Proc -> Int] /\ disk_first_sec \in [Proc -> Int]
  /\ disk_sectors \in [Proc -> Int] /\ opr \in [Proc -> {"TRACKS", "RW"}]
  /\ tracks \in {-1, NTracks} /\ track \in Int /\ s \in Int
  /\ asked \in [Proc -> [track : Int, first : Int, sectors : Nat]]
  /\ moved \in Seq(Int)

\* A process is woken only out of its wait, and only once.
Control ==
  /\ pc \in [Proc -> {"start", "run", "blocked"}] /\ procSem \in [Proc -> {0, 1}]
  /\ \A p \in Proc : procSem[p] = 1 => pc[p] = "blocked"

\* There are no users before start3 has its answer, and start3 asks for nothing
\* but the size.
Startup ==
  /\ tracks = -1 => procSem[start3] = 0
  /\ tracks = -1 \/ pc[start3] = "blocked" => \A p \in User : pc[p] = "start"
  /\ pc[start3] = "blocked" => opr[start3] = "TRACKS"

Links == Listed(queue, disk_track, Waiting)

\* The process that is being served stays in the queue, and the driver does what
\* it asked for.
Serving ==
  driver \in {"tracks", "seek", "transfer"} =>
    queue.curr \in Waiting /\ (opr[queue.curr] = "TRACKS" <=> driver = "tracks")

RInv == IInv /\ Types /\ Control /\ Startup /\ Links /\ Serving

LEMMA EnqueueLinks ==
  ASSUME RInv, NEW p \in Proc, pc[p] = "run", NEW v \in Int, Enqueue(p, v),
         UNCHANGED procSem
  PROVE  /\ Links' /\ Waiting' = Waiting \union {p} /\ queue'.curr = queue.curr
         /\ Control' /\ disk_track' \in [Proc -> Int]
<1>1. /\ disk_track' = [disk_track EXCEPT ![p] = v]
      /\ queue' = add_disk_queue(queue, disk_track', p)
      /\ pc' = [pc EXCEPT ![p] = "blocked"]
  BY DEF Enqueue
<1>2. disk_track \in [Proc -> Int] /\ Listed(queue, disk_track, Waiting) /\ Control
  BY DEF RInv, Types, Links
<1>3. p \notin Waiting /\ procSem[p] = 0
  BY <1>2 DEF Control, Waiting
<1>4. Waiting' = Waiting \union {p}
  BY <1>1, <1>2, <1>3 DEF Control, Waiting
<1>5. Listed(queue', disk_track', Waiting \union {p})
  BY <1>1, <1>2, <1>3, AddListed
<1>6. queue'.curr = queue.curr
  BY <1>1, <1>2, ListedQueue, AddCurr
<1>7. Control'
  BY <1>1, <1>2 DEF Control
<1> QED BY <1>1, <1>2, <1>4, <1>5, <1>6, <1>7 DEF Links

LEMMA FinishLinks ==
  ASSUME Control, NEW q, Listed(q, disk_track, Waiting), q.size # 0, Finish(q),
         UNCHANGED <<pc, disk_track>>,
         NEW c, c = peek_disk_queue(q).curr
  PROVE  /\ c \in Waiting /\ procSem' = [procSem EXCEPT ![c] = 1]
         /\ Links' /\ Waiting' = Waiting \ {c} /\ Control'
<1>1. /\ queue' = remove_disk_queue(q)
      /\ procSem' = [procSem EXCEPT ![c] = @ + 1]
  BY DEF Finish
<1>2. c \in Waiting /\ c \in Proc /\ Listed(remove_disk_queue(q), disk_track, Waiting \ {c})
  BY RemoveListed
<1>3. procSem' = [procSem EXCEPT ![c] = 1]
  <2>1. procSem[c] = 0
    BY <1>2 DEF Waiting
  <2>2. procSem[c] + 1 = 1
    BY <2>1
  <2> QED BY <1>1, <2>2
<1>4. Waiting' = Waiting \ {c}
  BY <1>2, <1>3 DEF Waiting, Control
<1>5. Control'
  BY <1>2, <1>3 DEF Control, Waiting
<1> QED BY <1>1, <1>2, <1>3, <1>4, <1>5 DEF Links

LEMMA InitRInv == Init => RInv
<1> SUFFICES ASSUME Init PROVE RInv
  OBVIOUS
<1>1. IInv
  BY InitIInv
<1>2. Types /\ Startup /\ Serving
  BY DiskDriverAssumption DEF Init, Types, Startup, Serving, User
<1>3. Control
  BY DEF Init, Control
<1>4. Waiting = {}
  BY DEF Init, Waiting
<1>5. Links
  BY <1>4, EmptyListed DEF Links, Init
<1> QED BY <1>1, <1>2, <1>3, <1>5 DEF RInv

LEMMA ReadWriteRInv ==
  ASSUME RInv, IInv', NEW p \in User, NEW r \in Requests, disk_read_or_write_real(p, r)
  PROVE  RInv'
<1>1. p \in Proc /\ pc[p] = "run" /\ Enqueue(p, r.track) /\ UNCHANGED procSem
      /\ r \in [track : Int, first : Int, sectors : Nat]
  BY DiskDriverAssumption DEF disk_read_or_write_real, Runs, User
<1>2. r.track \in Int /\ r.first \in Int /\ r.sectors \in Int
  BY <1>1
<1>3. /\ Links' /\ Waiting' = Waiting \union {p} /\ queue'.curr = queue.curr
      /\ Control' /\ disk_track' \in [Proc -> Int]
  BY <1>1, <1>2, EnqueueLinks
<1>4. /\ opr' = [opr EXCEPT ![p] = "RW"]
      /\ disk_first_sec' = [disk_first_sec EXCEPT ![p] = r.first]
      /\ disk_sectors' = [disk_sectors EXCEPT ![p] = r.sectors]
      /\ asked' = [asked EXCEPT ![p] = r]
      /\ pc' = [pc EXCEPT ![p] = "blocked"]
      /\ UNCHANGED <<tracks, driver, track, s, procSem, moved>>
  BY DEF disk_read_or_write_real, driverVars, Enqueue
<1>5. Types'
  BY <1>1, <1>2, <1>3, <1>4 DEF RInv, Types
<1>6. p # start3 /\ start3 \in Proc
  BY DiskDriverAssumption DEF User
<1>7. Startup'
  BY <1>1, <1>4, <1>6 DEF RInv, Startup, Types, Control
<1>8. Serving'
  <2>1. p \notin Waiting
    BY <1>1 DEF Waiting
  <2> QED BY <1>3, <1>4, <2>1 DEF RInv, Serving, Types, Waiting
<1> QED BY <1>3, <1>5, <1>7, <1>8 DEF RInv

LEMMA SizeRInv ==
  ASSUME RInv, IInv', disk_size_real(start3)
  PROVE  RInv'
<1>1. start3 \in Proc /\ pc[start3] = "run" /\ Enqueue(start3, 0) /\ UNCHANGED procSem
  BY DiskDriverAssumption DEF disk_size_real, Runs
<1>2. /\ Links' /\ Waiting' = Waiting \union {start3} /\ queue'.curr = queue.curr
      /\ Control' /\ disk_track' \in [Proc -> Int]
  BY <1>1, EnqueueLinks
<1>3. /\ opr' = [opr EXCEPT ![start3] = "TRACKS"] /\ tracks = -1
      /\ pc' = [pc EXCEPT ![start3] = "blocked"]
      /\ UNCHANGED <<disk_first_sec, disk_sectors, tracks, driver, track, s, procSem, asked, moved>>
  BY DEF disk_size_real, driverVars, Enqueue
<1>4. Types'
  BY <1>1, <1>2, <1>3 DEF RInv, Types
<1>5. Startup'
  BY <1>1, <1>3 DEF RInv, Startup, Types, Control, User
<1>6. Serving'
  <2>1. start3 \notin Waiting
    BY <1>1 DEF Waiting
  <2> QED BY <1>2, <1>3, <2>1 DEF RInv, Serving, Types, Waiting
<1> QED BY <1>2, <1>4, <1>5, <1>6 DEF RInv

LEMMA ReturnRInv ==
  ASSUME RInv, IInv', NEW p \in Proc, Return(p)
  PROVE  RInv'
<1>1. /\ pc[p] = "blocked" /\ procSem[p] > 0
      /\ procSem' = [procSem EXCEPT ![p] = @ - 1]
      /\ pc' = IF p = start3 THEN [q \in Proc |-> "run"] ELSE [pc EXCEPT ![p] = "run"]
      /\ UNCHANGED <<queue, disk_track, disk_first_sec, disk_sectors, opr, tracks, driver, track, s,
                     asked, moved>>
  BY DEF Return, procVars, driverVars
<1>2. Control /\ Startup /\ start3 \in Proc
  BY DiskDriverAssumption DEF RInv
<1>3. procSem[p] = 1 /\ procSem' = [procSem EXCEPT ![p] = 0]
  <2>1. procSem[p] = 1
    BY <1>1, <1>2 DEF Control
  <2>2. procSem[p] - 1 = 0
    BY <2>1
  <2> QED BY <1>1, <2>1, <2>2
<1>4. p = start3 => \A q \in Proc : q # p => pc[q] = "start" /\ procSem[q] = 0
  BY <1>1, <1>2 DEF Control, Startup, User
<1>5. Control'
  BY <1>1, <1>2, <1>3, <1>4 DEF Control
<1>6. Waiting' = Waiting
  <2>1. CASE p = start3
    BY <1>1, <1>2, <1>3, <1>4, <2>1 DEF Waiting, Control
  <2>2. CASE p # start3
    BY <1>1, <1>2, <1>3, <2>2 DEF Waiting, Control
  <2> QED BY <2>1, <2>2
<1>7. Links'
  BY <1>1, <1>6 DEF RInv, Links
<1>8. Types'
  BY <1>1 DEF RInv, Types
<1>9. Serving'
  BY <1>1, <1>6 DEF RInv, Serving
<1>10. Startup'
  <2>1. CASE p = start3
    <3>1. tracks # -1
      BY <1>2, <1>3, <2>1 DEF Startup
    <3> QED BY <1>1, <1>2, <2>1, <3>1 DEF Startup
  <2>2. CASE p # start3
    <3>1. p \in User /\ pc[p] # "start"
      BY <1>1, <2>2 DEF User
    <3> QED BY <1>1, <1>2, <1>3, <2>2, <3>1 DEF Startup, Control
  <2> QED BY <2>1, <2>2
<1> QED BY <1>5, <1>7, <1>8, <1>9, <1>10 DEF RInv

\* The driver finishes a read or write, or the size request, whose answer is
\* known from then on.
LEMMA FinishRInv ==
  ASSUME RInv, IInv', NEW q, Listed(q, disk_track, Waiting), q.size # 0, Finish(q), Types',
         UNCHANGED <<pc, disk_track, opr>>,
         NEW c, c = peek_disk_queue(q).curr,
         tracks' = NTracks \/ (UNCHANGED tracks /\ opr[c] = "RW")
  PROVE  RInv'
<1>1. /\ c \in Waiting /\ procSem' = [procSem EXCEPT ![c] = 1]
      /\ Links' /\ Waiting' = Waiting \ {c} /\ Control'
  BY FinishLinks DEF RInv
<1>2. driver' = "semp"
  BY DEF Finish
<1>3. Serving'
  BY <1>2 DEF Serving
<1>4. Startup'
  <2>1. CASE tracks' = NTracks
    <3>1. NTracks # -1
      BY DiskDriverAssumption
    <3> QED BY <2>1, <3>1 DEF RInv, Startup
  <2>2. CASE UNCHANGED tracks /\ opr[c] = "RW"
    <3>1. c # start3
      BY <1>1, <2>2 DEF RInv, Startup, Waiting
    <3> QED BY <1>1, <2>2, <3>1, DiskDriverAssumption DEF RInv, Startup, Control
  <2> QED BY <2>1, <2>2
<1> QED BY <1>1, <1>3, <1>4 DEF RInv

LEMMA WakeRInv ==
  ASSUME RInv, IInv', Wake
  PROVE  RInv'
<1>1. /\ driver = "semp" /\ driverSem > 0 /\ zapped = FALSE
      /\ UNCHANGED <<disk_track, disk_first_sec, disk_sectors, opr, tracks, s, pc, asked>>
  BY DEF Wake, DriverReady, RInv, IInv, Counts, procVars
<1>2. queue.size > 0
  BY <1>1 DEF RInv, IInv, Counts, RequestsCounted, Sized
<1>3. PICK q : q = peek_disk_queue(queue)
  OBVIOUS
<1>4. Begin(q)
  BY <1>1, <1>2, <1>3 DEF Wake
<1>5. Listed(q, disk_track, Waiting) /\ q.size # 0 /\ q.curr \in Waiting
  BY <1>2, <1>3, PeekListed DEF RInv, Links
<1>6. q.curr \in Proc /\ q.curr # NULL
  BY <1>5, DiskQueueAssumption DEF Waiting
<1>7. moved' = <<>> /\ track' = disk_track[q.curr]
  BY <1>4 DEF Begin, Seek
<1>8. Types'
  BY <1>1, <1>6, <1>7 DEF RInv, Types
<1>9. CASE Finish(q) /\ opr[q.curr] = "RW"
  <2>1. q.curr = peek_disk_queue(q).curr
    BY <1>6, PeekOnce
  <2> QED BY <1>1, <1>5, <1>8, <1>9, <2>1, FinishRInv
<1>10. CASE /\ queue' = q /\ UNCHANGED procSem
            /\ driver' = (IF opr[q.curr] = "TRACKS" THEN "tracks" ELSE "seek")
  <2>1. Waiting' = Waiting
    BY <1>1, <1>10 DEF Waiting
  <2>2. Links'
    BY <1>1, <1>5, <1>10, <2>1 DEF Links
  <2>3. Serving'
    BY <1>1, <1>5, <1>6, <1>10, <2>1 DEF Serving
  <2>4. Control' /\ Startup'
    BY <1>1, <1>10 DEF RInv, Control, Startup
  <2> QED BY <1>8, <2>2, <2>3, <2>4 DEF RInv
<1>11. opr[q.curr] \in {"TRACKS", "RW"}
  BY <1>6 DEF RInv, Types
<1> QED BY <1>4, <1>9, <1>10, <1>11 DEF Begin, Seek

LEMMA TracksKnownRInv ==
  ASSUME RInv, IInv', TracksKnown
  PROVE  RInv'
<1>1. /\ driver = "tracks" /\ tracks' = NTracks /\ Finish(queue)
      /\ UNCHANGED <<disk_track, disk_first_sec, disk_sectors, opr, track, s, pc, asked, moved>>
  BY DEF TracksKnown, Interrupted, procVars
<1>2. queue.size # 0
  BY <1>1 DEF RInv, IInv, Counts, RequestsCounted, Sized
<1>3. Types'
  BY <1>1 DEF RInv, Types
<1> QED BY <1>1, <1>2, <1>3, FinishRInv DEF RInv, Links

\* The driver stays at its request.
LEMMA GoOnRInv ==
  ASSUME RInv, IInv', driver \in {"seek", "transfer"}, driver' \in {"seek", "transfer"}, Types',
         UNCHANGED <<queue, disk_track, opr, tracks, procSem, pc>>
  PROVE  RInv'
<1>1. Waiting' = Waiting
  BY DEF Waiting
<1>2. Links' /\ Serving' /\ Control' /\ Startup'
  BY <1>1 DEF RInv, Links, Serving, Control, Startup
<1> QED BY <1>2 DEF RInv

LEMMA SeekDoneRInv ==
  ASSUME RInv, IInv', SeekDone
  PROVE  RInv'
<1>1. PICK p : p = queue.curr
  OBVIOUS
<1>2. /\ driver = "seek"
      /\ UNCHANGED <<disk_track, disk_sectors, opr, tracks, driverSem, pc, zapped, asked>>
  BY DEF SeekDone, Interrupted
<1>3. p \in Proc /\ disk_first_sec[p] \in Int
  BY <1>1, <1>2 DEF RInv, Serving, Waiting, Types
<1>4. CASE Transfer(disk_first_sec[p])
  <2>1. track * DISK_TRACK_SIZE + disk_first_sec[p] \in Int
    BY <1>3, DiskDriverAssumption DEF RInv, Types
  <2>2. moved' \in Seq(Int)
    BY <1>4, <2>1 DEF Transfer, RInv, Types
  <2>3. Types'
    BY <1>2, <1>3, <1>4, <2>2 DEF Transfer, RInv, Types
  <2> QED BY <1>2, <1>4, <2>3, GoOnRInv DEF Transfer
<1>5. CASE NextTrack(p) /\ s' = disk_first_sec[p] /\ UNCHANGED <<queue, procSem, moved>>
  <2>1. Types'
    BY <1>2, <1>3, <1>5 DEF NextTrack, Seek, RInv, Types
  <2> QED BY <1>2, <1>5, <2>1, GoOnRInv DEF NextTrack, Seek
<1> QED BY <1>1, <1>4, <1>5 DEF SeekDone

LEMMA SectorDoneRInv ==
  ASSUME RInv, IInv', SectorDone
  PROVE  RInv'
<1>1. PICK p : p = queue.curr
  OBVIOUS
<1>2. /\ driver = "transfer" /\ disk_sectors' = [disk_sectors EXCEPT ![p] = @ - 1]
      /\ UNCHANGED <<disk_track, opr, tracks, driverSem, pc, zapped, asked>>
  BY <1>1 DEF SectorDone, Interrupted
<1>3. p \in Waiting /\ p \in Proc /\ p # NULL /\ opr[p] = "RW" /\ track \in Int /\ s \in Int
  BY <1>1, <1>2, DiskQueueAssumption DEF RInv, Serving, Waiting, Types
<1>4. disk_sectors' \in [Proc -> Int]
  BY <1>2, <1>3 DEF RInv, Types
<1>5. CASE /\ Finish(queue) /\ track' = track + 1 /\ s' = s + 1
           /\ disk_first_sec' = [disk_first_sec EXCEPT ![p] = 0] /\ UNCHANGED moved
  <2>1. Types'
    BY <1>2, <1>3, <1>4, <1>5 DEF RInv, Types
  <2>2. queue.size # 0
    BY <1>2 DEF RInv, IInv, Counts, RequestsCounted, Sized
  <2>3. p = peek_disk_queue(queue).curr
    BY <1>1, <1>3, PeekOnce
  <2>4. Listed(queue, disk_track, Waiting)
    BY DEF RInv, Links
  <2> QED BY <1>2, <1>3, <1>5, <2>1, <2>2, <2>3, <2>4, FinishRInv
<1>6. CASE Transfer(s + 1)
  <2>1. track * DISK_TRACK_SIZE + (s + 1) \in Int
    BY <1>3, DiskDriverAssumption
  <2>2. moved' \in Seq(Int)
    BY <1>6, <2>1 DEF Transfer, RInv, Types
  <2>3. Types'
    BY <1>2, <1>3, <1>4, <1>6, <2>2, SMTT(30) DEF Transfer, RInv, Types
  <2> QED BY <1>2, <1>6, <2>3, GoOnRInv DEF Transfer
<1>7. CASE NextTrack(p) /\ s' = s + 1 /\ UNCHANGED <<queue, procSem, moved>>
  <2>1. Types'
    BY <1>2, <1>3, <1>4, <1>7 DEF NextTrack, Seek, RInv, Types
  <2> QED BY <1>2, <1>7, <2>1, GoOnRInv DEF NextTrack, Seek
<1> QED BY <1>1, <1>5, <1>6, <1>7 DEF SectorDone

LEMMA StepRInv ==
  ASSUME RInv, [Next]_vars
  PROVE  RInv'
<1>1. IInv'
  BY StepIInv DEF RInv
<1>2. ASSUME NEW p \in Proc, Process(p)
      PROVE  RInv'
  BY <1>1, <1>2, ReadWriteRInv, SizeRInv, ReturnRInv DEF Process, User
<1>3. CASE Driver
  BY <1>1, <1>3, WakeRInv, TracksKnownRInv, SeekDoneRInv, SectorDoneRInv DEF Driver
<1>4. CASE UNCHANGED vars
  <2>1. Waiting' = Waiting
    BY <1>4 DEF vars, semVars, Waiting
  <2>2. Links' /\ Serving' /\ Control' /\ Startup' /\ Types'
    BY <1>4, <2>1 DEF vars, semVars, procVars, driverVars, RInv, Links, Serving, Control, Startup, Types
  <2> QED BY <1>1, <2>2 DEF RInv
<1> QED BY <1>2, <1>3, <1>4 DEF Next

LEMMA RInvTypeOK == RInv => TypeOK
<1> SUFFICES ASSUME RInv PROVE TypeOK
  OBVIOUS
<1>1. queue \in Queue
  BY ListedQueue DEF RInv, Links
<1>2. driver \in Places /\ zapped \in BOOLEAN /\ driverSem \in Nat
  BY DEF RInv, IInv, Counts, Places
<1>3. pc \in [Proc -> {"start", "run", "blocked", "zap", "quit"}] /\ procSem \in [Proc -> Nat]
  BY DEF RInv, Control
<1> QED BY <1>1, <1>2, <1>3 DEF RInv, Types, TypeOK

LEMMA RInvRing == RInv => RingInOrder /\ WaitersQueued
<1> SUFFICES ASSUME RInv PROVE RingInOrder /\ WaitersQueued
  OBVIOUS
<1>1. PICK e : /\ Chain(queue, e) /\ Increasing(e, disk_track)
               /\ \A p : In(e, p) <=> p \in Waiting
  BY DEF RInv, Links, Listed
<1>2. Entries(queue) = e /\ Ring(queue) /\ Len(e) = queue.size /\ queue.size \in Nat
  BY <1>1, EntriesAre, ChainIsRing, ChainParts
<1>3. \A i \in 1 .. queue.size - 1 : disk_track[e[i]] <= disk_track[e[i + 1]]
  <2> SUFFICES ASSUME NEW i \in 1 .. queue.size - 1
               PROVE  disk_track[e[i]] <= disk_track[e[i + 1]]
    OBVIOUS
  <2>1. i \in 1 .. Len(e) /\ i + 1 \in 1 .. Len(e) /\ i < i + 1
    BY <1>2
  <2> QED BY <1>1, <2>1 DEF Increasing
<1>4. Sorted(queue, disk_track)
  BY <1>2, <1>3 DEF Sorted
<1>5. \A p \in Proc : p \in Waiting <=> \E i \in 1 .. queue.size : e[i] = p
  BY <1>1, <1>2 DEF In
<1>6. WaitersQueued
  BY <1>2, <1>5 DEF WaitersQueued, Waiting
<1> QED BY <1>2, <1>4, <1>6 DEF RingInOrder

\* The links, the fields and the places of the driver and of every process stay
\* what they are meant to be.
THEOREM TypeCorrect == Spec => []TypeOK
<1>1. Init => RInv
  BY InitRInv
<1>2. RInv /\ [Next]_vars => RInv'
  BY StepRInv
<1>3. RInv => TypeOK
  BY RInvTypeOK
<1> QED BY <1>1, <1>2, <1>3, PTL DEF Spec

\* Whatever is inserted while the driver is at work, the links of the queue stay
\* one ring in the order of the tracks, with head, tail and curr in their places
\* (phase4.c:900-996).
THEOREM QueueIsRing == Spec => []RingInOrder
<1>1. Init => RInv
  BY InitRInv
<1>2. RInv /\ [Next]_vars => RInv'
  BY StepRInv
<1>3. RInv => RingInOrder
  BY RInvRing
<1> QED BY <1>1, <1>2, <1>3, PTL DEF Spec

\* A process waits for the disk exactly as long as it is in the queue, and it is
\* woken once per request.
THEOREM QueueIsWaiters == Spec => []WaitersQueued
<1>1. Init => RInv
  BY InitRInv
<1>2. RInv /\ [Next]_vars => RInv'
  BY StepRInv
<1>3. RInv => WaitersQueued
  BY RInvRing
<1> QED BY <1>1, <1>2, <1>3, PTL DEF Spec

-----------------------------------------------------------------------------
\* m sectors from the f-th on.
Sectors(f, m) == [i \in 1 .. m |-> f + i - 1]

LEMMA SectorsGrow ==
  ASSUME NEW f \in Int, NEW m \in Nat, NEW x, x = f + m
  PROVE  Append(Sectors(f, m), x) = Sectors(f, m + 1)
<1>1. Sectors(f, m) \in Seq(Int) /\ Len(Sectors(f, m)) = m
  BY DEF Sectors
<1>2. Append(Sectors(f, m), x) = [i \in 1 .. m + 1 |-> IF i = m + 1 THEN x ELSE Sectors(f, m)[i]]
  BY <1>1
<1>3. \A i \in 1 .. m + 1 : (IF i = m + 1 THEN x ELSE Sectors(f, m)[i]) = f + i - 1
  BY DEF Sectors
<1> QED BY <1>2, <1>3 DEF Sectors

LEMMA NextTrackNumber ==
  ASSUME NEW n \in Int
  PROVE  (n + 1) * DISK_TRACK_SIZE = n * DISK_TRACK_SIZE + DISK_TRACK_SIZE
         /\ n * DISK_TRACK_SIZE \in Int
BY DiskDriverAssumption

\* Has the driver begun to read or write for p?
Begun(p) == driver \in {"seek", "transfer"} /\ p = queue.curr

\* Until then p's fields are what it asked for.
Intact(p) ==
  /\ disk_track[p] = asked[p].track /\ disk_first_sec[p] = asked[p].first
  /\ disk_sectors[p] = asked[p].sectors
  /\ asked[p].first \in 0 .. DISK_TRACK_SIZE

AsAsked == \A p \in Waiting : opr[p] = "RW" /\ ~Begun(p) => Intact(p)

\* Then the sectors it has moved and those its fields still name make up what
\* it asked for.
Seeking(p) ==
  /\ Len(moved) + disk_sectors[p] = asked[p].sectors
  /\ track * DISK_TRACK_SIZE + disk_first_sec[p] = FirstSector(p) + Len(moved)
  /\ disk_first_sec[p] \in 0 .. DISK_TRACK_SIZE

Transferring(p) ==
  /\ Len(moved) + disk_sectors[p] = asked[p].sectors + 1
  /\ track * DISK_TRACK_SIZE + s = FirstSector(p) + Len(moved) - 1
  /\ s \in 0 .. DISK_TRACK_SIZE - 1

Partial(p) ==
  /\ moved = Sectors(FirstSector(p), Len(moved))
  /\ disk_sectors[p] > 0
  /\ driver = "seek" => Seeking(p)
  /\ driver = "transfer" => Transferring(p)

Halfway == \A p \in Waiting : Begun(p) => Partial(p)

MInv == RInv /\ AsAsked /\ Halfway

Whole ==
  \A p \in Proc : Completes(p) /\ opr[p] = "RW" =>
    moved' = Sectors(FirstSector(p), asked[p].sectors)

LEMMA InitMInv == Init => MInv
<1> SUFFICES ASSUME Init PROVE MInv
  OBVIOUS
<1>1. Waiting = {}
  BY DEF Init, Waiting
<1> QED BY <1>1, InitRInv DEF MInv, AsAsked, Halfway

\* A request disturbs neither the one being served nor those that wait.
LEMMA EnqueueMInv ==
  ASSUME MInv, RInv', NEW p \in Proc, pc[p] = "run", NEW v \in Int, Enqueue(p, v),
         UNCHANGED <<driver, track, s, procSem, moved>>,
         \A x \in Proc : x # p =>
            /\ disk_first_sec'[x] = disk_first_sec[x] /\ disk_sectors'[x] = disk_sectors[x]
            /\ opr'[x] = opr[x] /\ asked'[x] = asked[x],
         opr'[p] = "RW" => Intact(p)'
  PROVE  MInv' /\ Whole
<1>1. Waiting' = Waiting \union {p} /\ queue'.curr = queue.curr /\ disk_track' = [disk_track EXCEPT ![p] = v]
  BY EnqueueLinks DEF MInv, Enqueue
<1>2. p \notin Waiting /\ Waiting \subseteq Proc
  BY DEF Waiting
<1>3. ~Begun(p)
  BY <1>2 DEF Begun, MInv, RInv, Serving
<1>4. \A x : Begun(x)' <=> Begun(x)
  BY <1>1 DEF Begun
<1>5. ASSUME NEW x \in Proc, x # p
      PROVE  /\ disk_track'[x] = disk_track[x] /\ disk_first_sec'[x] = disk_first_sec[x]
             /\ disk_sectors'[x] = disk_sectors[x] /\ opr'[x] = opr[x] /\ asked'[x] = asked[x]
  BY <1>1, <1>5 DEF MInv, RInv, Types
<1>6. AsAsked'
  <2> SUFFICES ASSUME NEW x \in Waiting', opr'[x] = "RW", ~Begun(x)' PROVE Intact(x)'
    BY DEF AsAsked
  <2>1. CASE x = p
    BY <2>1
  <2>2. CASE x # p
    <3>1. x \in Waiting /\ x \in Proc /\ ~Begun(x)
      BY <1>1, <1>2, <1>4, <2>2
    <3>2. Intact(x)
      BY <1>5, <2>2, <3>1 DEF MInv, AsAsked
    <3> QED BY <1>5, <2>2, <3>1, <3>2 DEF Intact
  <2> QED BY <2>1, <2>2
<1>7. Halfway'
  <2> SUFFICES ASSUME NEW x \in Waiting', Begun(x)' PROVE Partial(x)'
    BY DEF Halfway
  <2>1. x # p /\ x \in Waiting /\ x \in Proc /\ Begun(x)
    BY <1>1, <1>2, <1>3, <1>4
  <2>2. Partial(x)
    BY <2>1 DEF MInv, Halfway
  <2> QED BY <1>5, <2>1, <2>2 DEF Partial, Seeking, Transferring, FirstSector
<1>8. Whole
  BY DEF Whole, Completes, MInv, RInv, Control
<1> QED BY <1>6, <1>7, <1>8 DEF MInv

LEMMA ReadWriteMInv ==
  ASSUME MInv, RInv', NEW p \in User, NEW r \in Requests, disk_read_or_write_real(p, r)
  PROVE  MInv' /\ Whole
<1>1. /\ p \in Proc /\ pc[p] = "run" /\ Enqueue(p, r.track)
      /\ r \in [track : Int, first : Int, sectors : Nat]
      /\ UNCHANGED <<driver, track, s, procSem, moved>>
      /\ opr' = [opr EXCEPT ![p] = "RW"]
      /\ disk_first_sec' = [disk_first_sec EXCEPT ![p] = r.first]
      /\ disk_sectors' = [disk_sectors EXCEPT ![p] = r.sectors]
      /\ asked' = [asked EXCEPT ![p] = r]
      /\ disk_track' = [disk_track EXCEPT ![p] = r.track]
  BY DiskDriverAssumption DEF disk_read_or_write_real, Runs, User, driverVars, Enqueue
<1>2. r.track \in Int /\ r.first \in Int
  BY <1>1
<1>3. r.first \in 0 .. DISK_TRACK_SIZE
  BY <1>2, DiskDriverAssumption DEF disk_read_or_write_real, Illegal
<1>4. Types
  BY DEF MInv, RInv
<1>5. Intact(p)'
  BY <1>1, <1>3, <1>4 DEF Types, Intact
<1>6. \A x \in Proc : x # p =>
            /\ disk_first_sec'[x] = disk_first_sec[x] /\ disk_sectors'[x] = disk_sectors[x]
            /\ opr'[x] = opr[x] /\ asked'[x] = asked[x]
  BY <1>1, <1>4 DEF Types
<1> QED BY <1>1, <1>2, <1>5, <1>6, EnqueueMInv

LEMMA SizeMInv ==
  ASSUME MInv, RInv', disk_size_real(start3)
  PROVE  MInv' /\ Whole
<1>1. /\ start3 \in Proc /\ pc[start3] = "run" /\ Enqueue(start3, 0)
      /\ UNCHANGED <<driver, track, s, procSem, moved>>
      /\ opr' = [opr EXCEPT ![start3] = "TRACKS"]
      /\ UNCHANGED <<disk_first_sec, disk_sectors, asked>>
  BY DiskDriverAssumption DEF disk_size_real, Runs, driverVars
<1>2. opr'[start3] = "TRACKS" /\ \A x \in Proc : x # start3 => opr'[x] = opr[x]
  BY <1>1 DEF MInv, RInv, Types
<1> QED BY <1>1, <1>2, EnqueueMInv

\* Steps that leave the requests as they are.
LEMMA SameMInv ==
  ASSUME MInv, RInv', Waiting' = Waiting, queue'.curr = queue.curr,
         UNCHANGED <<disk_track, disk_first_sec, disk_sectors, opr, driver, track, s, asked, moved>>,
         \A p \in Proc : procSem'[p] <= procSem[p]
  PROVE  MInv' /\ Whole
<1>1. AsAsked'
  BY DEF MInv, AsAsked, Begun, Intact
<1>2. Halfway'
  BY DEF MInv, Halfway, Begun, Partial, Seeking, Transferring, FirstSector
<1>3. Whole
  BY DEF Whole, Completes, MInv, RInv, Control
<1> QED BY <1>1, <1>2, <1>3 DEF MInv

LEMMA ReturnMInv ==
  ASSUME MInv, RInv', NEW p \in Proc, Return(p)
  PROVE  MInv' /\ Whole
<1>1. /\ pc[p] = "blocked" /\ procSem[p] > 0
      /\ procSem' = [procSem EXCEPT ![p] = @ - 1]
      /\ pc' = IF p = start3 THEN [q \in Proc |-> "run"] ELSE [pc EXCEPT ![p] = "run"]
      /\ UNCHANGED <<queue, disk_track, disk_first_sec, disk_sectors, opr, driver, track, s,
                     asked, moved>>
  BY DEF Return, procVars, driverVars
<1>2. Control /\ Startup /\ start3 \in Proc
  BY DiskDriverAssumption DEF MInv, RInv
<1>3. p = start3 => \A q \in Proc : q # p => pc[q] = "start"
  BY <1>1, <1>2 DEF Startup, User
<1>4. procSem[p] = 1
  BY <1>1, <1>2 DEF Control
<1>5. procSem' = [procSem EXCEPT ![p] = 0]
  BY <1>1, <1>4
<1>6. Waiting' = Waiting
  <2>1. CASE p = start3
    <3>1. \A q \in Proc : q # p => procSem[q] = 0 /\ pc[q] # "blocked"
      BY <1>2, <1>3, <2>1 DEF Control
    <3> QED BY <1>1, <1>2, <1>4, <2>1, <3>1 DEF Waiting
  <2>2. CASE p # start3
    BY <1>1, <1>2, <1>4, <1>5, <2>2 DEF Waiting, Control
  <2> QED BY <2>1, <2>2
<1>7. \A q \in Proc : procSem'[q] <= procSem[q]
  BY <1>2, <1>5 DEF Control
<1> QED BY <1>1, <1>6, <1>7, SameMInv

\* The driver finishes c; the fields of the others are as they were.
LEMMA FinishMInv ==
  ASSUME MInv, RInv', NEW q, Listed(q, disk_track, Waiting), q.size # 0, Finish(q),
         UNCHANGED <<pc, opr, disk_track, asked>>,
         NEW c, c = peek_disk_queue(q).curr, \A p \in Proc : Begun(p) => p = c,
         \A x \in Proc : x # c =>
            disk_first_sec'[x] = disk_first_sec[x] /\ disk_sectors'[x] = disk_sectors[x],
         opr[c] = "RW" => moved' = Sectors(FirstSector(c), asked[c].sectors)
  PROVE  MInv' /\ Whole
<1>1. c \in Waiting /\ procSem' = [procSem EXCEPT ![c] = 1] /\ Waiting' = Waiting \ {c}
  BY FinishLinks DEF MInv, RInv
<1>2. driver' = "semp" /\ Waiting \subseteq Proc
  BY DEF Finish, Waiting
<1>3. Halfway'
  BY <1>2 DEF Halfway, Begun
<1>4. AsAsked'
  <2> SUFFICES ASSUME NEW x \in Waiting', opr'[x] = "RW" PROVE Intact(x)'
    BY DEF AsAsked
  <2>1. x \in Waiting /\ x # c /\ ~Begun(x) /\ opr[x] = "RW" /\ x \in Proc
    BY <1>1, <1>2
  <2>2. Intact(x)
    BY <2>1 DEF MInv, AsAsked
  <2> QED BY <2>1, <2>2 DEF Intact
<1>5. Whole
  <2> SUFFICES ASSUME NEW x \in Proc, procSem'[x] = procSem[x] + 1, opr[x] = "RW"
               PROVE  moved' = Sectors(FirstSector(x), asked[x].sectors)
    BY DEF Whole, Completes
  <2>1. x = c
    BY <1>1 DEF MInv, RInv, Control
  <2> QED BY <2>1
<1> QED BY <1>3, <1>4, <1>5 DEF MInv

LEMMA WakeMInv ==
  ASSUME MInv, RInv', Wake
  PROVE  MInv' /\ Whole
<1>1. /\ driver = "semp" /\ driverSem > 0 /\ zapped = FALSE
      /\ UNCHANGED <<disk_track, disk_first_sec, disk_sectors, opr, tracks, s, pc, asked>>
  BY DEF Wake, DriverReady, MInv, RInv, IInv, Counts, procVars
<1>2. queue.size > 0
  BY <1>1 DEF MInv, RInv, IInv, Counts, RequestsCounted, Sized
<1>3. PICK q : q = peek_disk_queue(queue)
  OBVIOUS
<1>4. Begin(q)
  BY <1>1, <1>2, <1>3 DEF Wake
<1>5. PICK p : p = q.curr
  OBVIOUS
<1>6. Listed(q, disk_track, Waiting) /\ q.size # 0 /\ p \in Waiting
  BY <1>2, <1>3, <1>5, PeekListed DEF MInv, RInv, Links
<1>7. p \in Proc /\ p # NULL
  BY <1>6, DiskQueueAssumption DEF Waiting
<1>8. moved' = <<>> /\ track' = disk_track[p]
  BY <1>4, <1>5 DEF Begin, Seek
<1>9. \A x : ~Begun(x)
  BY <1>1 DEF Begun
<1>10. opr[p] = "RW" => Intact(p)
  BY <1>6, <1>9 DEF MInv, AsAsked
<1>11. asked[p] \in [track : Int, first : Int, sectors : Nat] /\ disk_track[p] \in Int
       /\ disk_first_sec[p] \in Int /\ disk_sectors[p] \in Int
  BY <1>7 DEF MInv, RInv, Types
<1>12. FirstSector(p) \in Int
  <2>1. asked[p].track * DISK_TRACK_SIZE \in Int /\ asked[p].first \in Int
    BY <1>11, NextTrackNumber
  <2> QED BY <2>1 DEF FirstSector
<1>13. <<>> = Sectors(FirstSector(p), 0)
  BY DEF Sectors
<1>16. opr[p] \in {"TRACKS", "RW"}
  BY <1>7 DEF MInv, RInv, Types
<1>14. CASE Finish(q) /\ opr[p] = "RW" /\ ~(disk_sectors[p] > 0)
  <2>1. p = peek_disk_queue(q).curr
    BY <1>5, <1>7, PeekOnce
  <2>2. asked[p].sectors = 0
    BY <1>10, <1>11, <1>14 DEF Intact
  <2>3. moved' = Sectors(FirstSector(p), asked[p].sectors)
    BY <1>8, <1>13, <2>2
  <2> QED BY <1>1, <1>6, <1>9, <1>14, <2>1, <2>3, FinishMInv
<1>15. CASE /\ queue' = q /\ UNCHANGED procSem
            /\ driver' = (IF opr[p] = "TRACKS" THEN "tracks" ELSE "seek")
            /\ opr[p] = "TRACKS" \/ disk_sectors[p] > 0
  <2>1. Waiting' = Waiting
    BY <1>1, <1>15 DEF Waiting
  <2>2. AsAsked'
    <3> SUFFICES ASSUME NEW x \in Waiting', opr'[x] = "RW", ~Begun(x)' PROVE Intact(x)'
      BY DEF AsAsked
    <3>1. Intact(x)
      BY <1>1, <1>9, <2>1 DEF MInv, AsAsked
    <3> QED BY <1>1, <3>1 DEF Intact
  <2>3. Halfway'
    <3> SUFFICES ASSUME NEW x \in Waiting', Begun(x)' PROVE Partial(x)'
      BY DEF Halfway
    <3>1. x = p /\ driver' = "seek" /\ opr[p] = "RW" /\ disk_sectors[p] > 0
      <4>1. driver' = "seek" /\ x = queue'.curr
        BY <1>15 DEF Begun
      <4> QED BY <1>5, <1>15, <1>16, <4>1
    <3>2. Intact(p)
      BY <1>10, <3>1
    <3>3. Len(moved') = 0 /\ FirstSector(p)' = FirstSector(p)
      BY <1>1, <1>8 DEF FirstSector
    <3>4. Seeking(p)'
      <4>1. Len(moved') + disk_sectors[p] = asked[p].sectors
        BY <1>11, <3>2, <3>3 DEF Intact
      <4>2. disk_track[p] * DISK_TRACK_SIZE + disk_first_sec[p] = FirstSector(p) + 0
        <5>1. disk_track[p] * DISK_TRACK_SIZE + disk_first_sec[p] = FirstSector(p)
          BY <3>2 DEF Intact, FirstSector
        <5> QED BY <1>12, <5>1
      <4>3. disk_first_sec[p] \in 0 .. DISK_TRACK_SIZE
        BY <3>2 DEF Intact
      <4> QED BY <1>1, <1>8, <3>3, <4>1, <4>2, <4>3 DEF Seeking
    <3>5. moved' = Sectors(FirstSector(p), Len(moved'))
      BY <1>8, <1>13, <3>3
    <3> QED BY <1>1, <3>1, <3>3, <3>4, <3>5 DEF Partial
  <2>4. Whole
    BY <1>15 DEF Whole, Completes, MInv, RInv, Control
  <2> QED BY <2>2, <2>3, <2>4 DEF MInv
<1> QED BY <1>4, <1>5, <1>14, <1>15, <1>16 DEF Begin, Seek

LEMMA TracksKnownMInv ==
  ASSUME MInv, RInv', TracksKnown
  PROVE  MInv' /\ Whole
<1>1. /\ driver = "tracks" /\ Finish(queue)
      /\ UNCHANGED <<disk_track, disk_first_sec, disk_sectors, opr, track, s, pc, asked, moved>>
  BY DEF TracksKnown, Interrupted, procVars
<1>2. queue.size # 0
  BY <1>1 DEF MInv, RInv, IInv, Counts, RequestsCounted, Sized
<1>3. queue.curr \in Waiting /\ opr[queue.curr] = "TRACKS" /\ queue.curr # NULL
  BY <1>1, DiskQueueAssumption DEF MInv, RInv, Serving, Waiting
<1>4. queue.curr = peek_disk_queue(queue).curr
  BY <1>3, PeekOnce
<1>5. \A x : ~Begun(x)
  BY <1>1 DEF Begun
<1>6. Listed(queue, disk_track, Waiting)
  BY DEF MInv, RInv, Links
<1> QED BY <1>1, <1>2, <1>3, <1>4, <1>5, <1>6, FinishMInv

\* The driver goes on with p, whose fields alone it may change.
LEMMA GoOnMInv ==
  ASSUME MInv, RInv', NEW p \in Waiting, p = queue.curr,
         driver \in {"seek", "transfer"}, driver' \in {"seek", "transfer"},
         UNCHANGED <<queue, disk_track, opr, procSem, pc, asked>>,
         \A x \in Proc : x # p =>
            disk_first_sec'[x] = disk_first_sec[x] /\ disk_sectors'[x] = disk_sectors[x],
         Partial(p)'
  PROVE  MInv' /\ Whole
<1>1. Waiting' = Waiting /\ Waiting \subseteq Proc
  BY DEF Waiting
<1>2. AsAsked'
  <2> SUFFICES ASSUME NEW x \in Waiting', opr'[x] = "RW", ~Begun(x)' PROVE Intact(x)'
    BY DEF AsAsked
  <2>1. x \in Waiting /\ x \in Proc /\ x # p /\ ~Begun(x) /\ opr[x] = "RW"
    BY <1>1 DEF Begun
  <2>2. Intact(x)
    BY <2>1 DEF MInv, AsAsked
  <2> QED BY <2>1, <2>2 DEF Intact
<1>3. Halfway'
  BY <1>1 DEF Halfway, Begun
<1>4. Whole
  BY DEF Whole, Completes, MInv, RInv, Control
<1> QED BY <1>2, <1>3, <1>4 DEF MInv

\* The next sector.
LEMMA TransferMInv ==
  ASSUME MInv, RInv', NEW p \in Waiting, p = queue.curr, driver \in {"seek", "transfer"},
         NEW n \in 0 .. DISK_TRACK_SIZE - 1, Transfer(n),
         UNCHANGED <<disk_track, opr, pc, asked>>,
         track * DISK_TRACK_SIZE + n = FirstSector(p) + Len(moved),
         moved = Sectors(FirstSector(p), Len(moved)),
         disk_sectors'[p] > 0, disk_sectors'[p] \in Int,
         Len(moved) + disk_sectors'[p] = asked[p].sectors,
         \A x \in Proc : x # p => disk_sectors'[x] = disk_sectors[x]
  PROVE  MInv' /\ Whole
<1>1. p \in Proc /\ FirstSector(p) \in Int /\ Len(moved) \in Nat /\ asked[p].sectors \in Nat
      /\ moved \in Seq(Int)
  <2>1. p \in Proc
    BY DEF Waiting
  <2>2. asked[p] \in [track : Int, first : Int, sectors : Nat] /\ moved \in Seq(Int)
    BY <2>1 DEF MInv, RInv, Types
  <2>3. asked[p].track * DISK_TRACK_SIZE \in Int /\ asked[p].first \in Int
    BY <2>2, NextTrackNumber
  <2> QED BY <2>1, <2>2, <2>3 DEF FirstSector
<1>2. /\ driver' = "transfer" /\ s' = n
      /\ moved' = Append(moved, track * DISK_TRACK_SIZE + n)
      /\ UNCHANGED <<queue, disk_first_sec, track, procSem>>
  BY DEF Transfer
<1>3. Len(moved') = Len(moved) + 1
  BY <1>1, <1>2
<1>4. moved' = Sectors(FirstSector(p), Len(moved'))
  <2>1. moved' = Append(Sectors(FirstSector(p), Len(moved)), FirstSector(p) + Len(moved))
    BY <1>2
  <2> QED BY <1>1, <1>3, <2>1, SectorsGrow
<1>5. FirstSector(p)' = FirstSector(p)
  BY DEF FirstSector
<1>6. Transferring(p)'
  <2>1. Len(moved') + disk_sectors'[p] = asked[p].sectors + 1
    <3>1. PICK m \in Nat : m = Len(moved)
      BY <1>1
    <3>2. PICK d \in Int : d = disk_sectors'[p]
      OBVIOUS
    <3>3. PICK n1 \in Nat : n1 = asked[p].sectors
      BY <1>1
    <3>4. m + d = n1
      BY <3>1, <3>2, <3>3
    <3>5. (m + 1) + d = n1 + 1
      BY <3>4
    <3> QED BY <1>3, <3>1, <3>2, <3>3, <3>5
  <2>2. track * DISK_TRACK_SIZE + n = FirstSector(p) + Len(moved') - 1
    BY <1>1, <1>3
  <2> QED BY <1>2, <1>5, <2>1, <2>2 DEF Transferring
<1>7. Partial(p)'
  BY <1>2, <1>4, <1>5, <1>6 DEF Partial
<1> QED BY <1>2, <1>7, GoOnMInv

\* The next track.
LEMMA NextTrackMInv ==
  ASSUME MInv, RInv', NEW p \in Waiting, p = queue.curr, driver \in {"seek", "transfer"},
         NextTrack(p), UNCHANGED <<queue, disk_track, opr, procSem, pc, asked, moved>>,
         track * DISK_TRACK_SIZE + DISK_TRACK_SIZE = FirstSector(p) + Len(moved),
         moved = Sectors(FirstSector(p), Len(moved)),
         disk_sectors'[p] > 0,
         Len(moved) + disk_sectors'[p] = asked[p].sectors,
         \A x \in Proc : x # p => disk_sectors'[x] = disk_sectors[x]
  PROVE  MInv' /\ Whole
<1>1. p \in Proc /\ disk_first_sec \in [Proc -> Int] /\ track \in Int
  BY DEF MInv, RInv, Types, Waiting
<1>2. disk_first_sec' = [disk_first_sec EXCEPT ![p] = 0] /\ driver' = "seek" /\ track' = track + 1
  BY DEF NextTrack, Seek
<1>3. disk_first_sec'[p] = 0 /\ \A x \in Proc : x # p => disk_first_sec'[x] = disk_first_sec[x]
  BY <1>1, <1>2
<1>4. FirstSector(p)' = FirstSector(p)
  BY DEF FirstSector
<1>5. Seeking(p)'
  <2>1. track' * DISK_TRACK_SIZE = track * DISK_TRACK_SIZE + DISK_TRACK_SIZE
    BY <1>1, <1>2, NextTrackNumber
  <2>2. track' * DISK_TRACK_SIZE \in Int
    BY <1>1, <1>2, NextTrackNumber
  <2>3. track' * DISK_TRACK_SIZE + disk_first_sec'[p] = FirstSector(p) + Len(moved)
    BY <1>3, <2>1, <2>2
  <2>4. disk_first_sec'[p] \in 0 .. DISK_TRACK_SIZE
    BY <1>3, DiskDriverAssumption
  <2> QED BY <1>4, <2>3, <2>4 DEF Seeking
<1>6. Partial(p)'
  BY <1>2, <1>4, <1>5 DEF Partial
<1> QED BY <1>2, <1>3, <1>6, GoOnMInv

LEMMA SeekDoneMInv ==
  ASSUME MInv, RInv', SeekDone
  PROVE  MInv' /\ Whole
<1>1. PICK p : p = queue.curr
  OBVIOUS
<1>2. /\ driver = "seek"
      /\ UNCHANGED <<disk_track, disk_sectors, opr, tracks, driverSem, pc, zapped, asked>>
  BY DEF SeekDone, Interrupted
<1>3. p \in Waiting /\ p \in Proc /\ disk_first_sec[p] \in Int /\ disk_sectors[p] \in Int
  BY <1>1, <1>2 DEF MInv, RInv, Serving, Waiting, Types
<1>4. Partial(p)
  BY <1>1, <1>2, <1>3 DEF MInv, Halfway, Begun
<1>5. /\ moved = Sectors(FirstSector(p), Len(moved)) /\ disk_sectors[p] > 0
      /\ Len(moved) + disk_sectors[p] = asked[p].sectors
      /\ track * DISK_TRACK_SIZE + disk_first_sec[p] = FirstSector(p) + Len(moved)
      /\ disk_first_sec[p] \in 0 .. DISK_TRACK_SIZE
  BY <1>2, <1>4 DEF Partial, Seeking
<1>6. CASE disk_first_sec[p] < DISK_TRACK_SIZE /\ Transfer(disk_first_sec[p])
  <2>1. disk_first_sec[p] \in 0 .. DISK_TRACK_SIZE - 1
    BY <1>5, <1>6, DiskDriverAssumption
  <2> QED BY <1>1, <1>2, <1>3, <1>5, <1>6, <2>1, TransferMInv
<1>7. CASE /\ ~(disk_first_sec[p] < DISK_TRACK_SIZE)
           /\ NextTrack(p) /\ UNCHANGED <<queue, procSem, moved>>
  <2>1. disk_first_sec[p] = DISK_TRACK_SIZE
    BY <1>5, <1>7, DiskDriverAssumption
  <2> QED BY <1>1, <1>2, <1>3, <1>5, <1>7, <2>1, NextTrackMInv
<1> QED BY <1>1, <1>6, <1>7 DEF SeekDone

LEMMA SectorDoneMInv ==
  ASSUME MInv, RInv', SectorDone
  PROVE  MInv' /\ Whole
<1>1. PICK p : p = queue.curr
  OBVIOUS
<1>2. /\ driver = "transfer" /\ disk_sectors' = [disk_sectors EXCEPT ![p] = @ - 1]
      /\ UNCHANGED <<disk_track, opr, tracks, driverSem, pc, zapped, asked>>
  BY <1>1 DEF SectorDone, Interrupted
<1>3. p \in Waiting /\ p \in Proc /\ p # NULL /\ disk_sectors \in [Proc -> Int] /\ track \in Int /\ s \in Int
      /\ asked[p].sectors \in Nat /\ moved \in Seq(Int) /\ disk_first_sec \in [Proc -> Int]
  BY <1>1, <1>2, DiskQueueAssumption DEF MInv, RInv, Serving, Waiting, Types
<1>4. Partial(p)
  BY <1>1, <1>2, <1>3 DEF MInv, Halfway, Begun
<1>5. /\ moved = Sectors(FirstSector(p), Len(moved)) /\ disk_sectors[p] > 0
      /\ Len(moved) + disk_sectors[p] = asked[p].sectors + 1
      /\ track * DISK_TRACK_SIZE + s = FirstSector(p) + Len(moved) - 1
      /\ s \in 0 .. DISK_TRACK_SIZE - 1
  BY <1>2, <1>4 DEF Partial, Transferring
<1>6. disk_sectors'[p] = disk_sectors[p] - 1 /\ \A x \in Proc : x # p => disk_sectors'[x] = disk_sectors[x]
  BY <1>2, <1>3
<1>7. /\ disk_sectors[p] \in Int /\ Len(moved) \in Nat /\ FirstSector(p) \in Int
      /\ track * DISK_TRACK_SIZE \in Int
  <2>1. asked[p] \in [track : Int, first : Int, sectors : Nat]
    BY <1>3 DEF MInv, RInv, Types
  <2>2. asked[p].track * DISK_TRACK_SIZE \in Int /\ asked[p].first \in Int
    BY <2>1, NextTrackNumber
  <2>3. FirstSector(p) \in Int
    BY <2>2 DEF FirstSector
  <2>4. track * DISK_TRACK_SIZE \in Int
    BY <1>3, NextTrackNumber
  <2>5. disk_sectors[p] \in Int /\ Len(moved) \in Nat
    BY <1>3
  <2> QED BY <2>3, <2>4, <2>5
<1>8. CASE /\ disk_sectors[p] = 1 /\ Finish(queue) /\ UNCHANGED moved
           /\ disk_first_sec' = [disk_first_sec EXCEPT ![p] = 0]
  <2>1. queue.size # 0
    BY <1>2 DEF MInv, RInv, IInv, Counts, RequestsCounted, Sized
  <2>2. p = peek_disk_queue(queue).curr
    BY <1>1, <1>3, PeekOnce
  <2>3. Listed(queue, disk_track, Waiting)
    BY DEF MInv, RInv, Links
  <2>4. Len(moved) = asked[p].sectors
    BY <1>3, <1>5, <1>7, <1>8
  <2>5. moved' = Sectors(FirstSector(p), asked[p].sectors)
    BY <1>5, <1>8, <2>4
  <2>6. \A x : Begun(x) => x = p
    BY <1>1 DEF Begun
  <2>7. \A x : x # p => disk_first_sec'[x] = disk_first_sec[x] /\ disk_sectors'[x] = disk_sectors[x]
    BY <1>2, <1>3, <1>8
  <2> QED BY <1>2, <1>8, <2>1, <2>2, <2>3, <2>5, <2>6, <2>7, FinishMInv
<1>9. disk_sectors[p] # 1 => disk_sectors'[p] > 0 /\ disk_sectors'[p] \in Int
                             /\ Len(moved) + disk_sectors'[p] = asked[p].sectors
  <2>1. PICK m \in Nat : m = Len(moved)
    BY <1>7
  <2>2. PICK d \in Int : d = disk_sectors[p]
    BY <1>7
  <2>3. PICK k \in Nat : k = asked[p].sectors
    BY <1>3
  <2>4. m + d = k + 1 /\ d > 0
    BY <1>5, <2>1, <2>2, <2>3
  <2>5. d # 1 => d - 1 > 0 /\ d - 1 \in Int /\ m + (d - 1) = k
    BY <2>4
  <2> QED BY <1>6, <2>1, <2>2, <2>3, <2>5
<1>10. track * DISK_TRACK_SIZE + (s + 1) = FirstSector(p) + Len(moved)
  BY <1>3, <1>5, <1>7, SMTT(30)
<1>11. CASE disk_sectors[p] # 1 /\ s + 1 < DISK_TRACK_SIZE /\ Transfer(s + 1)
  <2>1. s + 1 \in 0 .. DISK_TRACK_SIZE - 1
    BY <1>3, <1>5, <1>11, DiskDriverAssumption
  <2> QED BY <1>1, <1>2, <1>3, <1>5, <1>6, <1>9, <1>10, <1>11, <2>1, TransferMInv
<1>12. CASE /\ disk_sectors[p] # 1 /\ ~(s + 1 < DISK_TRACK_SIZE)
            /\ NextTrack(p) /\ UNCHANGED <<queue, procSem, moved>>
  <2>1. s + 1 = DISK_TRACK_SIZE
    BY <1>3, <1>5, <1>12, DiskDriverAssumption
  <2> QED BY <1>1, <1>2, <1>3, <1>5, <1>6, <1>9, <1>10, <1>12, <2>1, NextTrackMInv
<1> QED BY <1>1, <1>8, <1>11, <1>12 DEF SectorDone

LEMMA StepMInv ==
  ASSUME MInv, [Next]_vars
  PROVE  MInv' /\ Whole
<1>1. RInv'
  BY StepRInv DEF MInv
<1>2. ASSUME NEW p \in Proc, Process(p)
      PROVE  MInv' /\ Whole
  BY <1>1, <1>2, ReadWriteMInv, SizeMInv, ReturnMInv DEF Process, User
<1>3. CASE Driver
  BY <1>1, <1>3, WakeMInv, TracksKnownMInv, SeekDoneMInv, SectorDoneMInv DEF Driver
<1>4. CASE UNCHANGED vars
  <2>1. Waiting' = Waiting /\ procSem' = procSem
    BY <1>4 DEF vars, semVars, Waiting
  <2>2. \A p \in Proc : procSem'[p] <= procSem[p]
    BY <2>1 DEF MInv, RInv, Control
  <2> QED BY <1>1, <1>4, <2>1, <2>2, SameMInv DEF vars, procVars, driverVars
<1> QED BY <1>2, <1>3, <1>4 DEF Next

\* A request moves exactly its sectors, each once and in the order of the buffer,
\* across tracks and whatever joins the queue meanwhile (phase4.c:339-377).
THEOREM WholeRequest == Spec => WholeTransfer
<1>1. Init => MInv
  BY InitMInv
<1>2. MInv /\ [Next]_vars => MInv' /\ Whole
  BY StepMInv
<1>3. Whole => \A p \in Proc : Completes(p) /\ opr[p] = "RW" =>
                 moved' = [i \in 1 .. asked[p].sectors |-> FirstSector(p) + i - 1]
  BY DEF Whole, Sectors
<1> QED BY <1>1, <1>2, <1>3, PTL DEF Spec, WholeTransfer

-----------------------------------------------------------------------------
(***************************************************************************)
(* The requests of each track as a stretch of the queue.                   *)
(***************************************************************************)

LEMMA LowerIs ==
  ASSUME NEW e \in Seq(Proc), NEW u, NEW t, NEW n \in 0 .. Len(e),
         \A i \in 1 .. Len(e) : i <= n <=> u[e[i]] < t
  PROVE  Lower(e, u, t) = n
<1>1. Len(e) \in Nat
  OBVIOUS
<1>2. {i \in 1 .. Len(e) : u[e[i]] < t} = 1 .. n
  <2>1. ASSUME NEW i \in 1 .. Len(e), u[e[i]] < t PROVE i \in 1 .. n
    BY <1>1, <2>1
  <2>2. ASSUME NEW i \in 1 .. n PROVE i \in 1 .. Len(e) /\ u[e[i]] < t
    BY <1>1
  <2> QED BY <2>1, <2>2
<1>3. Cardinality(1 .. n) = n
  BY FS_Interval
<1> QED BY <1>2, <1>3 DEF Lower

LEMMA LowerBounds ==
  ASSUME NEW e \in Seq(Proc), NEW u \in [Proc -> Int], Increasing(e, u), NEW t \in Int
  PROVE  /\ Lower(e, u, t) \in 0 .. Len(e)
         /\ \A i \in 1 .. Len(e) : i <= Lower(e, u, t) <=> u[e[i]] < t
<1> DEFINE S == {n \in 0 .. Len(e) : n = Len(e) \/ u[e[n + 1]] >= t}
<1>1. Len(e) \in Nat /\ \A i \in 1 .. Len(e) : e[i] \in Proc /\ u[e[i]] \in Int
  OBVIOUS
<1>2. S \subseteq Nat /\ Len(e) \in S
  BY <1>1
<1>3. PICK n \in S : \A k \in S : n <= k
  BY <1>2, LeastExists
<1>4. n \in 0 .. Len(e) /\ (n = Len(e) \/ u[e[n + 1]] >= t)
  OBVIOUS
<1>5. \A i \in 1 .. Len(e) : i <= n <=> u[e[i]] < t
  <2> SUFFICES ASSUME NEW i \in 1 .. Len(e) PROVE i <= n <=> u[e[i]] < t
    OBVIOUS
  <2>1. CASE i <= n
    <3>1. i - 1 \in 0 .. Len(e) /\ i - 1 < n /\ i - 1 # Len(e) /\ (i - 1) + 1 = i
      BY <1>1, <1>4, <2>1
    <3>2. i - 1 \notin S
      <4>1. n \in Int /\ i - 1 \in Int /\ ~(n <= i - 1)
        BY <1>4, <3>1
      <4> QED BY <1>3, <4>1
    <3>3. ~(u[e[i]] >= t)
      BY <3>1, <3>2
    <3> QED BY <1>1, <2>1, <3>3
  <2>2. CASE i > n
    <3>1. n + 1 \in 1 .. Len(e) /\ n # Len(e) /\ (n + 1 = i \/ n + 1 < i)
      BY <1>1, <1>4, <2>2
    <3>2. u[e[n + 1]] >= t /\ u[e[n + 1]] \in Int /\ u[e[i]] \in Int
      BY <1>1, <1>4, <3>1
    <3>3. n + 1 < i => u[e[n + 1]] <= u[e[i]]
      BY <3>1 DEF Increasing
    <3>4. ~(u[e[i]] < t)
      BY <3>1, <3>2, <3>3
    <3> QED BY <1>1, <1>4, <2>2, <3>4
  <2> QED BY <1>1, <1>4, <2>1, <2>2
<1>6. Lower(e, u, t) = n
  BY <1>4, <1>5, LowerIs
<1> QED BY <1>4, <1>5, <1>6

\* a is the part of e between lo and hi: the entries of track t.
Stretch(e, u, t, lo, hi, a) ==
  /\ lo \in 0 .. Len(e) /\ hi \in lo .. Len(e)
  /\ a \in Seq(Proc) /\ Len(a) = hi - lo
  /\ \A j \in 1 .. hi - lo : a[j] = e[lo + j]
  /\ \A i \in 1 .. Len(e) : u[e[i]] = t <=> i \in lo + 1 .. hi

LEMMA OnTrackIs ==
  ASSUME NEW e \in Seq(Proc), NEW u \in [Proc -> Int], Increasing(e, u), NEW t \in Int
  PROVE  Stretch(e, u, t, Lower(e, u, t), Lower(e, u, t + 1), OnTrack(e, u, t))
<1>l. PICK lo : lo = Lower(e, u, t)
  OBVIOUS
<1>h. PICK hi : hi = Lower(e, u, t + 1)
  OBVIOUS
<1>a. PICK a : a = OnTrack(e, u, t)
  OBVIOUS
<1>1. /\ lo \in 0 .. Len(e) /\ \A i \in 1 .. Len(e) : i <= lo <=> u[e[i]] < t
  BY <1>l, LowerBounds
<1>2. /\ hi \in 0 .. Len(e) /\ \A i \in 1 .. Len(e) : i <= hi <=> u[e[i]] < t + 1
  <2>1. t + 1 \in Int
    OBVIOUS
  <2> QED BY <1>h, <2>1, LowerBounds
<1>3. Len(e) \in Nat /\ \A i \in 1 .. Len(e) : e[i] \in Proc /\ u[e[i]] \in Int
  OBVIOUS
<1>4. lo <= hi
  <2>1. CASE lo = 0
    BY <1>2, <2>1
  <2>2. CASE lo # 0
    <3>1. lo \in 1 .. Len(e)
      BY <1>1, <1>3, <2>2
    <3>2. u[e[lo]] < t /\ u[e[lo]] \in Int
      BY <1>1, <1>3, <3>1
    <3>3. u[e[lo]] < t + 1
      BY <3>2
    <3> QED BY <1>2, <3>1, <3>3
  <2> QED BY <2>1, <2>2
<1>5. a = SubSeq(e, lo + 1, hi)
  BY <1>l, <1>h, <1>a DEF OnTrack
<1>6. /\ SubSeq(e, lo + 1, hi) \in Seq(Proc) /\ Len(SubSeq(e, lo + 1, hi)) = hi - lo
      /\ \A j \in 1 .. hi - lo : SubSeq(e, lo + 1, hi)[j] = e[lo + j]
  BY <1>1, <1>2, <1>3, <1>4
<1>7. \A i \in 1 .. Len(e) : u[e[i]] = t <=> i \in lo + 1 .. hi
  <2> SUFFICES ASSUME NEW i \in 1 .. Len(e) PROVE u[e[i]] = t <=> i \in lo + 1 .. hi
    OBVIOUS
  <2>1. (i <= lo <=> u[e[i]] < t) /\ (i <= hi <=> u[e[i]] < t + 1) /\ u[e[i]] \in Int
    BY <1>1, <1>2, <1>3
  <2> QED BY <1>1, <1>2, <2>1
<1>8. hi \in lo .. Len(e)
  BY <1>1, <1>2, <1>4
<1>9. a \in Seq(Proc) /\ Len(a) = hi - lo /\ \A j \in 1 .. hi - lo : a[j] = e[lo + j]
  BY <1>5, <1>6, Zenon
<1>10. Stretch(e, u, t, lo, hi, a)
  BY <1>1, <1>7, <1>8, <1>9, Zenon DEF Stretch
<1> QED BY <1>l, <1>h, <1>a, <1>10

\* The tracks of the others do not matter.
LEMMA SameStretch ==
  ASSUME NEW e \in Seq(Proc), NEW u, NEW v, \A i \in 1 .. Len(e) : u[e[i]] = v[e[i]], NEW t
  PROVE  OnTrack(e, u, t) = OnTrack(e, v, t)
<1>1. {i \in 1 .. Len(e) : u[e[i]] < t} = {i \in 1 .. Len(e) : v[e[i]] < t}
  OBVIOUS
<1>2. {i \in 1 .. Len(e) : u[e[i]] < t + 1} = {i \in 1 .. Len(e) : v[e[i]] < t + 1}
  OBVIOUS
<1> QED BY <1>1, <1>2 DEF OnTrack, Lower

LEMMA SameSeq ==
  ASSUME NEW a \in Seq(Proc), NEW b \in Seq(Proc), Len(a) = Len(b),
         \A j \in 1 .. Len(a) : a[j] = b[j]
  PROVE  a = b
<1>1. a = [j \in 1 .. Len(a) |-> a[j]] /\ b = [j \in 1 .. Len(b) |-> b[j]]
  OBVIOUS
<1> QED BY <1>1

LEMMA LowerAdded ==
  ASSUME NEW e \in Seq(Proc), NEW n \in 0 .. Len(e), NEW p \in Proc, ~In(e, p),
         NEW u \in [Proc -> Int], Increasing(e, u),
         \A i \in 1 .. n : u[e[i]] <= u[p], n < Len(e) => u[e[n + 1]] > u[p],
         NEW f, f = Added(e, n, p), NEW t \in Int, NEW m, m = Lower(e, u, t)
  PROVE  /\ t <= u[p] => m <= n /\ Lower(f, u, t) = m
         /\ t > u[p] => m >= n /\ Lower(f, u, t) = m + 1
<1>a. Len(e) \in Nat /\ n \in Nat /\ n <= Len(e) /\ f \in Seq(Proc) /\ Len(f) = Len(e) + 1
  BY AddedIs
<1>b. \A i \in 1 .. n : f[i] = e[i]
  BY AddedIs
<1>c. f[n + 1] = p
  BY AddedIs
<1>d. \A i \in n + 2 .. Len(e) + 1 : f[i] = e[i - 1]
  BY AddedIs
<1>m. m \in Nat /\ m <= Len(e)
  BY LowerBounds
<1>n. n \in Nat /\ n <= Len(e) /\ Len(e) \in Nat
  BY <1>a
<1>1. m \in 0 .. Len(e) /\ \A i \in 1 .. Len(e) : i <= m <=> u[e[i]] < t
  BY LowerBounds
<1>2. u[p] \in Int /\ \A i \in 1 .. Len(e) : u[e[i]] \in Int
  OBVIOUS
<1>3. CASE t <= u[p]
  <2>1. m <= n
    <3> SUFFICES ASSUME m > n PROVE FALSE
      BY <1>1
    <3>1. n + 1 \in 1 .. Len(e) /\ n + 1 <= m /\ n < Len(e)
      BY <1>1, <1>a, SMTT(30)
    <3>2. u[e[n + 1]] < t /\ u[e[n + 1]] > u[p] /\ u[e[n + 1]] \in Int
      BY <1>1, <1>2, <3>1
    <3> QED BY <1>2, <1>3, <3>2
  <2>2. m \in 0 .. Len(f)
    BY <1>1, <1>a
  <2>3. ASSUME NEW i \in 1 .. Len(f) PROVE i <= m <=> u[f[i]] < t
    <3>1. CASE i <= n
      <4>1. i \in 1 .. n /\ i \in 1 .. Len(e)
        BY <1>a, <3>1
      <4>2. f[i] = e[i]
        BY <1>b, <4>1
      <4> QED BY <1>1, <4>1, <4>2
    <3>2. CASE i = n + 1
      <4>1. u[f[i]] = u[p] /\ ~(u[p] < t)
        BY <1>2, <1>3, <1>c, <3>2
      <4>2. ~(i <= m)
        BY ONLY <1>m, <1>n, <2>1, <3>2
      <4> QED BY <4>1, <4>2
    <3>3. CASE i > n + 1
      <4>0. i \in 1 .. Len(e) + 1
        BY <1>a
      <4>1. i \in n + 2 .. Len(e) + 1 /\ i - 1 \in 1 .. Len(e) /\ ~(i <= m) /\ ~(i - 1 <= m)
        BY ONLY <1>m, <1>n, <2>1, <3>3, <4>0
      <4>2. f[i] = e[i - 1]
        BY <1>d, <4>1
      <4> QED BY <1>1, <4>1, <4>2
    <3> QED BY <1>a, <3>1, <3>2, <3>3
  <2>4. Lower(f, u, t) = m
    BY <1>a, <2>2, <2>3, LowerIs
  <2> QED BY <1>2, <1>3, <2>1, <2>4
<1>4. CASE t > u[p]
  <2>1. m >= n
    <3>1. CASE n = 0
      BY <1>1, <3>1
    <3>2. CASE n # 0
      <4>1. n \in 1 .. n /\ n \in 1 .. Len(e)
        BY <1>a, <3>2
      <4>2. u[e[n]] <= u[p] /\ u[e[n]] \in Int
        BY <1>2, <4>1
      <4>3. u[e[n]] < t
        BY <1>2, <1>4, <4>2
      <4>4. n <= m
        BY <1>1, <4>1, <4>3
      <4> QED BY <1>1, <1>a, <4>4
    <3> QED BY <3>1, <3>2
  <2>2. m + 1 \in 0 .. Len(f)
    BY <1>1, <1>a
  <2>3. ASSUME NEW i \in 1 .. Len(f) PROVE i <= m + 1 <=> u[f[i]] < t
    <3>1. CASE i <= n
      <4>0. i \in 1 .. Len(e) + 1
        BY <1>a
      <4>1. i \in 1 .. n /\ i \in 1 .. Len(e) /\ i <= m /\ i <= m + 1
        BY ONLY <1>m, <1>n, <2>1, <3>1, <4>0
      <4>2. f[i] = e[i]
        BY <1>b, <4>1
      <4> QED BY <1>1, <4>1, <4>2
    <3>2. CASE i = n + 1
      <4>1. u[f[i]] = u[p] /\ u[p] < t
        BY <1>2, <1>4, <1>c, <3>2
      <4>2. i <= m + 1
        BY ONLY <1>m, <1>n, <2>1, <3>2
      <4> QED BY <4>1, <4>2
    <3>3. CASE i > n + 1
      <4>0. i \in 1 .. Len(e) + 1
        BY <1>a
      <4>1. i \in n + 2 .. Len(e) + 1 /\ i - 1 \in 1 .. Len(e) /\ (i <= m + 1 <=> i - 1 <= m)
        BY ONLY <1>m, <1>n, <2>1, <3>3, <4>0
      <4>2. f[i] = e[i - 1]
        BY <1>d, <4>1
      <4> QED BY <1>1, <4>1, <4>2
    <3> QED BY <1>a, <3>1, <3>2, <3>3
  <2>4. Lower(f, u, t) = m + 1
    BY <1>a, <2>2, <2>3, LowerIs
  <2> QED BY <1>2, <1>4, <2>1, <2>4
<1> QED BY <1>2, <1>3, <1>4

\* The new entry is the last of its track.
LEMMA StretchAdded ==
  ASSUME NEW e \in Seq(Proc), NEW u \in [Proc -> Int], Increasing(e, u),
         NEW p \in Proc, ~In(e, p), NEW f, Inserted(e, f, u, p), NEW t \in Int
  PROVE  OnTrack(f, u, t) = IF t = u[p] THEN Append(OnTrack(e, u, t), p) ELSE OnTrack(e, u, t)
<1>0. PICK n \in 0 .. Len(e) :
        /\ f = Added(e, n, p)
        /\ \A i \in 1 .. n : u[e[i]] <= u[p]
        /\ n < Len(e) => u[e[n + 1]] > u[p]
  BY DEF Inserted
<1>a. Len(e) \in Nat /\ n \in Nat /\ n <= Len(e) /\ f \in Seq(Proc) /\ Len(f) = Len(e) + 1
  BY <1>0, AddedIs
<1>b. \A i \in 1 .. n : f[i] = e[i]
  BY <1>0, AddedIs
<1>c. f[n + 1] = p
  BY <1>0, AddedIs
<1>d. \A i \in n + 2 .. Len(e) + 1 : f[i] = e[i - 1]
  BY <1>0, AddedIs
<1>1. Increasing(f, u)
  BY <1>0, AddedIncreasing
<1>2. u[p] \in Int /\ t + 1 \in Int
  OBVIOUS
<1>3. PICK lo : lo = Lower(e, u, t)
  OBVIOUS
<1>4. PICK hi : hi = Lower(e, u, t + 1)
  OBVIOUS
<1>5. PICK lo2 : lo2 = Lower(f, u, t)
  OBVIOUS
<1>6. PICK hi2 : hi2 = Lower(f, u, t + 1)
  OBVIOUS
<1>7. PICK a : a = OnTrack(e, u, t)
  OBVIOUS
<1>8. PICK b : b = OnTrack(f, u, t)
  OBVIOUS
<1>9. Stretch(e, u, t, lo, hi, a)
  BY <1>3, <1>4, <1>7, OnTrackIs
<1>10. Stretch(f, u, t, lo2, hi2, b)
  <2>1. f \in Seq(Proc)
    BY <1>a
  <2> QED BY <2>1, <1>1, <1>5, <1>6, <1>8, OnTrackIs
<1>e. a \in Seq(Proc) /\ \A j \in 1 .. hi - lo : a[j] = e[lo + j]
  BY <1>9 DEF Stretch
<1>f. b \in Seq(Proc) /\ \A j \in 1 .. hi2 - lo2 : b[j] = f[lo2 + j]
  BY <1>10 DEF Stretch
<1>l. lo \in Nat /\ hi \in Nat /\ lo <= hi /\ hi <= Len(e) /\ Len(a) = hi - lo /\ Len(a) \in Nat
  BY <1>9, <1>a DEF Stretch
<1>m. lo2 \in Nat /\ hi2 \in Nat /\ lo2 <= hi2 /\ hi2 <= Len(e) + 1 /\ Len(b) = hi2 - lo2 /\ Len(b) \in Nat
  BY <1>10, <1>a DEF Stretch
<1>11. /\ t <= u[p] => lo <= n /\ lo2 = lo
       /\ t > u[p] => lo >= n /\ lo2 = lo + 1
  BY <1>0, <1>3, <1>5, LowerAdded
<1>12. /\ t + 1 <= u[p] => hi <= n /\ hi2 = hi
       /\ t + 1 > u[p] => hi >= n /\ hi2 = hi + 1
  BY <1>0, <1>2, <1>4, <1>6, LowerAdded
<1>13. CASE t < u[p]
  <2>1. lo2 = lo /\ hi2 = hi /\ hi <= n
    BY <1>2, <1>11, <1>12, <1>13
  <2>2. ASSUME NEW j \in 1 .. Len(a) PROVE a[j] = b[j]
    <3>1. j \in 1 .. hi - lo /\ lo + j \in 1 .. n
      BY <1>l, <1>a, <2>1
    <3> QED BY <1>e, <1>f, <1>b, <2>1, <3>1
  <2>4. Len(a) = Len(b)
    BY <1>l, <1>m, <2>1
  <2>3. a = b
    BY <1>e, <1>f, <2>4, <2>2, SameSeq
  <2> QED BY <1>2, <1>7, <1>8, <1>13, <2>3
<1>14. CASE t > u[p]
  <2>1. lo2 = lo + 1 /\ hi2 = hi + 1 /\ lo >= n
    BY <1>2, <1>11, <1>12, <1>14
  <2>0. Len(b) = Len(a)
    BY <1>l, <1>m, <2>1
  <2>2. ASSUME NEW j \in 1 .. Len(a) PROVE a[j] = b[j]
    <3>1. /\ j \in 1 .. hi - lo /\ j \in 1 .. hi2 - lo2
          /\ lo2 + j \in n + 2 .. Len(e) + 1 /\ (lo2 + j) - 1 = lo + j
      BY <1>l, <1>m, <1>a, <2>1, SMTT(30)
    <3>2. b[j] = f[lo2 + j] /\ f[lo2 + j] = e[(lo2 + j) - 1] /\ a[j] = e[lo + j]
      BY <1>e, <1>f, <1>d, <3>1
    <3> QED BY <3>1, <3>2
  <2>3. a = b
    BY <1>e, <1>f, <2>0, <2>2, SameSeq
  <2> QED BY <1>2, <1>7, <1>8, <1>14, <2>3
<1>15. CASE t = u[p]
  <2>1. lo2 = lo /\ lo <= n /\ hi2 = hi + 1 /\ hi >= n
    BY <1>2, <1>11, <1>12, <1>15
  <2>2. hi = n
    <3>1. hi > n => n + 1 \in 1 .. Len(e) /\ n + 1 <= hi /\ n < Len(e)
      BY <1>l, <1>a
    <3>2. \A i \in 1 .. Len(e) : i <= hi <=> u[e[i]] < t + 1
      BY <1>2, <1>4, LowerBounds
    <3>3. n + 1 \in 1 .. Len(e) => u[e[n + 1]] \in Int
      OBVIOUS
    <3>4. ~(hi > n)
      BY <1>0, <1>2, <1>15, <3>1, <3>2, <3>3
    <3> QED BY <1>l, <1>a, <2>1, <3>4
  <2>3. PICK c : c = Append(a, p)
    OBVIOUS
  <2>4. c \in Seq(Proc) /\ Len(c) = Len(a) + 1 /\ c[Len(a) + 1] = p /\ \A j \in 1 .. Len(a) : c[j] = a[j]
    <3>1. a \in Seq(Proc)
      BY <1>e
    <3> QED BY ONLY <2>3, <3>1, p \in Proc, SMTT(30)
  <2>5. Len(b) = Len(c)
    BY <1>l, <1>m, <2>1, <2>4
  <2>6. ASSUME NEW j \in 1 .. Len(c) PROVE c[j] = b[j]
    <3>1. CASE j <= Len(a)
      <4>1. j \in 1 .. Len(a) /\ j \in 1 .. hi - lo /\ j \in 1 .. hi2 - lo2 /\ lo + j \in 1 .. n
        BY <1>l, <1>m, <1>a, <2>1, <2>2, <2>4, <3>1
      <4>2. a[j] = e[lo + j] /\ b[j] = f[lo2 + j] /\ f[lo + j] = e[lo + j] /\ c[j] = a[j]
        BY <1>e, <1>f, <1>b, <2>4, <4>1
      <4> QED BY <2>1, <4>2
    <3>2. CASE j = Len(a) + 1
      <4>1. j \in 1 .. hi2 - lo2 /\ lo2 + j = n + 1
        BY <1>l, <1>m, <1>a, <2>1, <2>2, <3>2
      <4>2. b[j] = f[lo2 + j]
        BY <1>f, <4>1
      <4> QED BY <1>c, <2>4, <3>2, <4>1, <4>2
    <3> QED BY <1>l, <2>4, <3>1, <3>2
  <2>7. c = b
    BY <1>f, <2>4, <2>5, <2>6, SameSeq
  <2> QED BY <1>7, <1>8, <1>15, <2>3, <2>7
<1> QED BY <1>2, <1>13, <1>14, <1>15

LEMMA LowerRemoved ==
  ASSUME NEW e \in Seq(Proc), NEW k \in 1 .. Len(e), NEW u \in [Proc -> Int], Increasing(e, u),
         NEW f, f = Removed(e, k), NEW v, v = u[e[k]], Lower(e, u, v) = k - 1,
         NEW t \in Int, NEW m, m = Lower(e, u, t)
  PROVE  /\ t <= v => m <= k - 1 /\ Lower(f, u, t) = m
         /\ t > v => m >= k /\ Lower(f, u, t) = m - 1
<1>0. Len(e) \in Nat /\ k \in Nat /\ 1 <= k /\ k <= Len(e)
  BY ONLY e \in Seq(Proc), k \in 1 .. Len(e)
<1>2. f \in Seq(Proc) /\ Len(f) = Len(e) - 1
  BY ONLY e \in Seq(Proc), k \in 1 .. Len(e), f = Removed(e, k), RemovedIs
<1>1. Len(e) \in Nat /\ Len(f) = Len(e) - 1 /\ k \in Nat /\ 1 <= k /\ k <= Len(e)
  BY <1>0, <1>2
<1>3. \A i \in 1 .. Len(f) : From(i, k) \in 1 .. Len(e) /\ f[i] = e[From(i, k)]
  BY ONLY e \in Seq(Proc), k \in 1 .. Len(e), f = Removed(e, k), RemovedFrom, SMTT(30)
<1>4. m \in 0 .. Len(e) /\ \A i \in 1 .. Len(e) : i <= m <=> u[e[i]] < t
  BY LowerBounds
<1>5. v \in Int /\ \A i \in 1 .. Len(e) : u[e[i]] \in Int
  OBVIOUS
<1>6. m \in Nat /\ m <= Len(e)
  BY <1>1, <1>4
<1>7. \A i \in 1 .. Len(e) : i <= k - 1 <=> u[e[i]] < v
  BY <1>5, LowerBounds
<1>8. CASE t <= v
  <2>1. ~(u[e[k]] < t)
    BY <1>5, <1>8
  <2>2. ~(k <= m)
    BY <1>4, <2>1
  <2>3. m <= k - 1
    BY ONLY <1>1, <1>6, <2>2
  <2>4. ASSUME NEW i \in 1 .. Len(f) PROVE i <= m <=> u[f[i]] < t
    <3>1. From(i, k) \in 1 .. Len(e) /\ f[i] = e[From(i, k)]
      BY <1>3
    <3>2. From(i, k) <= m <=> u[f[i]] < t
      BY <1>4, <3>1
    <3>3. i \in Nat
      BY <1>1
    <3>4. From(i, k) <= m <=> i <= m
      BY ONLY <1>1, <1>6, <2>3, <3>3 DEF From
    <3> QED BY <3>2, <3>4
  <2>5. m \in 0 .. Len(f)
    BY ONLY <1>1, <1>6, <2>3
  <2>6. Lower(f, u, t) = m
    BY <1>2, <2>4, <2>5, LowerIs
  <2> QED BY <1>5, <1>8, <2>3, <2>6
<1>9. CASE t > v
  <2>1. u[e[k]] < t
    BY <1>9
  <2>2. k <= m
    BY <1>4, <2>1
  <2>4. ASSUME NEW i \in 1 .. Len(f) PROVE i <= m - 1 <=> u[f[i]] < t
    <3>1. From(i, k) \in 1 .. Len(e) /\ f[i] = e[From(i, k)]
      BY <1>3
    <3>2. From(i, k) <= m <=> u[f[i]] < t
      BY <1>4, <3>1
    <3>3. i \in Nat
      BY <1>1
    <3>4. From(i, k) <= m <=> i <= m - 1
      BY ONLY <1>1, <1>6, <2>2, <3>3 DEF From
    <3> QED BY <3>2, <3>4
  <2>5. m - 1 \in 0 .. Len(f)
    BY ONLY <1>1, <1>6, <2>2
  <2>6. Lower(f, u, t) = m - 1
    BY <1>2, <2>4, <2>5, LowerIs
  <2> QED BY <1>1, <1>5, <1>6, <1>9, <2>2, <2>6
<1> QED BY <1>5, <1>8, <1>9

\* The entry that leaves is the first of its track.
LEMMA StretchRemoved ==
  ASSUME NEW e \in Seq(Proc), NEW k \in 1 .. Len(e), NEW u \in [Proc -> Int], Increasing(e, u),
         NEW f, f = Removed(e, k), NEW v, v = u[e[k]], Lower(e, u, v) = k - 1, NEW t \in Int
  PROVE  OnTrack(f, u, t) = IF t = v THEN Tail(OnTrack(e, u, t)) ELSE OnTrack(e, u, t)
<1>a. Len(e) \in Nat /\ Len(f) = Len(e) - 1 /\ k \in Nat /\ 1 <= k /\ k <= Len(e)
  BY RemovedIs
<1>b. f \in Seq(Proc)
  BY RemovedIs
<1>c. \A i \in 1 .. k - 1 : f[i] = e[i]
  BY RemovedIs
<1>d. \A i \in k .. Len(e) - 1 : f[i] = e[i + 1]
  BY RemovedIs
<1>1. Increasing(f, u)
  BY RemovedIncreasing
<1>2. v \in Int /\ t + 1 \in Int
  OBVIOUS
<1>3. PICK lo : lo = Lower(e, u, t)
  OBVIOUS
<1>4. PICK hi : hi = Lower(e, u, t + 1)
  OBVIOUS
<1>5. PICK lo2 : lo2 = Lower(f, u, t)
  OBVIOUS
<1>6. PICK hi2 : hi2 = Lower(f, u, t + 1)
  OBVIOUS
<1>7. PICK a : a = OnTrack(e, u, t)
  OBVIOUS
<1>8. PICK b : b = OnTrack(f, u, t)
  OBVIOUS
<1>9. Stretch(e, u, t, lo, hi, a)
  BY <1>3, <1>4, <1>7, OnTrackIs
<1>10. Stretch(f, u, t, lo2, hi2, b)
  BY <1>b, <1>1, <1>5, <1>6, <1>8, OnTrackIs
<1>e. a \in Seq(Proc) /\ \A j \in 1 .. hi - lo : a[j] = e[lo + j]
  BY <1>9 DEF Stretch
<1>f. b \in Seq(Proc) /\ \A j \in 1 .. hi2 - lo2 : b[j] = f[lo2 + j]
  BY <1>10 DEF Stretch
<1>l. lo \in Nat /\ hi \in Nat /\ lo <= hi /\ hi <= Len(e) /\ Len(a) = hi - lo /\ Len(a) \in Nat
  BY <1>9, <1>a DEF Stretch
<1>m. lo2 \in Nat /\ hi2 \in Nat /\ lo2 <= hi2 /\ hi2 <= Len(f) /\ Len(b) = hi2 - lo2 /\ Len(b) \in Nat
  BY <1>10, <1>a DEF Stretch
<1>11. /\ t <= v => lo <= k - 1 /\ lo2 = lo
       /\ t > v => lo >= k /\ lo2 = lo - 1
  BY <1>3, <1>5, LowerRemoved
<1>12. /\ t + 1 <= v => hi <= k - 1 /\ hi2 = hi
       /\ t + 1 > v => hi >= k /\ hi2 = hi - 1
  BY <1>2, <1>4, <1>6, LowerRemoved
<1>13. CASE t < v
  <2>1. lo2 = lo /\ hi2 = hi /\ hi <= k - 1
    BY <1>2, <1>11, <1>12, <1>13
  <2>2. ASSUME NEW j \in 1 .. Len(a) PROVE a[j] = b[j]
    <3>1. j \in 1 .. hi - lo /\ lo + j \in 1 .. k - 1
      BY <1>l, <1>a, <2>1
    <3> QED BY <1>e, <1>f, <1>c, <2>1, <3>1
  <2>3. Len(a) = Len(b)
    BY <1>l, <1>m, <2>1
  <2>4. a = b
    BY <1>e, <1>f, <2>2, <2>3, SameSeq
  <2> QED BY <1>2, <1>7, <1>8, <1>13, <2>4
<1>14. CASE t > v
  <2>1. lo2 = lo - 1 /\ hi2 = hi - 1 /\ lo >= k
    BY <1>2, <1>11, <1>12, <1>14
  <2>2. Len(a) = Len(b)
    BY <1>l, <1>m, <2>1
  <2>3. ASSUME NEW j \in 1 .. Len(a) PROVE a[j] = b[j]
    <3>1. /\ j \in 1 .. hi - lo /\ j \in 1 .. hi2 - lo2
          /\ lo2 + j \in k .. Len(e) - 1 /\ (lo2 + j) + 1 = lo + j
      BY <1>l, <1>m, <1>a, <2>1
    <3>2. b[j] = f[lo2 + j] /\ f[lo2 + j] = e[(lo2 + j) + 1] /\ a[j] = e[lo + j]
      BY <1>e, <1>f, <1>d, <3>1
    <3> QED BY <3>1, <3>2
  <2>4. a = b
    BY <1>e, <1>f, <2>2, <2>3, SameSeq
  <2> QED BY <1>2, <1>7, <1>8, <1>14, <2>4
<1>15. CASE t = v
  <2>1. lo2 = lo /\ lo = k - 1 /\ hi2 = hi - 1 /\ hi >= k
    BY <1>2, <1>3, <1>11, <1>12, <1>15
  <2>2. PICK c : c = Tail(a)
    OBVIOUS
  <2>3. a \in Seq(Proc) /\ a # <<>> /\ Len(a) >= 1
    <3>1. Len(a) >= 1
      BY <1>l, <1>a, <2>1
    <3> QED BY <1>e, <3>1
  <2>4. c \in Seq(Proc) /\ Len(c) = Len(a) - 1 /\ \A j \in 1 .. Len(a) - 1 : c[j] = a[j + 1]
    BY ONLY <2>2, <2>3
  <2>5. Len(c) = Len(b)
    BY <1>l, <1>m, <2>1, <2>4
  <2>6. ASSUME NEW j \in 1 .. Len(c) PROVE c[j] = b[j]
    <3>1. /\ j \in 1 .. Len(a) - 1 /\ j + 1 \in 1 .. hi - lo /\ j \in 1 .. hi2 - lo2
          /\ lo2 + j \in k .. Len(e) - 1 /\ (lo2 + j) + 1 = lo + (j + 1)
      BY <1>l, <1>m, <1>a, <2>1, <2>4
    <3>2. c[j] = a[j + 1] /\ a[j + 1] = e[lo + (j + 1)]
      BY <1>e, <2>4, <3>1
    <3>3. b[j] = f[lo2 + j] /\ f[lo2 + j] = e[(lo2 + j) + 1]
      BY <1>f, <1>d, <3>1
    <3> QED BY <3>1, <3>2, <3>3
  <2>7. c = b
    BY <1>f, <2>4, <2>5, <2>6, SameSeq
  <2> QED BY <1>7, <1>8, <1>15, <2>2, <2>7
<1> QED BY <1>2, <1>13, <1>14, <1>15

-----------------------------------------------------------------------------
\* c is the first of the entries of its track.
First(e, u, c) == OnTrack(e, u, u[c]) # <<>> /\ Head(OnTrack(e, u, u[c])) = c

\* What the abstract scan sees of e.
Stretches(e, u) == [t \in 0 .. NTracks |-> OnTrack(e, u, t)]

OnDisk(e, u) == \A i \in 1 .. Len(e) : u[e[i]] \in 0 .. NTracks

LEMMA FirstHeads ==
  ASSUME NEW e \in Seq(Proc), NEW u \in [Proc -> Int], Increasing(e, u), NEW k \in 1 .. Len(e),
         NEW t, t = u[e[k]], Lower(e, u, t) = k - 1
  PROVE  OnTrack(e, u, t) # <<>> /\ Head(OnTrack(e, u, t)) = e[k]
<1>1. PICK hi : hi = Lower(e, u, t + 1)
  OBVIOUS
<1>2. PICK a : a = OnTrack(e, u, t)
  OBVIOUS
<1>3. PICK lo : lo = k - 1
  OBVIOUS
<1>4. t \in Int
  OBVIOUS
<1>5. Stretch(e, u, t, lo, hi, a)
  BY <1>1, <1>2, <1>3, <1>4, OnTrackIs
<1>6. k \in lo + 1 .. hi
  BY <1>5 DEF Stretch
<1>7. lo \in Int /\ hi \in Int /\ k \in Int /\ Len(a) = hi - lo
  BY <1>5, <1>3 DEF Stretch
<1>8. 1 \in 1 .. hi - lo /\ Len(a) >= 1 /\ lo + 1 = k
  BY <1>3, <1>6, <1>7
<1>9. a[1] = e[k]
  <2>1. a[1] = e[lo + 1]
    BY <1>5, <1>8 DEF Stretch
  <2> QED BY <1>8, <2>1
<1>10. a # <<>> /\ Head(a) = a[1]
  <2>1. a \in Seq(Proc)
    BY <1>5 DEF Stretch
  <2> QED BY <1>8, <2>1
<1> QED BY <1>2, <1>9, <1>10

\* Whoever is in a stretch is in e, and the first there is the first of its track.
LEMMA HeadIsFirst ==
  ASSUME NEW e \in Seq(Proc), NEW u \in [Proc -> Int], Increasing(e, u), NEW t \in Int,
         OnTrack(e, u, t) # <<>>
  PROVE  \E k \in 1 .. Len(e) :
           u[e[k]] = t /\ e[k] = Head(OnTrack(e, u, t)) /\ Lower(e, u, t) = k - 1
<1>1. PICK lo : lo = Lower(e, u, t)
  OBVIOUS
<1>2. PICK hi : hi = Lower(e, u, t + 1)
  OBVIOUS
<1>3. PICK a : a = OnTrack(e, u, t)
  OBVIOUS
<1>4. Stretch(e, u, t, lo, hi, a)
  BY <1>1, <1>2, <1>3, OnTrackIs
<1>5. a \in Seq(Proc) /\ a # <<>> /\ Len(a) # 0 /\ Head(a) = a[1]
  BY <1>3, <1>4 DEF Stretch
<1>6. lo \in Nat /\ hi \in Nat /\ lo <= hi /\ hi <= Len(e) /\ Len(a) = hi - lo /\ Len(e) \in Nat
  BY <1>4 DEF Stretch
<1>7. /\ lo + 1 \in 1 .. Len(e) /\ lo + 1 \in lo + 1 .. hi /\ 1 \in 1 .. hi - lo
      /\ (lo + 1) - 1 = lo
  BY <1>5, <1>6
<1>8. u[e[lo + 1]] = t /\ a[1] = e[lo + 1]
  BY <1>4, <1>7 DEF Stretch
<1> QED BY <1>1, <1>3, <1>5, <1>7, <1>8

LEMMA InStretch ==
  ASSUME NEW e \in Seq(Proc), NEW u \in [Proc -> Int], Increasing(e, u), NEW t \in Int,
         NEW i \in DOMAIN OnTrack(e, u, t)
  PROVE  In(e, OnTrack(e, u, t)[i])
<1>1. PICK lo : lo = Lower(e, u, t)
  OBVIOUS
<1>2. PICK hi : hi = Lower(e, u, t + 1)
  OBVIOUS
<1>3. PICK a : a = OnTrack(e, u, t)
  OBVIOUS
<1>4. Stretch(e, u, t, lo, hi, a)
  BY <1>1, <1>2, <1>3, OnTrackIs
<1>5. lo \in Nat /\ hi \in Nat /\ lo <= hi /\ hi <= Len(e) /\ Len(a) = hi - lo /\ Len(e) \in Nat
  BY <1>4 DEF Stretch
<1>6. i \in 1 .. Len(a)
  <2>1. a \in Seq(Proc)
    BY <1>4 DEF Stretch
  <2> QED BY <1>3, <2>1
<1>7. i \in 1 .. hi - lo /\ lo + i \in 1 .. Len(e)
  BY <1>5, <1>6
<1>8. a[i] = e[lo + i]
  BY <1>4, <1>7 DEF Stretch
<1> QED BY <1>3, <1>7, <1>8 DEF In

LEMMA SomeOnTrack ==
  ASSUME NEW e \in Seq(Proc), NEW u \in [Proc -> Int], Increasing(e, u), NEW t \in Int,
         OnTrack(e, u, t) # <<>>
  PROVE  \E i \in 1 .. Len(e) : u[e[i]] = t
BY HeadIsFirst

\* The first entry at from or further out, or else the first.
NearestAt(e, n) == IF n < Len(e) THEN n + 1 ELSE 1

LEMMA NearestNone ==
  ASSUME NEW e, e = <<>>, NEW u \in [Proc -> Int], NEW from \in Int
  PROVE  /\ Stretches(e, u) = [t \in 0 .. NTracks |-> <<>>]
         /\ Scan!Nearest(Stretches(e, u), from) = NULL /\ Scan!Tracks(Stretches(e, u)) = {}
<1>1. e \in Seq(Proc) /\ Len(e) = 0 /\ Increasing(e, u)
  BY DEF Increasing
<1>2. \A t \in 0 .. NTracks : OnTrack(e, u, t) = <<>>
  <2> SUFFICES ASSUME NEW t \in 0 .. NTracks, OnTrack(e, u, t) # <<>> PROVE FALSE
    OBVIOUS
  <2>1. t \in Int
    BY DiskDriverAssumption
  <2>2. \E i \in 1 .. Len(e) : u[e[i]] = t
    BY <1>1, <2>1, SomeOnTrack
  <2> QED BY <1>1, <2>2
<1>3. Stretches(e, u) = [t \in 0 .. NTracks |-> <<>>]
  BY <1>2 DEF Stretches
<1>4. Scan!Tracks(Stretches(e, u)) = {}
  BY <1>3 DEF Scan!Tracks
<1> QED BY <1>3, <1>4 DEF Scan!Nearest

LEMMA NearestIs ==
  ASSUME NEW e \in Seq(Proc), NEW u \in [Proc -> Int], Increasing(e, u), OnDisk(e, u),
         Len(e) # 0, NEW from \in Int, NEW k, k = NearestAt(e, Lower(e, u, from))
  PROVE  /\ k \in 1 .. Len(e)
         /\ Scan!Nearest(Stretches(e, u), from) = e[k] /\ First(e, u, e[k])
         /\ Scan!Tracks(Stretches(e, u)) # {}
<1>1. PICK n : n = Lower(e, u, from)
  OBVIOUS
<1>2. n \in 0 .. Len(e) /\ \A i \in 1 .. Len(e) : i <= n <=> u[e[i]] < from
  BY <1>1, LowerBounds
<1>3. Len(e) \in Nat \ {0} /\ n \in Nat /\ n <= Len(e) /\ k = NearestAt(e, n)
  BY <1>1, <1>2
<1>4. k \in 1 .. Len(e) /\ k \in Nat /\ (k = n + 1 \/ (k = 1 /\ n = Len(e)))
  BY <1>3 DEF NearestAt
<1>5. PICK t : t = u[e[k]]
  OBVIOUS
<1>6. t \in 0 .. NTracks /\ t \in Int /\ NTracks \in Nat
  BY <1>4, <1>5, DiskDriverAssumption DEF OnDisk
<1>7. \A i \in 1 .. Len(e) : u[e[i]] \in Int /\ u[e[i]] \in 0 .. NTracks
  BY DEF OnDisk
<1>8. \A i \in 1 .. Len(e) : i <= k - 1 <=> u[e[i]] < t
  <2> SUFFICES ASSUME NEW i \in 1 .. Len(e) PROVE i <= k - 1 <=> u[e[i]] < t
    OBVIOUS
  <2>1. CASE i <= k - 1
    <3>1. k = n + 1 /\ i <= n /\ ~(k <= n)
      BY <1>3, <1>4, <2>1
    <3>2. u[e[i]] < from /\ ~(t < from)
      BY <1>2, <1>4, <1>5, <3>1
    <3> QED BY <1>6, <1>7, <2>1, <3>2
  <2>2. CASE ~(i <= k - 1)
    <3>1. i = k \/ k < i
      BY <1>4, <2>2
    <3>2. t <= u[e[i]]
      BY <1>4, <1>5, <1>6, <3>1 DEF Increasing
    <3> QED BY <1>6, <1>7, <2>2, <3>2
  <2> QED BY <2>1, <2>2
<1>9. Lower(e, u, t) = k - 1
  <2>1. k - 1 \in 0 .. Len(e)
    BY <1>3, <1>4
  <2> QED BY <1>8, <2>1, LowerIs
<1>10. OnTrack(e, u, t) # <<>> /\ Head(OnTrack(e, u, t)) = e[k]
  BY <1>4, <1>5, <1>9, FirstHeads
<1>11. PICK W : W = Stretches(e, u)
  OBVIOUS
<1>12. \A x \in 0 .. NTracks : W[x] = OnTrack(e, u, x)
  BY <1>11 DEF Stretches
<1>13. t \in Scan!Tracks(W) /\ Head(W[t]) = e[k]
  BY <1>6, <1>10, <1>12 DEF Scan!Tracks
<1>14. ASSUME NEW x \in Scan!Tracks(W)
       PROVE  x \in Int /\ \E i \in 1 .. Len(e) : u[e[i]] = x
  <2>1. x \in 0 .. NTracks /\ OnTrack(e, u, x) # <<>>
    BY <1>12 DEF Scan!Tracks
  <2>2. x \in Int
    BY <1>6, <2>1
  <2> QED BY <2>1, <2>2, SomeOnTrack
<1>15. PICK ahead : ahead = {x \in Scan!Tracks(W) : x >= from}
  OBVIOUS
<1>16. PICK among : among = IF ahead = {} THEN Scan!Tracks(W) ELSE ahead
  OBVIOUS
<1>17. t \in among /\ \A x \in among : x \in Int /\ t <= x
  <2>1. CASE n < Len(e)
    <3>1. k = n + 1
      BY <1>3, <2>1 DEF NearestAt
    <3>2. ~(k <= n)
      BY <1>3, <3>1
    <3>3. t >= from
      BY <1>2, <1>4, <1>5, <1>6, <3>2
    <3>4. among = ahead /\ t \in among
      BY <1>13, <1>15, <1>16, <3>3
    <3>5. ASSUME NEW x \in among PROVE x \in Int /\ t <= x
      <4>1. x \in Scan!Tracks(W) /\ x >= from
        BY <1>15, <3>4
      <4>2. PICK i \in 1 .. Len(e) : u[e[i]] = x
        BY <1>14, <4>1
      <4>3. x \in Int
        BY <1>14, <4>1
      <4>4. ~(i <= n)
        BY <1>2, <4>1, <4>2, <4>3
      <4>5. i = k \/ k < i
        BY <1>3, <3>1, <4>4
      <4> QED BY <1>4, <1>5, <1>6, <4>2, <4>3, <4>5 DEF Increasing
    <3> QED BY <3>4, <3>5
  <2>2. CASE n = Len(e)
    <3>1. k = 1
      BY <1>3, <2>2 DEF NearestAt
    <3>2. ahead = {}
      <4> SUFFICES ASSUME NEW x \in Scan!Tracks(W), x >= from PROVE FALSE
        BY <1>15
      <4>1. PICK i \in 1 .. Len(e) : u[e[i]] = x
        BY <1>14
      <4>2. x \in Int /\ i <= n
        BY <1>14, <2>2
      <4>3. u[e[i]] < from
        BY <1>2, <4>2
      <4> QED BY <4>1, <4>2, <4>3
    <3>3. ASSUME NEW x \in among PROVE x \in Int /\ t <= x
      <4>1. x \in Scan!Tracks(W)
        BY <1>16, <3>2
      <4>2. PICK i \in 1 .. Len(e) : u[e[i]] = x
        BY <1>14, <4>1
      <4>3. x \in Int
        BY <1>14, <4>1
      <4>4. i = k \/ k < i
        BY <3>1
      <4> QED BY <1>4, <1>5, <1>6, <4>2, <4>3, <4>4 DEF Increasing
    <3> QED BY <1>13, <1>16, <3>2, <3>3
  <2> QED BY <1>3, <2>1, <2>2
<1>18. (CHOOSE x \in among : \A y \in among : x <= y) = t
  <2>1. \A x \in among : (\A y \in among : x <= y) => x = t
    BY <1>6, <1>17
  <2> QED BY <1>17, <2>1
<1>19. Scan!Nearest(W, from) = Head(W[t])
  <2>1. among # {}
    BY <1>17
  <2>2. Scan!Nearest(W, from)
          = IF among = {} THEN NULL ELSE Head(W[CHOOSE x \in among : \A y \in among : x <= y])
    BY <1>15, <1>16 DEF Scan!Nearest
  <2> QED BY <1>18, <2>1, <2>2
<1>20. First(e, u, e[k])
  BY <1>5, <1>10 DEF First
<1> QED BY <1>4, <1>11, <1>13, <1>19, <1>20

-----------------------------------------------------------------------------
(***************************************************************************)
(* The operations of the queue as those of the scan.                       *)
(***************************************************************************)

\* The served process is the first of its track, and all tracks are on the disk.
ScanInv(q, u) ==
  OnDisk(Entries(q), u) /\ (q.curr # NULL => First(Entries(q), u, q.curr))

\* What happens to the stretches w when p joins track v, and when its first leaves.
Joined(w, v, p) == [w EXCEPT ![v] = Append(@, p)]
Parted(w, v) == [w EXCEPT ![v] = Tail(@)]

LEMMA AddScan ==
  ASSUME NEW q, NEW e, Chain(q, e), NEW t \in [Proc -> Int], Increasing(e, t), ScanInv(q, t),
         NEW p \in Proc, ~In(e, p), NEW v \in 0 .. NTracks,
         NEW u \in [Proc -> Int], u[p] = v, \A x \in Proc : x # p => u[x] = t[x],
         NEW r, r = add_disk_queue(q, u, p), NEW f, f = Entries(r)
  PROVE  /\ Stretches(f, u) = Joined(Stretches(e, t), v, p)
         /\ ScanInv(r, u) /\ r.curr = q.curr
<1>1. e \in Seq(Proc) /\ Entries(q) = e /\ q \in Queue
  BY EntriesAre, ChainParts
<1>3. u \in [Proc -> Int] /\ u[p] = v /\ \A x \in Proc : x # p => u[x] = t[x]
  OBVIOUS
<1>4. \A i \in 1 .. Len(e) : e[i] \in Proc /\ e[i] # p
  BY <1>1 DEF In
<1>5. \A i \in 1 .. Len(e) : u[e[i]] = t[e[i]]
  BY <1>3, <1>4
<1>6. Increasing(e, u)
  BY <1>5 DEF Increasing
<1>7. PICK g : /\ Chain(r, g) /\ Increasing(g, u) /\ Inserted(e, g, u, p)
               /\ \A x : In(g, x) <=> In(e, x) \/ x = p
  <2>1. u \in [Proc -> Int]
    BY <1>3
  <2> QED BY ONLY Chain(q, e), <2>1, <1>6, p \in Proc, ~In(e, p), r = add_disk_queue(q, u, p), AddChain
<1>8. f = g
  BY <1>7, EntriesAre
<1>9. /\ f \in Seq(Proc) /\ Increasing(f, u) /\ Inserted(e, f, u, p)
      /\ \A x : In(f, x) <=> In(e, x) \/ x = p
  <2>1. g \in Seq(Proc)
    BY <1>7, ChainParts
  <2> QED BY <1>7, <1>8, <2>1
<1>10. ASSUME NEW x \in Int
       PROVE  OnTrack(f, u, x) = IF x = v THEN Append(OnTrack(e, t, x), p) ELSE OnTrack(e, t, x)
  <2>1. OnTrack(e, u, x) = OnTrack(e, t, x)
    BY ONLY <1>1, <1>5, SameStretch, SMTT(30)
  <2>2. OnTrack(f, u, x) = IF x = v THEN Append(OnTrack(e, u, x), p) ELSE OnTrack(e, u, x)
    <3>1. u \in [Proc -> Int] /\ u[p] = v
      BY <1>3
    <3>2. Inserted(e, f, u, p)
      BY <1>9
    <3> QED BY ONLY <1>1, <3>1, <1>6, p \in Proc, ~In(e, p), <3>2, x \in Int, StretchAdded
  <2> QED BY <2>1, <2>2
<1>11. Stretches(f, u) = Joined(Stretches(e, t), v, p)
  <2>1. \A x \in 0 .. NTracks : x \in Int
    BY ONLY DiskDriverAssumption
  <2> QED BY <1>10, <2>1 DEF Stretches, Joined
<1>12. OnDisk(f, u)
  <2> SUFFICES ASSUME NEW i \in 1 .. Len(f) PROVE u[f[i]] \in 0 .. NTracks
    BY DEF OnDisk
  <2>1. In(e, f[i]) \/ f[i] = p
    BY <1>9 DEF In
  <2>2. CASE In(e, f[i])
    <3>1. PICK j \in 1 .. Len(e) : e[j] = f[i]
      BY <2>2 DEF In
    <3> QED BY <1>1, <1>5, <3>1 DEF ScanInv, OnDisk
  <2> QED BY <1>3, <2>1, <2>2
<1>13. r.curr = q.curr
  BY <1>1, AddCurr
<1>14. ASSUME q.curr # NULL PROVE First(f, u, q.curr)
  <2>1. PICK c : c = q.curr
    OBVIOUS
  <2>2. c \in Proc /\ c # p /\ First(e, t, c)
    <3>1. In(e, c)
      BY <1>14, <2>1, ChainParts
    <3> QED BY <1>1, <1>4, <1>14, <2>1, <3>1 DEF In, ScanInv
  <2>3. u[c] = t[c] /\ u[c] \in Int
    BY <1>3, <2>2
  <2>4. PICK a : a = OnTrack(e, t, t[c])
    OBVIOUS
  <2>5. a # <<>> /\ Head(a) = c
    BY <2>2, <2>4 DEF First
  <2>6. a \in Seq(Proc)
    BY <1>1, <2>3, <2>4, OnTrackIs DEF Stretch
  <2>7. Append(a, p) # <<>> /\ Head(Append(a, p)) = c
    BY <2>5, <2>6
  <2>8. OnTrack(f, u, u[c]) = Append(a, p) \/ OnTrack(f, u, u[c]) = a
    BY <1>10, <2>3, <2>4
  <2> QED BY <2>1, <2>5, <2>7, <2>8 DEF First
<1>15. ScanInv(r, u)
  BY <1>12, <1>13, <1>14 DEF ScanInv
<1> QED BY <1>11, <1>13, <1>15

LEMMA PeekScan ==
  ASSUME NEW q, NEW e, Chain(q, e), q.size # 0, NEW u \in [Proc -> Int], Increasing(e, u),
         ScanInv(q, u), NEW p, p = peek_disk_queue(q)
  PROVE  /\ Chain(p, e) /\ p.size # 0 /\ ScanInv(p, u) /\ p.curr # NULL
         /\ p.curr = IF q.curr = NULL THEN Scan!Nearest(Stretches(e, u), 0) ELSE q.curr
         /\ Scan!Tracks(Stretches(e, u)) # {}
<1>1. Chain(p, e) /\ p.size = q.size /\ p.curr \in Proc
  BY PeekChain
<1>2. e \in Seq(Proc) /\ Len(e) \in Nat \ {0} /\ q.head = e[1] /\ q \in Queue
  BY ChainParts
<1>3. Entries(p) = e /\ Entries(q) = e
  BY <1>1, EntriesAre
<1>4. OnDisk(e, u)
  BY <1>3 DEF ScanInv
<1>5. Lower(e, u, 0) = 0
  <2>1. \A i \in 1 .. Len(e) : i <= 0 <=> u[e[i]] < 0
    <3>1. \A i \in 1 .. Len(e) : ~(i <= 0)
      BY ONLY <1>2
    <3>2. \A x \in 0 .. NTracks : ~(x < 0)
      BY ONLY DiskDriverAssumption
    <3> QED BY ONLY <1>4, <3>1, <3>2 DEF OnDisk
  <2>2. e \in Seq(Proc) /\ 0 \in 0 .. Len(e)
    BY ONLY <1>2
  <2> QED BY ONLY <2>1, <2>2, LowerIs
<1>6. PICK k : k = NearestAt(e, Lower(e, u, 0))
  OBVIOUS
<1>7. k = 1
  BY <1>2, <1>5, <1>6 DEF NearestAt
<1>8. /\ Scan!Nearest(Stretches(e, u), 0) = e[k] /\ First(e, u, e[k])
      /\ Scan!Tracks(Stretches(e, u)) # {}
  <2>1. e \in Seq(Proc) /\ Len(e) # 0 /\ 0 \in Int
    BY <1>2
  <2> QED BY ONLY <2>1, u \in [Proc -> Int], Increasing(e, u), <1>4, <1>6, NearestIs
<1>9. p.curr # NULL
  BY <1>1, DiskQueueAssumption
<1>10. CASE q.curr = NULL
  <2>1. p.curr = e[1]
    BY <1>2, <1>10 DEF peek_disk_queue, Queue
  <2> QED BY <1>1, <1>3, <1>4, <1>7, <1>8, <1>9, <1>10, <2>1 DEF ScanInv
<1>11. CASE q.curr # NULL
  <2>1. p = q
    BY <1>11, PeekOnce
  <2> QED BY <1>1, <1>8, <1>9, <1>11, <2>1
<1> QED BY <1>10, <1>11

LEMMA RemoveScan ==
  ASSUME NEW q, NEW e, Chain(q, e), q.size # 0, NEW u \in [Proc -> Int], Increasing(e, u),
         ScanInv(q, u), NEW c, c = peek_disk_queue(q).curr, NEW v, v = u[c],
         NEW r, r = remove_disk_queue(q), NEW f, f = Entries(r)
  PROVE  /\ v \in 0 .. NTracks /\ OnTrack(e, u, v) # <<>> /\ Head(OnTrack(e, u, v)) = c
         /\ Stretches(f, u) = Parted(Stretches(e, u), v)
         /\ r.curr = Scan!Nearest(Stretches(f, u), v)
         /\ ScanInv(r, u)
<1>1. PICK p : p = peek_disk_queue(q)
  OBVIOUS
<1>2. Chain(p, e) /\ ScanInv(p, u) /\ p.curr = c /\ c # NULL
  BY <1>1, PeekScan
<1>3. e \in Seq(Proc) /\ Len(e) \in Nat \ {0} /\ Distinct(e) /\ In(e, c) /\ Entries(p) = e
  <2>1. e \in Seq(Proc) /\ Len(e) \in Nat \ {0} /\ Distinct(e)
    BY ChainParts
  <2>2. In(e, c) /\ Entries(p) = e
    BY <1>2, ChainParts, EntriesAre
  <2> QED BY <2>1, <2>2
<1>4. OnDisk(e, u) /\ First(e, u, c)
  BY <1>2, <1>3 DEF ScanInv
<1>5. v \in 0 .. NTracks /\ v \in Int
  <2>1. v \in 0 .. NTracks
    BY <1>3, <1>4 DEF OnDisk, In
  <2> QED BY <2>1, DiskDriverAssumption
<1>6. OnTrack(e, u, v) # <<>> /\ Head(OnTrack(e, u, v)) = c
  BY <1>4 DEF First
<1>7. PICK g : /\ Chain(r, g) /\ Increasing(g, u) /\ TakenOut(e, g, c, r.curr)
               /\ \A x : In(g, x) <=> In(e, x) /\ x # c
  BY RemoveChain
<1>8. f = g
  BY <1>7, EntriesAre
<1>9. f \in Seq(Proc) /\ Increasing(f, u) /\ \A x : In(f, x) => In(e, x)
  <2>1. g \in Seq(Proc)
    BY <1>7, ChainParts
  <2> QED BY <1>7, <1>8, <2>1
<1>10. PICK k \in 1 .. Len(e) :
         e[k] = c /\ f = Removed(e, k) /\ r.curr = IF Len(e) = 1 THEN NULL ELSE Following(e, k)
  BY <1>7, <1>8 DEF TakenOut
<1>11. Lower(e, u, v) = k - 1
  <2>1. PICK m \in 1 .. Len(e) : e[m] = c /\ Lower(e, u, v) = m - 1
    <3>1. e \in Seq(Proc) /\ v \in Int /\ OnTrack(e, u, v) # <<>>
      BY <1>3, <1>5, <1>6
    <3>2. \E m \in 1 .. Len(e) :
            u[e[m]] = v /\ e[m] = Head(OnTrack(e, u, v)) /\ Lower(e, u, v) = m - 1
      BY ONLY <3>1, u \in [Proc -> Int], Increasing(e, u), HeadIsFirst
    <3> QED BY ONLY <1>6, <3>2, Zenon
  <2>2. m = k
    BY <1>3, <1>10, <2>1 DEF Distinct
  <2> QED BY <2>1, <2>2
<1>12. v = u[e[k]]
  BY <1>10
<1>13. ASSUME NEW x \in Int
       PROVE  OnTrack(f, u, x) = IF x = v THEN Tail(OnTrack(e, u, x)) ELSE OnTrack(e, u, x)
  BY <1>3, <1>10, <1>11, <1>12, StretchRemoved
<1>14. Stretches(f, u) = Parted(Stretches(e, u), v)
  <2>1. \A x \in 0 .. NTracks : x \in Int
    BY DiskDriverAssumption
  <2> QED BY <1>13, <2>1 DEF Stretches, Parted
<1>15. OnDisk(f, u)
  <2> SUFFICES ASSUME NEW i \in 1 .. Len(f) PROVE u[f[i]] \in 0 .. NTracks
    BY DEF OnDisk
  <2>1. In(e, f[i])
    BY <1>9 DEF In
  <2> QED BY <1>4, <2>1 DEF In, OnDisk
<1>16. Len(f) = Len(e) - 1 /\ Len(f) \in Nat /\ k \in Nat /\ 1 <= k /\ k <= Len(e)
  BY <1>3, <1>10, RemovedIs
<1>17. CASE Len(e) = 1
  <2>1. f = <<>>
    BY <1>9, <1>16, <1>17
  <2>2. Scan!Nearest(Stretches(f, u), v) = NULL
    BY <1>5, <2>1, NearestNone
  <2>3. r.curr = NULL
    BY <1>10, <1>17
  <2>4. ScanInv(r, u)
    BY <1>15, <2>3 DEF ScanInv
  <2> QED BY <1>5, <1>6, <1>14, <2>2, <2>3, <2>4
<1>18. CASE Len(e) # 1
  <2>1. Lower(f, u, v) = k - 1
    <3>1. v <= v
      BY <1>5
    <3> QED BY <1>3, <1>5, <1>10, <1>11, <1>12, <3>1, LowerRemoved
  <2>2. PICK j : j = NearestAt(f, Lower(f, u, v))
    OBVIOUS
  <2>3. /\ j \in 1 .. Len(f) /\ Scan!Nearest(Stretches(f, u), v) = f[j] /\ First(f, u, f[j])
    <3>1. f \in Seq(Proc) /\ Increasing(f, u) /\ Len(f) # 0 /\ v \in Int
      BY <1>5, <1>9, <1>16, <1>18
    <3> QED BY ONLY <3>1, u \in [Proc -> Int], <1>15, <2>2, NearestIs
  <2>0. (\A i \in 1 .. k - 1 : f[i] = e[i]) /\ \A i \in k .. Len(e) - 1 : f[i] = e[i + 1]
    <3>1. f = Removed(e, k) /\ e \in Seq(Proc)
      BY <1>3, <1>10
    <3>2. \A i \in 1 .. k - 1 : f[i] = e[i]
      BY ONLY <3>1, k \in 1 .. Len(e), RemovedIs
    <3>3. \A i \in k .. Len(e) - 1 : f[i] = e[i + 1]
      BY ONLY <3>1, k \in 1 .. Len(e), RemovedIs
    <3> QED BY <3>2, <3>3
  <2>4. f[j] = Following(e, k)
    <3>1. CASE k < Len(e)
      <4>1. j = k /\ k \in k .. Len(e) - 1
        BY <1>16, <2>1, <2>2, <3>1 DEF NearestAt
      <4>2. f[k] = e[k + 1]
        BY <2>0, <4>1
      <4> QED BY <1>16, <3>1, <4>1, <4>2 DEF Following
    <3>2. CASE k = Len(e)
      <4>1. j = 1 /\ 1 \in 1 .. k - 1
        BY <1>3, <1>16, <1>18, <2>1, <2>2, <3>2 DEF NearestAt
      <4>2. f[1] = e[1]
        BY <2>0, <4>1
      <4> QED BY <3>2, <4>1, <4>2 DEF Following
    <3> QED BY <1>16, <3>1, <3>2
  <2>5. r.curr = f[j]
    BY <1>10, <1>18, <2>4
  <2>6. ScanInv(r, u)
    BY <1>15, <2>3, <2>5 DEF ScanInv
  <2> QED BY <1>5, <1>6, <1>14, <2>3, <2>5, <2>6
<1> QED BY <1>17, <1>18

-----------------------------------------------------------------------------
SInv == RInv /\ ScanInv(queue, disk_track)

LEMMA QueueChain ==
  ASSUME RInv
  PROVE  LET e == Entries(queue)
         IN  Chain(queue, e) /\ Increasing(e, disk_track) /\ \A p : In(e, p) <=> p \in Waiting
<1>1. PICK e : /\ Chain(queue, e) /\ Increasing(e, disk_track)
               /\ \A p : In(e, p) <=> p \in Waiting
  BY DEF RInv, Links, Listed
<1>2. Entries(queue) = e
  BY <1>1, EntriesAre
<1> QED BY <1>1, <1>2

\* A request joins its track at the end.
LEMMA EnqueueScan ==
  ASSUME SInv, NEW p \in Proc, p \notin Waiting, NEW v \in 0 .. NTracks, Enqueue(p, v)
  PROVE  Scan!Next /\ ScanInv(queue, disk_track)'
<1>1. /\ disk_track' = [disk_track EXCEPT ![p] = v]
      /\ queue' = add_disk_queue(queue, disk_track', p)
  BY DEF Enqueue
<1>2. PICK e : e = Entries(queue)
  OBVIOUS
<1>3. PICK f : f = Entries(queue')
  OBVIOUS
<1>4. Chain(queue, e) /\ Increasing(e, disk_track) /\ ~In(e, p)
  BY <1>2, QueueChain DEF SInv
<1>5. disk_track \in [Proc -> Int] /\ ScanInv(queue, disk_track)
  BY DEF SInv, RInv, Types
<1>6. /\ Stretches(f, disk_track') = Joined(Stretches(e, disk_track), v, p)
      /\ ScanInv(queue', disk_track') /\ queue'.curr = queue.curr
  <2>1. PICK q : q = queue
    OBVIOUS
  <2>2. PICK t : t = disk_track
    OBVIOUS
  <2>3. PICK r : r = queue'
    OBVIOUS
  <2>4. PICK u : u = disk_track'
    OBVIOUS
  <2>5. Chain(q, e) /\ Increasing(e, t) /\ ~In(e, p) /\ t \in [Proc -> Int] /\ ScanInv(q, t)
    BY <1>4, <1>5, <2>1, <2>2
  <2>6. r = add_disk_queue(q, u, p) /\ f = Entries(r)
    BY <1>1, <1>3, <2>1, <2>2, <2>3, <2>4
  <2>8. u \in [Proc -> Int] /\ u[p] = v /\ \A x \in Proc : x # p => u[x] = t[x]
    <3>1. u = [t EXCEPT ![p] = v] /\ v \in Int
      BY <1>1, <2>2, <2>4, DiskDriverAssumption
    <3> QED BY <2>5, <3>1
  <2>7. Stretches(f, u) = Joined(Stretches(e, t), v, p) /\ ScanInv(r, u) /\ r.curr = q.curr
    BY ONLY <2>5, <2>6, <2>8, p \in Proc, v \in 0 .. NTracks, AddScan
  <2> QED BY <2>1, <2>2, <2>3, <2>4, <2>7
<1>7. ASSUME NEW t \in 0 .. NTracks, NEW i \in DOMAIN OnTrack(e, disk_track, t)
      PROVE  OnTrack(e, disk_track, t)[i] # p
  <2>1. t \in Int /\ e \in Seq(Proc)
    BY <1>4, ChainParts, DiskDriverAssumption
  <2>2. In(e, OnTrack(e, disk_track, t)[i])
    BY <1>4, <1>5, <2>1, InStretch
  <2> QED BY <1>4, <2>2
<1>8. ~Scan!Waits(p)
  BY <1>2, <1>7 DEF Scan!Waits
<1>9. Scan!Ask(p, v)
  BY <1>2, <1>3, <1>6, <1>8 DEF Scan!Ask, Stretches, Joined
<1> QED BY <1>6, <1>9 DEF Scan!Next

\* The served process leaves its track and the nearest one is next.
LEMMA FinishScan ==
  ASSUME SInv, queue.size # 0, NEW q, q = peek_disk_queue(queue), Finish(q), UNCHANGED disk_track
  PROVE  Scan!Next /\ ScanInv(queue, disk_track)'
<1>1. PICK e : e = Entries(queue)
  OBVIOUS
<1>2. PICK f : f = Entries(queue')
  OBVIOUS
<1>3. PICK c : c = q.curr
  OBVIOUS
<1>4. PICK v : v = disk_track[c]
  OBVIOUS
<1>5. Chain(queue, e) /\ Increasing(e, disk_track)
  BY <1>1, QueueChain DEF SInv
<1>6. disk_track \in [Proc -> Int] /\ ScanInv(queue, disk_track)
  BY DEF SInv, RInv, Types
<1>7. /\ Chain(q, e) /\ q.size # 0 /\ ScanInv(q, disk_track) /\ q.curr # NULL
      /\ q.curr = IF queue.curr = NULL THEN Scan!Nearest(Stretches(e, disk_track), 0) ELSE queue.curr
  BY <1>5, <1>6, PeekScan
<1>8. c = peek_disk_queue(q).curr
  BY <1>3, <1>7, PeekOnce
<1>9. queue' = remove_disk_queue(q)
  BY DEF Finish
<1>10. /\ v \in 0 .. NTracks /\ OnTrack(e, disk_track, v) # <<>> /\ Head(OnTrack(e, disk_track, v)) = c
       /\ Stretches(f, disk_track) = Parted(Stretches(e, disk_track), v)
       /\ queue'.curr = Scan!Nearest(Stretches(f, disk_track), v)
       /\ ScanInv(queue', disk_track)
  BY ONLY <1>2, <1>4, <1>5, <1>6, <1>7, <1>8, <1>9, RemoveScan
<1>11. Scan!Serve(v)
  BY <1>1, <1>2, <1>3, <1>7, <1>10 DEF Scan!Serve, Stretches, Parted
<1> QED BY <1>10, <1>11 DEF Scan!Next

\* The first process to serve is chosen when the driver begins.
LEMMA PeekScanStep ==
  ASSUME SInv, queue.size # 0, queue' = peek_disk_queue(queue), UNCHANGED disk_track
  PROVE  [Scan!Next]_(Scan!vars) /\ ScanInv(queue, disk_track)'
<1>1. PICK e : e = Entries(queue)
  OBVIOUS
<1>2. PICK q : q = peek_disk_queue(queue)
  OBVIOUS
<1>3. Chain(queue, e) /\ Increasing(e, disk_track)
  BY <1>1, QueueChain DEF SInv
<1>4. disk_track \in [Proc -> Int] /\ ScanInv(queue, disk_track)
  BY DEF SInv, RInv, Types
<1>5. /\ Chain(q, e) /\ ScanInv(q, disk_track)
      /\ q.curr = IF queue.curr = NULL THEN Scan!Nearest(Stretches(e, disk_track), 0) ELSE queue.curr
      /\ Scan!Tracks(Stretches(e, disk_track)) # {}
  BY <1>2, <1>3, <1>4, PeekScan
<1>6. Entries(queue') = e
  BY <1>2, <1>5, EntriesAre
<1>7. ScanInv(queue, disk_track)'
  BY <1>2, <1>5
<1>8. CASE queue.curr = NULL
  <2>1. Scan!Choose
    BY <1>1, <1>2, <1>5, <1>6, <1>8 DEF Scan!Choose, Stretches
  <2> QED BY <1>7, <2>1 DEF Scan!Next
<1>9. CASE queue.curr # NULL
  <2>1. UNCHANGED Scan!vars
    BY <1>1, <1>2, <1>5, <1>6, <1>9 DEF Scan!vars
  <2> QED BY <1>7, <2>1
<1> QED BY <1>8, <1>9

LEMMA SameScan ==
  ASSUME SInv, UNCHANGED <<queue, disk_track>>
  PROVE  [Scan!Next]_(Scan!vars) /\ ScanInv(queue, disk_track)'
<1>1. UNCHANGED Scan!vars
  BY DEF Scan!vars
<1>2. ScanInv(queue, disk_track)'
  BY DEF SInv
<1> QED BY <1>1, <1>2

LEMMA WakeScan ==
  ASSUME SInv, Wake
  PROVE  [Scan!Next]_(Scan!vars) /\ ScanInv(queue, disk_track)'
<1>1. driver = "semp" /\ driverSem > 0 /\ zapped = FALSE /\ UNCHANGED disk_track
  BY DEF Wake, DriverReady, SInv, RInv, IInv, Counts, procVars
<1>2. queue.size > 0 /\ queue.size # 0
  BY <1>1 DEF SInv, RInv, IInv, Counts, RequestsCounted, Sized
<1>3. PICK q : q = peek_disk_queue(queue)
  OBVIOUS
<1>4. Begin(q)
  BY <1>1, <1>2, <1>3 DEF Wake
<1>5. queue' = q \/ Finish(q)
  BY <1>4 DEF Begin
<1> QED BY <1>1, <1>2, <1>3, <1>5, FinishScan, PeekScanStep

LEMMA BusyScan ==
  ASSUME SInv, driver \in {"tracks", "seek", "transfer"}, Finish(queue), UNCHANGED disk_track
  PROVE  [Scan!Next]_(Scan!vars) /\ ScanInv(queue, disk_track)'
<1>1. queue.size # 0 /\ queue.curr # NULL
  BY DiskQueueAssumption DEF SInv, RInv, IInv, Counts, RequestsCounted, Sized, Serving, Waiting
<1>2. queue = peek_disk_queue(queue)
  BY <1>1, PeekOnce
<1> QED BY <1>1, <1>2, FinishScan

LEMMA ScanStep ==
  ASSUME SInv, [Next]_vars
  PROVE  [Scan!Next]_(Scan!vars) /\ SInv'
<1> SUFFICES [Scan!Next]_(Scan!vars) /\ ScanInv(queue, disk_track)'
  BY StepRInv DEF SInv
<1>1. CASE Driver
  <2>1. CASE Wake
    BY <2>1, WakeScan
  <2>2. CASE TracksKnown
    BY <2>2, BusyScan DEF TracksKnown, Interrupted, procVars
  <2>3. CASE SeekDone
    <3>1. UNCHANGED <<queue, disk_track>>
      BY <2>3 DEF SeekDone, Transfer
    <3> QED BY <3>1, SameScan
  <2>4. CASE SectorDone
    <3>1. driver = "transfer" /\ UNCHANGED disk_track /\ (Finish(queue) \/ UNCHANGED queue)
      BY <2>4 DEF SectorDone, Interrupted, Transfer
    <3> QED BY <3>1, BusyScan, SameScan
  <2> QED BY <1>1, <2>1, <2>2, <2>3, <2>4 DEF Driver
<1>2. ASSUME NEW p \in Proc, Process(p)
      PROVE  [Scan!Next]_(Scan!vars) /\ ScanInv(queue, disk_track)'
  <2>1. ASSUME NEW r \in Requests, disk_read_or_write_real(p, r)
        PROVE  Scan!Next /\ ScanInv(queue, disk_track)'
    <3>1. /\ pc[p] = "run" /\ Enqueue(p, r.track) /\ r.track \in Int
          /\ 0 <= r.track /\ r.track <= tracks
      <4>1. r \in [track : Int, first : Int, sectors : Nat]
        BY DiskDriverAssumption
      <4>2. pc[p] = "run" /\ Enqueue(p, r.track) /\ ~(r.track < 0) /\ ~(r.track > tracks)
        BY <2>1 DEF disk_read_or_write_real, Runs, Illegal
      <4>3. tracks \in Int
        BY DiskDriverAssumption DEF SInv, RInv, Types
      <4> QED BY <4>1, <4>2, <4>3
    <3>2. r.track \in 0 .. NTracks
      BY <3>1, DiskDriverAssumption, SMTT(30) DEF SInv, RInv, Types
    <3>3. p \notin Waiting
      BY <3>1 DEF Waiting
    <3> QED BY <3>1, <3>2, <3>3, EnqueueScan
  <2>2. CASE disk_size_real(p)
    <3>1. Enqueue(p, 0) /\ p \notin Waiting /\ 0 \in 0 .. NTracks
      BY <2>2, DiskDriverAssumption DEF disk_size_real, Runs, Waiting
    <3> QED BY <3>1, EnqueueScan
  <2>3. CASE Return(p)
    <3>1. UNCHANGED <<queue, disk_track>>
      BY <2>3 DEF Return, procVars
    <3> QED BY <3>1, SameScan
  <2> QED BY <1>2, <2>1, <2>2, <2>3 DEF Process
<1>3. CASE UNCHANGED vars
  BY <1>3, SameScan DEF vars, procVars
<1> QED BY <1>1, <1>2, <1>3 DEF Next

LEMMA InitSInv == Init => Scan!Init /\ SInv
<1> SUFFICES ASSUME Init PROVE Scan!Init /\ SInv
  OBVIOUS
<1>1. RInv
  BY InitRInv
<1>2. queue.curr = NULL /\ queue.size = 0
  BY DEF Init, EmptyQueue
<1>3. Entries(queue) = <<>>
  BY <1>2 DEF Entries
<1>4. disk_track \in [Proc -> Int] /\ 0 \in Int
  BY <1>1 DEF RInv, Types
<1>5. Stretches(Entries(queue), disk_track) = [t \in 0 .. NTracks |-> <<>>]
  BY <1>3, <1>4, NearestNone
<1>6. Scan!Init
  BY <1>2, <1>5 DEF Scan!Init, Stretches
<1>7. ScanInv(queue, disk_track)
  BY <1>2, <1>3 DEF ScanInv, OnDisk
<1> QED BY <1>1, <1>6, <1>7 DEF SInv

\* The linked ring implements the circular scan: requests for a track are served
\* in the order of their arrival, and the next one is the nearest at the same
\* track or further out, or else the lowest (phase4.c:900-996).
THEOREM ScansInCircles == Spec => CircularScan
<1>1. Init => Scan!Init /\ SInv
  BY InitSInv
<1>2. SInv /\ [Next]_vars => [Scan!Next]_(Scan!vars) /\ SInv'
  BY ScanStep
<1> QED BY <1>1, <1>2, PTL DEF Spec, CircularScan, Scan!Spec
=============================================================================
