--------------------------- MODULE SleeperProofs ---------------------------
(***************************************************************************)
(* Proofs about the sleepers: the array heap is a heap whatever is added   *)
(* and removed, so it rings the earliest alarm first; each sleeper is      *)
(* woken once; and nobody is woken early or left behind, but for those     *)
(* whose time does not fit in an int.  For any number of processes, any    *)
(* seconds, any clock and any int.                                         *)
(***************************************************************************)
EXTENDS SleeperProperties, TLAPS, FiniteSetTheorems, NaturalsInduction,
        WellFoundedInduction

-----------------------------------------------------------------------------
\* A non-empty set of natural numbers has a least element.
LEMMA LeastExists ==
  ASSUME NEW S, S \subseteq Nat, S # {}
  PROVE  \E x \in S : \A y \in S : x <= y
<1> DEFINE R == {ss \in Nat \X Nat : ss[1] < ss[2]}
<1>1. IsWellFoundedOn(R, Nat)
  BY NatLessThanWellFounded DEF OpToRel
<1>2. PICK x \in S : \A y \in S : ~(<<y, x>> \in R)
  <2>1. \E x \in S : \A y \in S : ~(<<y, x>> \in R)
    BY <1>1, WFMin
  <2> QED BY <2>1
<1>3. ASSUME NEW y \in S PROVE x <= y
  <2>1. x \in Nat /\ y \in Nat
    OBVIOUS
  <2>2. ~(<<y, x>> \in R)
    BY <1>2
  <2>3. ~(y < x)
    BY <2>1, <2>2
  <2> QED BY <2>1, <2>3
<1> QED BY <1>3

\* One with an upper bound has a greatest.
LEMMA GreatestExists ==
  ASSUME NEW n \in Nat, NEW S, S \subseteq 0 .. n, S # {}
  PROVE  \E x \in S : \A y \in S : y <= x
<1> DEFINE D == {n - x : x \in S}
<1>1. D \subseteq Nat /\ D # {}
  <2>1. \A x \in S : n - x \in Nat
    OBVIOUS
  <2>2. PICK x \in S : TRUE
    OBVIOUS
  <2>3. n - x \in D
    BY <2>2
  <2> QED BY <2>1, <2>3
<1>2. PICK d \in D : \A e \in D : d <= e
  BY <1>1, LeastExists
<1>3. PICK x \in S : d = n - x
  OBVIOUS
<1>4. ASSUME NEW y \in S PROVE y <= x
  <2>1. n - x <= n - y
    BY <1>2, <1>3
  <2>2. x \in Int /\ y \in Int
    OBVIOUS
  <2> QED BY <2>1, <2>2
<1> QED BY <1>4

\* What a loop visits: its start, with each index the next one, and nothing
\* outside a set with these two properties.
LEMMA VisitedSet ==
  ASSUME NEW next, NEW first \in DOMAIN next,
         \A i \in DOMAIN next : next[i] \in DOMAIN next
  PROVE  /\ Visited(first, next) \subseteq DOMAIN next
         /\ first \in Visited(first, next)
         /\ \A i \in Visited(first, next) : next[i] \in Visited(first, next)
BY DEF Visited

LEMMA VisitedLeast ==
  ASSUME NEW next, NEW first \in DOMAIN next,
         \A i \in DOMAIN next : next[i] \in DOMAIN next,
         NEW S, first \in S, \A i \in Visited(first, next) \cap S : next[i] \in S
  PROVE  Visited(first, next) \subseteq S
<1> DEFINE V == Visited(first, next)
           T == V \cap S
<1>1. V \subseteq DOMAIN next /\ first \in V /\ \A i \in V : next[i] \in V
  BY VisitedSet
<1>2. T \in SUBSET DOMAIN next /\ first \in T /\ \A i \in T : next[i] \in T
  BY <1>1
<1>3. \A j \in V : j \in T
  BY <1>2 DEF Visited
<1> QED BY <1>3

\* The way of heap_add: its indices are ordered, each is followed by the
\* greatest below it, and it ends at the least.
LEMMA UpwardWay ==
  ASSUME NEW n \in Nat, NEW next \in [0 .. n -> 0 .. n],
         \A i \in 0 .. n : next[i] <= i
  PROVE  \E top \in Visited(n, next) :
           /\ \A j \in Visited(n, next) : top <= j
           /\ next[top] = top
           /\ \A i \in Visited(n, next) \ {top} : next[i] < i
           /\ \A i, j \in Visited(n, next) : i < j => next[j] >= i
           /\ \A m \in Visited(n, next) \ {n} :
                \E i \in Visited(n, next) \ {top} : next[i] = m
<1> DEFINE V == Visited(n, next)
<1>0. /\ DOMAIN next = 0 .. n /\ n \in DOMAIN next
      /\ \A i \in DOMAIN next : next[i] \in DOMAIN next
  OBVIOUS
<1>1. V \subseteq 0 .. n /\ n \in V /\ \A i \in V : next[i] \in V
  BY <1>0, VisitedSet
<1>2. ASSUME NEW S, n \in S, \A i \in V \cap S : next[i] \in S
      PROVE  V \subseteq S
  BY <1>0, <1>2, VisitedLeast
<1>n. \A i \in V : i \in Int /\ next[i] \in Int /\ next[i] <= i /\ i <= n
  BY <1>1
<1> HIDE DEF V
<1>3. PICK top \in V : \A j \in V : top <= j
  <2>1. V \subseteq Nat /\ V # {}
    BY <1>1
  <2> QED BY <2>1, LeastExists
<1>4. next[top] = top
  <2>1. next[top] \in V
    BY <1>1
  <2> QED BY <2>1, <1>3, <1>n
<1> DEFINE G == {i \in V : \A j \in V : i < j => next[j] >= i}
<1>5. n \in G
  BY <1>1, <1>n
<1>6. ASSUME NEW i \in V \cap G PROVE next[i] \in G
  <2>1. PICK k \in V : k = next[i]
    BY <1>1
  <2>2. k <= i /\ k \in Int /\ i \in Int
    BY <2>1, <1>n
  <2> DEFINE S == {l \in V : l >= i \/ l <= k}
  <2>3. n \in S
    BY <1>1, <1>n
  <2>4. ASSUME NEW l \in V \cap S PROVE next[l] \in S
    <3>1. next[l] \in V /\ l \in Int /\ next[l] \in Int /\ next[l] <= l
      BY <1>1, <1>n
    <3>2. CASE l > i
      <4>1. next[l] >= i
        BY <3>2
      <4> QED BY <3>1, <4>1
    <3>3. CASE l = i
      BY <3>1, <3>3, <2>1, <2>2
    <3>4. CASE l < i
      <4>1. l <= k
        BY <3>4, <3>1, <2>2
      <4>2. next[l] <= k
        BY <4>1, <3>1, <2>2
      <4> QED BY <3>1, <4>2
    <3> QED BY <3>1, <3>2, <3>3, <3>4, <2>2
  <2>5. V \subseteq S
    <3> HIDE DEF S, G
    <3> QED BY <1>2, <2>3, <2>4
  <2>6. ASSUME NEW j \in V, k < j PROVE next[j] >= k
    <3>1. j >= i
      BY <2>5, <2>6, <2>2, <1>n
    <3>2. CASE j = i
      BY <3>2, <2>1, <2>2
    <3>3. CASE j > i
      <4>1. next[j] >= i
        BY <3>3
      <4> QED BY <4>1, <2>2, <1>n
    <3> QED BY <3>1, <3>2, <3>3, <2>2, <1>n
  <2> QED BY <2>1, <2>6
<1>7. V \subseteq G
  <2> HIDE DEF G
  <2> QED BY <1>2, <1>5, <1>6
<1>8. ASSUME NEW i \in V \ {top} PROVE next[i] < i
  <2>1. top < i
    BY <1>3, <1>n
  <2> SUFFICES ASSUME next[i] = i PROVE FALSE
    BY <1>n
  <2> DEFINE S == {l \in V : l >= i}
  <2>2. n \in S
    BY <1>1, <1>n
  <2>3. ASSUME NEW l \in V \cap S PROVE next[l] \in S
    <3>1. l = i \/ i < l
      BY <1>n
    <3>2. i < l => next[l] >= i
      BY <1>7
    <3>3. next[l] >= i
      BY <3>1, <3>2, <1>n
    <3> QED BY <1>1, <3>3
  <2>4. V \subseteq S
    <3> HIDE DEF S
    <3> QED BY <1>2, <2>2, <2>3
  <2> QED BY <2>1, <2>4, <1>n
<1>9. ASSUME NEW m \in V \ {n} PROVE \E i \in V \ {top} : next[i] = m
  <2> SUFFICES ASSUME \A i \in V \ {top} : next[i] # m PROVE FALSE
    OBVIOUS
  <2> DEFINE S == V \ {m}
  <2>1. CASE m # top
    <3>1. n \in S
      BY <1>1
    <3>2. ASSUME NEW l \in V \cap S PROVE next[l] \in S
      BY <1>1, <1>4, <2>1
    <3>3. V \subseteq S
      <4> HIDE DEF S
      <4> QED BY <1>2, <3>1, <3>2
    <3> QED BY <3>3
  <2>2. CASE m = top
    <3>1. n \in S
      BY <1>1
    <3>2. ASSUME NEW l \in V \cap S PROVE next[l] \in S
      BY <1>1, <2>2
    <3>3. V \subseteq S
      <4> HIDE DEF S
      <4> QED BY <1>2, <3>1, <3>2
    <3> QED BY <3>3
  <2> QED BY <2>1, <2>2
<1>10. \A i, j \in V : i < j => next[j] >= i
  BY <1>7
<1> QED BY <1>3, <1>4, <1>8, <1>9, <1>10 DEF V

\* The way of heap_remove: it ends at one index, and each of the others but the
\* first is the next of one.
LEMMA DownwardWay ==
  ASSUME NEW n \in Nat, NEW next \in [0 .. n -> 0 .. n],
         \A i \in 0 .. n : next[i] >= i
  PROVE  \E bottom \in Visited(0, next) :
           /\ next[bottom] = bottom
           /\ \A i \in Visited(0, next) \ {bottom} : next[i] > i
           /\ \A m \in Visited(0, next) \ {0} :
                \E i \in Visited(0, next) \ {bottom} : next[i] = m
<1> DEFINE V == Visited(0, next)
<1>0. /\ DOMAIN next = 0 .. n /\ 0 \in DOMAIN next
      /\ \A i \in DOMAIN next : next[i] \in DOMAIN next
  OBVIOUS
<1>1. V \subseteq 0 .. n /\ 0 \in V /\ \A i \in V : next[i] \in V
  BY <1>0, VisitedSet
<1>2. ASSUME NEW S, 0 \in S, \A i \in V \cap S : next[i] \in S
      PROVE  V \subseteq S
  BY <1>0, <1>2, VisitedLeast
<1>n. \A i \in V : i \in Int /\ next[i] \in Int /\ next[i] >= i /\ i >= 0
  BY <1>1
<1> HIDE DEF V
<1>3. PICK bottom \in V : \A j \in V : j <= bottom
  <2>1. V # {}
    BY <1>1
  <2> QED BY <2>1, <1>1, GreatestExists
<1>4. next[bottom] = bottom
  <2>1. next[bottom] \in V
    BY <1>1
  <2> QED BY <2>1, <1>3, <1>n
<1> DEFINE G == {i \in V : \A j \in V : j < i => next[j] <= i}
<1>5. 0 \in G
  BY <1>1, <1>n
<1>6. ASSUME NEW i \in V \cap G PROVE next[i] \in G
  <2>1. PICK k \in V : k = next[i]
    BY <1>1
  <2>2. i <= k /\ k \in Int /\ i \in Int
    BY <2>1, <1>n
  <2> DEFINE S == {l \in V : l <= i \/ l >= k}
  <2>3. 0 \in S
    BY <1>1, <1>n
  <2>4. ASSUME NEW l \in V \cap S PROVE next[l] \in S
    <3>1. next[l] \in V /\ l \in Int /\ next[l] \in Int /\ next[l] >= l
      BY <1>1, <1>n
    <3>2. CASE l < i
      <4>1. next[l] <= i
        BY <3>2
      <4> QED BY <3>1, <4>1
    <3>3. CASE l = i
      BY <3>1, <3>3, <2>1, <2>2
    <3>4. CASE l > i
      <4>1. l >= k
        BY <3>4, <3>1, <2>2
      <4>2. next[l] >= k
        BY <4>1, <3>1, <2>2
      <4> QED BY <3>1, <4>2
    <3> QED BY <3>1, <3>2, <3>3, <3>4, <2>2
  <2>5. V \subseteq S
    <3> HIDE DEF S, G
    <3> QED BY <1>2, <2>3, <2>4
  <2>6. ASSUME NEW j \in V, j < k PROVE next[j] <= k
    <3>1. j <= i
      BY <2>5, <2>6, <2>2, <1>n
    <3>2. CASE j = i
      BY <3>2, <2>1, <2>2
    <3>3. CASE j < i
      <4>1. next[j] <= i
        BY <3>3
      <4> QED BY <4>1, <2>2, <1>n
    <3> QED BY <3>1, <3>2, <3>3, <2>2, <1>n
  <2> QED BY <2>1, <2>6
<1>7. V \subseteq G
  <2> HIDE DEF G
  <2> QED BY <1>2, <1>5, <1>6
<1>8. ASSUME NEW i \in V \ {bottom} PROVE next[i] > i
  <2>1. i < bottom
    BY <1>3, <1>n
  <2> SUFFICES ASSUME next[i] = i PROVE FALSE
    BY <1>n
  <2> DEFINE S == {l \in V : l <= i}
  <2>2. 0 \in S
    BY <1>1, <1>n
  <2>3. ASSUME NEW l \in V \cap S PROVE next[l] \in S
    <3>1. l = i \/ l < i
      BY <1>n
    <3>2. l < i => next[l] <= i
      BY <1>7
    <3>3. next[l] <= i
      BY <3>1, <3>2, <1>n
    <3> QED BY <1>1, <3>3
  <2>4. V \subseteq S
    <3> HIDE DEF S
    <3> QED BY <1>2, <2>2, <2>3
  <2> QED BY <2>1, <2>4, <1>n
<1>9. ASSUME NEW m \in V \ {0} PROVE \E i \in V \ {bottom} : next[i] = m
  <2> SUFFICES ASSUME \A i \in V \ {bottom} : next[i] # m PROVE FALSE
    OBVIOUS
  <2> DEFINE S == V \ {m}
  <2>1. 0 \in S
    BY <1>1
  <2>2. ASSUME NEW l \in V \cap S PROVE next[l] \in S
    <3>1. l = bottom => next[l] = l
      BY <1>4
    <3> QED BY <1>1, <3>1
  <2>3. V \subseteq S
    <3> HIDE DEF S
    <3> QED BY <1>2, <2>1, <2>2
  <2> QED BY <2>3
<1> QED BY <1>4, <1>8, <1>9 DEF V

-----------------------------------------------------------------------------
(***************************************************************************)
(* The array as a heap.                                                    *)
(***************************************************************************)
Distinct(procs, size) ==
  \A i, j \in 0 .. size - 1 : procs[i] = procs[j] => i = j

Members(procs, size) == {procs[i] : i \in 0 .. size - 1}

\* No process wakes before the one at its parent's index.
Ordered(procs, size, wake) ==
  \A i \in 1 .. size - 1 : wake[procs[Parent(i)]] <= wake[procs[i]]

LEMMA Parents ==
  ASSUME NEW i \in Nat
  PROVE  /\ i > 0 => Parent(i) \in Nat /\ Parent(i) < i
         /\ \A q \in Nat : i > 0 /\ Parent(i) = q => i = 2 * q + 1 \/ i = 2 * q + 2
         /\ Parent(2 * i + 1) = i /\ Parent(2 * i + 2) = i
BY DEF Parent

\* So the process at index 0 wakes first.
LEMMA RootFirst ==
  ASSUME NEW wake \in [Slot -> Int], NEW n \in Nat, NEW procs \in [0 .. n - 1 -> Slot],
         Ordered(procs, n, wake), NEW i \in 0 .. n - 1
  PROVE  wake[procs[0]] <= wake[procs[i]]
<1> DEFINE S == {j \in 0 .. n - 1 : wake[procs[j]] < wake[procs[0]]}
<1> SUFFICES ASSUME S # {} PROVE FALSE
  OBVIOUS
<1>1. S \subseteq Nat
  OBVIOUS
<1>2. PICK j \in S : \A k \in S : j <= k
  BY <1>1, LeastExists
<1>3. j \in Nat /\ j > 0 /\ j <= n - 1 /\ wake[procs[j]] < wake[procs[0]]
  OBVIOUS
<1>4. Parent(j) \in 0 .. n - 1 /\ Parent(j) < j
  <2>1. Parent(j) \in Nat /\ Parent(j) < j
    BY <1>3, Parents
  <2> QED BY <2>1, <1>3
<1>5. wake[procs[Parent(j)]] <= wake[procs[j]]
  BY <1>3 DEF Ordered
<1>6. Parent(j) \in S
  BY <1>3, <1>4, <1>5
<1> QED BY <1>2, <1>3, <1>4, <1>6

LEMMA AddKeeps ==
  ASSUME wake_time \in [Slot -> Int],
         NEW n \in Nat, NEW procs \in [0 .. n - 1 -> Slot], NEW p \in Slot, NEW t \in Int,
         Distinct(procs, n), Ordered(procs, n, wake_time), p \notin Members(procs, n)
  PROVE  LET new == WithNew(procs, p, t, n)
         IN  /\ new \in [0 .. n -> Slot]
             /\ Distinct(new, n + 1)
             /\ Members(new, n + 1) = Members(procs, n) \union {p}
             /\ Ordered(new, n + 1, [wake_time EXCEPT ![p] = t])
<1> DEFINE next == [i \in 0 .. n |-> IF i = 0 \/ wake_time[procs[Parent(i)]] <= t THEN i
                                     ELSE Parent(i)]
           way == Visited(n, next)
           new == WithNew(procs, p, t, n)
           wake == [wake_time EXCEPT ![p] = t]
<1>0. \A i \in 0 .. n : /\ i \in Nat
                        /\ i > 0 => Parent(i) \in 0 .. n - 1 /\ Parent(i) < i
  <2> SUFFICES ASSUME NEW i \in 0 .. n
               PROVE  /\ i \in Nat
                      /\ i > 0 => Parent(i) \in 0 .. n - 1 /\ Parent(i) < i
    OBVIOUS
  <2>1. i \in Nat /\ i <= n
    OBVIOUS
  <2>2. i > 0 => Parent(i) \in Nat /\ Parent(i) < i
    BY <2>1, Parents
  <2> QED BY <2>1, <2>2
<1>1. next \in [0 .. n -> 0 .. n] /\ \A i \in 0 .. n : next[i] <= i
  BY <1>0
<1>2. /\ way \subseteq 0 .. n /\ n \in way
  <2>1. /\ DOMAIN next = 0 .. n /\ n \in DOMAIN next
        /\ \A i \in DOMAIN next : next[i] \in DOMAIN next
    BY <1>1
  <2> HIDE DEF next
  <2> QED BY <2>1, VisitedSet
<1>3. PICK top \in way :
        /\ \A j \in way : top <= j
        /\ next[top] = top
        /\ \A i \in way \ {top} : next[i] < i
        /\ \A i, j \in way : i < j => next[j] >= i
        /\ \A m \in way \ {n} : \E i \in way \ {top} : next[i] = m
  <2> HIDE DEF next
  <2> QED BY <1>1, UpwardWay
<1>4. \A i \in way \ {top} : /\ i > 0 /\ next[i] = Parent(i)
                             /\ wake_time[procs[Parent(i)]] > t
  <2> SUFFICES ASSUME NEW i \in way \ {top}
               PROVE  i > 0 /\ next[i] = Parent(i) /\ wake_time[procs[Parent(i)]] > t
    OBVIOUS
  <2>1. next[i] < i /\ i \in 0 .. n
    BY <1>2, <1>3
  <2>2. next[i] # i /\ i \in 0 .. n
    BY <2>1
  <2>3. i > 0 /\ next[i] = Parent(i) /\ ~(wake_time[procs[Parent(i)]] <= t)
    BY <2>2
  <2>4. Parent(i) \in 0 .. n - 1
    BY <2>2, <2>3, <1>0
  <2>5. wake_time[procs[Parent(i)]] \in Int
    BY <2>4
  <2> QED BY <2>3, <2>5
<1>5. top > 0 => wake_time[procs[Parent(top)]] <= t
  <2>1. top \in 0 .. n /\ next[top] = top
    BY <1>2, <1>3
  <2>2. top > 0 => Parent(top) # top
    BY <2>1, <1>0
  <2> QED BY <2>1, <2>2
<1>6. \A i \in way \ {top} : Parent(i) \in way \ {n}
  <2> SUFFICES ASSUME NEW i \in way \ {top} PROVE Parent(i) \in way \ {n}
    OBVIOUS
  <2>1. next[i] \in way
    <3>1. /\ DOMAIN next = 0 .. n /\ n \in DOMAIN next
          /\ \A k \in DOMAIN next : next[k] \in DOMAIN next
      BY <1>1
    <3> HIDE DEF next
    <3> QED BY <3>1, VisitedSet
  <2>2. next[i] = Parent(i) /\ i \in 0 .. n /\ i > 0
    BY <1>2, <1>4
  <2>3. Parent(i) \in 0 .. n - 1
    BY <2>2, <1>0
  <2> QED BY <2>1, <2>2, <2>3
<1>7. \A i, j \in way \ {top} : Parent(i) = Parent(j) => i = j
  <2> SUFFICES ASSUME NEW i \in way \ {top}, NEW j \in way \ {top},
                      Parent(i) = Parent(j), i < j
               PROVE  FALSE
    BY <1>2
  <2>1. next[j] >= i /\ next[i] < i /\ next[i] = next[j]
    BY <1>3, <1>4
  <2>2. i \in Int /\ next[i] \in Int
    BY <1>1, <1>2
  <2> QED BY <2>1, <2>2
<1>8. top = CHOOSE i \in way : \A j \in way : i <= j
  <2>1. \A i \in way : (\A j \in way : i <= j) => i = top
    <3> SUFFICES ASSUME NEW i \in way, \A j \in way : i <= j PROVE i = top
      OBVIOUS
    <3>1. i <= top /\ top <= i
      BY <1>3
    <3>2. i \in Int /\ top \in Int
      BY <1>2
    <3> QED BY <3>1, <3>2
  <2> HIDE DEF way
  <2> QED BY <2>1, <1>3
<1>9. new = [i \in 0 .. n |-> CASE i = top           -> p
                                [] i \in way \ {top} -> procs[Parent(i)]
                                [] OTHER             -> procs[i]]
  <2>1. way = Place(procs, t, n)
    BY DEF Place
  <2> HIDE DEF way, next
  <2> QED BY <2>1, <1>8 DEF WithNew
<1> HIDE DEF next, way, new
<1>10. /\ DOMAIN new = 0 .. n /\ top \in 0 .. n /\ new[top] = p
       /\ \A i \in way \ {top} : i \in 0 .. n /\ new[i] = procs[Parent(i)]
       /\ \A i \in (0 .. n) \ way : new[i] = procs[i] /\ i \in 0 .. n - 1
  <2>1. \A i \in (0 .. n) \ way : i \in 0 .. n - 1
    BY <1>2
  <2> QED BY <1>2, <1>9, <2>1
\* Every index but top is filled from one of the old array, each from its own.
<1> DEFINE from(i) == IF i \in way THEN Parent(i) ELSE i
<1>11. \A i \in (0 .. n) \ {top} : from(i) \in 0 .. n - 1 /\ new[i] = procs[from(i)]
  <2> SUFFICES ASSUME NEW i \in (0 .. n) \ {top}
               PROVE  from(i) \in 0 .. n - 1 /\ new[i] = procs[from(i)]
    OBVIOUS
  <2>1. CASE i \in way
    <3>1. Parent(i) \in way \ {n} /\ new[i] = procs[Parent(i)]
      BY <2>1, <1>6, <1>10
    <3>2. \A k \in way \ {n} : k \in 0 .. n - 1
      BY <1>2
    <3>3. Parent(i) \in 0 .. n - 1
      BY <3>1, <3>2
    <3> QED BY <2>1, <3>1, <3>3
  <2>2. CASE i \notin way
    BY <2>2, <1>10
  <2> QED BY <2>1, <2>2
<1>12. \A i, j \in (0 .. n) \ {top} : from(i) = from(j) => i = j
  BY <1>6, <1>7
<1>13. \A m \in 0 .. n - 1 : \E i \in (0 .. n) \ {top} : from(i) = m
  <2> SUFFICES ASSUME NEW m \in 0 .. n - 1 PROVE \E i \in (0 .. n) \ {top} : from(i) = m
    OBVIOUS
  <2>1. CASE m \in way
    <3>1. m \in way \ {n}
      BY <2>1
    <3>2. PICK i \in way \ {top} : next[i] = m
      BY <3>1, <1>3
    <3>3. i \in (0 .. n) \ {top} /\ from(i) = m
      BY <3>2, <1>2, <1>4
    <3> QED BY <3>3
  <2>2. CASE m \notin way
    <3>1. m \in (0 .. n) \ {top} /\ from(m) = m
      BY <2>2
    <3> QED BY <3>1
  <2> QED BY <2>1, <2>2
<1> HIDE DEF from
<1>14. \A k \in 0 .. n - 1 : procs[k] \in Slot /\ procs[k] # p
  BY DEF Members
<1>15. new \in [0 .. n -> Slot]
  <2>1. \A i \in 0 .. n : new[i] \in Slot
    BY <1>10, <1>11, <1>14
  <2>2. new = [i \in 0 .. n |-> new[i]]
    BY <1>9
  <2> QED BY <2>1, <2>2
<1>16. Distinct(new, n + 1)
  <2>1. 0 .. n + 1 - 1 = 0 .. n
    OBVIOUS
  <2> SUFFICES ASSUME NEW i \in 0 .. n, NEW j \in 0 .. n, new[i] = new[j] PROVE i = j
    BY <2>1 DEF Distinct
  <2>2. CASE i = top
    BY <2>2, <1>10, <1>11, <1>14
  <2>3. CASE j = top
    BY <2>3, <1>10, <1>11, <1>14
  <2>4. CASE i # top /\ j # top
    <3>1. procs[from(i)] = procs[from(j)] /\ from(i) \in 0 .. n - 1 /\ from(j) \in 0 .. n - 1
      BY <2>4, <1>11
    <3>2. from(i) = from(j)
      BY <3>1 DEF Distinct
    <3> QED BY <2>4, <3>2, <1>12
  <2> QED BY <2>2, <2>3, <2>4
<1>17. Members(new, n + 1) = Members(procs, n) \union {p}
  <2>1. 0 .. n + 1 - 1 = 0 .. n
    OBVIOUS
  <2>2. Members(new, n + 1) = {new[i] : i \in 0 .. n}
    BY <2>1 DEF Members
  <2>3. ASSUME NEW i \in 0 .. n PROVE new[i] \in Members(procs, n) \union {p}
    BY <1>10, <1>11 DEF Members
  <2>4. ASSUME NEW k \in 0 .. n - 1 PROVE \E i \in 0 .. n : new[i] = procs[k]
    BY <1>11, <1>13
  <2>5. \E i \in 0 .. n : new[i] = p
    BY <1>10
  <2>6. Members(new, n + 1) \subseteq Members(procs, n) \union {p}
    BY <2>2, <2>3
  <2>7. Members(procs, n) \subseteq Members(new, n + 1)
    BY <2>2, <2>4 DEF Members
  <2>8. p \in Members(new, n + 1)
    BY <2>2, <2>5
  <2> QED BY <2>6, <2>7, <2>8
<1>18. Ordered(new, n + 1, wake)
  <2>1. 1 .. n + 1 - 1 = 1 .. n
    OBVIOUS
  <2>2. wake[p] = t /\ \A k \in 0 .. n - 1 : /\ wake[procs[k]] = wake_time[procs[k]]
                                            /\ wake_time[procs[k]] \in Int
    BY <1>14
  <2> HIDE DEF wake
  <2> SUFFICES ASSUME NEW i \in 1 .. n PROVE wake[new[Parent(i)]] <= wake[new[i]]
    BY <2>1 DEF Ordered
  <2>3. i \in 0 .. n /\ i > 0 /\ Parent(i) \in 0 .. n - 1 /\ Parent(i) < i /\ Parent(i) \in 0 .. n
    BY <1>0
  <2>4. \A k \in 1 .. n - 1 : /\ Parent(k) \in 0 .. n - 1
                              /\ wake[procs[Parent(k)]] <= wake[procs[k]]
    <3>1. \A k \in 1 .. n - 1 : Parent(k) \in 0 .. n - 1 /\ k \in 0 .. n - 1
      BY <1>0
    <3> QED BY <3>1, <2>2 DEF Ordered
  \* Whatever is filled from below top wakes after t, and top after its parent.
  <2>5. \A k \in way \ {n} : t < wake[procs[k]] /\ k \in 0 .. n - 1
    <3> SUFFICES ASSUME NEW k \in way \ {n} PROVE t < wake[procs[k]] /\ k \in 0 .. n - 1
      OBVIOUS
    <3>1. k \in 0 .. n - 1
      BY <1>2
    <3>2. PICK l \in way \ {top} : next[l] = k
      BY <1>3
    <3>3. wake_time[procs[k]] > t
      BY <3>2, <1>4
    <3> QED BY <3>1, <3>3, <2>2
  <2>6. CASE i \in way \ {top}
    <3>1. new[i] = procs[Parent(i)] /\ Parent(i) \in way \ {n}
      BY <2>6, <1>6, <1>10
    <3>2. CASE Parent(i) = top
      BY <3>1, <3>2, <1>10, <2>2, <2>5
    <3>3. CASE Parent(i) # top
      <4>1. new[Parent(i)] = procs[Parent(Parent(i))]
        BY <3>1, <3>3, <1>10
      <4>2. Parent(i) > 0 /\ Parent(i) \in 1 .. n - 1
        BY <3>1, <3>3, <1>4, <2>3
      <4> QED BY <3>1, <4>1, <4>2, <2>4
    <3> QED BY <3>2, <3>3
  <2>7. CASE i = top
    <3>1. Parent(i) \notin way
      BY <2>7, <2>3, <1>2, <1>3
    <3>2. new[Parent(i)] = procs[Parent(i)]
      BY <3>1, <2>3, <1>10
    <3> QED BY <2>7, <3>2, <1>5, <1>10, <2>2, <2>3
  <2>8. CASE i \notin way
    <3>1. new[i] = procs[i] /\ i \in 1 .. n - 1
      BY <2>8, <1>10
    <3>2. wake[procs[Parent(i)]] <= wake[procs[i]]
      BY <3>1, <2>4
    <3>3. CASE Parent(i) \notin way
      BY <3>1, <3>2, <3>3, <1>10, <2>3
    <3>4. CASE Parent(i) = top
      <4>1. top \in way \ {n}
        BY <3>4, <2>3
      <4>2. t < wake[procs[top]]
        BY <4>1, <2>5
      <4>3. wake[procs[top]] \in Int /\ wake[procs[i]] \in Int
        BY <3>1, <3>4, <2>2, <2>3
      <4> QED BY <3>1, <3>2, <3>4, <4>2, <4>3, <1>10, <2>2
    <3>5. CASE Parent(i) \in way \ {top}
      <4>1. new[Parent(i)] = procs[Parent(Parent(i))]
        BY <3>5, <1>10
      <4>2. Parent(i) > 0 /\ Parent(i) \in 1 .. n - 1
        BY <3>5, <1>4, <2>3
      <4>3. wake[procs[Parent(Parent(i))]] <= wake[procs[Parent(i)]]
        BY <4>2, <2>4
      <4>4. /\ wake[procs[Parent(Parent(i))]] \in Int
            /\ wake[procs[Parent(i)]] \in Int /\ wake[procs[i]] \in Int
        BY <3>1, <4>2, <2>2, <2>3, <2>4
      <4> QED BY <3>1, <3>2, <4>1, <4>3, <4>4
    <3> QED BY <3>3, <3>4, <3>5
  <2> QED BY <2>6, <2>7, <2>8
<1> QED BY <1>15, <1>16, <1>17, <1>18 DEF new
\* The child that the last process changes places with wakes before it, is not
\* the entry past the end, and wakes no later than the other child.
LEMMA MinChildFacts ==
  ASSUME wake_time \in [Slot -> Int],
         NEW n \in Nat, NEW procs \in [0 .. n -> Slot], NEW i \in Nat, 2 * i <= n
  PROVE  LET c == MinChild(procs, n, procs[n], i)
         IN  /\ c = i \/ c = 2 * i + 1 \/ c = 2 * i + 2
             /\ c # i => c < n /\ wake_time[procs[c]] < wake_time[procs[n]]
             /\ \A k \in {2 * i + 1, 2 * i + 2} :
                  k <= n => wake_time[procs[IF c = i THEN n ELSE c]] <= wake_time[procs[k]]
<1> DEFINE left == 2 * i + 1
           right == 2 * i + 2
           wakes(k) == wake_time[procs[k]]
           min == IF left <= n /\ wakes(left) < wakes(n) THEN left ELSE i
           least == IF min = i THEN wakes(n) ELSE wakes(min)
           c == IF right <= n /\ wakes(right) < least THEN right ELSE min
<1>1. c = MinChild(procs, n, procs[n], i)
  BY DEF MinChild
<1>2. \A k \in 0 .. n : wakes(k) \in Int
  OBVIOUS
<1>3. wakes(n) \in Int /\ (left <= n => wakes(left) \in Int)
      /\ (right <= n => wakes(right) \in Int)
  BY <1>2
<1>4. left # i /\ right # i /\ left # right /\ left \in Nat /\ right \in Nat
      /\ (left <= n /\ left # n => left < n) /\ (right <= n /\ right # n => right < n)
      /\ (right <= n => left <= n)
  OBVIOUS
<1> HIDE DEF left, right, wakes
<1>5. CASE left <= n /\ wakes(left) < wakes(n)
  <2>1. min = left /\ least = wakes(left) /\ left # n
    BY <1>3, <1>4, <1>5
  <2>2. CASE right <= n /\ wakes(right) < wakes(left)
    <3>1. c = right
      BY <2>1, <2>2
    <3>2. right # n
      BY <1>3, <1>5, <2>2
    <3> HIDE DEF c
    <3>3. /\ c = right /\ c # i /\ c < n /\ wakes(c) < wakes(n)
          /\ wakes(c) <= wakes(left) /\ wakes(c) <= wakes(right)
      BY <1>3, <1>4, <1>5, <2>2, <3>1, <3>2
    <3> QED BY <3>3, <1>1 DEF left, right, wakes
  <2>3. CASE ~(right <= n /\ wakes(right) < wakes(left))
    <3>1. c = left
      BY <2>1, <2>3
    <3> HIDE DEF c
    <3>2. /\ c = left /\ c # i /\ c < n /\ wakes(c) < wakes(n)
          /\ wakes(c) <= wakes(left) /\ right <= n => wakes(c) <= wakes(right)
      BY <1>3, <1>4, <1>5, <2>1, <2>3, <3>1
    <3>3. wakes(c) < wakes(n) /\ wakes(c) <= wakes(left) /\ c < n
      BY <1>3, <1>4, <1>5, <2>1, <3>1
    <3> QED BY <3>2, <3>3, <1>1, <3>1, <1>4 DEF left, right, wakes
  <2> QED BY <2>2, <2>3
<1>6. CASE ~(left <= n /\ wakes(left) < wakes(n))
  <2>1. min = i /\ least = wakes(n)
    BY <1>6
  <2>2. CASE right <= n /\ wakes(right) < wakes(n)
    <3>1. c = right
      BY <2>1, <2>2
    <3>2. right # n
      BY <1>3, <2>2
    <3> HIDE DEF c
    <3>3. /\ c = right /\ c # i /\ c < n /\ wakes(c) < wakes(n)
          /\ wakes(c) <= wakes(left) /\ wakes(c) <= wakes(right)
      BY <1>3, <1>4, <1>6, <2>2, <3>1, <3>2
    <3> QED BY <3>3, <1>1 DEF left, right, wakes
  <2>3. CASE ~(right <= n /\ wakes(right) < wakes(n))
    <3>1. c = i
      BY <2>1, <2>3
    <3> HIDE DEF c
    <3>2. /\ left <= n => wakes(n) <= wakes(left)
          /\ right <= n => wakes(n) <= wakes(right)
      BY <1>3, <1>6, <2>3
    <3> QED BY <3>1, <3>2, <1>1 DEF left, right, wakes
  <2> QED BY <2>2, <2>3
<1> QED BY <1>5, <1>6

LEMMA RemoveKeeps ==
  ASSUME wake_time \in [Slot -> Int],
         NEW n \in Nat, NEW procs \in [0 .. n -> Slot],
         Distinct(procs, n + 1), Ordered(procs, n + 1, wake_time)
  PROVE  LET rest == WithoutFirst(procs, n)
         IN  /\ rest \in [0 .. n - 1 -> Slot]
             /\ Distinct(rest, n)
             /\ Members(rest, n) = Members(procs, n + 1) \ {procs[0]}
             /\ Ordered(rest, n, wake_time)
<1> DEFINE next == [i \in 0 .. n |-> IF 2 * i <= n THEN MinChild(procs, n, procs[n], i) ELSE i]
           way == Visited(0, next)
           new == [i \in 0 .. n - 1 |->
                     IF i \notin way THEN procs[i]
                     ELSE IF next[i] = i THEN procs[n] ELSE procs[next[i]]]
           wakes(k) == wake_time[procs[k]]
<1>1. WithoutFirst(procs, n) = new
  BY Zenon DEF WithoutFirst
<1>2. \A k \in 0 .. n : wakes(k) \in Int
  OBVIOUS
<1>3. \A i \in 0 .. n :
        /\ next[i] = i \/ next[i] = 2 * i + 1 \/ next[i] = 2 * i + 2
        /\ next[i] # i => next[i] < n /\ wakes(next[i]) < wakes(n)
        /\ \A k \in 1 .. n : Parent(k) = i =>
             wakes(IF next[i] = i THEN n ELSE next[i]) <= wakes(k)
  <2> SUFFICES ASSUME NEW i \in 0 .. n
      PROVE /\ next[i] = i \/ next[i] = 2 * i + 1 \/ next[i] = 2 * i + 2
            /\ next[i] # i => next[i] < n /\ wakes(next[i]) < wakes(n)
            /\ \A k \in 1 .. n : Parent(k) = i =>
                 wakes(IF next[i] = i THEN n ELSE next[i]) <= wakes(k)
    OBVIOUS
  <2>1. \A k \in 1 .. n : Parent(k) = i => k = 2 * i + 1 \/ k = 2 * i + 2
    <3> SUFFICES ASSUME NEW k \in 1 .. n, Parent(k) = i
                 PROVE  k = 2 * i + 1 \/ k = 2 * i + 2
      OBVIOUS
    <3>1. k \in Nat /\ k > 0 /\ i \in Nat
      OBVIOUS
    <3> QED BY <3>1, Parents
  <2>2. CASE 2 * i <= n
    <3> DEFINE c == MinChild(procs, n, procs[n], i)
    <3>1. next[i] = c
      BY <2>2
    <3>0. i \in Nat
      OBVIOUS
    <3>2. /\ c = i \/ c = 2 * i + 1 \/ c = 2 * i + 2
          /\ c # i => c < n /\ wakes(c) < wakes(n)
          /\ \A k \in {2 * i + 1, 2 * i + 2} :
               k <= n => wakes(IF c = i THEN n ELSE c) <= wakes(k)
      BY <1>2, <2>2, <3>0, MinChildFacts, Zenon
    <3> HIDE DEF c, next, wakes
    <3>3. ASSUME NEW k \in 1 .. n, Parent(k) = i
          PROVE  wakes(IF c = i THEN n ELSE c) <= wakes(k)
      <4>1. k \in {2 * i + 1, 2 * i + 2} /\ k <= n
        BY <2>1, <3>3
      <4> QED BY <3>2, <4>1
    <3> QED BY <3>1, <3>2, <3>3
  <2>3. CASE ~(2 * i <= n)
    <3>1. next[i] = i /\ \A k \in 1 .. n : Parent(k) # i
      BY <2>1, <2>3
    <3> QED BY <3>1
  <2> QED BY <2>2, <2>3
<1>4. next \in [0 .. n -> 0 .. n] /\ \A i \in 0 .. n : next[i] >= i
  <2>1. \A i \in 0 .. n : next[i] \in 0 .. n /\ next[i] >= i
    <3> HIDE DEF next, wakes
    <3> QED BY <1>3
  <2>2. DOMAIN next = 0 .. n
    OBVIOUS
  <2>3. next = [i \in 0 .. n |-> next[i]]
    OBVIOUS
  <2> HIDE DEF next
  <2> QED BY <2>1, <2>3
<1>5. /\ way \subseteq 0 .. n /\ 0 \in way
      /\ \A i \in way : next[i] \in way
  <2>1. /\ DOMAIN next = 0 .. n /\ 0 \in DOMAIN next
        /\ \A i \in DOMAIN next : next[i] \in DOMAIN next
    BY <1>4
  <2> HIDE DEF next
  <2> QED BY <2>1, VisitedSet
<1>6. PICK bottom \in way :
        /\ next[bottom] = bottom
        /\ \A i \in way \ {bottom} : next[i] > i
        /\ \A m \in way \ {0} : \E i \in way \ {bottom} : next[i] = m
  <2> HIDE DEF next
  <2> QED BY <1>4, DownwardWay
<1> HIDE DEF next, way
<1>7. \A i \in way \ {bottom} : /\ i \in 0 .. n - 1 /\ next[i] \in 1 .. n - 1
                                /\ Parent(next[i]) = i /\ wakes(next[i]) < wakes(n)
  <2> SUFFICES ASSUME NEW i \in way \ {bottom}
               PROVE  /\ i \in 0 .. n - 1 /\ next[i] \in 1 .. n - 1
                      /\ Parent(next[i]) = i /\ wakes(next[i]) < wakes(n)
    OBVIOUS
  <2>1. i \in 0 .. n /\ next[i] \in 0 .. n /\ next[i] > i
    BY <1>4, <1>5, <1>6
  <2>2. /\ next[i] = 2 * i + 1 \/ next[i] = 2 * i + 2
        /\ next[i] < n /\ wakes(next[i]) < wakes(n)
    BY <1>3, <2>1
  <2>3. Parent(2 * i + 1) = i /\ Parent(2 * i + 2) = i
    BY <2>1, Parents
  <2> QED BY <2>1, <2>2, <2>3
<1>8. n > 0 => bottom \in 0 .. n - 1
  <2>1. CASE bottom = 0
    BY <2>1
  <2>2. CASE bottom # 0
    <3>1. PICK i \in way \ {bottom} : next[i] = bottom
      BY <2>2, <1>6
    <3> QED BY <3>1, <1>7
  <2> QED BY <2>1, <2>2
\* Every index is filled from one of the old array, each but the first once.
<1> DEFINE from(i) == IF i \notin way THEN i ELSE IF i = bottom THEN n ELSE next[i]
<1>9. \A i \in 0 .. n - 1 : from(i) \in 1 .. n /\ new[i] = procs[from(i)]
  <2> SUFFICES ASSUME NEW i \in 0 .. n - 1
               PROVE  from(i) \in 1 .. n /\ new[i] = procs[from(i)]
    OBVIOUS
  <2>1. CASE i \notin way
    <3>1. i # 0
      BY <2>1, <1>5
    <3> QED BY <2>1, <3>1
  <2>2. CASE i = bottom
    BY <2>2, <1>6
  <2>3. CASE i \in way \ {bottom}
    <3>1. next[i] \in 1 .. n - 1 /\ next[i] > i
      BY <2>3, <1>6, <1>7
    <3>2. next[i] # i /\ next[i] \in 1 .. n
      BY <3>1
    <3> QED BY <2>3, <3>2
  <2> QED BY <2>1, <2>2, <2>3
<1>10. \A i, j \in 0 .. n - 1 : from(i) = from(j) => i = j
  <2>1. \A i, j \in way \ {bottom} : next[i] = next[j] => i = j
    BY <1>7
  <2>2. \A i \in way \ {bottom} : next[i] \in way /\ next[i] # n
    BY <1>5, <1>7
  <2>3. \A i \in 0 .. n - 1 : i # n
    OBVIOUS
  <2> QED BY <2>1, <2>2, <2>3
<1>11. \A m \in 1 .. n : \E i \in 0 .. n - 1 : from(i) = m
  <2> SUFFICES ASSUME NEW m \in 1 .. n PROVE \E i \in 0 .. n - 1 : from(i) = m
    OBVIOUS
  <2>1. CASE m = n
    <3>1. bottom \in 0 .. n - 1 /\ from(bottom) = n
      BY <1>8
    <3> QED BY <2>1, <3>1
  <2>2. CASE m # n /\ m \notin way
    <3>1. m \in 0 .. n - 1 /\ from(m) = m
      BY <2>2
    <3> QED BY <3>1
  <2>3. CASE m \in way
    <3>1. m \in way \ {0}
      BY <2>3
    <3>2. PICK i \in way \ {bottom} : next[i] = m
      BY <3>1, <1>6
    <3>3. i \in 0 .. n - 1 /\ from(i) = m
      BY <3>2, <1>7
    <3> QED BY <3>3
  <2> QED BY <2>1, <2>2, <2>3
<1>12. \A i, j \in 0 .. n : procs[i] = procs[j] => i = j
  <2>1. 0 .. n + 1 - 1 = 0 .. n
    OBVIOUS
  <2> QED BY <2>1 DEF Distinct
<1>13. \A k \in 1 .. n : Parent(k) \in 0 .. n - 1 /\ wakes(Parent(k)) <= wakes(k)
  <2>1. 1 .. n + 1 - 1 = 1 .. n
    OBVIOUS
  <2> SUFFICES ASSUME NEW k \in 1 .. n
               PROVE  Parent(k) \in 0 .. n - 1 /\ wakes(Parent(k)) <= wakes(k)
    OBVIOUS
  <2>2. k \in Nat /\ k > 0 /\ k <= n
    OBVIOUS
  <2>3. Parent(k) \in Nat /\ Parent(k) < k
    BY <2>2, Parents
  <2>4. wakes(Parent(k)) <= wakes(k)
    BY <2>1 DEF Ordered
  <2> QED BY <2>2, <2>3, <2>4
<1>14. new \in [0 .. n - 1 -> Slot]
  <2>1. \A i \in 0 .. n - 1 : new[i] \in Slot
    <3> HIDE DEF from, new
    <3>1. \A k \in 1 .. n : procs[k] \in Slot
      BY <1>2
    <3> QED BY <1>9, <3>1
  <2>2. new = [i \in 0 .. n - 1 |-> new[i]]
    OBVIOUS
  <2> HIDE DEF new
  <2> QED BY <2>1, <2>2
<1> HIDE DEF new
<1>15. Distinct(new, n)
  <2> SUFFICES ASSUME NEW i \in 0 .. n - 1, NEW j \in 0 .. n - 1, new[i] = new[j] PROVE i = j
    BY DEF Distinct
  <2> HIDE DEF from
  <2>1. procs[from(i)] = procs[from(j)] /\ from(i) \in 0 .. n /\ from(j) \in 0 .. n
    BY <1>9
  <2>2. from(i) = from(j)
    BY <2>1, <1>12
  <2> QED BY <2>2, <1>10
<1>16. Members(new, n) = Members(procs, n + 1) \ {procs[0]}
  <2> HIDE DEF from
  <2>1. Members(procs, n + 1) = {procs[k] : k \in 0 .. n}
    <3>1. 0 .. n + 1 - 1 = 0 .. n
      OBVIOUS
    <3> QED BY <3>1 DEF Members
  <2>2. ASSUME NEW i \in 0 .. n - 1 PROVE new[i] \in Members(procs, n + 1) \ {procs[0]}
    <3>1. PICK k \in 1 .. n : k = from(i)
      BY <1>9
    <3>2. k \in 0 .. n /\ 0 \in 0 .. n /\ k # 0 /\ new[i] = procs[k]
      BY <3>1, <1>9
    <3> QED BY <2>1, <3>2, <1>12
  <2>3. ASSUME NEW k \in 0 .. n, procs[k] # procs[0] PROVE procs[k] \in Members(new, n)
    <3>1. k \in 1 .. n
      BY <2>3
    <3>2. PICK i \in 0 .. n - 1 : from(i) = k
      BY <3>1, <1>11
    <3>3. new[i] = procs[k]
      BY <3>2, <1>9
    <3> QED BY <3>3 DEF Members
  <2>4. Members(new, n) = {new[i] : i \in 0 .. n - 1}
    BY DEF Members
  <2>5. Members(new, n) \subseteq Members(procs, n + 1) \ {procs[0]}
    BY <2>2, <2>4
  <2>6. Members(procs, n + 1) \ {procs[0]} \subseteq Members(new, n)
    BY <2>1, <2>3
  <2> QED BY <2>5, <2>6
<1>17. Ordered(new, n, wake_time)
  <2> SUFFICES ASSUME NEW i \in 1 .. n - 1
               PROVE  wake_time[new[Parent(i)]] <= wake_time[new[i]]
    BY DEF Ordered
  <2>1. i \in 1 .. n /\ i \in 0 .. n - 1 /\ i # 0 /\ i # n
    OBVIOUS
  <2>2. Parent(i) \in 0 .. n - 1
    BY <2>1, <1>13, Parents
  <2>3. new[i] = procs[from(i)] /\ new[Parent(i)] = procs[from(Parent(i))]
    BY <1>9, <2>1, <2>2
  <2> SUFFICES wakes(from(Parent(i))) <= wakes(from(i))
    BY <2>3
  <2>4. CASE i \in way
    <3>1. PICK j \in way \ {bottom} : next[j] = i
      BY <2>1, <2>4, <1>6
    <3>2. Parent(i) = j /\ from(Parent(i)) = i /\ wakes(i) < wakes(n)
      BY <3>1, <1>7
    <3>3. CASE i = bottom
      <4>1. from(i) = n
        BY <2>4, <3>3
      <4>2. wakes(i) \in Int /\ wakes(n) \in Int
        BY <1>2, <2>1
      <4> QED BY <3>2, <4>1, <4>2
    <3>4. CASE i # bottom
      <4>1. from(i) = next[i] /\ next[i] \in 1 .. n - 1 /\ Parent(next[i]) = i
        BY <2>4, <3>4, <1>7
      <4>2. next[i] \in 1 .. n
        BY <4>1
      <4>3. wakes(i) <= wakes(next[i])
        BY <4>1, <4>2, <1>13
      <4> QED BY <3>2, <4>1, <4>3
    <3> QED BY <3>3, <3>4
  <2>5. CASE i \notin way
    <3>1. from(i) = i
      BY <2>5
    <3>2. CASE Parent(i) \notin way
      <4>1. from(Parent(i)) = Parent(i)
        BY <3>2
      <4>2. wakes(Parent(i)) <= wakes(i)
        BY <2>1, <1>13
      <4> QED BY <3>1, <4>1, <4>2
    <3>3. CASE Parent(i) \in way
      <4>1. PICK q \in 0 .. n : q = Parent(i)
        BY <2>2
      <4>2. wakes(IF next[q] = q THEN n ELSE next[q]) <= wakes(i)
        BY <2>1, <4>1, <1>3
      <4>3. CASE q = bottom
        <5>1. from(q) = n /\ next[q] = q
          BY <3>3, <4>1, <4>3, <1>6
        <5> QED BY <3>1, <4>1, <4>2, <5>1
      <4>4. CASE q # bottom
        <5>1. q \in way \ {bottom} /\ from(q) = next[q]
          BY <3>3, <4>1, <4>4
        <5>2. next[q] > q
          BY <1>6, <5>1
        <5>3. next[q] # q
          BY <4>1, <5>2
        <5> QED BY <3>1, <4>1, <4>2, <5>1, <5>3
      <4> QED BY <4>3, <4>4
    <3> QED BY <3>2, <3>3
  <2> QED BY <2>4, <2>5
<1> QED BY <1>1, <1>14, <1>15, <1>16, <1>17
-----------------------------------------------------------------------------
LEMMA Modulo ==
  ASSUME NEW a \in Nat, NEW k \in Nat, k > 0
  PROVE  a % k \in 0 .. k - 1 /\ a % k <= a /\ (a < k => a % k = a)
OBVIOUS

\* A wake-up time that does not fit in an int wraps to an earlier one.
LEMMA Wraps ==
  ASSUME NEW n \in Nat
  PROVE  /\ Wrap(n) \in (-MAXINT - 1) .. MAXINT /\ Wrap(n) <= n
         /\ n <= MAXINT => Wrap(n) = n
<1> DEFINE k == 2 * (MAXINT + 1)
           a == n + MAXINT + 1
<1>1. MAXINT \in Nat
  BY SleepersAssumption
<1>2. a \in Nat /\ k \in Nat /\ k > 0
  BY <1>1
<1>3. Wrap(n) = (a % k) - (MAXINT + 1)
  BY DEF Wrap
<1> HIDE DEF a, k
<1>4. a % k \in 0 .. k - 1 /\ a % k <= a /\ (a < k => a % k = a)
  BY <1>2, Modulo
<1>5. PICK r \in Int : r = a % k
  BY <1>4
<1> QED BY <1>1, <1>3, <1>4, <1>5 DEF a, k

LEMMA Product ==
  ASSUME NEW a \in Nat, NEW k \in Nat
  PROVE  a * k \in Nat
OBVIOUS

\* Processes that are in the array once are no more than there are.
LEMMA NoMoreThanSlots ==
  ASSUME NEW n \in Nat, NEW procs \in [0 .. n - 1 -> Slot], Distinct(procs, n)
  PROVE  n <= Cardinality(Slot)
<1> SUFFICES ASSUME ~(n <= Cardinality(Slot)) PROVE FALSE
  OBVIOUS
<1>1. IsFiniteSet(Slot) /\ Cardinality(Slot) \in Nat
  BY SleepersAssumption, FS_CardinalityType
<1>2. IsFiniteSet(0 .. n - 1) /\ Cardinality(0 .. n - 1) = n
  <2>1. n # 0
    BY <1>1
  <2> QED BY <2>1, FS_Interval
<1>3. \E x, y \in 0 .. n - 1 : x # y /\ procs[x] = procs[y]
  BY <1>1, <1>2, FS_PigeonHole
<1> QED BY <1>3 DEF Distinct

-----------------------------------------------------------------------------
(***************************************************************************)
(* The inductive invariant.                                                *)
(***************************************************************************)
\* The array is a heap without repetitions.
HeapKept ==
  /\ Distinct(sleep_heap.procs, sleep_heap.size)
  /\ Ordered(sleep_heap.procs, sleep_heap.size, wake_time)

\* A process in the heap waits in its P, and has not been woken; one that waits
\* but is not in the heap has.
Owed ==
  \A p \in Slot :
    /\ p \in Asleep => pc[p] = "semp" /\ block_sem[p] = 0
    /\ p \notin Asleep => block_sem[p] = IF pc[p] = "semp" THEN 1 ELSE 0

\* The wake-up time is the one asked for, or an earlier one.
Stamped ==
  \A p \in Asleep :
    /\ wake_time[p] <= asked[p]
    /\ asked[p] <= MAXINT => wake_time[p] = asked[p]

SInv == TypeOK /\ HeapKept /\ Owed /\ Stamped

LEMMA Start ==
  ASSUME Init
  PROVE  SInv
<1>1. Cardinality(Slot) \in Nat
  BY SleepersAssumption, FS_CardinalityType
<1>2. sleep_heap.size = 0 /\ sleep_heap.procs = [i \in {} |-> 0] /\ 0 .. sleep_heap.size - 1 = {}
  BY DEF Init
<1>3. TypeOK
  <2>1. sleep_heap.procs \in [0 .. sleep_heap.size - 1 -> Slot]
    BY <1>2
  <2>2. sleep_heap.size \in 0 .. Cardinality(Slot)
    BY <1>1, <1>2
  <2>3. now \in 0 .. MaxTime
    BY SleepersAssumption DEF Init
  <2>6. driver \in {"waitdevice", "woken", "loop", "ended"} /\ zapped \in BOOLEAN
    BY DEF Init
  <2>4. wake_time \in [Slot -> (-MAXINT - 1) .. MAXINT]
    <3>1. -1 \in (-MAXINT - 1) .. MAXINT
      BY SleepersAssumption
    <3> QED BY <3>1 DEF Init
  <2>5. /\ block_sem \in [Slot -> Nat] /\ pc \in [Slot -> {"user", "semp"}]
        /\ asked \in [Slot -> Int]
    BY DEF Init
  <2> QED BY <2>1, <2>2, <2>3, <2>4, <2>5, <2>6 DEF TypeOK
<1>4. HeapKept
  BY <1>2 DEF HeapKept, Distinct, Ordered
<1>5. Asleep = {}
  BY <1>2 DEF Asleep
<1>6. Owed /\ Stamped
  BY <1>5 DEF Init, Owed, Stamped
<1> QED BY <1>3, <1>4, <1>6 DEF SInv

\* The facts about the heap that the operations need.
LEMMA HeapFacts ==
  ASSUME SInv
  PROVE  /\ wake_time \in [Slot -> Int]
         /\ sleep_heap.size \in Nat
         /\ sleep_heap.procs \in [0 .. sleep_heap.size - 1 -> Slot]
         /\ Asleep = Members(sleep_heap.procs, sleep_heap.size)
         /\ Asleep \subseteq Slot
<1>1. MAXINT \in Nat /\ Cardinality(Slot) \in Nat
  BY SleepersAssumption, FS_CardinalityType
<1>2. wake_time \in [Slot -> Int]
  BY <1>1 DEF SInv, TypeOK
<1>3. sleep_heap.size \in Nat /\ sleep_heap.procs \in [0 .. sleep_heap.size - 1 -> Slot]
  BY <1>1 DEF SInv, TypeOK
<1> QED BY <1>2, <1>3 DEF Asleep, Members

\* What a process that goes to sleep changes.
LEMMA SleepAdds ==
  ASSUME SInv, NEW p \in Slot, NEW s \in Seconds, sleep_real(p, s), s >= 0
  PROVE  LET asks == now + s * SEC
         IN  /\ pc[p] = "user" /\ p \notin Asleep
             /\ asks \in Nat /\ Wrap(asks) \in (-MAXINT - 1) .. MAXINT
             /\ wake_time' = [wake_time EXCEPT ![p] = Wrap(asks)]
             /\ asked' = [asked EXCEPT ![p] = asks]
             /\ pc' = [pc EXCEPT ![p] = "semp"]
             /\ sleep_heap'.size = sleep_heap.size + 1
             /\ sleep_heap'.procs \in [0 .. sleep_heap'.size - 1 -> Slot]
             /\ HeapKept'
             /\ Asleep' = Asleep \union {p}
<1> DEFINE asks == now + s * SEC
           t == Wrap(asks)
<1>1. asks \in Nat
  <2>1. now \in Nat /\ SEC \in Nat /\ s \in Nat
    BY SleepersAssumption DEF SInv, TypeOK
  <2>2. s * SEC \in Nat
    BY <2>1, Product
  <2> QED BY <2>1, <2>2
<1>2. /\ pc[p] = "user"
      /\ wake_time' = [wake_time EXCEPT ![p] = t]
      /\ asked' = [asked EXCEPT ![p] = asks]
      /\ pc' = [pc EXCEPT ![p] = "semp"]
      /\ sleep_heap' = heap_add(sleep_heap, p, t)
  <2>1. ~(s < 0)
    BY SleepersAssumption
  <2> QED BY <2>1 DEF sleep_real
<1> HIDE DEF asks
<1>3. t \in (-MAXINT - 1) .. MAXINT
  BY <1>1, Wraps
<1> HIDE DEF t
<1>4. t \in Int
  BY <1>3, SleepersAssumption
<1>5. p \notin Asleep
  BY <1>2 DEF SInv, Owed
<1> DEFINE n == sleep_heap.size
           procs == sleep_heap.procs
           new == WithNew(procs, p, t, n)
<1>6. /\ n \in Nat /\ procs \in [0 .. n - 1 -> Slot] /\ wake_time \in [Slot -> Int]
      /\ Asleep = Members(procs, n)
      /\ Distinct(procs, n) /\ Ordered(procs, n, wake_time)
  BY HeapFacts DEF SInv, HeapKept
<1>7. sleep_heap'.size = n + 1 /\ sleep_heap'.procs = new
  BY <1>2 DEF heap_add
<1> HIDE DEF n, procs
<1>8. /\ new \in [0 .. n -> Slot] /\ Distinct(new, n + 1)
      /\ Members(new, n + 1) = Members(procs, n) \union {p}
      /\ Ordered(new, n + 1, [wake_time EXCEPT ![p] = t])
  BY <1>4, <1>5, <1>6, AddKeeps, ZenonT(30)
<1> HIDE DEF new
<1>9. HeapKept'
  BY <1>2, <1>7, <1>8 DEF HeapKept
<1>10. Asleep' = Asleep \union {p}
  <2>1. Asleep' = Members(new, n + 1)
    BY <1>7 DEF Asleep, Members
  <2> QED BY <2>1, <1>6, <1>8
<1>11. sleep_heap'.procs \in [0 .. sleep_heap'.size - 1 -> Slot]
  <2>1. sleep_heap'.size - 1 = n
    BY <1>6, <1>7
  <2> QED BY <2>1, <1>7, <1>8
<1> QED BY <1>1, <1>2, <1>3, <1>5, <1>7, <1>9, <1>10, <1>11 DEF asks, t, n

\* What the driver changes when it wakes somebody.
LEMMA WakeRemoves ==
  ASSUME SInv, WakeOne
  PROVE  LET first == heap_peek(sleep_heap)
         IN  /\ first \in Asleep /\ now >= wake_time[first]
             /\ \A p \in Asleep : wake_time[first] <= wake_time[p]
             /\ Asleep' = Asleep \ {first}
             /\ block_sem' = [block_sem EXCEPT ![first] = @ + 1]
             /\ sleep_heap'.size = sleep_heap.size - 1
             /\ sleep_heap'.procs \in [0 .. sleep_heap'.size - 1 -> Slot]
             /\ HeapKept'
<1>1. PICK n \in Nat : sleep_heap.size = n + 1
  <2>1. sleep_heap.size \in Nat /\ sleep_heap.size > 0
    BY HeapFacts DEF WakeOne, Due
  <2>2. sleep_heap.size - 1 \in Nat /\ sleep_heap.size = sleep_heap.size - 1 + 1
    BY <2>1
  <2> QED BY <2>2
<1> DEFINE procs == sleep_heap.procs
           first == procs[0]
           rest == WithoutFirst(procs, n)
<1>2. n + 1 - 1 = n
  OBVIOUS
<1>3. /\ procs \in [0 .. n -> Slot] /\ wake_time \in [Slot -> Int]
      /\ procs \in [0 .. n + 1 - 1 -> Slot]
      /\ Asleep = Members(procs, n + 1)
      /\ Distinct(procs, n + 1) /\ Ordered(procs, n + 1, wake_time)
  BY <1>1, <1>2, HeapFacts DEF SInv, HeapKept
<1>4. /\ now >= wake_time[first]
      /\ block_sem' = [block_sem EXCEPT ![first] = @ + 1]
      /\ sleep_heap'.size = n /\ sleep_heap'.procs = rest
      /\ wake_time' = wake_time
  BY <1>1, <1>2 DEF WakeOne, Due, heap_peek, heap_remove
<1> HIDE DEF procs
<1>5. /\ rest \in [0 .. n - 1 -> Slot] /\ Distinct(rest, n)
      /\ Members(rest, n) = Members(procs, n + 1) \ {first}
      /\ Ordered(rest, n, wake_time)
  BY <1>3, RemoveKeeps
<1> HIDE DEF rest
<1>6. HeapKept'
  BY <1>4, <1>5 DEF HeapKept
<1>7. Asleep' = Asleep \ {first}
  <2>1. Asleep' = Members(rest, n)
    BY <1>4 DEF Asleep, Members
  <2> QED BY <2>1, <1>3, <1>5
<1>8. \A p \in Asleep : wake_time[first] <= wake_time[p]
  <2> SUFFICES ASSUME NEW i \in 0 .. n + 1 - 1
               PROVE  wake_time[first] <= wake_time[procs[i]]
    BY <1>3 DEF Members
  <2>1. PICK m \in Nat : m = n + 1
    OBVIOUS
  <2>2. procs \in [0 .. m - 1 -> Slot] /\ Ordered(procs, m, wake_time) /\ i \in 0 .. m - 1
    BY <1>3, <2>1
  <2> QED BY <1>3, <2>2, RootFirst
<1>9. first \in Asleep
  <2>1. 0 \in 0 .. n + 1 - 1
    OBVIOUS
  <2> QED BY <2>1, <1>3 DEF Members
<1> QED BY <1>1, <1>2, <1>4, <1>5, <1>6, <1>7, <1>8, <1>9 DEF heap_peek, procs
LEMMA Unchanged ==
  ASSUME SInv, UNCHANGED vars
  PROVE  SInv'
<1> USE DEF vars
<1>1. TypeOK'
  BY DEF SInv, TypeOK
<1>2. Asleep' = Asleep
  BY DEF Asleep
<1>3. HeapKept' /\ Owed' /\ Stamped'
  BY <1>2 DEF SInv, HeapKept, Owed, Stamped
<1> QED BY <1>1, <1>3 DEF SInv

LEMMA HeapFits ==
  ASSUME HeapKept', sleep_heap'.size \in Nat,
         sleep_heap'.procs \in [0 .. sleep_heap'.size - 1 -> Slot]
  PROVE  sleep_heap'.size \in 0 .. Cardinality(Slot)
<1>1. sleep_heap'.size <= Cardinality(Slot)
  BY NoMoreThanSlots DEF HeapKept
<1>2. Cardinality(Slot) \in Nat
  BY SleepersAssumption, FS_CardinalityType
<1> QED BY <1>1, <1>2

LEMMA SleepKeeps ==
  ASSUME SInv, NEW p \in Slot, NEW s \in Seconds, sleep_real(p, s)
  PROVE  SInv'
<1>1. CASE s < 0
  <2>1. UNCHANGED vars
    BY <1>1 DEF sleep_real, vars
  <2> QED BY <2>1, Unchanged
<1>2. CASE ~(s < 0)
  <2> DEFINE asks == now + s * SEC
             t == Wrap(asks)
  <2>0. s >= 0
    BY <1>2, SleepersAssumption
  <2>1. /\ pc[p] = "user" /\ p \notin Asleep
        /\ asks \in Nat /\ t \in (-MAXINT - 1) .. MAXINT
        /\ wake_time' = [wake_time EXCEPT ![p] = t]
        /\ asked' = [asked EXCEPT ![p] = asks]
        /\ pc' = [pc EXCEPT ![p] = "semp"]
        /\ sleep_heap'.size = sleep_heap.size + 1
        /\ sleep_heap'.procs \in [0 .. sleep_heap'.size - 1 -> Slot]
        /\ HeapKept'
        /\ Asleep' = Asleep \union {p}
    BY <2>0, SleepAdds
  <2>2. UNCHANGED <<now, block_sem, driver, zapped>>
    BY DEF sleep_real
  <2>3. t <= asks /\ (asks <= MAXINT => t = asks)
    BY <2>1, Wraps
  <2> HIDE DEF asks, t
  <2>4. TypeOK'
    <3>1. sleep_heap'.size \in 0 .. Cardinality(Slot)
      BY <2>1, HeapFits, HeapFacts
    <3> QED BY <2>1, <2>2, <3>1 DEF SInv, TypeOK
  <2>5. Owed'
    BY <2>1, <2>2 DEF SInv, Owed, TypeOK
  <2>6. Stamped'
    <3> SUFFICES ASSUME NEW q \in Asleep'
                 PROVE  /\ wake_time'[q] <= asked'[q]
                        /\ asked'[q] <= MAXINT => wake_time'[q] = asked'[q]
      BY DEF Stamped
    <3>1. q \in Slot /\ Asleep \subseteq Slot
      BY <2>1, HeapFacts
    <3>2. CASE q = p
      BY <2>1, <2>3, <3>2 DEF SInv, TypeOK
    <3>3. CASE q # p
      BY <2>1, <3>1, <3>3 DEF SInv, Stamped, TypeOK
    <3> QED BY <3>2, <3>3
  <2> QED BY <2>1, <2>4, <2>5, <2>6 DEF SInv
<1> QED BY <1>1, <1>2

LEMMA WakeKeeps ==
  ASSUME SInv, WakeOne
  PROVE  SInv'
<1> DEFINE first == heap_peek(sleep_heap)
<1>1. /\ first \in Asleep /\ now >= wake_time[first]
      /\ Asleep' = Asleep \ {first}
      /\ block_sem' = [block_sem EXCEPT ![first] = @ + 1]
      /\ sleep_heap'.size = sleep_heap.size - 1
      /\ sleep_heap'.procs \in [0 .. sleep_heap'.size - 1 -> Slot]
      /\ HeapKept'
  BY WakeRemoves
<1> HIDE DEF first
<1>2. UNCHANGED <<now, wake_time, driver, zapped, pc, asked>> /\ sleep_heap.size > 0
  BY DEF WakeOne, Due
<1>3. first \in Slot /\ Asleep \subseteq Slot
  BY <1>1, HeapFacts
<1>4. TypeOK'
  <2>1. sleep_heap'.size \in 0 .. Cardinality(Slot)
    <3>1. sleep_heap.size \in Nat
      BY HeapFacts
    <3>2. sleep_heap'.size \in Nat
      BY <1>1, <1>2, <3>1
    <3> QED BY <1>1, <3>2, HeapFits
  <2>2. block_sem' \in [Slot -> Nat]
    BY <1>1, <1>3 DEF SInv, TypeOK
  <2> QED BY <1>1, <1>2, <2>1, <2>2 DEF SInv, TypeOK
<1>5. Owed'
  <2> SUFFICES ASSUME NEW p \in Slot
               PROVE  /\ p \in Asleep' => pc'[p] = "semp" /\ block_sem'[p] = 0
                      /\ p \notin Asleep' => block_sem'[p] = IF pc'[p] = "semp" THEN 1 ELSE 0
    BY DEF Owed
  <2>1. block_sem \in [Slot -> Nat]
    BY DEF SInv, TypeOK
  <2>2. CASE p = first
    <3>1. pc[p] = "semp" /\ block_sem[p] = 0
      BY <1>1, <1>3, <2>2 DEF SInv, Owed
    <3>2. block_sem'[p] = 1 /\ pc'[p] = "semp" /\ p \notin Asleep'
      BY <1>1, <1>2, <1>3, <2>1, <2>2, <3>1
    <3> QED BY <3>2
  <2>3. CASE p # first
    <3>1. block_sem'[p] = block_sem[p] /\ pc'[p] = pc[p] /\ (p \in Asleep' <=> p \in Asleep)
      BY <1>1, <1>2, <2>1, <2>3
    <3> QED BY <3>1 DEF SInv, Owed
  <2> QED BY <2>2, <2>3
<1>6. Stamped'
  BY <1>1, <1>2 DEF SInv, Stamped
<1> QED BY <1>1, <1>4, <1>5, <1>6 DEF SInv

\* A P that goes through was owed one.
LEMMA AwakeKeeps ==
  ASSUME SInv, NEW p \in Slot, semp_real(p)
  PROVE  SInv' /\ p \notin Asleep
<1>1. /\ UNCHANGED <<now, wake_time, sleep_heap, driver, zapped, asked>>
      /\ pc[p] = "semp" /\ block_sem[p] > 0
      /\ block_sem' = [block_sem EXCEPT ![p] = @ - 1]
      /\ pc' = [pc EXCEPT ![p] = "user"]
  BY DEF semp_real
<1>2. block_sem \in [Slot -> Nat] /\ pc \in [Slot -> {"user", "semp"}]
  BY DEF SInv, TypeOK
<1>3. p \notin Asleep /\ block_sem[p] = 1
  BY <1>1 DEF SInv, Owed
<1>4. Asleep' = Asleep /\ HeapKept' /\ Stamped'
  BY <1>1 DEF SInv, Asleep, HeapKept, Stamped
<1>5. TypeOK'
  <2>1. block_sem' \in [Slot -> Nat]
    BY <1>1, <1>2
  <2>2. pc' \in [Slot -> {"user", "semp"}]
    BY <1>1, <1>2
  <2> QED BY <1>1, <2>1, <2>2 DEF SInv, TypeOK
<1>6. Owed'
  <2> SUFFICES ASSUME NEW q \in Slot
               PROVE  /\ q \in Asleep' => pc'[q] = "semp" /\ block_sem'[q] = 0
                      /\ q \notin Asleep' => block_sem'[q] = IF pc'[q] = "semp" THEN 1 ELSE 0
    BY DEF Owed
  <2>1. CASE q = p
    <3>1. block_sem'[q] = 0 /\ pc'[q] = "user" /\ q \notin Asleep'
      BY <1>1, <1>2, <1>3, <1>4, <2>1
    <3> QED BY <3>1
  <2>2. CASE q # p
    <3>1. block_sem'[q] = block_sem[q] /\ pc'[q] = pc[q] /\ (q \in Asleep' <=> q \in Asleep)
      BY <1>1, <1>2, <1>4, <2>2
    <3> QED BY <3>1 DEF SInv, Owed
  <2> QED BY <2>1, <2>2
<1> QED BY <1>3, <1>4, <1>5, <1>6 DEF SInv

\* The clock, the driver between its wake-ups, and its end.
LEMMA OthersKeep ==
  ASSUME SInv, ClockInterrupt \/ AfterWaitdevice \/ WakeDone \/ ZapClockDriver
  PROVE  SInv'
<1>1. UNCHANGED <<wake_time, block_sem, sleep_heap, pc, asked>>
  BY DEF ClockInterrupt, AfterWaitdevice, WakeDone, ZapClockDriver
<1>2. /\ now' \in 0 .. MaxTime
  BY SleepersAssumption
     DEF SInv, TypeOK, ClockInterrupt, AfterWaitdevice, WakeDone, ZapClockDriver
<1>3. driver' \in {"waitdevice", "woken", "loop", "ended"} /\ zapped' \in BOOLEAN
  BY DEF SInv, TypeOK, ClockInterrupt, AfterWaitdevice, WakeDone, ZapClockDriver
<1>4. TypeOK'
  BY <1>1, <1>2, <1>3 DEF SInv, TypeOK
<1>5. Asleep' = Asleep
  BY <1>1 DEF Asleep
<1>6. HeapKept' /\ Owed' /\ Stamped'
  BY <1>1, <1>5 DEF SInv, HeapKept, Owed, Stamped
<1> QED BY <1>4, <1>6 DEF SInv

LEMMA Step ==
  ASSUME SInv, [Next]_vars
  PROVE  SInv'
<1>1. CASE ClockInterrupt
  BY <1>1, OthersKeep
<1>2. CASE ClockDriver
  BY <1>2, OthersKeep, WakeKeeps DEF ClockDriver
<1>3. ASSUME NEW p \in Slot, semp_real(p) PROVE SInv'
  BY <1>3, AwakeKeeps
<1>4. ASSUME NEW p \in Slot, NEW s \in Seconds, sleep_real(p, s) PROVE SInv'
  BY <1>4, SleepKeeps
<1>5. CASE ZapClockDriver
  BY <1>5, OthersKeep
<1>6. CASE UNCHANGED vars
  BY <1>6, Unchanged
<1> QED BY <1>1, <1>2, <1>3, <1>4, <1>5, <1>6 DEF Next

LEMMA Invariance == Spec => []SInv
BY Start, Step, PTL DEF Spec

-----------------------------------------------------------------------------
\* Every variable of the sleepers keeps its type; in particular the heap does
\* not outgrow its array, which has one entry for each process (phase4.c:996-1065).
THEOREM SleepersTypes == Spec => []TypeOK
<1>1. SInv => TypeOK
  BY DEF SInv
<1> QED BY <1>1, Invariance, PTL

LEMMA WokenOnceNow ==
  ASSUME SInv
  PROVE  WokenOnce
<1> DEFINE n == sleep_heap.size
           procs == sleep_heap.procs
           places(p) == {i \in 0 .. n - 1 : procs[i] = p}
<1>1. n \in Nat /\ Distinct(procs, n) /\ Asleep = Members(procs, n)
  BY HeapFacts DEF SInv, HeapKept
<1> SUFFICES ASSUME NEW p \in Slot
             PROVE  Cardinality(places(p)) + block_sem[p] = IF pc[p] = "semp" THEN 1 ELSE 0
  BY DEF WokenOnce
<1> HIDE DEF n, procs
<1>2. CASE p \in Asleep
  <2>1. PICK i \in 0 .. n - 1 : procs[i] = p
    BY <1>1, <1>2 DEF Members
  <2>2. places(p) = {i}
    BY <1>1, <2>1 DEF Distinct
  <2>3. Cardinality(places(p)) = 1
    BY <2>2, FS_Singleton
  <2>4. pc[p] = "semp" /\ block_sem[p] = 0
    BY <1>2 DEF SInv, Owed
  <2> QED BY <2>3, <2>4
<1>3. CASE p \notin Asleep
  <2>1. places(p) = {}
    BY <1>1, <1>3 DEF Members
  <2>2. Cardinality(places(p)) = 0
    BY <2>1, FS_EmptySet
  <2>3. block_sem[p] = IF pc[p] = "semp" THEN 1 ELSE 0
    BY <1>3 DEF SInv, Owed
  <2> QED BY <2>2, <2>3
<1> QED BY <1>2, <1>3

\* A process that sleeps is in the heap once or is owed one wake-up, and nobody
\* else is (phase4.c:281-286, 565-577).
THEOREM WakesOnce == Spec => []WokenOnce
<1>1. SInv => WokenOnce
  BY WokenOnceNow
<1> QED BY <1>1, Invariance, PTL

-----------------------------------------------------------------------------
(***************************************************************************)
(* The array heap implements the set of alarms.                            *)
(***************************************************************************)
Alarms == {[who |-> p, at |-> wake_time[p]] : p \in Asleep}

LEMMA AlarmsKept ==
  ASSUME UNCHANGED <<wake_time, sleep_heap>>
  PROVE  Alarms' = Alarms
BY DEF Alarms, Asleep

LEMMA SleepSets ==
  ASSUME SInv, NEW p \in Slot, NEW s \in Seconds, sleep_real(p, s)
  PROVE  Alarm!Set \/ UNCHANGED <<now, Alarms>>
<1>1. CASE s < 0
  <2>1. UNCHANGED <<now, wake_time, sleep_heap>>
    BY <1>1 DEF sleep_real
  <2> QED BY <2>1, AlarmsKept
<1>2. CASE ~(s < 0)
  <2> DEFINE t == Wrap(now + s * SEC)
             a == [who |-> p, at |-> t]
  <2>0. s >= 0
    BY <1>2, SleepersAssumption
  <2>1. /\ p \notin Asleep /\ Asleep' = Asleep \union {p}
        /\ wake_time' = [wake_time EXCEPT ![p] = t]
    BY <2>0, SleepAdds
  <2> HIDE DEF t
  <2>2. p \in Slot /\ Asleep \subseteq Slot /\ wake_time \in [Slot -> Int]
    BY HeapFacts
  <2>3. wake_time'[p] = t /\ \A q \in Asleep : wake_time'[q] = wake_time[q]
    BY <2>1, <2>2
  <2>4. Alarms' = Alarms \union {a}
    <3>1. Alarms' = {[who |-> q, at |-> wake_time'[q]] : q \in Asleep \union {p}}
      BY <2>1 DEF Alarms
    <3> QED BY <2>3, <3>1 DEF Alarms
  <2>5. a.who \notin {b.who : b \in Alarms}
    BY <2>1 DEF Alarms
  <2>6. now' = now
    BY DEF sleep_real
  <2>7. a \in Alarms'
    BY <2>4
  <2> HIDE DEF a
  <2> QED BY <2>4, <2>5, <2>6, <2>7 DEF Alarm!Set, Alarms
<1> QED BY <1>1, <1>2

LEMMA WakeRings ==
  ASSUME SInv, WakeOne
  PROVE  Alarm!Ring
<1> DEFINE first == heap_peek(sleep_heap)
           a == [who |-> first, at |-> wake_time[first]]
<1>1. /\ first \in Asleep /\ now >= wake_time[first]
      /\ \A p \in Asleep : wake_time[first] <= wake_time[p]
      /\ Asleep' = Asleep \ {first}
  BY WakeRemoves
<1> HIDE DEF first
<1>2. now' = now /\ wake_time' = wake_time
  BY DEF WakeOne
<1>3. Alarms' = Alarms \ {a}
  <2>1. Alarms' = {[who |-> q, at |-> wake_time[q]] : q \in Asleep \ {first}}
    BY <1>1, <1>2 DEF Alarms
  <2> QED BY <2>1 DEF Alarms
<1>4. a \in Alarms /\ a.at = wake_time[first]
  BY <1>1 DEF Alarms
<1>5. a.at <= now
  <2>1. now \in Int /\ wake_time[first] \in Int
    <3>1. now \in Int
      BY DEF SInv, TypeOK
    <3>2. first \in Slot /\ wake_time \in [Slot -> Int]
      BY <1>1, HeapFacts
    <3> QED BY <3>1, <3>2
  <2> QED BY <1>1, <1>4, <2>1
<1>6. \A b \in Alarms : a.at <= b.at
  BY <1>1, <1>4 DEF Alarms
<1> HIDE DEF a
<1> QED BY <1>2, <1>3, <1>4, <1>5, <1>6 DEF Alarm!Ring, Alarms

LEMMA StepRefines ==
  ASSUME SInv, [Next]_vars
  PROVE  [Alarm!Next]_<<now, Alarms>>
<1> SUFFICES Alarm!Next \/ UNCHANGED <<now, Alarms>>
  OBVIOUS
<1>1. CASE ClockInterrupt
  <2>1. Alarms' = Alarms
    BY <1>1, AlarmsKept DEF ClockInterrupt
  <2>2. now' > now \/ now' = now
    BY <1>1 DEF ClockInterrupt, SInv, TypeOK
  <2> QED BY <2>1, <2>2 DEF Alarm!Next, Alarm!Advance, Alarms
<1>2. CASE WakeOne
  BY <1>2, WakeRings DEF Alarm!Next
<1>3. CASE AfterWaitdevice \/ WakeDone \/ ZapClockDriver
  BY <1>3, AlarmsKept DEF AfterWaitdevice, WakeDone, ZapClockDriver
<1>4. ASSUME NEW p \in Slot, semp_real(p) PROVE UNCHANGED <<now, Alarms>>
  BY <1>4, AlarmsKept DEF semp_real
<1>5. ASSUME NEW p \in Slot, NEW s \in Seconds, sleep_real(p, s)
      PROVE  Alarm!Next \/ UNCHANGED <<now, Alarms>>
  BY <1>5, SleepSets DEF Alarm!Next
<1>6. CASE UNCHANGED vars
  BY <1>6, AlarmsKept DEF vars
<1> QED BY <1>1, <1>2, <1>3, <1>4, <1>5, <1>6 DEF Next, ClockDriver

\* The array of phase4.c:1000-1065 is a set of alarms that rings the earliest
\* first, however many processes sleep and whatever was added and removed before.
THEOREM AlarmsInOrder == Spec => WakesInOrder
<1>1. Init => Alarm!Init
  <2> SUFFICES ASSUME Init PROVE Alarm!Init
    OBVIOUS
  <2>1. Asleep = {} /\ now = 0
    BY DEF Init, Asleep
  <2> QED BY <2>1 DEF Alarm!Init
<1>2. SInv /\ [Next]_vars => [Alarm!Next]_<<now, Alarms>>
  BY StepRefines
<1> QED BY <1>1, <1>2, Invariance, PTL DEF Spec, WakesInOrder, Alarm!Spec, Alarms

-----------------------------------------------------------------------------
LEMMA OnTimeStep ==
  ASSUME SInv, [Next]_vars, NEW p \in Asleep
  PROVE  /\ p \notin Asleep' /\ asked[p] <= MAXINT => now >= asked[p]
         /\ driver = "loop" /\ driver' = "waitdevice" => asked[p] > now
<1>1. /\ p \in Slot /\ Asleep \subseteq Slot
      /\ now \in Int /\ asked[p] \in Int /\ wake_time[p] \in Int
      /\ wake_time[p] <= asked[p]
      /\ asked[p] <= MAXINT => wake_time[p] = asked[p]
  <2>1. p \in Slot /\ Asleep \subseteq Slot /\ wake_time \in [Slot -> Int]
    BY HeapFacts
  <2>2. now \in Int /\ asked[p] \in Int
    BY <2>1 DEF SInv, TypeOK
  <2>3. wake_time[p] \in Int
    BY <2>1
  <2> QED BY <2>1, <2>2, <2>3 DEF SInv, Stamped
<1>2. CASE WakeOne
  <2> DEFINE first == heap_peek(sleep_heap)
  <2>1. now >= wake_time[first] /\ Asleep' = Asleep \ {first}
    BY <1>2, WakeRemoves
  <2>2. driver' = driver
    BY <1>2 DEF WakeOne
  <2> HIDE DEF first
  <2>3. p \notin Asleep' => p = first
    BY <2>1
  <2> QED BY <1>1, <2>1, <2>2, <2>3
<1>3. CASE WakeDone
  <2>1. Asleep' = Asleep
    BY <1>3 DEF WakeDone, Asleep
  <2>2. now < wake_time[p]
    <3> DEFINE n == sleep_heap.size
               procs == sleep_heap.procs
    <3>1. /\ n \in Nat /\ procs \in [0 .. n - 1 -> Slot] /\ wake_time \in [Slot -> Int]
          /\ Asleep = Members(procs, n) /\ Ordered(procs, n, wake_time)
      BY HeapFacts DEF SInv, HeapKept
    <3>2. ~(n > 0 /\ now >= wake_time[procs[0]])
      BY <1>3 DEF WakeDone, Due, heap_peek
    <3> HIDE DEF n, procs
    <3>3. PICK i \in 0 .. n - 1 : procs[i] = p
      BY <3>1 DEF Members
    <3>4. n > 0 /\ 0 \in 0 .. n - 1
      BY <3>1, <3>3
    <3>5. wake_time[procs[0]] <= wake_time[procs[i]]
      BY <3>1, RootFirst
    <3>6. wake_time[procs[0]] \in Int
      BY <3>1, <3>4
    <3> QED BY <1>1, <3>2, <3>3, <3>4, <3>5, <3>6
  <2> QED BY <1>1, <2>1, <2>2
<1>4. CASE \E q \in Slot, s \in Seconds : sleep_real(q, s)
  <2>1. PICK q \in Slot, s \in Seconds : sleep_real(q, s)
    BY <1>4
  <2>2. driver' = driver
    BY <2>1 DEF sleep_real
  <2>3. Asleep \subseteq Asleep'
    <3>1. CASE s < 0
      BY <2>1, <3>1 DEF sleep_real, Asleep
    <3>2. CASE ~(s < 0)
      <4>1. s >= 0
        BY <3>2, SleepersAssumption
      <4> QED BY <2>1, <4>1, SleepAdds
    <3> QED BY <3>1, <3>2
  <2> QED BY <2>2, <2>3
<1>5. CASE UNCHANGED sleep_heap /\ ~(driver = "loop" /\ driver' = "waitdevice")
  <2>1. Asleep' = Asleep
    BY <1>5 DEF Asleep
  <2> QED BY <1>5, <2>1
<1>6. ClockInterrupt \/ AfterWaitdevice \/ (\E q \in Slot : semp_real(q)) \/ ZapClockDriver
        \/ UNCHANGED vars => UNCHANGED sleep_heap /\ ~(driver = "loop" /\ driver' = "waitdevice")
  BY DEF ClockInterrupt, AfterWaitdevice, semp_real, ZapClockDriver, vars
<1> QED BY <1>2, <1>3, <1>4, <1>5, <1>6 DEF Next, ClockDriver

\* Nobody whose time fits in an int is woken early, and the driver waits for the
\* clock again only when it has woken everybody whose time has come
\* (phase4.c:279-286), whether or not it has wrapped.
THEOREM NobodyEarlyOrLate == Spec => OnTime
<1>1. SInv /\ [Next]_vars =>
        [\A p \in Asleep : /\ p \notin Asleep' /\ asked[p] <= MAXINT => now >= asked[p]
                           /\ driver = "loop" /\ driver' = "waitdevice" => asked[p] > now]_vars
  BY OnTimeStep
<1> QED BY <1>1, Invariance, PTL DEF Spec, OnTime
=============================================================================
