-------------------------- MODULE SemaphoreProofs ---------------------------
(***************************************************************************)
(* Proofs about the semaphores of Phase 3, for any number of processes,    *)
(* semaphores and mailboxes: the types; that in orderly use one process at *)
(* a time is inside a semaphore and numSems counts the table; and that the *)
(* table with its mailboxes implements counting semaphores.                *)
(***************************************************************************)
EXTENDS SemaphoreProperties, FiniteSetTheorems, SequenceTheorems,
        WellFoundedInduction, TLAPS

Creating == {"C_find", "C_fill"}
Freeing  == {"F_lock", "F_send", "F_unlock"}

(***************************************************************************)
(* The inductive invariant of the types.  That the unlock at the end of    *)
(* semCreateReal finds the mutex locked needs that nobody else can name    *)
(* the new mailboxes before the entry is filled (phase31.c:349-355, 379),  *)
(* however disorderly the users are.                                       *)
(***************************************************************************)
Private(p) ==
  /\ mine[p] \in 2 .. boxes /\ mail[mine[p]] = 1
  /\ \A h \in Sem : SemTable[h].priv # mine[p] /\ SemTable[h].mutex # mine[p]
  /\ \A q \in Proc \ {p} :
       /\ at[q] # mine[p] /\ mine[q] # mine[p]
       /\ pc[q] \in Creating => mine[q] # mine[p] + 1

Fresh ==
  /\ \A h \in Sem : SemTable[h].priv <= boxes /\ SemTable[h].mutex <= boxes
  /\ \A p \in Proc : at[p] <= boxes /\ mine[p] <= boxes
  /\ \A b \in Box : b > boxes => line[b] = <<>>
  /\ \A p \in Proc : pc[p] \in Creating => Private(p)
  /\ \A p \in Proc : pc[p] \in Idle \union Creating => at[p] = Unset

TInv == TypeOK /\ Fresh

-----------------------------------------------------------------------------
(***************************************************************************)
(* Lemmas about numbers, sequences and finite sets.                        *)
(***************************************************************************)

\* A non-empty set of natural numbers has a least element, so the search for
\* the first free entry (phase31.c:361-362) finds one if there is one.
LEMMA LeastExists ==
  ASSUME NEW S, S \subseteq Nat, S # {}
  PROVE  \E x \in S : \A y \in S : x <= y
<1> DEFINE R == {ss \in Nat \X Nat : ss[1] < ss[2]}
<1>1. IsWellFoundedOn(R, Nat)
  BY NatLessThanWellFounded DEF OpToRel
<1>2. PICK x \in S : \A y \in S : ~(<<y, x>> \in R)
  <2>1. \E x \in S : \A y \in S : ~(<<y, x>> \in R)
    BY <1>1, WFMin
  <2> QED BY <2>1
<1>3. ASSUME NEW y \in S PROVE x <= y
  <2>1. x \in Nat /\ y \in Nat
    OBVIOUS
  <2>2. ~(<<y, x>> \in R)
    BY <1>2
  <2>3. ~(y < x)
    BY <2>1, <2>2
  <2> QED BY <2>1, <2>3
<1> QED BY <1>3

\* What is left of a sequence is a sequence of the same elements; of a sequence
\* of one, nothing.
LEMMA RemoveAtType ==
  ASSUME NEW S, NEW s \in Seq(S), NEW i \in DOMAIN s
  PROVE  /\ RemoveAt(s, i) \in Seq(S)
         /\ Len(s) = 1 => RemoveAt(s, i) = <<>>
<1>1. Len(s) \in Nat /\ i \in 1 .. Len(s)
  OBVIOUS
<1>2. SubSeq(s, 1, i - 1) \in Seq(S) /\ SubSeq(s, i + 1, Len(s)) \in Seq(S)
  BY <1>1
<1>3. CASE Len(s) = 1
  <2>1. i = 1
    BY <1>1, <1>3
  <2>2. SubSeq(s, 1, i - 1) = <<>> /\ SubSeq(s, i + 1, Len(s)) = <<>>
    BY <1>1, <1>3, <2>1, SubSeqEmpty
  <2> QED BY <1>2, <2>2, ConcatEmptySeq DEF RemoveAt
<1>4. CASE Len(s) # 1
  BY <1>2, <1>4 DEF RemoveAt
<1> QED BY <1>3, <1>4

\* Two sets that differ in at most p.
LEMMA CardMoves ==
  ASSUME NEW S, NEW T, NEW p, IsFiniteSet(S),
         \A q : q # p => (q \in S <=> q \in T)
  PROVE  /\ IsFiniteSet(T)
         /\ Cardinality(S) \in Nat /\ Cardinality(T) \in Nat
         /\ Cardinality(T) = Cardinality(S) + (IF p \in T THEN 1 ELSE 0)
                                            - (IF p \in S THEN 1 ELSE 0)
<1>0. Cardinality(S) \in Nat
  BY FS_CardinalityType
<1>1. CASE p \in S /\ p \in T
  <2>1. S = T
    BY <1>1
  <2> QED BY <1>0, <1>1, <2>1
<1>2. CASE p \notin S /\ p \notin T
  <2>1. S = T
    BY <1>2
  <2> QED BY <1>0, <1>2, <2>1
<1>3. CASE p \in S /\ p \notin T
  <2>1. T = S \ {p}
    BY <1>3
  <2>2. IsFiniteSet(T) /\ Cardinality(T) = Cardinality(S) - 1
    BY <1>3, <2>1, FS_RemoveElement
  <2>3. Cardinality(T) \in Nat
    BY <2>2, FS_CardinalityType
  <2> QED BY <1>0, <1>3, <2>2, <2>3
<1>4. CASE p \notin S /\ p \in T
  <2>1. T = S \union {p}
    BY <1>4
  <2>2. IsFiniteSet(T) /\ Cardinality(T) = Cardinality(S) + 1
    BY <1>4, <2>1, FS_AddElement
  <2>3. Cardinality(T) \in Nat
    BY <2>2, FS_CardinalityType
  <2> QED BY <1>0, <1>4, <2>2, <2>3
<1> QED BY <1>1, <1>2, <1>3, <1>4

-----------------------------------------------------------------------------
(***************************************************************************)
(* The mailbox calls, typed.                                               *)
(***************************************************************************)
USE SemaphoreAssumption
USE DEF Sem, Box, NoBox, Unset, BoxId, Idle, Creating

\* A message more in p's mailbox, or an error for the id -1.
LEMMA SentType ==
  ASSUME TypeOK, NEW p \in Proc, Sent(p)
  PROVE  /\ line' = line /\ mail' \in [Box -> Nat]
         /\ \A b \in Box : b # at[p] => mail'[b] = mail[b]
         /\ at[p] \in Box => mail'[at[p]] = mail[at[p]] + 1
<1>1. CASE at[p] = NoBox
  BY <1>1 DEF TypeOK, Sent
<1>2. CASE at[p] # NoBox
  <2>1. at[p] \in Box /\ mail' = [mail EXCEPT ![at[p]] = @ + 1] /\ line' = line
    BY <1>2 DEF Sent
  <2>2. mail \in [Box -> Nat]
    BY DEF TypeOK
  <2> QED BY <2>1, <2>2
<1> QED BY <1>1, <1>2

\* A message less, and p out of the queue.
LEMMA ReceivedType ==
  ASSUME TypeOK, NEW p \in Proc, Received(p)
  PROVE  /\ mail' \in [Box -> Nat] /\ line' \in [Box -> Seq(Proc)]
         /\ \A b \in Box : b # at[p] => mail'[b] = mail[b] /\ line'[b] = line[b]
         /\ at[p] \in Box =>
              /\ mail[at[p]] >= 1 /\ mail'[at[p]] = mail[at[p]] - 1
              /\ \E i \in DOMAIN line[at[p]] :
                   line[at[p]][i] = p /\ line'[at[p]] = RemoveAt(line[at[p]], i)
<1>1. CASE at[p] \notin Box
  BY <1>1 DEF TypeOK, Received
<1>2. CASE at[p] \in Box
  <2> DEFINE b == at[p]
  <2>1. PICK i \in DOMAIN line[b] :
          i <= mail[b] /\ line[b][i] = p /\ line' = [line EXCEPT ![b] = RemoveAt(@, i)]
    BY <1>2 DEF Received
  <2>2. mail' = [mail EXCEPT ![b] = @ - 1]
    BY <1>2 DEF Received
  <2>3. line[b] \in Seq(Proc) /\ mail[b] \in Nat
    BY <1>2 DEF TypeOK
  <2>4. i \in 1 .. Len(line[b]) /\ Len(line[b]) \in Nat
    BY <2>3
  <2>5. RemoveAt(line[b], i) \in Seq(Proc)
    BY <2>3, RemoveAtType
  <2> HIDE DEF b
  <2>6. mail[b] >= 1
    BY <2>1, <2>3, <2>4
  <2>7. b \in Box
    BY <1>2 DEF b
  <2>8. line \in [Box -> Seq(Proc)] /\ mail \in [Box -> Nat]
    BY DEF TypeOK
  <2>9. mail' \in [Box -> Nat] /\ line' \in [Box -> Seq(Proc)]
    BY <2>1, <2>2, <2>3, <2>5, <2>6, <2>7, <2>8
  <2>10. /\ \A c \in Box : c # b => mail'[c] = mail[c] /\ line'[c] = line[c]
         /\ mail'[b] = mail[b] - 1 /\ line'[b] = RemoveAt(line[b], i)
    BY <2>1, <2>2, <2>7, <2>8
  <2> QED BY <2>1, <2>6, <2>9, <2>10 DEF b
<1> QED BY <1>1, <1>2

(***************************************************************************)
(* What every step of p in semPReal, semVReal and semFreeReal leaves alone:*)
(* other processes, other entries, and the mailboxes that p is not at.     *)
(***************************************************************************)
Acts(p) ==
  LET h == handle[p] IN
  /\ pc[p] \notin Idle \union Creating /\ pc'[p] \notin Creating
  /\ pc'[p] \in Idle => at'[p] = Unset
  /\ \A q \in Proc : q # p => pc'[q] = pc[q] /\ at'[q] = at[q] /\ mine'[q] = mine[q]
  /\ at'[p] \in {Unset, at[p], mine[p], SemTable[h].priv, SemTable[h].mutex}
  /\ mine'[p] \in {mine[p], SemTable[h].mutex}
  /\ \A g \in Sem : g # h => SemTable'[g] = SemTable[g]
  /\ \A g \in Sem : /\ SemTable'[g].priv \in {SemTable[g].priv, NoBox}
                    /\ SemTable'[g].mutex \in {SemTable[g].mutex, NoBox}
  /\ \A b \in Box : b # at[p] => mail'[b] = mail[b]
  /\ \A b \in Box : b # at[p] /\ b # at'[p] => line'[b] = line[b]
  /\ handle' = handle /\ boxes' = boxes /\ slots' = slots /\ open' = open
  /\ "disorder" \in events' <=> "disorder" \in events

\* The rest of a call, but for semCreateReal.
ActsInCall(p) == Evaluate(p) \/ semPReal(p) \/ semVReal(p) \/ semFreeReal(p)

LEMMA GotoType ==
  ASSUME TypeOK, NEW p \in Proc, NEW place \in Place, Goto(p, place)
  PROVE  /\ pc' \in [Proc -> Place] /\ at' \in [Proc -> BoxId \union {Unset}]
         /\ pc'[p] = place /\ at'[p] = Unset
         /\ \A q \in Proc : q # p => pc'[q] = pc[q] /\ at'[q] = at[q]
BY DEF TypeOK, Goto

LEMMA EntryType ==
  ASSUME TypeOK, NEW h \in Sem
  PROVE  /\ SemTable[h].id \in Sem \union {-1} /\ SemTable[h].value \in Int
         /\ SemTable[h].blockedProcs \in Seq(Proc)
         /\ SemTable[h].priv \in BoxId /\ SemTable[h].mutex \in BoxId
BY DEF TypeOK, Entry

LEMMA EvaluateActs ==
  ASSUME TypeOK, NEW p \in Proc, Evaluate(p)
  PROVE  TypeOK' /\ Acts(p)
<1> DEFINE b == IF pc[p] = "F_unlock" THEN mine[p]
                ELSE IF pc[p] \in PrivCalls THEN SemTable[handle[p]].priv
                ELSE SemTable[handle[p]].mutex
<1>1. handle[p] \in Sem /\ mine[p] \in BoxId \union {Unset}
  BY DEF TypeOK
<1>2. b \in BoxId \union {Unset}
  BY <1>1, EntryType
<1>3. /\ at[p] = Unset /\ pc[p] \in MutexCalls \union PrivCalls \union {"F_unlock"}
      /\ at' = [at EXCEPT ![p] = b]
      /\ line' = IF pc[p] \in Receives /\ b \in Box THEN [line EXCEPT ![b] = Append(@, p)] ELSE line
      /\ mine' = IF pc[p] = "F_lock" THEN [mine EXCEPT ![p] = b] ELSE mine
      /\ events' = IF Overtakes(p) THEN events \union {"overtaken"} ELSE events
      /\ UNCHANGED <<semVars, slots, mail, boxes, pc, handle, open>>
  BY DEF Evaluate
<1>4. b \in {Unset, at[p], mine[p], SemTable[handle[p]].priv, SemTable[handle[p]].mutex}
  OBVIOUS
<1>5. pc[p] = "F_lock" => b = SemTable[handle[p]].mutex
  BY DEF PrivCalls
<1> HIDE DEF b
<1>6. pc[p] \notin Idle \union Creating
  BY <1>3 DEF MutexCalls, PrivCalls
<1>7. line' \in [Box -> Seq(Proc)] /\ \A c \in Box : c # b => line'[c] = line[c]
  <2>1. CASE pc[p] \in Receives /\ b \in Box
    <3>1. line[b] \in Seq(Proc) /\ line \in [Box -> Seq(Proc)]
      BY <2>1 DEF TypeOK
    <3>2. Append(line[b], p) \in Seq(Proc)
      BY <3>1, AppendProperties
    <3> QED BY <1>3, <2>1, <3>1, <3>2
  <2>2. CASE ~(pc[p] \in Receives /\ b \in Box)
    BY <1>3, <2>2 DEF TypeOK
  <2> QED BY <2>1, <2>2
<1>8. at' \in [Proc -> BoxId \union {Unset}] /\ mine' \in [Proc -> BoxId \union {Unset}]
  BY <1>2, <1>3 DEF TypeOK
<1>9. TypeOK'
  BY <1>3, <1>7, <1>8 DEF TypeOK, semVars
<1>10. at'[p] = b /\ mine'[p] \in {mine[p], SemTable[handle[p]].mutex}
  BY <1>3, <1>5 DEF TypeOK
<1>11. \A q \in Proc : q # p => at'[q] = at[q] /\ mine'[q] = mine[q]
  BY <1>3 DEF TypeOK
<1> QED BY <1>3, <1>4, <1>6, <1>7, <1>9, <1>10, <1>11 DEF Acts, semVars

\* The mailbox call of p returns and p goes on to another place.
CallReturns(p, place) ==
  /\ pc[p] \notin Idle \union Creating
  /\ Sent(p) \/ Received(p)
  /\ Goto(p, place)

LEMMA CallReturnsActs ==
  ASSUME TypeOK, NEW p \in Proc, NEW place \in Place \ Creating, CallReturns(p, place),
         UNCHANGED <<semVars, slots, boxes, handle, mine, userVars>>
  PROVE  TypeOK' /\ Acts(p)
<1>1. /\ mail' \in [Box -> Nat] /\ line' \in [Box -> Seq(Proc)]
      /\ \A b \in Box : b # at[p] => mail'[b] = mail[b] /\ line'[b] = line[b]
  <2>1. CASE Sent(p)
    BY <2>1, SentType DEF TypeOK
  <2>2. CASE Received(p)
    BY <2>2, ReceivedType
  <2> QED BY <2>1, <2>2 DEF CallReturns
<1>2. /\ pc' \in [Proc -> Place] /\ at' \in [Proc -> BoxId \union {Unset}]
      /\ pc'[p] = place /\ at'[p] = Unset
      /\ \A q \in Proc : q # p => pc'[q] = pc[q] /\ at'[q] = at[q]
  <2>1. Goto(p, place)
    BY DEF CallReturns
  <2> QED BY <2>1, GotoType
<1>3. TypeOK'
  BY <1>1, <1>2 DEF TypeOK, semVars, userVars
<1>4. pc[p] \notin Idle \union Creating
  BY DEF CallReturns
<1> QED BY <1>1, <1>2, <1>3, <1>4 DEF Acts, semVars, userVars

\* The steps that only move the process, and where they lead.
Moves(p) ==
  \E place \in Place \ Creating :
    /\ CallReturns(p, place)
    /\ UNCHANGED <<semVars, slots, boxes, handle, mine, userVars>>

MovesFrom == {"P_out", "P_wait", "P_in", "P_take", "P_unlock", "V_out", "V_send", "V_in",
              "V_unlock", "F_unlock"}

LEMMA PlacesAre ==
  /\ {"P_wait", "dead", "P_in", "P_unlock", "user", "V_send", "V_in", "V_unlock", "P_out",
      "P_take", "V_out", "F_send", "F_unlock"} \subseteq Place \ Creating
  /\ \A x \in MovesFrom \union {"P_lock", "V_lock", "F_lock", "F_send"} :
       x \notin Idle \union Creating
BY DEF Place, MutexCalls, PrivCalls, MovesFrom

LEMMA MovesAre ==
  ASSUME NEW p \in Proc,
         \/ P_out(p) \/ P_wait(p) \/ P_in(p) \/ P_take(p) \/ P_unlock(p)
         \/ V_out(p) \/ V_send(p) \/ V_in(p) \/ V_unlock(p) \/ F_unlock(p)
  PROVE  Moves(p) /\ pc[p] \in MovesFrom
<1>1. CASE P_wait(p)
  <2>1. (IF SemTable[handle[p]].id < 0 THEN "dead" ELSE "P_in") \in Place \ Creating
    BY PlacesAre
  <2> QED BY <1>1, <2>1, PlacesAre DEF P_wait, Moves, CallReturns, MovesFrom
<1>2. CASE P_out(p) \/ P_in(p) \/ P_take(p) \/ P_unlock(p)
  BY <1>2, PlacesAre DEF P_out, P_in, P_take, P_unlock, Moves, CallReturns, MovesFrom
<1>3. CASE V_out(p) \/ V_send(p) \/ V_in(p) \/ V_unlock(p) \/ F_unlock(p)
  BY <1>3, PlacesAre DEF V_out, V_send, V_in, V_unlock, F_unlock, Moves, CallReturns, MovesFrom
<1> QED BY <1>1, <1>2, <1>3

LEMMA TailType ==
  ASSUME NEW S, NEW s \in Seq(S), s # <<>>
  PROVE  Tail(s) \in Seq(S) /\ Len(Tail(s)) = Len(s) - 1
BY HeadTailProperties

\* An entry of the table is replaced by one with the mailboxes it had or none.
LEMMA TableType ==
  ASSUME TypeOK, NEW h \in Sem, NEW e \in Entry, SemTable' = [SemTable EXCEPT ![h] = e],
         e.priv \in {SemTable[h].priv, NoBox}, e.mutex \in {SemTable[h].mutex, NoBox}
  PROVE  /\ SemTable' \in [Sem -> Entry] /\ SemTable'[h] = e
         /\ \A g \in Sem : g # h => SemTable'[g] = SemTable[g]
         /\ \A g \in Sem : /\ SemTable'[g].priv \in {SemTable[g].priv, NoBox}
                           /\ SemTable'[g].mutex \in {SemTable[g].mutex, NoBox}
BY DEF TypeOK

\* The steps that change the entry they hold the mutex of.
LEMMA LockActs ==
  ASSUME TypeOK, NEW p \in Proc, NEW place \in Place \ Creating,
         NEW e \in Entry, SemTable' = [SemTable EXCEPT ![handle[p]] = e],
         e.priv = SemTable[handle[p]].priv, e.mutex = SemTable[handle[p]].mutex,
         pc[p] \notin Idle \union Creating, Sent(p), Goto(p, place),
         "disorder" \in events' <=> "disorder" \in events,
         events' \subseteq events \union {"surplus"},
         UNCHANGED <<numSems, slots, boxes, handle, mine, open>>
  PROVE  TypeOK' /\ Acts(p)
<1>1. /\ SemTable' \in [Sem -> Entry]
      /\ \A g \in Sem : g # handle[p] => SemTable'[g] = SemTable[g]
      /\ \A g \in Sem : /\ SemTable'[g].priv \in {SemTable[g].priv, NoBox}
                        /\ SemTable'[g].mutex \in {SemTable[g].mutex, NoBox}
  <2>1. handle[p] \in Sem
    BY DEF TypeOK
  <2> QED BY <2>1, TableType
<1>2. /\ mail' \in [Box -> Nat] /\ line' = line
      /\ \A b \in Box : b # at[p] => mail'[b] = mail[b]
  BY SentType
<1>3. /\ pc' \in [Proc -> Place] /\ at' \in [Proc -> BoxId \union {Unset}]
      /\ pc'[p] = place /\ at'[p] = Unset
      /\ \A q \in Proc : q # p => pc'[q] = pc[q] /\ at'[q] = at[q]
  BY GotoType
<1>4. TypeOK'
  BY <1>1, <1>2, <1>3 DEF TypeOK
<1> QED BY <1>1, <1>2, <1>3, <1>4 DEF Acts

\* What is left of the entry of a process that takes the mutex.
Keeps(h) ==
  /\ SemTable'[h].id = SemTable[h].id
  /\ SemTable'[h].priv = SemTable[h].priv /\ SemTable'[h].mutex = SemTable[h].mutex

LEMMA P_lockActs ==
  ASSUME TypeOK, NEW p \in Proc, P_lock(p)
  PROVE  LET h == handle[p] IN
         /\ TypeOK' /\ Acts(p) /\ Keeps(h) /\ Sent(p) /\ at'[p] = Unset
         /\ pc[p] = "P_lock" /\ events' = events /\ numSems' = numSems /\ mine' = mine
         /\ \/ /\ pc'[p] = "P_out" /\ SemTable[h].value = 0 /\ SemTable'[h].value = 0
               /\ Len(SemTable'[h].blockedProcs) = Len(SemTable[h].blockedProcs) + 1
            \/ /\ pc'[p] = "P_take" /\ SemTable[h].value # 0
               /\ SemTable'[h].value = SemTable[h].value - 1
               /\ SemTable'[h].blockedProcs = SemTable[h].blockedProcs
<1> DEFINE h == handle[p]
<1>1. h \in Sem /\ SemTable \in [Sem -> Entry] /\ SemTable[h] \in Entry
  BY DEF TypeOK
<1>2. SemTable[h].blockedProcs \in Seq(Proc) /\ SemTable[h].value \in Int
  BY <1>1, EntryType
<1>3. /\ pc[p] = "P_lock" /\ Sent(p)
      /\ UNCHANGED <<numSems, slots, boxes, handle, mine, userVars>>
      /\ \/ /\ SemTable[h].value = 0
            /\ SemTable' = [SemTable EXCEPT ![h].blockedProcs = Append(@, p)]
            /\ Goto(p, "P_out")
         \/ /\ SemTable[h].value # 0
            /\ SemTable' = [SemTable EXCEPT ![h].value = @ - 1]
            /\ Goto(p, "P_take")
  BY DEF P_lock
<1>4. pc[p] \notin Idle \union Creating
  BY <1>3
<1> HIDE DEF h
<1>5. CASE /\ SemTable[h].value = 0
           /\ SemTable' = [SemTable EXCEPT ![h].blockedProcs = Append(@, p)]
           /\ Goto(p, "P_out")
  <2> DEFINE e == [SemTable[h] EXCEPT !.blockedProcs = Append(@, p)]
  <2>1. Append(SemTable[h].blockedProcs, p) \in Seq(Proc)
        /\ Len(Append(SemTable[h].blockedProcs, p)) = Len(SemTable[h].blockedProcs) + 1
    BY <1>2, AppendProperties
  <2>2. /\ e \in Entry /\ e.id = SemTable[h].id /\ e.priv = SemTable[h].priv
        /\ e.mutex = SemTable[h].mutex /\ e.value = SemTable[h].value
        /\ Len(e.blockedProcs) = Len(SemTable[h].blockedProcs) + 1
    BY <1>1, <2>1 DEF Entry
  <2>3. SemTable' = [SemTable EXCEPT ![h] = e]
    BY <1>1, <1>5
  <2> HIDE DEF e
  <2>4. SemTable'[h] = e
    BY <1>1, <2>3
  <2>5. TypeOK' /\ Acts(p)
    BY <1>3, <1>4, <1>5, <2>2, <2>3, LockActs, PlacesAre DEF h, userVars
  <2>6. pc'[p] = "P_out" /\ at'[p] = Unset
    BY <1>5, GotoType, PlacesAre
  <2> QED BY <1>3, <1>5, <2>2, <2>4, <2>5, <2>6 DEF h, Keeps, userVars
<1>6. CASE /\ SemTable[h].value # 0
           /\ SemTable' = [SemTable EXCEPT ![h].value = @ - 1]
           /\ Goto(p, "P_take")
  <2> DEFINE v == SemTable[h].value - 1
             e == [SemTable[h] EXCEPT !.value = v]
  <2>1. v \in Int
    BY <1>2
  <2>3. SemTable' = [SemTable EXCEPT ![h] = e]
    BY <1>1, <1>6
  <2> HIDE DEF v
  <2>2. /\ e \in Entry /\ e.id = SemTable[h].id /\ e.priv = SemTable[h].priv
        /\ e.mutex = SemTable[h].mutex /\ e.value = v
        /\ e.blockedProcs = SemTable[h].blockedProcs
    BY <1>1, <2>1 DEF Entry
  <2> HIDE DEF e
  <2>4. SemTable'[h] = e /\ v = SemTable[h].value - 1
    BY <1>1, <2>3 DEF v
  <2>5. TypeOK' /\ Acts(p)
    BY <1>3, <1>4, <1>6, <2>2, <2>3, LockActs, PlacesAre DEF h, userVars
  <2>6. pc'[p] = "P_take" /\ at'[p] = Unset
    BY <1>6, GotoType, PlacesAre
  <2> QED BY <1>3, <1>6, <2>2, <2>4, <2>5, <2>6 DEF h, Keeps, userVars
<1> QED BY <1>3, <1>5, <1>6

LEMMA V_lockActs ==
  ASSUME TypeOK, NEW p \in Proc, V_lock(p)
  PROVE  LET h == handle[p] IN
         /\ TypeOK' /\ Acts(p) /\ Keeps(h) /\ Sent(p) /\ at'[p] = Unset
         /\ pc[p] = "V_lock" /\ numSems' = numSems /\ mine' = mine
         /\ \/ /\ pc'[p] = "V_out" /\ SemTable[h].blockedProcs # <<>>
               /\ SemTable'[h].value = SemTable[h].value
               /\ Len(SemTable'[h].blockedProcs) = Len(SemTable[h].blockedProcs) - 1
            \/ /\ pc'[p] = "V_unlock" /\ SemTable[h].blockedProcs = <<>>
               /\ SemTable'[h].value = SemTable[h].value + 1
               /\ SemTable'[h].blockedProcs = SemTable[h].blockedProcs
<1> DEFINE h == handle[p]
<1>1. h \in Sem /\ SemTable \in [Sem -> Entry] /\ SemTable[h] \in Entry
  BY DEF TypeOK
<1>2. SemTable[h].blockedProcs \in Seq(Proc) /\ SemTable[h].value \in Int
  BY <1>1, EntryType
<1>3. /\ pc[p] = "V_lock" /\ Sent(p)
      /\ UNCHANGED <<numSems, slots, boxes, handle, mine, open>>
      /\ \/ /\ SemTable[h].blockedProcs # <<>>
            /\ SemTable' = [SemTable EXCEPT ![h].blockedProcs = Tail(@)]
            /\ Goto(p, "V_out") /\ events' = events
         \/ /\ SemTable[h].blockedProcs = <<>>
            /\ SemTable' = [SemTable EXCEPT ![h].value = @ + 1]
            /\ Goto(p, "V_unlock") /\ events' = events \union {"surplus"}
  BY DEF V_lock
<1>4. pc[p] \notin Idle \union Creating
  BY <1>3
<1>0. /\ events' \subseteq events \union {"surplus"}
      /\ "disorder" \in events' <=> "disorder" \in events
  BY <1>3
<1> HIDE DEF h
<1>5. CASE /\ SemTable[h].blockedProcs # <<>>
           /\ SemTable' = [SemTable EXCEPT ![h].blockedProcs = Tail(@)]
           /\ Goto(p, "V_out")
  <2> DEFINE e == [SemTable[h] EXCEPT !.blockedProcs = Tail(@)]
  <2>1. Tail(SemTable[h].blockedProcs) \in Seq(Proc)
        /\ Len(Tail(SemTable[h].blockedProcs)) = Len(SemTable[h].blockedProcs) - 1
    BY <1>2, <1>5, TailType
  <2>2. /\ e \in Entry /\ e.id = SemTable[h].id /\ e.priv = SemTable[h].priv
        /\ e.mutex = SemTable[h].mutex /\ e.value = SemTable[h].value
        /\ Len(e.blockedProcs) = Len(SemTable[h].blockedProcs) - 1
    BY <1>1, <2>1 DEF Entry
  <2>3. SemTable' = [SemTable EXCEPT ![h] = e]
    BY <1>1, <1>5
  <2> HIDE DEF e
  <2>4. SemTable'[h] = e
    BY <1>1, <2>3
  <2>5. TypeOK' /\ Acts(p)
    BY <1>0, <1>3, <1>4, <1>5, <2>2, <2>3, LockActs, PlacesAre DEF h
  <2>6. pc'[p] = "V_out" /\ at'[p] = Unset
    BY <1>5, GotoType, PlacesAre
  <2> QED BY <1>3, <1>5, <2>2, <2>4, <2>5, <2>6 DEF h, Keeps
<1>6. CASE /\ SemTable[h].blockedProcs = <<>>
           /\ SemTable' = [SemTable EXCEPT ![h].value = @ + 1]
           /\ Goto(p, "V_unlock")
  <2> DEFINE v == SemTable[h].value + 1
             e == [SemTable[h] EXCEPT !.value = v]
  <2>1. v \in Int
    BY <1>2
  <2>3. SemTable' = [SemTable EXCEPT ![h] = e]
    BY <1>1, <1>6
  <2> HIDE DEF v
  <2>2. /\ e \in Entry /\ e.id = SemTable[h].id /\ e.priv = SemTable[h].priv
        /\ e.mutex = SemTable[h].mutex /\ e.value = v
        /\ e.blockedProcs = SemTable[h].blockedProcs
    BY <1>1, <2>1 DEF Entry
  <2> HIDE DEF e
  <2>4. SemTable'[h] = e /\ v = SemTable[h].value + 1
    BY <1>1, <2>3 DEF v
  <2>5. TypeOK' /\ Acts(p)
    BY <1>0, <1>3, <1>4, <1>6, <2>2, <2>3, LockActs, PlacesAre DEF h
  <2>6. pc'[p] = "V_unlock" /\ at'[p] = Unset
    BY <1>6, GotoType, PlacesAre
  <2> QED BY <1>3, <1>6, <2>2, <2>4, <2>5, <2>6 DEF h, Keeps
<1> QED BY <1>3, <1>5, <1>6

LEMMA NextFreedIs ==
  ASSUME TypeOK, NEW p \in Proc, NEW e \in Entry, NEW b \in BoxId \union {Unset},
         NextFreed(p, e, b)
  PROVE  /\ pc' \in [Proc -> Place] /\ at' \in [Proc -> BoxId \union {Unset}]
         /\ \A q \in Proc : q # p => pc'[q] = pc[q] /\ at'[q] = at[q]
         /\ \/ pc'[p] = "F_send" /\ at'[p] = b
            \/ pc'[p] = "F_unlock" /\ at'[p] = Unset
         /\ \E f \in Entry : /\ SemTable' = [SemTable EXCEPT ![handle[p]] = f]
                             /\ f.id = e.id /\ f.priv = e.priv /\ f.mutex = e.mutex
<1> DEFINE h == handle[p]
<1>1. CASE e.blockedProcs # <<>>
  <2> DEFINE f == [e EXCEPT !.blockedProcs = Tail(@)]
  <2>1. e.blockedProcs \in Seq(Proc)
    BY DEF Entry
  <2>2. Tail(e.blockedProcs) \in Seq(Proc)
    BY <1>1, <2>1, TailType
  <2>3. f \in Entry /\ f.id = e.id /\ f.priv = e.priv /\ f.mutex = e.mutex
    BY <2>2 DEF Entry
  <2>4. /\ SemTable' = [SemTable EXCEPT ![h] = f]
        /\ pc' = [pc EXCEPT ![p] = "F_send"] /\ at' = [at EXCEPT ![p] = b]
    BY <1>1 DEF NextFreed
  <2> HIDE DEF f
  <2>5. /\ pc' \in [Proc -> Place] /\ pc'[p] = "F_send"
        /\ at' \in [Proc -> BoxId \union {Unset}] /\ at'[p] = b
        /\ \A q \in Proc : q # p => pc'[q] = pc[q] /\ at'[q] = at[q]
    BY <2>4, PlacesAre DEF TypeOK
  <2> QED BY <2>3, <2>4, <2>5
<1>2. CASE e.blockedProcs = <<>>
  <2>1. SemTable' = [SemTable EXCEPT ![h] = e] /\ Goto(p, "F_unlock")
    BY <1>2 DEF NextFreed
  <2>2. /\ pc' \in [Proc -> Place] /\ at' \in [Proc -> BoxId \union {Unset}]
        /\ pc'[p] = "F_unlock" /\ at'[p] = Unset
        /\ \A q \in Proc : q # p => pc'[q] = pc[q] /\ at'[q] = at[q]
    BY <2>1, GotoType, PlacesAre
  <2> QED BY <2>1, <2>2
<1> QED BY <1>1, <1>2

LEMMA F_lockActs ==
  ASSUME TypeOK, NEW p \in Proc, F_lock(p)
  PROVE  LET h == handle[p] IN
         /\ TypeOK' /\ Acts(p) /\ Sent(p) /\ pc[p] = "F_lock"
         /\ SemTable'[h].id = -1 /\ SemTable'[h].priv = NoBox /\ SemTable'[h].mutex = NoBox
         /\ numSems' = numSems - 1 /\ events' = events /\ mine' = mine
         /\ \/ pc'[p] = "F_send" /\ at'[p] = SemTable[h].priv
            \/ pc'[p] = "F_unlock" /\ at'[p] = Unset
<1> DEFINE h == handle[p]
           e == [FreeEntry EXCEPT !.blockedProcs = SemTable[h].blockedProcs]
<1>1. h \in Sem
  BY DEF TypeOK
<1>2. SemTable[h].blockedProcs \in Seq(Proc) /\ SemTable[h].priv \in BoxId
  BY <1>1, EntryType
<1>3. e \in Entry /\ e.id = -1 /\ e.priv = NoBox /\ e.mutex = NoBox
  BY <1>2 DEF Entry, FreeEntry
<1>4. /\ pc[p] = "F_lock" /\ Sent(p) /\ NextFreed(p, e, SemTable[h].priv)
      /\ numSems' = numSems - 1
      /\ UNCHANGED <<slots, boxes, handle, mine, userVars>>
  BY DEF F_lock
<1> HIDE DEF e
<1>5. /\ pc' \in [Proc -> Place] /\ at' \in [Proc -> BoxId \union {Unset}]
      /\ \A q \in Proc : q # p => pc'[q] = pc[q] /\ at'[q] = at[q]
      /\ \/ pc'[p] = "F_send" /\ at'[p] = SemTable[h].priv
         \/ pc'[p] = "F_unlock" /\ at'[p] = Unset
      /\ \E f \in Entry : /\ SemTable' = [SemTable EXCEPT ![h] = f]
                          /\ f.id = e.id /\ f.priv = e.priv /\ f.mutex = e.mutex
  BY <1>2, <1>3, <1>4, NextFreedIs
<1>6. PICK f \in Entry : /\ SemTable' = [SemTable EXCEPT ![h] = f]
                         /\ f.id = e.id /\ f.priv = e.priv /\ f.mutex = e.mutex
  BY <1>5
<1>7. /\ SemTable' \in [Sem -> Entry] /\ SemTable'[h] = f
      /\ \A g \in Sem : g # h => SemTable'[g] = SemTable[g]
      /\ \A g \in Sem : /\ SemTable'[g].priv \in {SemTable[g].priv, NoBox}
                        /\ SemTable'[g].mutex \in {SemTable[g].mutex, NoBox}
  BY <1>1, <1>3, <1>6, TableType
<1>8. /\ mail' \in [Box -> Nat] /\ line' = line
      /\ \A b \in Box : b # at[p] => mail'[b] = mail[b]
  BY <1>4, SentType
<1>9. TypeOK'
  <2>1. numSems' \in Int
    BY <1>4 DEF TypeOK
  <2> QED BY <1>4, <1>5, <1>7, <1>8, <2>1 DEF TypeOK, userVars
<1>10. Acts(p)
  BY <1>4, <1>5, <1>7, <1>8 DEF Acts, userVars
<1> QED BY <1>3, <1>4, <1>5, <1>6, <1>7, <1>9, <1>10 DEF userVars

LEMMA F_sendActs ==
  ASSUME TypeOK, NEW p \in Proc, F_send(p)
  PROVE  LET h == handle[p] IN
         /\ TypeOK' /\ Acts(p) /\ Keeps(h) /\ Sent(p) /\ pc[p] = "F_send"
         /\ numSems' = numSems /\ events' = events /\ mine' = mine
         /\ \/ pc'[p] = "F_send" /\ at'[p] = at[p]
            \/ pc'[p] = "F_unlock" /\ at'[p] = Unset
<1> DEFINE h == handle[p]
<1>1. h \in Sem /\ at[p] \in BoxId \union {Unset}
  BY DEF TypeOK
<1>2. SemTable[h] \in Entry
  BY <1>1 DEF TypeOK
<1>4. /\ pc[p] = "F_send" /\ Sent(p) /\ NextFreed(p, SemTable[h], at[p])
      /\ UNCHANGED <<numSems, slots, boxes, handle, mine, userVars>>
  BY DEF F_send
<1>5. /\ pc' \in [Proc -> Place] /\ at' \in [Proc -> BoxId \union {Unset}]
      /\ \A q \in Proc : q # p => pc'[q] = pc[q] /\ at'[q] = at[q]
      /\ \/ pc'[p] = "F_send" /\ at'[p] = at[p]
         \/ pc'[p] = "F_unlock" /\ at'[p] = Unset
      /\ \E f \in Entry : /\ SemTable' = [SemTable EXCEPT ![h] = f]
                          /\ f.id = SemTable[h].id /\ f.priv = SemTable[h].priv
                          /\ f.mutex = SemTable[h].mutex
  BY <1>1, <1>2, <1>4, NextFreedIs
<1>6. PICK f \in Entry : /\ SemTable' = [SemTable EXCEPT ![h] = f]
                         /\ f.id = SemTable[h].id /\ f.priv = SemTable[h].priv
                         /\ f.mutex = SemTable[h].mutex
  BY <1>5
<1>7. /\ SemTable' \in [Sem -> Entry] /\ SemTable'[h] = f
      /\ \A g \in Sem : g # h => SemTable'[g] = SemTable[g]
      /\ \A g \in Sem : /\ SemTable'[g].priv \in {SemTable[g].priv, NoBox}
                        /\ SemTable'[g].mutex \in {SemTable[g].mutex, NoBox}
  BY <1>1, <1>6, TableType
<1>8. /\ mail' \in [Box -> Nat] /\ line' = line
      /\ \A b \in Box : b # at[p] => mail'[b] = mail[b]
  BY <1>4, SentType
<1>9. TypeOK'
  BY <1>4, <1>5, <1>7, <1>8 DEF TypeOK, userVars
<1>10. Acts(p)
  BY <1>4, <1>5, <1>7, <1>8 DEF Acts, userVars
<1> QED BY <1>4, <1>5, <1>6, <1>7, <1>9, <1>10 DEF userVars, Keeps

LEMMA MovesActs ==
  ASSUME TypeOK, NEW p \in Proc, Moves(p)
  PROVE  TypeOK' /\ Acts(p)
<1>1. PICK place \in Place \ Creating :
        /\ CallReturns(p, place)
        /\ UNCHANGED <<semVars, slots, boxes, handle, mine, userVars>>
  BY DEF Moves
<1> QED BY <1>1, CallReturnsActs

LEMMA InCallActs ==
  ASSUME TypeOK, NEW p \in Proc, ActsInCall(p)
  PROVE  TypeOK' /\ Acts(p)
<1>1. CASE Evaluate(p)
  BY <1>1, EvaluateActs
<1>2. CASE P_lock(p)
  BY <1>2, P_lockActs
<1>3. CASE V_lock(p)
  BY <1>3, V_lockActs
<1>4. CASE F_lock(p)
  BY <1>4, F_lockActs
<1>5. CASE F_send(p)
  BY <1>5, F_sendActs
<1>6. CASE \/ P_out(p) \/ P_wait(p) \/ P_in(p) \/ P_take(p) \/ P_unlock(p)
           \/ V_out(p) \/ V_send(p) \/ V_in(p) \/ V_unlock(p) \/ F_unlock(p)
  BY <1>6, MovesAre, MovesActs
<1> QED BY <1>1, <1>2, <1>3, <1>4, <1>5, <1>6
        DEF ActsInCall, semPReal, semVReal, semFreeReal

-----------------------------------------------------------------------------
(***************************************************************************)
(* The types and the privacy of new mailboxes are kept.                    *)
(***************************************************************************)
LEMMA FreshActs ==
  ASSUME TInv, NEW p \in Proc, TypeOK', Acts(p)
  PROVE  Fresh'
<1>0. TypeOK /\ Fresh
  BY DEF TInv
<1>h. handle[p] \in Sem /\ boxes \in 0 .. MaxBox
  BY <1>0 DEF TypeOK
<1>a. /\ pc'[p] \notin Creating
      /\ pc'[p] \in Idle => at'[p] = Unset
      /\ \A q \in Proc : q # p => pc'[q] = pc[q] /\ at'[q] = at[q] /\ mine'[q] = mine[q]
      /\ at'[p] \in {Unset, at[p], mine[p], SemTable[handle[p]].priv, SemTable[handle[p]].mutex}
      /\ mine'[p] \in {mine[p], SemTable[handle[p]].mutex}
      /\ \A g \in Sem : /\ SemTable'[g].priv \in {SemTable[g].priv, NoBox}
                        /\ SemTable'[g].mutex \in {SemTable[g].mutex, NoBox}
      /\ \A b \in Box : b # at[p] => mail'[b] = mail[b]
      /\ \A b \in Box : b # at[p] /\ b # at'[p] => line'[b] = line[b]
      /\ boxes' = boxes
  BY DEF Acts
<1>1. \A h \in Sem : SemTable'[h].priv <= boxes /\ SemTable'[h].mutex <= boxes
  BY <1>0, <1>h, <1>a DEF Fresh
<1>2. \A q \in Proc : at'[q] <= boxes /\ mine'[q] <= boxes
  BY <1>0, <1>h, <1>a DEF Fresh
<1>3. \A b \in Box : b > boxes => line'[b] = <<>>
  <2> SUFFICES ASSUME NEW b \in Box, b > boxes PROVE line'[b] = <<>>
    OBVIOUS
  <2>1. b # at[p] /\ b # at'[p]
    <3>1. at[p] <= boxes /\ at'[p] <= boxes /\ at[p] \in Int /\ at'[p] \in Int
      BY <1>0, <1>2 DEF Fresh, TypeOK
    <3> QED BY <1>h, <3>1
  <2> QED BY <1>0, <1>a, <2>1 DEF Fresh
<1>4. ASSUME NEW c \in Proc, pc'[c] \in Creating PROVE Private(c)'
  <2>1. c # p /\ pc[c] \in Creating /\ Private(c) /\ mine'[c] = mine[c]
    BY <1>0, <1>4, <1>a DEF Fresh
  <2>2. /\ mine[c] \in 2 .. boxes /\ mail[mine[c]] = 1
        /\ \A h \in Sem : SemTable[h].priv # mine[c] /\ SemTable[h].mutex # mine[c]
        /\ at[p] # mine[c] /\ mine[p] # mine[c]
        /\ \A q \in Proc \ {c} :
             /\ at[q] # mine[c] /\ mine[q] # mine[c]
             /\ pc[q] \in Creating => mine[q] # mine[c] + 1
    BY <2>1 DEF Private
  <2>3. mine[c] \in Box /\ mine[c] # NoBox /\ mine[c] # Unset
    BY <1>h, <2>2
  <2>4. mail'[mine[c]] = 1
    BY <1>a, <2>2, <2>3
  <2>5. \A h \in Sem : SemTable'[h].priv # mine[c] /\ SemTable'[h].mutex # mine[c]
    BY <1>a, <2>2, <2>3
  <2>6. at'[p] # mine[c] /\ mine'[p] # mine[c]
    BY <1>a, <1>h, <2>2, <2>3
  <2>7. \A q \in Proc \ {c} :
             /\ at'[q] # mine[c] /\ mine'[q] # mine[c]
             /\ pc'[q] \in Creating => mine'[q] # mine[c] + 1
    BY <1>a, <2>2, <2>6
  <2> QED BY <1>a, <2>1, <2>2, <2>4, <2>5, <2>7 DEF Private
<1>5. \A q \in Proc : pc'[q] \in Idle \union Creating => at'[q] = Unset
  BY <1>0, <1>a DEF Fresh
<1> QED BY <1>1, <1>2, <1>3, <1>4, <1>5, <1>a DEF Fresh

\* A call starts.
LEMMA EnterIs ==
  ASSUME TypeOK, NEW p \in Proc, NEW h \in Sem, semP(p, h) \/ semV(p, h) \/ semFree(p, h)
  PROVE  /\ pc[p] = "user" /\ handle' = [handle EXCEPT ![p] = h]
         /\ pc'[p] \in {"P_lock", "V_lock", "F_lock"} /\ at'[p] = Unset
         /\ \A q \in Proc : q # p => pc'[q] = pc[q] /\ at'[q] = at[q]
         /\ UNCHANGED <<semVars, boxVars, mine>> /\ TypeOK'
         /\ "disorder" \in events => "disorder" \in events'
         /\ orderly' => h \in open
         /\ pc'[p] # "F_lock" => open' = open
         /\ pc'[p] = "F_lock" => /\ open' = open \ {h}
                                 /\ orderly' => NobodyCreates /\ OnlyWaitersOf(p, h)
<1>1. PICK place \in {"P_lock", "V_lock", "F_lock"} : Enter(p, h, place) /\ place = pc'[p]
  <2>0. \A place : Goto(p, place) => pc'[p] = place
    BY DEF Goto, TypeOK
  <2> QED BY <2>0 DEF semP, semV, semFree, Enter
<1>2. place \in Place /\ Goto(p, place)
  BY <1>1 DEF Place, MutexCalls, Enter
<1>3. /\ pc' \in [Proc -> Place] /\ at' \in [Proc -> BoxId \union {Unset}]
      /\ pc'[p] = place /\ at'[p] = Unset
      /\ \A q \in Proc : q # p => pc'[q] = pc[q] /\ at'[q] = at[q]
  BY <1>2, GotoType
<1>4. /\ pc[p] = "user" /\ handle' = [handle EXCEPT ![p] = h]
      /\ UNCHANGED <<semVars, boxVars, mine>>
  BY <1>1 DEF Enter
<1>5. events' = events \/ events' = events \union {"disorder"}
  BY DEF semP, semV, semFree, Judge
<1>6. /\ pc'[p] # "F_lock" => open' = open
      /\ pc'[p] = "F_lock" => open' = open \ {h}
  <2>0. \A x : Goto(p, x) => pc'[p] = x
    BY DEF Goto, TypeOK
  <2> QED BY <2>0 DEF semP, semV, semFree, Enter
<1>7. orderly' => h \in open /\ (pc'[p] = "F_lock" => NobodyCreates /\ OnlyWaitersOf(p, h))
  <2>0. \A x : Goto(p, x) => pc'[p] = x
    BY DEF Goto, TypeOK
  <2>1. semP(p, h) \/ semV(p, h) => pc'[p] # "F_lock"
    BY <2>0 DEF semP, semV, Enter
  <2> QED BY <2>1 DEF semP, semV, semFree, Judge, orderly
<1>8. TypeOK'
  BY <1>3, <1>4, <1>5, <1>6 DEF TypeOK, semVars, boxVars
<1> QED BY <1>1, <1>3, <1>4, <1>5, <1>6, <1>7, <1>8

LEMMA FreshEnter ==
  ASSUME TInv, NEW p \in Proc, NEW h \in Sem, semP(p, h) \/ semV(p, h) \/ semFree(p, h)
  PROVE  Fresh'
<1>0. TypeOK /\ Fresh
  BY DEF TInv
<1>a. /\ pc'[p] \in {"P_lock", "V_lock", "F_lock"} /\ at'[p] = Unset
      /\ \A q \in Proc : q # p => pc'[q] = pc[q] /\ at'[q] = at[q]
      /\ UNCHANGED <<SemTable, mail, line, boxes, mine>>
  BY <1>0, EnterIs DEF semVars, boxVars
<1>b. boxes \in 0 .. MaxBox
  BY <1>0 DEF TypeOK
<1>1. \A q \in Proc : at'[q] <= boxes
  BY <1>0, <1>a, <1>b DEF Fresh
<1>2. ASSUME NEW c \in Proc, pc'[c] \in Creating PROVE Private(c)'
  <2>1. c # p /\ Private(c)
    BY <1>0, <1>2, <1>a DEF Fresh
  <2>2. mine[c] # Unset
    BY <1>b, <2>1 DEF Private
  <2> QED BY <1>a, <2>1, <2>2 DEF Private
<1> QED BY <1>0, <1>a, <1>1, <1>2 DEF Fresh

LEMMA semCreateIs ==
  ASSUME TypeOK, NEW p \in Proc, NEW v \in Values, semCreate(p, v)
  PROVE  /\ pc[p] = "user" /\ numSems # MAXSEMS /\ boxes + 1 \in Box /\ boxes + 2 \in Box
         /\ numSems' = numSems + 1 /\ boxes' = boxes + 2
         /\ slots'[boxes + 1] = v /\ slots'[boxes + 2] = 1 /\ mail'[boxes + 2] = 1
         /\ \A b \in 1 .. boxes : slots'[b] = slots[b] /\ mail'[b] = mail[b]
         /\ pc'[p] = "C_find" /\ at'[p] = Unset /\ mine'[p] = boxes + 2
         /\ \A q \in Proc : q # p => pc'[q] = pc[q] /\ at'[q] = at[q] /\ mine'[q] = mine[q]
         /\ UNCHANGED <<SemTable, line, handle, open>> /\ TypeOK'
         /\ "disorder" \in events => "disorder" \in events'
         /\ orderly' => NobodyCreates /\ AllSettled(p)
<1>1. /\ pc[p] = "user" /\ numSems # MAXSEMS /\ boxes + 2 <= MaxBox
      /\ numSems' = numSems + 1 /\ boxes' = boxes + 2
      /\ slots' = [slots EXCEPT ![boxes + 1] = v, ![boxes + 2] = 1]
      /\ mail' = [mail EXCEPT ![boxes + 2] = 1]
      /\ mine' = [mine EXCEPT ![p] = boxes + 2]
      /\ Goto(p, "C_find") /\ Judge(NobodyCreates /\ AllSettled(p))
      /\ UNCHANGED <<SemTable, line, handle, open>>
  BY DEF semCreate
<1>2. /\ boxes \in 0 .. MaxBox /\ v \in Nat
      /\ slots \in [Box -> Nat] /\ mail \in [Box -> Nat] /\ mine \in [Proc -> BoxId \union {Unset}]
      /\ numSems \in Int
  BY DEF TypeOK
<1>3. boxes + 1 \in Box /\ boxes + 2 \in Box /\ boxes' \in 0 .. MaxBox /\ boxes + 1 # boxes + 2
  BY <1>1, <1>2
<1>4. slots' \in [Box -> Nat] /\ mail' \in [Box -> Nat]
  BY <1>1, <1>2, <1>3
<1>5. /\ slots'[boxes + 1] = v /\ slots'[boxes + 2] = 1 /\ mail'[boxes + 2] = 1
      /\ \A b \in 1 .. boxes : slots'[b] = slots[b] /\ mail'[b] = mail[b]
  BY <1>1, <1>2, <1>3
<1>6. /\ mine' \in [Proc -> BoxId \union {Unset}] /\ mine'[p] = boxes + 2
      /\ \A q \in Proc : q # p => mine'[q] = mine[q]
  BY <1>1, <1>2, <1>3
<1>7. "C_find" \in Place
  BY DEF Place
<1>8. /\ pc' \in [Proc -> Place] /\ at' \in [Proc -> BoxId \union {Unset}]
      /\ pc'[p] = "C_find" /\ at'[p] = Unset
      /\ \A q \in Proc : q # p => pc'[q] = pc[q] /\ at'[q] = at[q]
  BY <1>1, <1>7, GotoType
<1>9. events' = events \/ events' = events \union {"disorder"}
  BY <1>1 DEF Judge
<1>10. orderly' => NobodyCreates /\ AllSettled(p)
  BY <1>1 DEF Judge, orderly
<1>11. numSems' \in Int
  BY <1>1, <1>2
<1>12. TypeOK'
  BY <1>1, <1>3, <1>4, <1>6, <1>8, <1>9, <1>11 DEF TypeOK
<1> QED BY <1>1, <1>3, <1>5, <1>6, <1>8, <1>9, <1>10, <1>12

LEMMA FreshCreate ==
  ASSUME TInv, NEW p \in Proc, NEW v \in Values, semCreate(p, v)
  PROVE  Fresh'
<1>0. TypeOK /\ Fresh
  BY DEF TInv
<1>a. /\ pc[p] = "user" /\ boxes + 2 \in Box /\ boxes' = boxes + 2 /\ mail'[boxes + 2] = 1
      /\ \A b \in 1 .. boxes : mail'[b] = mail[b]
      /\ pc'[p] = "C_find" /\ at'[p] = Unset /\ mine'[p] = boxes + 2
      /\ \A q \in Proc : q # p => pc'[q] = pc[q] /\ at'[q] = at[q] /\ mine'[q] = mine[q]
      /\ UNCHANGED <<SemTable, line>>
  BY <1>0, semCreateIs
<1>b. boxes \in 0 .. MaxBox
  BY <1>0 DEF TypeOK
<1>1. \A h \in Sem : SemTable'[h].priv <= boxes' /\ SemTable'[h].mutex <= boxes'
  <2> SUFFICES ASSUME NEW h \in Sem PROVE SemTable[h].priv <= boxes + 2 /\ SemTable[h].mutex <= boxes + 2
    BY <1>a
  <2>1. SemTable[h].priv \in Int /\ SemTable[h].mutex \in Int
    BY <1>0, EntryType
  <2>2. SemTable[h].priv <= boxes /\ SemTable[h].mutex <= boxes
    BY <1>0 DEF Fresh
  <2> QED BY <1>b, <2>1, <2>2
<1>2. \A q \in Proc : at[q] \in Int /\ mine[q] \in Int /\ at[q] <= boxes /\ mine[q] <= boxes
  BY <1>0 DEF TypeOK, Fresh
<1>3. \A q \in Proc : at'[q] <= boxes' /\ mine'[q] <= boxes'
  BY <1>a, <1>b, <1>2
<1>4. \A b \in Box : b > boxes' => line'[b] = <<>>
  BY <1>0, <1>a, <1>b DEF Fresh
<1>5. ASSUME NEW c \in Proc, pc'[c] \in Creating PROVE Private(c)'
  <2>1. CASE c = p
    <3>1. \A h \in Sem : SemTable'[h].priv # boxes + 2 /\ SemTable'[h].mutex # boxes + 2
      <4> SUFFICES ASSUME NEW h \in Sem
                   PROVE SemTable[h].priv # boxes + 2 /\ SemTable[h].mutex # boxes + 2
        BY <1>a
      <4>1. SemTable[h].priv \in Int /\ SemTable[h].mutex \in Int
        BY <1>0, EntryType
      <4>2. SemTable[h].priv <= boxes /\ SemTable[h].mutex <= boxes
        BY <1>0 DEF Fresh
      <4> QED BY <1>b, <4>1, <4>2
    <3>2. \A q \in Proc \ {p} : at'[q] # boxes + 2 /\ mine'[q] # boxes + 2 /\ mine'[q] # boxes + 3
      <4> SUFFICES ASSUME NEW q \in Proc \ {p}
                   PROVE at[q] # boxes + 2 /\ mine[q] # boxes + 2 /\ mine[q] # boxes + 3
        BY <1>a
      <4> QED BY <1>b, <1>2
    <3>3. mine'[p] \in 2 .. boxes' /\ mail'[mine'[p]] = 1 /\ mine'[p] + 1 = boxes + 3
      BY <1>a, <1>b
    <3> QED BY <1>a, <2>1, <3>1, <3>2, <3>3 DEF Private
  <2>2. CASE c # p
    <3>1. pc[c] \in Creating /\ Private(c)
      BY <1>0, <1>5, <1>a, <2>2 DEF Fresh
    <3>2. mine[c] \in 2 .. boxes /\ mail[mine[c]] = 1
      BY <3>1 DEF Private
    <3>3. /\ mine'[c] = mine[c] /\ mine[c] \in 1 .. boxes /\ mine[c] \in 2 .. boxes'
          /\ mail'[mine[c]] = 1
      BY <1>a, <1>b, <2>2, <3>2
    <3>4. boxes + 2 # mine[c] /\ boxes + 2 # mine[c] + 1 /\ mine[c] # Unset
      BY <1>b, <3>3
    <3> QED BY <1>a, <2>2, <3>1, <3>3, <3>4 DEF Private
  <2> QED BY <2>1, <2>2
<1>6. \A q \in Proc : pc'[q] \in Idle \union Creating => at'[q] = Unset
  BY <1>0, <1>a DEF Fresh
<1> QED BY <1>1, <1>3, <1>4, <1>5, <1>6 DEF Fresh

LEMMA C_findIs ==
  ASSUME TypeOK, NEW p \in Proc, C_find(p)
  PROVE  /\ pc[p] = "C_find" /\ pc'[p] = "C_fill" /\ at'[p] = Unset
         /\ handle'[p] \in FreeEntries
         /\ \A q \in Proc : q # p => pc'[q] = pc[q] /\ at'[q] = at[q] /\ handle'[q] = handle[q]
         /\ UNCHANGED <<semVars, boxVars, mine, userVars>> /\ TypeOK'
<1>1. /\ pc[p] = "C_find" /\ FreeEntries # {}
      /\ handle' = [handle EXCEPT ![p] = CHOOSE h \in FreeEntries : \A g \in FreeEntries : h <= g]
      /\ Goto(p, "C_fill") /\ UNCHANGED <<semVars, boxVars, mine, userVars>>
  BY DEF C_find
<1>2. FreeEntries \subseteq Nat /\ FreeEntries \subseteq Sem
  BY DEF FreeEntries
<1>3. \E h \in FreeEntries : \A g \in FreeEntries : h <= g
  BY <1>1, <1>2, LeastExists
<1>4. (CHOOSE h \in FreeEntries : \A g \in FreeEntries : h <= g) \in FreeEntries
  BY <1>3
<1>5. /\ handle' \in [Proc -> Sem] /\ handle'[p] \in FreeEntries
      /\ \A q \in Proc : q # p => handle'[q] = handle[q]
  <2>1. handle \in [Proc -> Sem]
    BY DEF TypeOK
  <2> QED BY <1>1, <1>2, <1>4, <2>1
<1>6. "C_fill" \in Place
  BY DEF Place
<1>7. /\ pc' \in [Proc -> Place] /\ at' \in [Proc -> BoxId \union {Unset}]
      /\ pc'[p] = "C_fill" /\ at'[p] = Unset
      /\ \A q \in Proc : q # p => pc'[q] = pc[q] /\ at'[q] = at[q]
  BY <1>1, <1>6, GotoType
<1>8. TypeOK'
  BY <1>1, <1>5, <1>7 DEF TypeOK, semVars, boxVars, userVars
<1> QED BY <1>1, <1>5, <1>7, <1>8

LEMMA FreshFind ==
  ASSUME TInv, NEW p \in Proc, C_find(p)
  PROVE  Fresh'
<1>0. TypeOK /\ Fresh
  BY DEF TInv
<1>a. /\ pc[p] = "C_find" /\ pc'[p] = "C_fill" /\ at'[p] = Unset /\ at[p] = Unset
      /\ \A q \in Proc : q # p => pc'[q] = pc[q] /\ at'[q] = at[q]
      /\ UNCHANGED <<SemTable, mail, line, boxes, mine>>
  BY <1>0, C_findIs DEF semVars, boxVars, Fresh
<1>1. \A q \in Proc : at'[q] = at[q] /\ mine'[q] = mine[q]
  BY <1>a
<1>2. \A c \in Proc : pc'[c] \in Creating <=> pc[c] \in Creating
  BY <1>a
<1>3. ASSUME NEW c \in Proc, pc'[c] \in Creating PROVE Private(c)'
  <2>1. Private(c)
    BY <1>0, <1>2, <1>3 DEF Fresh
  <2> QED BY <1>a, <1>1, <1>2, <2>1 DEF Private
<1> QED BY <1>0, <1>a, <1>1, <1>3 DEF Fresh

LEMMA C_fillIs ==
  ASSUME TInv, NEW p \in Proc, C_fill(p)
  PROVE  LET h    == handle[p]
             priv == mine[p] - 1
         IN  /\ TypeOK' /\ pc[p] = "C_fill" /\ pc'[p] = "user" /\ at'[p] = Unset
             /\ priv \in 1 .. boxes /\ mine[p] \in 2 .. boxes
             /\ SemTable'[h].id = h /\ SemTable'[h].value = slots[priv]
             /\ SemTable'[h].blockedProcs = <<>>
             /\ SemTable'[h].priv = priv /\ SemTable'[h].mutex = mine[p]
             /\ \A g \in Sem : g # h => SemTable'[g] = SemTable[g]
             /\ mail'[priv] = slots[priv] /\ mail'[mine[p]] = 0
             /\ \A b \in Box : b # priv /\ b # mine[p] => mail'[b] = mail[b]
             /\ \A q \in Proc : q # p => pc'[q] = pc[q] /\ at'[q] = at[q]
             /\ open' = open \union {h}
             /\ UNCHANGED <<numSems, slots, line, boxes, handle, mine, events>>
<1> DEFINE h    == handle[p]
           priv == mine[p] - 1
           e    == [id |-> h, value |-> slots[priv], blockedProcs |-> <<>>,
                    priv |-> priv, mutex |-> mine[p]]
<1>0. TypeOK /\ Fresh
  BY DEF TInv
<1>1. /\ pc[p] = "C_fill" /\ SemTable' = [SemTable EXCEPT ![h] = e]
      /\ mail' = [mail EXCEPT ![priv] = slots[priv], ![mine[p]] = @ - 1]
      /\ open' = open \union {h} /\ Goto(p, "user")
      /\ UNCHANGED <<numSems, slots, line, boxes, handle, mine, events>>
  BY DEF C_fill
<1>2. mine[p] \in 2 .. boxes /\ mail[mine[p]] = 1 /\ boxes \in 0 .. MaxBox /\ h \in Sem
  BY <1>0, <1>1 DEF Fresh, Private, TypeOK
<1>3. /\ priv \in 1 .. boxes /\ priv \in Box /\ mine[p] \in Box /\ priv # mine[p]
  BY <1>2
<1>4. slots[priv] \in Nat
  BY <1>0, <1>3 DEF TypeOK
<1>5. e \in Entry
  <2>1. <<>> \in Seq(Proc)
    OBVIOUS
  <2> HIDE DEF priv, h
  <2>2. slots[priv] \in Int
    BY <1>4
  <2> QED BY <1>2, <1>3, <2>1, <2>2 DEF Entry
<1> HIDE DEF h, priv
<1>6. /\ SemTable' \in [Sem -> Entry] /\ SemTable'[h] = e
      /\ \A g \in Sem : g # h => SemTable'[g] = SemTable[g]
  BY <1>0, <1>1, <1>2, <1>5 DEF TypeOK
<1>7. /\ mail' \in [Box -> Nat] /\ mail'[priv] = slots[priv] /\ mail'[mine[p]] = 0
      /\ \A b \in Box : b # priv /\ b # mine[p] => mail'[b] = mail[b]
  <2> DEFINE m == mine[p]
             n == slots[priv]
  <2>1. mail \in [Box -> Nat]
    BY <1>0 DEF TypeOK
  <2>2. m \in Box /\ priv \in Box /\ priv # m /\ mail[m] = 1 /\ n \in Nat
    BY <1>2, <1>3, <1>4
  <2>3. mail' = [mail EXCEPT ![priv] = n, ![m] = @ - 1]
    BY <1>1
  <2> HIDE DEF m, n
  <2>4. /\ mail' \in [Box -> Nat] /\ mail'[priv] = n /\ mail'[m] = 0
        /\ \A b \in Box : b # priv /\ b # m => mail'[b] = mail[b]
    BY <2>1, <2>2, <2>3
  <2> QED BY <2>4 DEF m, n
<1>8. /\ pc' \in [Proc -> Place] /\ at' \in [Proc -> BoxId \union {Unset}]
      /\ pc'[p] = "user" /\ at'[p] = Unset
      /\ \A q \in Proc : q # p => pc'[q] = pc[q] /\ at'[q] = at[q]
  BY <1>0, <1>1, GotoType, PlacesAre
<1>9. TypeOK'
  BY <1>0, <1>1, <1>2, <1>6, <1>7, <1>8 DEF TypeOK
<1> QED BY <1>1, <1>2, <1>3, <1>6, <1>7, <1>8, <1>9 DEF h, priv

LEMMA FreshFill ==
  ASSUME TInv, NEW p \in Proc, C_fill(p)
  PROVE  Fresh'
<1> DEFINE priv == mine[p] - 1
<1>0. TypeOK /\ Fresh
  BY DEF TInv
<1>a. /\ pc[p] = "C_fill" /\ pc'[p] = "user" /\ at'[p] = Unset
      /\ priv \in 1 .. boxes /\ mine[p] \in 2 .. boxes
      /\ SemTable'[handle[p]].priv = priv /\ SemTable'[handle[p]].mutex = mine[p]
      /\ \A g \in Sem : g # handle[p] => SemTable'[g] = SemTable[g]
      /\ \A b \in Box : b # priv /\ b # mine[p] => mail'[b] = mail[b]
      /\ \A q \in Proc : q # p => pc'[q] = pc[q] /\ at'[q] = at[q]
      /\ UNCHANGED <<line, boxes, mine>>
  BY C_fillIs
<1>b. boxes \in 0 .. MaxBox
  BY <1>0 DEF TypeOK
<1>1. \A h \in Sem : SemTable'[h].priv <= boxes /\ SemTable'[h].mutex <= boxes
  BY <1>0, <1>a, <1>b DEF Fresh
<1>2. \A q \in Proc : at'[q] <= boxes /\ mine'[q] <= boxes
  BY <1>0, <1>a, <1>b DEF Fresh
<1>3. ASSUME NEW c \in Proc, pc'[c] \in Creating PROVE Private(c)'
  <2>1. c # p /\ pc[c] \in Creating /\ Private(c) /\ Private(p)
    BY <1>0, <1>3, <1>a DEF Fresh
  <2>2. mine[c] \in 2 .. boxes /\ mine[p] # mine[c] /\ mine[p] # mine[c] + 1
    BY <1>a, <2>1 DEF Private
  <2>3. mine[c] \in Box /\ mine[c] # priv /\ mine[c] # Unset
    BY <1>a, <1>b, <2>2
  <2>4. mail'[mine[c]] = 1
    BY <1>a, <2>1, <2>2, <2>3 DEF Private
  <2>5. \A h \in Sem : SemTable'[h].priv # mine[c] /\ SemTable'[h].mutex # mine[c]
    BY <1>a, <2>1, <2>2, <2>3 DEF Private
  <2>6. \A q \in Proc \ {c} :
           /\ at'[q] # mine[c] /\ mine[q] # mine[c]
           /\ pc'[q] \in Creating => mine[q] # mine[c] + 1
    BY <1>a, <2>1, <2>3 DEF Private
  <2> QED BY <1>a, <2>2, <2>4, <2>5, <2>6 DEF Private
<1>4. \A q \in Proc : pc'[q] \in Idle \union Creating => at'[q] = Unset
  BY <1>0, <1>a DEF Fresh
<1> QED BY <1>0, <1>1, <1>2, <1>3, <1>4, <1>a DEF Fresh

LEMMA TypesInit == Init => TInv
<1> SUFFICES ASSUME Init PROVE TInv
  OBVIOUS
<1>1. FreeEntry \in Entry
  BY DEF FreeEntry, Entry
<1>2. "user" \in Place /\ 0 \in Sem
  BY DEF Place
<1>3. TypeOK
  BY <1>1, <1>2 DEF Init, TypeOK
<1>4. Fresh
  BY DEF Init, Fresh, FreeEntry
<1> QED BY <1>3, <1>4 DEF TInv

\* Next, as the lemmas look at it.
LEMMA NextCases ==
  ASSUME Next
  PROVE  \E p \in Proc :
           \/ \E h \in Sem : semP(p, h) \/ semV(p, h) \/ semFree(p, h)
           \/ \E v \in Values : semCreate(p, v)
           \/ C_find(p) \/ C_fill(p) \/ ActsInCall(p)
BY DEF Next, Call, InCall, ActsInCall

LEMMA TypesNext ==
  ASSUME TInv, [Next]_vars
  PROVE  TInv'
<1>0. TypeOK /\ Fresh
  BY DEF TInv
<1>1. CASE UNCHANGED vars
  BY <1>0, <1>1 DEF vars, semVars, boxVars, callVars, userVars, TInv, TypeOK, Fresh, Private
<1>2. CASE Next
  <2>1. PICK p \in Proc :
           \/ \E h \in Sem : semP(p, h) \/ semV(p, h) \/ semFree(p, h)
           \/ \E v \in Values : semCreate(p, v)
           \/ C_find(p) \/ C_fill(p) \/ ActsInCall(p)
    BY <1>2, NextCases
  <2>2. CASE \E h \in Sem : semP(p, h) \/ semV(p, h) \/ semFree(p, h)
    BY <1>0, <2>2, EnterIs, FreshEnter DEF TInv
  <2>3. CASE \E v \in Values : semCreate(p, v)
    BY <1>0, <2>3, semCreateIs, FreshCreate DEF TInv
  <2>4. CASE C_find(p)
    BY <1>0, <2>4, C_findIs, FreshFind DEF TInv
  <2>5. CASE C_fill(p)
    BY <1>0, <2>5, C_fillIs, FreshFill DEF TInv
  <2>6. CASE ActsInCall(p)
    BY <1>0, <2>6, InCallActs, FreshActs DEF TInv
  <2> QED BY <2>1, <2>2, <2>3, <2>4, <2>5, <2>6
<1> QED BY <1>1, <1>2

\* However the users call, the tables, the mailboxes and the processes keep
\* their types: no mailbox is taken a message it does not have
\* (phase31.c:327-546).
THEOREM TypesCorrect == Spec => []TypeOK
<1>1. TInv => TypeOK
  BY DEF TInv
<1> QED BY TypesInit, TypesNext, <1>1, PTL DEF Spec

-----------------------------------------------------------------------------
(***************************************************************************)
(* The inductive invariant of orderly use.  A semCreate is the only one,   *)
(* and nobody is in a call on a semaphore that is being freed but the one  *)
(* that frees it and the Ps that wait for a message; so every mailbox in   *)
(* the table belongs to one entry, everybody in a call is at a mailbox of  *)
(* its semaphore, and the mutex is full exactly while somebody is inside.  *)
(***************************************************************************)
Live(h) == SemTable[h].id # -1

\* The mailbox b is of no entry of the table (any more, or yet).
Foreign(b) ==
  b \in 1 .. boxes /\ \A g \in Sem : SemTable[g].priv # b /\ SemTable[g].mutex # b

Calling(q) == pc[q] \notin Idle \union Creating

Creator(p) ==
  /\ \A q \in Proc \ {p} : pc[q] \notin Creating /\ (pc[q] \notin Idle => handle[q] \in open)
  /\ slots[mine[p]] = 1 /\ slots[mine[p] - 1] \in Values /\ line[mine[p]] = <<>>
  /\ Foreign(mine[p]) /\ Foreign(mine[p] - 1)
  /\ pc[p] = "C_find" => FreeEntries # {}
  /\ pc[p] = "C_fill" => ~Live(handle[p])

Alone == \A p \in Proc : pc[p] \in Creating => Creator(p)

EntryOK(h) ==
  IF Live(h)
  THEN /\ SemTable[h].id = h /\ SemTable[h].priv # SemTable[h].mutex
       /\ SemTable[h].priv \in 1 .. boxes /\ SemTable[h].mutex \in 1 .. boxes
  ELSE SemTable[h].priv = NoBox /\ SemTable[h].mutex = NoBox

Apart(g, h) ==
  /\ SemTable[g].priv # SemTable[h].priv /\ SemTable[g].priv # SemTable[h].mutex
  /\ SemTable[g].mutex # SemTable[h].priv /\ SemTable[g].mutex # SemTable[h].mutex

TableOK ==
  /\ \A h \in Sem : EntryOK(h)
  /\ \A g, h \in Sem : Live(g) /\ g # h => Apart(g, h)
  /\ \A h \in open : Live(h)

\* Where a process in a call is: in use, at the mailbox of its place; otherwise
\* at one that has left the table.
Stands(q) ==
  IF Live(handle[q])
  THEN /\ pc[q] \in MutexCalls => at[q] \in {Unset, SemTable[handle[q]].mutex}
       /\ pc[q] \in PrivCalls => at[q] \in {Unset, SemTable[handle[q]].priv}
       /\ pc[q] \in MutexCalls \union PrivCalls
       /\ pc[q] = "F_lock" /\ at[q] # Unset => mine[q] = at[q]
  ELSE /\ pc[q] \in {"P_wait", "F_send", "F_unlock"}
       /\ pc[q] = "P_wait" => Foreign(at[q])
       /\ pc[q] = "F_send" => Foreign(at[q]) /\ Foreign(mine[q])
       /\ pc[q] = "F_unlock" => at[q] \in {Unset, mine[q]} /\ Foreign(mine[q])

\* Who is still in a call on a semaphore that was freed.
Settles(q) ==
  IF handle[q] \in open THEN pc[q] \notin Freeing
  ELSE pc[q] \in Freeing \/ (pc[q] = "P_wait" /\ at[q] # Unset)

Places ==
  /\ \A q \in Proc : Calling(q) => Stands(q) /\ Settles(q)
  /\ \A q, r \in Proc : pc[q] \in Freeing /\ pc[r] \in Freeing /\ handle[q] = handle[r] => q = r

InsideOf(h) == {p \in Proc : pc[p] \in Inside /\ handle[p] = h}

\* The mutex b of the semaphore h.
Mutex(h, b) ==
  /\ slots[b] = 1
  /\ \A p, q \in InsideOf(h) : p = q
  /\ mail[b] = IF InsideOf(h) = {} THEN 0 ELSE 1
  /\ \/ line[b] = <<>>
     \/ \E q \in InsideOf(h) : line[b] = <<q>> /\ at[q] = b /\ pc[q] \in Receives

Mutexes == \A h \in Sem : Live(h) => Mutex(h, SemTable[h].mutex)

\* The messages of the private mailbox and the Vs that are to send one there
\* are no more than the Ps that may pass.
Sending(h) == {p \in Proc : pc[p] \in {"V_out", "V_send"} /\ handle[p] = h}
Tokens(h) == SemTable[h].value + Cardinality(Taking(h))
             + Cardinality(Waiting(h)) - Len(SemTable[h].blockedProcs)
Mails == \A h \in open : mail[SemTable[h].priv] + Cardinality(Sending(h)) <= Tokens(h)

\* Nobody waits while the value is above zero; and of a P that waits in a
\* semaphore that is about to be freed no message is left.
Queues ==
  \A h \in open : 0 <= SemTable[h].value /\ (SemTable[h].blockedProcs # <<>> => SemTable[h].value = 0)
Closing ==
  \A q \in Proc : pc[q] = "P_wait" /\ handle[q] \notin open /\ Live(handle[q]) =>
    mail[SemTable[handle[q]].priv] = 0

Used     == {h \in Sem : SemTable[h].id # -1}
Creators == {p \in Proc : pc[p] \in Creating}
Counted  == numSems = Cardinality(Used) + Cardinality(Creators)

OInv == /\ Alone /\ TableOK /\ Places /\ Mutexes /\ Mails /\ Counted
        /\ Queues /\ Closing
IInv == TInv /\ (orderly => OInv)

-----------------------------------------------------------------------------
(***************************************************************************)
(* Where a process in a call is, and what its step can change.             *)
(***************************************************************************)
LEMMA SentAt ==
  ASSUME TypeOK, NEW p \in Proc, Sent(p) \/ Received(p)
  PROVE  at[p] # Unset
<1>1. at[p] = NoBox \/ at[p] \in Box
  BY DEF Sent, Received
<1> QED BY <1>1

\* The mailbox of a call is one of p's own semaphore or of none.
LEMMA AtIs ==
  ASSUME TypeOK, OInv, NEW p \in Proc, Calling(p), at[p] # Unset
  PROVE  LET h == handle[p] IN
         /\ at[p] \in 1 .. boxes
         /\ Live(h) => \/ /\ pc[p] \in MutexCalls /\ at[p] = SemTable[h].mutex
                          /\ at[p] # SemTable[h].priv
                       \/ /\ pc[p] \in PrivCalls /\ at[p] = SemTable[h].priv
                          /\ at[p] # SemTable[h].mutex
         /\ ~Live(h) => Foreign(at[p])
         /\ \A g \in Sem : g # h => SemTable[g].priv # at[p] /\ SemTable[g].mutex # at[p]
<1> DEFINE h == handle[p]
<1>1. h \in Sem
  BY DEF TypeOK
<1>2. Stands(p) /\ EntryOK(h)
  BY <1>1 DEF OInv, Places, TableOK
<1>3. CASE Live(h)
  <2>1. \/ pc[p] \in MutexCalls /\ at[p] = SemTable[h].mutex
        \/ pc[p] \in PrivCalls /\ at[p] = SemTable[h].priv
    BY <1>2, <1>3 DEF Stands
  <2>2. /\ SemTable[h].priv # SemTable[h].mutex
        /\ SemTable[h].priv \in 1 .. boxes /\ SemTable[h].mutex \in 1 .. boxes
    BY <1>2, <1>3 DEF EntryOK
  <2>3. \A g \in Sem : g # h => Apart(h, g)
    BY <1>1, <1>3 DEF OInv, TableOK
  <2> QED BY <1>3, <2>1, <2>2, <2>3 DEF Apart
<1>4. CASE ~Live(h)
  <2>1. Foreign(at[p])
    BY <1>2, <1>4 DEF Stands
  <2> QED BY <1>4, <2>1 DEF Foreign
<1> QED BY <1>3, <1>4

\* Only semFreeReal takes a mailbox out of the table.
LEMMA ActsKeep ==
  ASSUME TypeOK, NEW p \in Proc, ActsInCall(p), ~F_lock(p)
  PROVE  \A g \in Sem : Keeps(g)
<1>1. Acts(p) /\ handle[p] \in Sem
  BY InCallActs DEF TypeOK
<1>2. Keeps(handle[p])
  <2>1. CASE Evaluate(p)
    BY <2>1 DEF Evaluate, Keeps, semVars
  <2>2. CASE P_lock(p)
    BY <2>2, P_lockActs
  <2>3. CASE V_lock(p)
    BY <2>3, V_lockActs
  <2>4. CASE F_send(p)
    BY <2>4, F_sendActs
  <2>5. CASE \/ P_out(p) \/ P_wait(p) \/ P_in(p) \/ P_take(p) \/ P_unlock(p)
             \/ V_out(p) \/ V_send(p) \/ V_in(p) \/ V_unlock(p) \/ F_unlock(p)
    BY <2>5, MovesAre DEF Moves, Keeps, semVars
  <2> QED BY <2>1, <2>2, <2>3, <2>4, <2>5
          DEF ActsInCall, semPReal, semVReal, semFreeReal
<1> QED BY <1>1, <1>2 DEF Acts, Keeps

\* F_lock empties the entry of p's semaphore, which nobody may use any more.
LEMMA F_lockKeeps ==
  ASSUME TypeOK, OInv, NEW p \in Proc, F_lock(p)
  PROVE  LET h == handle[p] IN
         /\ h \in Sem /\ Live(h) /\ SemTable'[h].id = -1 /\ h \notin open
         /\ SemTable'[h].priv = NoBox /\ SemTable'[h].mutex = NoBox
         /\ at[p] = SemTable[h].mutex /\ mine[p] = at[p] /\ Calling(p)
         /\ \A g \in Sem : g # h => Keeps(g)
<1> DEFINE h == handle[p]
<1>1. h \in Sem
  BY DEF TypeOK
<1>2. /\ Acts(p) /\ Sent(p) /\ pc[p] = "F_lock"
      /\ SemTable'[h].id = -1 /\ SemTable'[h].priv = NoBox /\ SemTable'[h].mutex = NoBox
  BY F_lockActs
<1>3. at[p] # Unset /\ Calling(p)
  BY <1>2, SentAt DEF Calling
<1>4. Stands(p) /\ Settles(p)
  BY <1>3 DEF OInv, Places
<1>5. Live(h)
  BY <1>2, <1>4 DEF Stands
<1>6. at[p] = SemTable[h].mutex /\ mine[p] = at[p]
  BY <1>2, <1>3, <1>4, <1>5 DEF Stands, MutexCalls
<1>7. h \notin open
  BY <1>2, <1>4 DEF Settles, Freeing
<1>8. \A g \in Sem : g # h => Keeps(g)
  BY <1>2 DEF Acts, Keeps
<1> QED BY <1>1, <1>2, <1>3, <1>5, <1>6, <1>7, <1>8 DEF Live

-----------------------------------------------------------------------------
(***************************************************************************)
(* The table.                                                              *)
(***************************************************************************)
LEMMA TableOKActs ==
  ASSUME TypeOK, OInv, NEW p \in Proc, ActsInCall(p)
  PROVE  TableOK'
<1>1. boxes' = boxes /\ open' = open
  BY InCallActs DEF Acts
<1>2. TableOK
  BY DEF OInv
<1>3. CASE ~F_lock(p)
  <2>1. \A g \in Sem : Keeps(g)
    BY <1>3, ActsKeep
  <2>2. \A h \in Sem : EntryOK(h)'
    BY <1>1, <1>2, <2>1 DEF TableOK, EntryOK, Keeps, Live
  <2>3. \A g, h \in Sem : Live(g)' /\ g # h => Apart(g, h)'
    BY <1>2, <2>1 DEF TableOK, Apart, Keeps, Live
  <2>4. \A h \in open' : Live(h)'
    BY <1>1, <1>2, <2>1 DEF TableOK, Keeps, Live, TypeOK
  <2> QED BY <2>2, <2>3, <2>4 DEF TableOK
<1>4. CASE F_lock(p)
  <2>0. PICK f \in Sem : f = handle[p]
    BY DEF TypeOK
  <2>1. /\ f \in Sem /\ Live(f) /\ SemTable'[f].id = -1 /\ f \notin open
        /\ SemTable'[f].priv = NoBox /\ SemTable'[f].mutex = NoBox
        /\ \A g \in Sem : g # f => Keeps(g)
    BY <1>4, <2>0, F_lockKeeps
  <2>2. \A h \in Sem : EntryOK(h)'
    BY <1>1, <1>2, <2>1 DEF TableOK, EntryOK, Keeps, Live
  <2>3. ASSUME NEW g \in Sem, NEW h \in Sem, Live(g)', g # h PROVE Apart(g, h)'
    <3>1. g # f /\ Live(g) /\ Apart(g, h) /\ Keeps(g)
      BY <1>2, <2>1, <2>3 DEF TableOK, Keeps, Live
    <3>2. CASE h # f
      BY <2>1, <3>1, <3>2 DEF Apart, Keeps
    <3>3. CASE h = f
      <4>1. SemTable[g].priv \in 1 .. boxes /\ SemTable[g].mutex \in 1 .. boxes
        BY <1>2, <3>1 DEF TableOK, EntryOK
      <4>2. boxes \in Nat
        BY DEF TypeOK
      <4> QED BY <2>1, <3>1, <3>3, <4>1, <4>2 DEF Apart, Keeps
    <3> QED BY <3>2, <3>3
  <2>4. \A h \in open' : Live(h)'
    BY <1>1, <1>2, <2>1 DEF TableOK, Keeps, Live, TypeOK
  <2> QED BY <2>2, <2>3, <2>4 DEF TableOK
<1> QED BY <1>3, <1>4

-----------------------------------------------------------------------------
(***************************************************************************)
(* A call starts in an orderly way.                                        *)
(***************************************************************************)

\* Where nobody moves between places nobody is counted anew.
LEMMA SameSets ==
  ASSUME NEW p \in Proc, \A q \in Proc : q # p => pc'[q] = pc[q] /\ handle'[q] = handle[q],
         NEW g, ~(handle[p] = g /\ pc[p] \in Inside \union {"P_wait", "V_send"}),
         ~(handle'[p] = g /\ pc'[p] \in Inside \union {"P_wait", "V_send"})
  PROVE  /\ {q \in Proc : pc'[q] \in Inside /\ handle'[q] = g} = InsideOf(g)
         /\ {q \in Proc : pc'[q] \in {"V_out", "V_send"} /\ handle'[q] = g} = Sending(g)
         /\ {q \in Proc : pc'[q] = "P_take" /\ handle'[q] = g} = Taking(g)
         /\ {q \in Proc : pc'[q] \in {"P_out", "P_wait"} /\ handle'[q] = g} = Waiting(g)
BY DEF InsideOf, Sending, Taking, Waiting, Inside

\* A set of members of a sequence has no more elements than the sequence.
LEMMA RangeBound ==
  ASSUME NEW S, NEW s \in Seq(S), NEW W, \A x \in W : \E i \in DOMAIN s : s[i] = x
  PROVE  IsFiniteSet(W) /\ Cardinality(W) \in Nat /\ Cardinality(W) <= Len(s)
<1>1. PICK n \in Nat : n = Len(s)
  OBVIOUS
<1> DEFINE R == {s[i] : i \in 1 .. n}
           f == [i \in 1 .. n |-> s[i]]
<1>2. f \in Surjection(1 .. n, R)
  BY DEF Surjection
<1>3. IsFiniteSet(1 .. n) /\ Cardinality(1 .. n) = n
  <2>1. CASE n = 0
    BY <2>1, FS_Interval
  <2>2. CASE n # 0
    BY <2>2, FS_Interval
  <2> QED BY <2>1, <2>2
<1>4. W \subseteq R
  BY <1>1
<1> HIDE DEF R, f
<1>5. IsFiniteSet(R) /\ Cardinality(R) <= n /\ Cardinality(R) \in Nat
  BY <1>2, <1>3, FS_Surjection, FS_CardinalityType
<1>6. IsFiniteSet(W) /\ Cardinality(W) <= Cardinality(R) /\ Cardinality(W) \in Nat
  BY <1>4, <1>5, FS_Subset, FS_CardinalityType
<1> QED BY <1>1, <1>5, <1>6

LEMMA OInvEnter ==
  ASSUME TInv, OInv, NEW p \in Proc, NEW h \in Sem, orderly',
         semP(p, h) \/ semV(p, h) \/ semFree(p, h)
  PROVE  OInv'
<1>0. TypeOK /\ Fresh /\ Alone /\ TableOK /\ Places /\ Mutexes /\ Mails /\ Counted
      /\ Queues /\ Closing
  BY DEF TInv, OInv
<1>a. /\ pc[p] = "user" /\ handle' = [handle EXCEPT ![p] = h]
      /\ pc'[p] \in {"P_lock", "V_lock", "F_lock"} /\ at'[p] = Unset
      /\ \A q \in Proc : q # p => pc'[q] = pc[q] /\ at'[q] = at[q]
      /\ UNCHANGED <<SemTable, numSems, slots, mail, line, boxes, mine>>
      /\ h \in open
      /\ pc'[p] # "F_lock" => open' = open
      /\ pc'[p] = "F_lock" => open' = open \ {h} /\ NobodyCreates /\ OnlyWaitersOf(p, h)
  BY <1>0, EnterIs DEF semVars, boxVars
<1>b. handle'[p] = h /\ \A q \in Proc : q # p => handle'[q] = handle[q]
  BY <1>0, <1>a DEF TypeOK
<1>c. open' \subseteq open /\ Live(h)
  BY <1>0, <1>a DEF TableOK
<1>1. TableOK'
  BY <1>0, <1>a, <1>c DEF TableOK, EntryOK, Apart, Live
<1>2. ASSUME NEW c \in Proc, pc'[c] \in Creating PROVE Creator(c)'
  <2>1. c # p /\ pc[c] \in Creating /\ Creator(c) /\ open' = open
    BY <1>0, <1>2, <1>a DEF Alone, NobodyCreates
  <2>2. \A q \in Proc \ {c} : pc'[q] \notin Creating /\ (pc'[q] \notin Idle => handle'[q] \in open')
    BY <1>a, <1>b, <2>1 DEF Creator
  <2> QED BY <1>a, <1>b, <2>1, <2>2 DEF Creator, Foreign, FreeEntries, Live
<1>3. ASSUME NEW q \in Proc, Calling(q)' PROVE Stands(q)' /\ Settles(q)'
  <2>1. CASE q = p
    <3>1. Stands(p)'
      BY <1>a, <1>b, <1>c DEF Stands, Live, MutexCalls, PrivCalls
    <3>2. Settles(p)'
      BY <1>a, <1>b DEF Settles, Freeing
    <3> QED BY <2>1, <3>1, <3>2
  <2>2. CASE q # p
    <3>1. Calling(q) /\ Stands(q) /\ Settles(q)
      BY <1>0, <1>3, <1>a, <2>2 DEF Calling, Places
    <3>2. Stands(q)'
      BY <1>a, <1>b, <2>2, <3>1 DEF Stands, Live, Foreign
    <3>3. CASE handle[q] = h /\ pc'[p] = "F_lock"
      <4>1. WaitsForV(q)
        BY <1>a, <2>2, <3>1, <3>3 DEF OnlyWaitersOf, Calling
      <4> QED BY <1>a, <1>b, <2>2, <3>2, <3>3, <4>1 DEF WaitsForV, Settles
    <3>4. CASE ~(handle[q] = h /\ pc'[p] = "F_lock")
      BY <1>a, <1>b, <2>2, <3>1, <3>2, <3>4 DEF Settles
    <3> QED BY <3>3, <3>4
  <2> QED BY <2>1, <2>2
<1>4. ASSUME NEW q \in Proc, NEW r \in Proc, pc'[q] \in Freeing, pc'[r] \in Freeing,
             handle'[q] = handle'[r]
      PROVE  q = r
  <2>1. ASSUME NEW x \in Proc, x # p, pc'[p] = "F_lock", handle[x] = h PROVE pc[x] \notin Freeing
    BY <1>a, <2>1 DEF OnlyWaitersOf, WaitsForV, Freeing
  <2>2. pc'[p] \in Freeing => pc'[p] = "F_lock"
    BY <1>a DEF Freeing
  <2> QED BY <1>0, <1>4, <1>a, <1>b, <2>1, <2>2 DEF Places
<1>5. \A g : /\ {q \in Proc : pc'[q] \in Inside /\ handle'[q] = g} = InsideOf(g)
             /\ {q \in Proc : pc'[q] \in {"V_out", "V_send"} /\ handle'[q] = g} = Sending(g)
             /\ {q \in Proc : pc'[q] = "P_take" /\ handle'[q] = g} = Taking(g)
             /\ {q \in Proc : pc'[q] \in {"P_out", "P_wait"} /\ handle'[q] = g} = Waiting(g)
  <2>1. /\ pc[p] \notin Inside \union {"P_wait", "V_send"}
        /\ pc'[p] \notin Inside \union {"P_wait", "V_send"}
    BY <1>a DEF Inside
  <2> QED BY <1>a, <1>b, <2>1, SameSets
<1>6. ASSUME NEW g \in Sem, Live(g)' PROVE Mutex(g, SemTable[g].mutex)'
  <2>1. Live(g) /\ Mutex(g, SemTable[g].mutex)
    BY <1>0, <1>6, <1>a DEF Mutexes, Live
  <2>2. InsideOf(g)' = InsideOf(g)
    BY <1>5 DEF InsideOf
  <2>3. \A q \in InsideOf(g) : q \in Proc /\ q # p
    BY <1>a DEF InsideOf, Inside
  <2>4. \A q \in InsideOf(g) : at'[q] = at[q] /\ pc'[q] = pc[q]
    BY <1>a, <2>3
  <2> QED BY <1>a, <2>1, <2>2, <2>4 DEF Mutex
<1>7. Mails'
  <2> SUFFICES ASSUME NEW g \in open'
               PROVE  mail'[SemTable'[g].priv] + Cardinality(Sending(g))' <= Tokens(g)'
    BY DEF Mails
  <2>1. g \in open
    BY <1>c
  <2>2. /\ Sending(g)' = Sending(g) /\ Taking(g)' = Taking(g) /\ Waiting(g)' = Waiting(g)
    BY <1>5 DEF Sending, Taking, Waiting
  <2>3. mail[SemTable[g].priv] + Cardinality(Sending(g)) <= Tokens(g)
    BY <1>0, <2>1 DEF Mails
  <2> QED BY <1>a, <2>2, <2>3 DEF Tokens
<1>8. Counted'
  <2>1. Creators' = Creators
    BY <1>a DEF Creators
  <2>2. Used' = Used
    BY <1>a DEF Used
  <2> QED BY <1>0, <1>a, <2>1, <2>2 DEF Counted
<1>9. Alone' /\ Places' /\ Mutexes'
  BY <1>2, <1>3, <1>4, <1>6 DEF Alone, Places, Mutexes
<1>10. Queues'
  BY <1>0, <1>a, <1>c DEF Queues
<1>11. ASSUME NEW q \in Proc, pc'[q] = "P_wait", handle'[q] \notin open', Live(handle[q])'
      PROVE  mail'[SemTable'[handle'[q]].priv] = 0
  <2>1. q # p /\ pc[q] = "P_wait" /\ handle'[q] = handle[q] /\ Live(handle[q])
    BY <1>11, <1>a, <1>b DEF Live
  <2>2. CASE handle[q] \notin open
    BY <1>0, <1>a, <2>1, <2>2 DEF Closing
  <2>3. CASE handle[q] \in open
    <3>1. handle[q] = h /\ pc'[p] = "F_lock"
      BY <1>11, <1>a, <2>1, <2>3
    <3> DEFINE queue == SemTable[h].blockedProcs
    <3>2. \A x \in Proc \ {p} : pc[x] \notin Idle /\ handle[x] = h => WaitsForV(x)
      BY <1>a, <3>1 DEF OnlyWaitersOf
    <3>3. \A x \in Waiting(h) : \E i \in DOMAIN queue : queue[i] = x
      BY <1>a, <3>2 DEF Waiting, WaitsForV
    <3>4. q \in Waiting(h)
      BY <2>1, <3>1 DEF Waiting
    <3>5. queue \in Seq(Proc) /\ SemTable[h].priv \in BoxId /\ SemTable[h].value \in Int
      BY <1>0, EntryType
    <3>6. Cardinality(Waiting(h)) \in Nat /\ Cardinality(Waiting(h)) <= Len(queue) /\ Len(queue) \in Nat
      BY <3>3, <3>5, RangeBound
    <3>7. queue # <<>>
      BY <3>3, <3>4
    <3>8. SemTable[h].value = 0
      BY <1>0, <1>a, <3>7 DEF Queues
    <3>9. Taking(h) = {} /\ Sending(h) = {}
      BY <1>a, <3>2 DEF Taking, Sending, WaitsForV
    <3>10. mail[SemTable[h].priv] + Cardinality(Sending(h)) <= Tokens(h)
      BY <1>0, <1>a DEF Mails
    <3>11. Cardinality(Taking(h)) = 0 /\ Cardinality(Sending(h)) = 0
      BY <3>9, FS_EmptySet
    <3>12. mail[SemTable[h].priv] \in Nat
      <4>1. SemTable[h].priv \in Box
        BY <1>0, <1>c DEF TableOK, EntryOK, TypeOK
      <4> QED BY <1>0, <4>1 DEF TypeOK
    <3>13. mail[SemTable[h].priv] = 0
      BY <3>6, <3>8, <3>10, <3>11, <3>12 DEF Tokens
    <3> QED BY <1>a, <2>1, <3>1, <3>13
  <2> QED BY <2>2, <2>3
<1>12. Closing'
  BY <1>11, <1>a DEF Closing, Live
<1> QED BY <1>1, <1>7, <1>8, <1>9, <1>10, <1>12 DEF OInv

-----------------------------------------------------------------------------
(***************************************************************************)
(* semCreate.                                                              *)
(***************************************************************************)
LEMMA TableSize ==
  /\ IsFiniteSet(Sem) /\ Cardinality(Sem) = MAXSEMS
  /\ IsFiniteSet(Used) /\ Used \subseteq Sem
  /\ IsFiniteSet(Creators) /\ IsFiniteSet(Proc)
<1>1. IsFiniteSet(0 .. MAXSEMS - 1) /\ Cardinality(0 .. MAXSEMS - 1) = MAXSEMS
  BY FS_Interval
<1>2. Used \subseteq 0 .. MAXSEMS - 1 /\ Creators \subseteq Proc
  BY DEF Used, Creators
<1> QED BY <1>1, <1>2, FS_Subset

LEMMA OInvCreate ==
  ASSUME TInv, OInv, NEW p \in Proc, NEW v \in Values, orderly', semCreate(p, v)
  PROVE  OInv'
<1>0. TypeOK /\ Fresh /\ Alone /\ TableOK /\ Places /\ Mutexes /\ Mails /\ Counted
      /\ Queues /\ Closing
  BY DEF TInv, OInv
<1>a. /\ pc[p] = "user" /\ numSems # MAXSEMS /\ boxes + 1 \in Box /\ boxes + 2 \in Box
      /\ numSems' = numSems + 1 /\ boxes' = boxes + 2
      /\ slots'[boxes + 1] = v /\ slots'[boxes + 2] = 1 /\ mail'[boxes + 2] = 1
      /\ \A b \in 1 .. boxes : slots'[b] = slots[b] /\ mail'[b] = mail[b]
      /\ pc'[p] = "C_find" /\ at'[p] = Unset /\ mine'[p] = boxes + 2
      /\ \A q \in Proc : q # p => pc'[q] = pc[q] /\ at'[q] = at[q] /\ mine'[q] = mine[q]
      /\ UNCHANGED <<SemTable, line, handle, open>>
      /\ NobodyCreates /\ AllSettled(p)
  BY <1>0, semCreateIs
<1>b. boxes \in Nat /\ 1 .. boxes \subseteq 1 .. boxes'
  BY <1>0, <1>a DEF TypeOK
<1>1. TableOK'
  BY <1>0, <1>a, <1>b DEF TableOK, EntryOK, Apart, Live
<1>c. \A b : Foreign(b) => Foreign(b)'
  BY <1>a, <1>b DEF Foreign
<1>d. \A q \in Proc : pc[q] \notin Creating
  BY <1>a DEF NobodyCreates
<1>2. ASSUME NEW c \in Proc, pc'[c] \in Creating PROVE Creator(c)'
  <2>1. c = p
    BY <1>2, <1>a, <1>d
  <2>2. \A q \in Proc \ {p} : pc'[q] \notin Creating /\ (pc'[q] \notin Idle => handle'[q] \in open')
    BY <1>a, <1>d DEF AllSettled
  <2>3. line'[boxes + 2] = <<>>
    BY <1>0, <1>a, <1>b DEF Fresh
  <2>4. \A h \in Sem : /\ SemTable[h].priv # boxes + 1 /\ SemTable[h].priv # boxes + 2
                       /\ SemTable[h].mutex # boxes + 1 /\ SemTable[h].mutex # boxes + 2
    BY <1>0, <1>b DEF TableOK, EntryOK
  <2>5. \A b \in {boxes + 1, boxes + 2} :
          b \in 1 .. boxes' /\ \A g \in Sem : SemTable'[g].priv # b /\ SemTable'[g].mutex # b
    BY <1>a, <1>b, <2>4
  <2>6. FreeEntries' # {}
    <3>1. SUFFICES ASSUME FreeEntries = {} PROVE FALSE
      BY <1>a DEF FreeEntries
    <3>2. Used = Sem
      BY <3>1 DEF Used, FreeEntries
    <3>3. Creators = {}
      BY <1>d DEF Creators
    <3>4. numSems = MAXSEMS + 0
      BY <1>0, <3>2, <3>3, TableSize, FS_EmptySet DEF Counted
    <3> QED BY <1>a, <3>4
  <2>7. mine'[p] - 1 = boxes + 1
    BY <1>a, <1>b
  <2>8. mine'[p] = boxes + 2
    BY <1>a
  <2> QED BY <1>a, <2>1, <2>2, <2>3, <2>5, <2>6, <2>7, <2>8 DEF Creator, Foreign
<1>3. ASSUME NEW q \in Proc, Calling(q)' PROVE Stands(q)' /\ Settles(q)'
  <2>1. q # p /\ Calling(q)
    BY <1>3, <1>a DEF Calling
  <2>2. Stands(q) /\ Settles(q)
    BY <1>0, <2>1 DEF Places
  <2>3. Settles(q)'
    BY <1>a, <2>1, <2>2 DEF Settles
  <2>4. CASE Live(handle[q])
    BY <1>a, <2>1, <2>2, <2>3, <2>4 DEF Stands, Live
  <2>5. CASE ~Live(handle[q])
    BY <1>a, <1>c, <2>1, <2>2, <2>3, <2>5 DEF Stands, Live, Foreign
  <2> QED BY <2>4, <2>5
<1>4. ASSUME NEW q \in Proc, NEW r \in Proc, pc'[q] \in Freeing, pc'[r] \in Freeing,
             handle'[q] = handle'[r]
      PROVE  q = r
  BY <1>0, <1>4, <1>a DEF Places, Freeing
<1>5. \A g : /\ {q \in Proc : pc'[q] \in Inside /\ handle'[q] = g} = InsideOf(g)
             /\ {q \in Proc : pc'[q] \in {"V_out", "V_send"} /\ handle'[q] = g} = Sending(g)
             /\ {q \in Proc : pc'[q] = "P_take" /\ handle'[q] = g} = Taking(g)
             /\ {q \in Proc : pc'[q] \in {"P_out", "P_wait"} /\ handle'[q] = g} = Waiting(g)
  <2>1. /\ pc[p] \notin Inside \union {"P_wait", "V_send"}
        /\ pc'[p] \notin Inside \union {"P_wait", "V_send"}
    BY <1>a DEF Inside
  <2> QED BY <1>a, <2>1, SameSets
<1>6. ASSUME NEW g \in Sem, Live(g)' PROVE Mutex(g, SemTable[g].mutex)'
  <2>1. Live(g) /\ Mutex(g, SemTable[g].mutex)
    BY <1>0, <1>6, <1>a DEF Mutexes, Live
  <2>2. SemTable[g].mutex \in 1 .. boxes
    BY <1>0, <2>1 DEF TableOK, EntryOK
  <2>3. InsideOf(g)' = InsideOf(g)
    BY <1>5 DEF InsideOf
  <2>4. \A q \in InsideOf(g) : q \in Proc /\ q # p
    BY <1>a DEF InsideOf, Inside
  <2>5. \A q \in InsideOf(g) : at'[q] = at[q] /\ pc'[q] = pc[q]
    BY <1>a, <2>4
  <2> QED BY <1>a, <2>1, <2>2, <2>3, <2>5 DEF Mutex
<1>7. Mails'
  <2> SUFFICES ASSUME NEW g \in open'
               PROVE  mail'[SemTable'[g].priv] + Cardinality(Sending(g))' <= Tokens(g)'
    BY DEF Mails
  <2>1. g \in open /\ g \in Sem
    BY <1>0, <1>a DEF TypeOK
  <2>2. /\ Sending(g)' = Sending(g) /\ Taking(g)' = Taking(g) /\ Waiting(g)' = Waiting(g)
    BY <1>5 DEF Sending, Taking, Waiting
  <2>3. mail[SemTable[g].priv] + Cardinality(Sending(g)) <= Tokens(g)
    BY <1>0, <2>1 DEF Mails
  <2>4. SemTable[g].priv \in 1 .. boxes
    BY <1>0, <2>1 DEF TableOK, EntryOK
  <2> QED BY <1>a, <2>2, <2>3, <2>4 DEF Tokens
<1>8. Counted'
  <2>1. Creators = {} /\ Creators' = {p}
    BY <1>a, <1>d DEF Creators
  <2>2. Used' = Used
    BY <1>a DEF Used
  <2>3. Cardinality(Creators) = 0 /\ Cardinality(Creators') = 1
    BY <2>1, FS_EmptySet, FS_Singleton
  <2>4. Cardinality(Used) \in Nat
    BY TableSize, FS_CardinalityType
  <2> QED BY <1>0, <1>a, <2>2, <2>3, <2>4 DEF Counted
<1>9. Alone' /\ Places' /\ Mutexes'
  BY <1>2, <1>3, <1>4, <1>6 DEF Alone, Places, Mutexes
<1>10. Queues'
  BY <1>0, <1>a DEF Queues
<1>11. Closing'
  BY <1>a DEF Closing, AllSettled
<1> QED BY <1>1, <1>7, <1>8, <1>9, <1>10, <1>11 DEF OInv

-----------------------------------------------------------------------------
(***************************************************************************)
(* semCreateReal.                                                          *)
(***************************************************************************)
LEMMA OInvFind ==
  ASSUME TInv, OInv, NEW p \in Proc, C_find(p)
  PROVE  OInv'
<1>0. TypeOK /\ Alone /\ TableOK /\ Places /\ Mutexes /\ Mails /\ Counted
      /\ Queues /\ Closing
  BY DEF TInv, OInv
<1>a. /\ pc[p] = "C_find" /\ pc'[p] = "C_fill" /\ at'[p] = Unset
      /\ handle'[p] \in FreeEntries
      /\ \A q \in Proc : q # p => pc'[q] = pc[q] /\ at'[q] = at[q] /\ handle'[q] = handle[q]
      /\ UNCHANGED <<SemTable, numSems, slots, mail, line, boxes, mine, open>>
  BY <1>0, C_findIs DEF semVars, boxVars, userVars
<1>b. Creator(p)
  BY <1>0, <1>a DEF Alone
<1>1. TableOK'
  BY <1>0, <1>a DEF TableOK, EntryOK, Apart, Live
<1>2. ASSUME NEW c \in Proc, pc'[c] \in Creating PROVE Creator(c)'
  <2>1. c = p
    BY <1>2, <1>a, <1>b DEF Creator
  <2>2. SemTable[handle'[p]].id = -1
    BY <1>a DEF FreeEntries
  <2> QED BY <1>a, <1>b, <2>1, <2>2 DEF Creator, Foreign, Live
<1>3. ASSUME NEW q \in Proc, Calling(q)' PROVE Stands(q)' /\ Settles(q)'
  <2>1. q # p /\ Calling(q)
    BY <1>3, <1>a DEF Calling
  <2>2. Stands(q) /\ Settles(q)
    BY <1>0, <2>1 DEF Places
  <2> QED BY <1>a, <2>1, <2>2 DEF Settles, Stands, Live, Foreign
<1>4. ASSUME NEW q \in Proc, NEW r \in Proc, pc'[q] \in Freeing, pc'[r] \in Freeing,
             handle'[q] = handle'[r]
      PROVE  q = r
  <2>1. q # p /\ r # p
    BY <1>4, <1>a DEF Freeing
  <2> QED BY <1>0, <1>4, <1>a, <2>1 DEF Places
<1>5. \A g : /\ {q \in Proc : pc'[q] \in Inside /\ handle'[q] = g} = InsideOf(g)
             /\ {q \in Proc : pc'[q] \in {"V_out", "V_send"} /\ handle'[q] = g} = Sending(g)
             /\ {q \in Proc : pc'[q] = "P_take" /\ handle'[q] = g} = Taking(g)
             /\ {q \in Proc : pc'[q] \in {"P_out", "P_wait"} /\ handle'[q] = g} = Waiting(g)
  <2>1. /\ pc[p] \notin Inside \union {"P_wait", "V_send"}
        /\ pc'[p] \notin Inside \union {"P_wait", "V_send"}
    BY <1>a DEF Inside
  <2> QED BY <1>a, <2>1, SameSets
<1>6. ASSUME NEW g \in Sem, Live(g)' PROVE Mutex(g, SemTable[g].mutex)'
  <2>1. Live(g) /\ Mutex(g, SemTable[g].mutex)
    BY <1>0, <1>6, <1>a DEF Mutexes, Live
  <2>2. InsideOf(g)' = InsideOf(g)
    BY <1>5 DEF InsideOf
  <2>3. \A q \in InsideOf(g) : q \in Proc /\ q # p
    BY <1>a DEF InsideOf, Inside
  <2>4. \A q \in InsideOf(g) : at'[q] = at[q] /\ pc'[q] = pc[q]
    BY <1>a, <2>3
  <2> QED BY <1>a, <2>1, <2>2, <2>4 DEF Mutex
<1>7. Mails'
  <2> SUFFICES ASSUME NEW g \in open'
               PROVE  mail'[SemTable'[g].priv] + Cardinality(Sending(g))' <= Tokens(g)'
    BY DEF Mails
  <2>1. /\ Sending(g)' = Sending(g) /\ Taking(g)' = Taking(g) /\ Waiting(g)' = Waiting(g)
    BY <1>5 DEF Sending, Taking, Waiting
  <2>2. mail[SemTable[g].priv] + Cardinality(Sending(g)) <= Tokens(g)
    BY <1>0, <1>a DEF Mails
  <2> QED BY <1>a, <2>1, <2>2 DEF Tokens
<1>8. Counted'
  <2>1. Creators' = Creators
    BY <1>a DEF Creators
  <2>2. Used' = Used
    BY <1>a DEF Used
  <2> QED BY <1>0, <1>a, <2>1, <2>2 DEF Counted
<1>9. Alone' /\ Places' /\ Mutexes'
  BY <1>2, <1>3, <1>4, <1>6 DEF Alone, Places, Mutexes
<1>10. Queues'
  BY <1>0, <1>a DEF Queues
<1>11. Closing'
  BY <1>a, <1>b DEF Closing, Creator
<1> QED BY <1>1, <1>7, <1>8, <1>9, <1>10, <1>11 DEF OInv

\* The new entry brings two mailboxes that nobody has named so far, the mutex
\* unlocked; nobody is in a call on it yet.
LEMMA OInvFill ==
  ASSUME TInv, OInv, NEW p \in Proc, C_fill(p)
  PROVE  /\ OInv'
         /\ LET h == handle[p] IN
            /\ h \in Sem \ open /\ slots[mine[p] - 1] \in Values /\ open' = open \union {h}
            /\ SemTable'[h].value = slots[mine[p] - 1] /\ SemTable'[h].blockedProcs = <<>>
            /\ Taking(h)' = {} /\ Waiting(h)' = {}
            /\ \A g \in Sem : g # h => /\ SemTable'[g] = SemTable[g]
                                       /\ Taking(g)' = Taking(g) /\ Waiting(g)' = Waiting(g)
<1>0. TypeOK /\ Fresh /\ Alone /\ TableOK /\ Places /\ Mutexes /\ Mails /\ Counted
      /\ Queues /\ Closing
  BY DEF TInv, OInv
<1>h. PICK h \in Sem : h = handle[p]
  BY <1>0 DEF TypeOK
<1>m. PICK m \in 2 .. boxes : m = mine[p]
  BY C_fillIs
<1>v. PICK priv \in 1 .. boxes : priv = m - 1
  BY <1>0, <1>m DEF TypeOK
<1>a. /\ pc[p] = "C_fill" /\ pc'[p] = "user" /\ at'[p] = Unset
      /\ SemTable'[h].id = h /\ SemTable'[h].value = slots[priv]
      /\ SemTable'[h].blockedProcs = <<>>
      /\ SemTable'[h].priv = priv /\ SemTable'[h].mutex = m
      /\ \A g \in Sem : g # h => SemTable'[g] = SemTable[g]
      /\ mail'[priv] = slots[priv] /\ mail'[m] = 0
      /\ \A b \in Box : b # priv /\ b # m => mail'[b] = mail[b]
      /\ \A q \in Proc : q # p => pc'[q] = pc[q] /\ at'[q] = at[q]
      /\ open' = open \union {h}
      /\ UNCHANGED <<numSems, slots, line, boxes, handle, mine>>
  BY <1>h, <1>m, <1>v, C_fillIs
<1>b. /\ \A q \in Proc \ {p} : pc[q] \notin Creating /\ (pc[q] \notin Idle => handle[q] \in open)
      /\ slots[m] = 1 /\ slots[priv] \in Values /\ line[m] = <<>>
      /\ Foreign(m) /\ Foreign(priv) /\ ~Live(h)
  BY <1>0, <1>h, <1>m, <1>v, <1>a DEF Alone, Creator
<1>c. h \notin open /\ boxes \in Nat /\ 1 .. boxes \subseteq Box /\ priv # m
  BY <1>0, <1>b, <1>v DEF TableOK, TypeOK
<1>d. \A q \in Proc : pc'[q] \notin Idle => q # p /\ handle[q] # h
  BY <1>a, <1>b, <1>c
<1>1. TableOK'
  <2>1. \A g \in Sem : EntryOK(g)'
    BY <1>0, <1>a, <1>c, SMTT(30) DEF TableOK, EntryOK, Live
  <2>2. ASSUME NEW f \in Sem, NEW g \in Sem, Live(f)', f # g PROVE Apart(f, g)'
    <3>1. \A x \in Sem : x # h => /\ SemTable[x].priv # m /\ SemTable[x].priv # priv
                                  /\ SemTable[x].mutex # m /\ SemTable[x].mutex # priv
      BY <1>b DEF Foreign
    <3>2. CASE f # h /\ g # h
      BY <1>0, <1>a, <2>2, <3>2 DEF TableOK, Apart, Live
    <3>3. CASE f = h
      BY <1>a, <2>2, <3>1, <3>3 DEF Apart
    <3>4. CASE g = h
      BY <1>a, <2>2, <3>1, <3>4 DEF Apart
    <3> QED BY <3>2, <3>3, <3>4
  <2>3. \A g \in open' : Live(g)'
    <3> SUFFICES ASSUME NEW g \in open' PROVE SemTable'[g].id # -1
      BY DEF Live
    <3>1. CASE g = h
      BY <1>a, <3>1
    <3>2. CASE g # h
      BY <1>0, <1>a, <3>2 DEF TableOK, Live, TypeOK
    <3> QED BY <3>1, <3>2
  <2> QED BY <2>1, <2>2, <2>3 DEF TableOK
<1>2. \A c \in Proc : pc'[c] \notin Creating
  BY <1>a, <1>b
<1>3. ASSUME NEW q \in Proc, Calling(q)' PROVE Stands(q)' /\ Settles(q)'
  <2>1. q # p /\ Calling(q) /\ handle[q] # h /\ handle[q] \in open /\ handle[q] \in Sem
    BY <1>0, <1>3, <1>a, <1>b, <1>d DEF Calling, TypeOK
  <2>2. Stands(q) /\ Settles(q) /\ Live(handle[q])
    BY <1>0, <2>1 DEF Places, TableOK
  <2> QED BY <1>a, <2>1, <2>2 DEF Settles, Stands, Live
<1>4. ASSUME NEW q \in Proc, NEW r \in Proc, pc'[q] \in Freeing, pc'[r] \in Freeing,
             handle'[q] = handle'[r]
      PROVE  q = r
  <2>1. q # p /\ r # p
    BY <1>4, <1>a DEF Freeing
  <2> QED BY <1>0, <1>4, <1>a, <2>1 DEF Places
<1>5. \A g : /\ {q \in Proc : pc'[q] \in Inside /\ handle'[q] = g} = InsideOf(g)
             /\ {q \in Proc : pc'[q] \in {"V_out", "V_send"} /\ handle'[q] = g} = Sending(g)
             /\ {q \in Proc : pc'[q] = "P_take" /\ handle'[q] = g} = Taking(g)
             /\ {q \in Proc : pc'[q] \in {"P_out", "P_wait"} /\ handle'[q] = g} = Waiting(g)
  <2>1. /\ pc[p] \notin Inside \union {"P_wait", "V_send"}
        /\ pc'[p] \notin Inside \union {"P_wait", "V_send"}
    BY <1>a DEF Inside
  <2> QED BY <1>a, <2>1, SameSets
<1>e. InsideOf(h)' = {} /\ Sending(h)' = {} /\ Taking(h)' = {} /\ Waiting(h)' = {}
  BY <1>a, <1>d DEF InsideOf, Sending, Taking, Waiting, Inside
<1>6. ASSUME NEW g \in Sem, Live(g)' PROVE Mutex(g, SemTable[g].mutex)'
  <2>1. CASE g = h
    BY <1>a, <1>b, <1>e, <2>1 DEF Mutex
  <2>2. CASE g # h
    <3>1. Live(g) /\ Mutex(g, SemTable[g].mutex) /\ SemTable'[g] = SemTable[g]
      BY <1>0, <1>6, <1>a, <2>2 DEF Mutexes, Live
    <3>2. InsideOf(g)' = InsideOf(g)
      BY <1>5 DEF InsideOf
    <3>3. \A q \in InsideOf(g) : q \in Proc /\ q # p
      BY <1>a DEF InsideOf, Inside
    <3>4. \A q \in InsideOf(g) : at'[q] = at[q] /\ pc'[q] = pc[q]
      BY <1>a, <3>3
    <3>5. /\ SemTable[g].mutex \in Box /\ SemTable[g].mutex # m /\ SemTable[g].mutex # priv
      BY <1>0, <1>b, <1>c, <3>1 DEF TableOK, EntryOK, Foreign
    <3>6. mail'[SemTable[g].mutex] = mail[SemTable[g].mutex]
      BY <1>a, <3>5
    <3> QED BY <1>a, <3>1, <3>2, <3>4, <3>6 DEF Mutex
  <2> QED BY <2>1, <2>2
<1>7. Mails'
  <2> SUFFICES ASSUME NEW g \in open'
               PROVE  mail'[SemTable'[g].priv] + Cardinality(Sending(g))' <= Tokens(g)'
    BY DEF Mails
  <2>1. CASE g = h
    <3>1. Cardinality({}) = 0
      BY FS_EmptySet
    <3>2. slots[priv] \in Int
      BY <1>0, <1>c DEF TypeOK
    <3>3. Sending(g)' = {} /\ Taking(g)' = {} /\ Waiting(g)' = {}
      BY <1>e, <2>1 DEF Sending, Taking, Waiting
    <3>4. Len(SemTable'[g].blockedProcs) = 0
      BY <1>a, <2>1
    <3>5. Tokens(g)' = slots[priv]
      BY <1>a, <2>1, <3>1, <3>2, <3>3, <3>4 DEF Tokens
    <3> QED BY <1>a, <2>1, <3>1, <3>2, <3>3, <3>5
  <2>2. CASE g # h
    <3>0. g \in open /\ g \in Sem /\ Live(g)
      BY <1>0, <1>a, <2>2 DEF TypeOK, TableOK
    <3>1. /\ Sending(g)' = Sending(g) /\ Taking(g)' = Taking(g) /\ Waiting(g)' = Waiting(g)
      BY <1>5 DEF Sending, Taking, Waiting
    <3>2. mail[SemTable[g].priv] + Cardinality(Sending(g)) <= Tokens(g)
      BY <1>0, <3>0 DEF Mails
    <3>3. SemTable[g].priv \in Box /\ SemTable[g].priv # m /\ SemTable[g].priv # priv
      BY <1>0, <1>b, <1>c, <3>0 DEF TableOK, EntryOK, Foreign
    <3>4. mail'[SemTable[g].priv] = mail[SemTable[g].priv]
      BY <1>a, <3>3
    <3> QED BY <1>a, <2>2, <3>0, <3>1, <3>2, <3>4 DEF Tokens
  <2> QED BY <2>1, <2>2
<1>8. Counted'
  <2>1. Creators' = {} /\ Creators = {p}
    BY <1>a, <1>b, <1>2 DEF Creators
  <2>2. Used' = Used \union {h} /\ h \notin Used
    BY <1>a, <1>b DEF Used, Live
  <2>3. Cardinality(Creators') = 0 /\ Cardinality(Creators) = 1
    BY <2>1, FS_EmptySet, FS_Singleton
  <2>4. Cardinality(Used) \in Nat /\ Cardinality(Used') = Cardinality(Used) + 1
    BY <2>2, TableSize, FS_CardinalityType, FS_AddElement
  <2> QED BY <1>0, <1>a, <2>3, <2>4 DEF Counted
<1>9. Alone' /\ Places' /\ Mutexes'
  BY <1>2, <1>3, <1>4, <1>6 DEF Alone, Places, Mutexes
<1>10. \A g \in Sem : Taking(g)' = Taking(g) /\ Waiting(g)' = Waiting(g)
  BY <1>5 DEF Taking, Waiting
<1>11. Queues'
  <2> SUFFICES ASSUME NEW g \in open'
               PROVE  /\ 0 <= SemTable'[g].value
                      /\ SemTable'[g].blockedProcs # <<>> => SemTable'[g].value = 0
    BY DEF Queues
  <2>1. CASE g = h
    <3>1. slots[priv] \in Nat
      BY <1>0, <1>c DEF TypeOK
    <3> QED BY <1>a, <2>1, <3>1
  <2>2. CASE g # h
    BY <1>0, <1>a, <2>2 DEF Queues, TypeOK
  <2> QED BY <2>1, <2>2
<1>12. Closing'
  BY <1>a, <1>b DEF Closing
<1>13. OInv'
  BY <1>1, <1>7, <1>8, <1>9, <1>11, <1>12 DEF OInv
<1> QED BY <1>a, <1>b, <1>c, <1>e, <1>h, <1>m, <1>v, <1>10, <1>13

-----------------------------------------------------------------------------
(***************************************************************************)
(* The steps of semPReal, semVReal and semFreeReal.  They are of five      *)
(* kinds: p takes the mutex of its semaphore or gives it back, takes a     *)
(* message from the private mailbox or puts one there, and frees.          *)
(***************************************************************************)
Takes(p) ==
  /\ P_lock(p) \/ V_lock(p) \/ P_in(p) \/ V_in(p)
  /\ pc[p] \in {"P_lock", "V_lock", "P_in", "V_in"}
  /\ pc'[p] \in {"P_out", "P_take", "P_unlock", "V_out", "V_unlock"}

Gives(p) ==
  /\ P_out(p) \/ V_out(p) \/ P_unlock(p) \/ V_unlock(p)
  /\ pc[p] \in {"P_out", "V_out", "P_unlock", "V_unlock"}
  /\ pc'[p] \in {"P_wait", "V_send", "user"}

Passes(p) ==
  \/ P_wait(p) /\ pc[p] = "P_wait" /\ pc'[p] \in {"P_in", "dead"}
  \/ P_take(p) /\ pc[p] = "P_take" /\ pc'[p] = "P_unlock"

Wakes(p) == V_send(p) /\ pc[p] = "V_send" /\ pc'[p] = "V_in"

Frees(p) ==
  \/ F_lock(p) /\ pc[p] = "F_lock" /\ pc'[p] \in {"F_send", "F_unlock"}
  \/ F_send(p) /\ pc[p] = "F_send" /\ pc'[p] \in {"F_send", "F_unlock"}
  \/ F_unlock(p) /\ pc[p] = "F_unlock" /\ pc'[p] = "user"

LEMMA ActsKinds ==
  ASSUME TypeOK, NEW p \in Proc, ActsInCall(p)
  PROVE  Evaluate(p) \/ Takes(p) \/ Gives(p) \/ Passes(p) \/ Wakes(p) \/ Frees(p)
<1>0. \A x : Goto(p, x) => pc'[p] = x
  BY DEF TypeOK, Goto
<1>1. CASE P_lock(p)
  BY <1>1, P_lockActs DEF Takes
<1>2. CASE V_lock(p)
  BY <1>2, V_lockActs DEF Takes
<1>3. CASE P_in(p) \/ V_in(p)
  BY <1>0, <1>3 DEF Takes, P_in, V_in
<1>4. CASE P_out(p) \/ V_out(p) \/ P_unlock(p) \/ V_unlock(p)
  BY <1>0, <1>4 DEF Gives, P_out, V_out, P_unlock, V_unlock
<1>5. CASE P_take(p)
  BY <1>0, <1>5 DEF Passes, P_take
<1>6. CASE P_wait(p)
  <2>1. pc'[p] = IF SemTable[handle[p]].id < 0 THEN "dead" ELSE "P_in"
    BY <1>0, <1>6 DEF P_wait
  <2> QED BY <1>6, <2>1 DEF Passes, P_wait
<1>7. CASE V_send(p)
  BY <1>0, <1>7 DEF Wakes, V_send
<1>8. CASE F_lock(p)
  BY <1>8, F_lockActs DEF Frees
<1>9. CASE F_send(p)
  BY <1>9, F_sendActs DEF Frees
<1>10. CASE F_unlock(p)
  BY <1>0, <1>10 DEF Frees, F_unlock
<1> QED BY <1>1, <1>2, <1>3, <1>4, <1>5, <1>6, <1>7, <1>8, <1>9, <1>10
        DEF ActsInCall, semPReal, semVReal, semFreeReal

\* Where they leave the process.
LEMMA MovedTo ==
  ASSUME TypeOK, NEW p \in Proc, ActsInCall(p), ~Evaluate(p)
  PROVE  /\ at[p] # Unset /\ mine'[p] = mine[p]
         /\ pc'[p] # "F_send" => at'[p] = Unset
         /\ Sent(p) \/ Received(p)
<1>0. \A x : Goto(p, x) => pc'[p] = x /\ at'[p] = Unset
  BY DEF TypeOK, Goto
<1>1. /\ mine'[p] = mine[p] /\ (Sent(p) \/ Received(p))
      /\ pc'[p] # "F_send" => at'[p] = Unset
  <2>1. CASE P_lock(p)
    BY <2>1, P_lockActs
  <2>2. CASE V_lock(p)
    BY <2>2, V_lockActs
  <2>3. CASE F_lock(p)
    BY <2>3, F_lockActs
  <2>4. CASE F_send(p)
    BY <2>4, F_sendActs
  <2>5. CASE \/ P_out(p) \/ P_wait(p) \/ P_in(p) \/ P_take(p) \/ P_unlock(p)
             \/ V_out(p) \/ V_send(p) \/ V_in(p) \/ V_unlock(p) \/ F_unlock(p)
    BY <1>0, <2>5, MovesAre DEF Moves, CallReturns
  <2> QED BY <2>1, <2>2, <2>3, <2>4, <2>5
          DEF ActsInCall, semPReal, semVReal, semFreeReal
<1>2. at[p] # Unset
  BY <1>1, SentAt
<1> QED BY <1>1, <1>2

LEMMA AloneActs ==
  ASSUME TInv, OInv, TInv', NEW p \in Proc, ActsInCall(p)
  PROVE  Alone'
<1>0. TypeOK /\ Fresh /\ Fresh' /\ Alone /\ TableOK /\ Places /\ Acts(p)
  BY InCallActs DEF TInv, OInv
<1> SUFFICES ASSUME NEW c \in Proc, pc'[c] \in Creating PROVE Creator(c)'
  BY DEF Alone
<1>1. /\ c # p /\ pc[c] \in Creating /\ Creator(c) /\ Private(c) /\ Private(c)'
      /\ mine'[c] = mine[c]
  BY <1>0 DEF Acts, Alone, Fresh
<1>2. handle[p] \in open /\ Calling(p)
  BY <1>0, <1>1 DEF Creator, Acts, Calling
<1>3. ~F_lock(p)
  BY <1>0, <1>2 DEF F_lock, Places, Settles, Freeing
<1>4. \A g \in Sem : Keeps(g)
  BY <1>0, <1>3, ActsKeep
<1>5. line'[mine[c]] = line[mine[c]]
  <2>1. mine[c] # at[p] /\ mine[c] # at'[p]
    BY <1>1 DEF Private
  <2>2. mine[c] \in 2 .. boxes
    BY <1>1 DEF Private
  <2>3. boxes \in 0 .. MaxBox
    BY <1>0 DEF TypeOK
  <2>4. mine[c] \in Box
    BY <2>2, <2>3
  <2> QED BY <1>0, <2>1, <2>4 DEF Acts
<1>6. \A q \in Proc \ {c} : pc'[q] \notin Creating /\ (pc'[q] \notin Idle => handle'[q] \in open')
  BY <1>0, <1>1, <1>2 DEF Creator, Acts
<1>7. FreeEntries' = FreeEntries
  BY <1>4 DEF FreeEntries, Keeps
<1>8. handle'[c] = handle[c] /\ handle[c] \in Sem /\ slots' = slots /\ boxes' = boxes /\ pc'[c] = pc[c]
  BY <1>0, <1>1 DEF Acts, TypeOK
<1> QED BY <1>1, <1>4, <1>5, <1>6, <1>7, <1>8 DEF Creator, Foreign, Keeps, Live

LEMMA CountedActs ==
  ASSUME TInv, OInv, NEW p \in Proc, ActsInCall(p)
  PROVE  Counted'
<1>0. TypeOK /\ Counted /\ Acts(p)
  BY InCallActs DEF TInv, OInv
<1>1. Creators' = Creators
  BY <1>0 DEF Acts, Creators
<1>2. CASE ~F_lock(p)
  <2>1. \A g \in Sem : Keeps(g)
    BY <1>0, <1>2, ActsKeep
  <2>2. Used' = Used
    BY <2>1 DEF Used, Keeps
  <2>3. numSems' = numSems
    <3>1. CASE Evaluate(p)
      BY <3>1 DEF Evaluate, semVars
    <3>2. CASE P_lock(p)
      BY <1>0, <3>2, P_lockActs
    <3>3. CASE V_lock(p)
      BY <1>0, <3>3, V_lockActs
    <3>4. CASE F_send(p)
      BY <1>0, <3>4, F_sendActs
    <3>5. CASE \/ P_out(p) \/ P_wait(p) \/ P_in(p) \/ P_take(p) \/ P_unlock(p)
               \/ V_out(p) \/ V_send(p) \/ V_in(p) \/ V_unlock(p) \/ F_unlock(p)
      BY <3>5, MovesAre DEF Moves, semVars
    <3> QED BY <1>2, <3>1, <3>2, <3>3, <3>4, <3>5
            DEF ActsInCall, semPReal, semVReal, semFreeReal
  <2> QED BY <1>0, <1>1, <2>2, <2>3 DEF Counted
<1>3. CASE F_lock(p)
  <2>0. PICK f \in Sem : f = handle[p]
    BY <1>0 DEF TypeOK
  <2>1. /\ Live(f) /\ SemTable'[f].id = -1 /\ \A g \in Sem : g # f => Keeps(g)
        /\ numSems' = numSems - 1
    BY <1>0, <1>3, <2>0, F_lockKeeps, F_lockActs
  <2>2. Used' = Used \ {f} /\ f \in Used
    BY <2>1 DEF Used, Keeps, Live
  <2>3. Cardinality(Used') = Cardinality(Used) - 1 /\ Cardinality(Used) \in Nat
    BY <2>2, TableSize, FS_RemoveElement, FS_CardinalityType
  <2>4. Cardinality(Creators) \in Nat
    BY TableSize, FS_CardinalityType
  <2> QED BY <1>0, <1>1, <2>1, <2>3, <2>4 DEF Counted
<1> QED BY <1>2, <1>3

\* Who may give the mutex back, take a message or send one is on a semaphore
\* in use, and but for a P that waits nobody is freeing it.
LEMMA InUse ==
  ASSUME TypeOK, OInv, NEW p \in Proc, ActsInCall(p)
  PROVE  LET h == handle[p] IN
         /\ Takes(p) \/ Gives(p) =>
              Live(h) /\ h \in open /\ at[p] = SemTable[h].mutex /\ at[p] # SemTable[h].priv
         /\ (Passes(p) /\ pc'[p] # "dead") \/ Wakes(p) =>
              Live(h) /\ h \in open /\ at[p] = SemTable[h].priv /\ at[p] # SemTable[h].mutex
         /\ Passes(p) /\ pc'[p] = "dead" => ~Live(h) /\ h \notin open /\ Foreign(at[p])
         /\ Frees(p) => h \notin open
<1> DEFINE h == handle[p]
<1>1. Acts(p) /\ Calling(p) /\ h \in Sem
  BY InCallActs DEF Acts, Calling, TypeOK
<1>2. Stands(p) /\ Settles(p) /\ EntryOK(h) /\ Closing /\ (h \in open => Live(h))
  BY <1>1 DEF OInv, Places, TableOK
<1>3. CASE Takes(p) \/ Gives(p)
  <2>1. pc[p] \in MutexCalls \ PrivCalls /\ pc[p] \notin Freeing \union {"P_wait", "F_send", "F_unlock"}
    BY <1>3 DEF Takes, Gives, MutexCalls, PrivCalls, Freeing
  <2>3. at[p] # Unset
    BY <1>3, SentAt DEF Takes, Gives, P_lock, V_lock, P_in, V_in, P_out, V_out, P_unlock, V_unlock
  <2>4. Live(h) /\ h \in open
    BY <1>2, <2>1 DEF Stands, Settles
  <2>5. at[p] = SemTable[h].mutex /\ at[p] # SemTable[h].priv
    BY <1>1, <2>1, <2>3, <2>4, AtIs
  <2>6. ~Passes(p) /\ ~Wakes(p) /\ ~Frees(p)
    BY <1>3 DEF Takes, Gives, Passes, Wakes, Frees
  <2> QED BY <2>4, <2>5, <2>6
<1>4. CASE Passes(p) \/ Wakes(p)
  <2>1. pc[p] \in PrivCalls \ MutexCalls /\ pc[p] \notin Freeing
    BY <1>4 DEF Passes, Wakes, MutexCalls, PrivCalls, Freeing
  <2>2. at[p] # Unset
    BY <1>4, SentAt DEF Passes, Wakes, P_wait, P_take, V_send
  <2>3. ~Takes(p) /\ ~Gives(p) /\ ~Frees(p)
    BY <1>4 DEF Takes, Gives, Passes, Wakes, Frees
  <2>4. CASE Live(h)
    <3>1. at[p] = SemTable[h].priv /\ at[p] # SemTable[h].mutex /\ at[p] \in 1 .. boxes
      BY <1>1, <2>1, <2>2, <2>4, AtIs
    <3>2. h \in open
      <4>1. SUFFICES ASSUME h \notin open PROVE FALSE
        OBVIOUS
      <4>2. pc[p] = "P_wait" /\ P_wait(p)
        BY <1>2, <1>4, <2>1, <4>1 DEF Settles, Passes, Wakes
      <4>3. Received(p) /\ at[p] \in Box
        BY <3>1, <4>2 DEF P_wait, TypeOK
      <4>4. mail[at[p]] >= 1
        BY <4>3, ReceivedType
      <4>5. mail[at[p]] = 0
        BY <1>2, <2>4, <3>1, <4>1, <4>2 DEF Closing
      <4> QED BY <4>4, <4>5
    <3>3. Passes(p) => pc'[p] # "dead"
      <4>1. P_wait(p) => pc'[p] = "P_in"
        <5>1. SemTable[h].id = h
          BY <1>2, <2>4 DEF EntryOK
        <5>2. ~(SemTable[h].id < 0)
          BY <1>1, <5>1
        <5>3. \A x : Goto(p, x) => pc'[p] = x
          BY DEF TypeOK, Goto
        <5> QED BY <5>2, <5>3 DEF P_wait
      <4> QED BY <4>1 DEF Passes
    <3> QED BY <2>3, <2>4, <3>1, <3>2, <3>3
  <2>5. CASE ~Live(h)
    <3>1. pc[p] = "P_wait" /\ Foreign(at[p])
      BY <1>2, <2>1, <2>5 DEF Stands, Freeing
    <3>2. P_wait(p) /\ Passes(p) /\ ~Wakes(p)
      BY <1>4, <3>1 DEF Passes, Wakes
    <3>3. pc'[p] = "dead"
      <4>1. SemTable[h].id < 0
        BY <2>5 DEF Live
      <4>2. \A x : Goto(p, x) => pc'[p] = x
        BY DEF TypeOK, Goto
      <4> QED BY <3>2, <4>1, <4>2 DEF P_wait
    <3> QED BY <1>2, <2>3, <2>5, <3>1, <3>2, <3>3
  <2> QED BY <2>4, <2>5
<1>5. CASE Frees(p)
  <2>1. pc[p] \in Freeing
    BY <1>5 DEF Frees, Freeing
  <2>2. h \notin open
    BY <1>2, <2>1 DEF Settles
  <2>3. ~Takes(p) /\ ~Gives(p) /\ ~Passes(p) /\ ~Wakes(p)
    BY <1>5 DEF Takes, Gives, Passes, Wakes, Frees
  <2> QED BY <2>2, <2>3
<1> QED BY <1>3, <1>4, <1>5

-----------------------------------------------------------------------------
(***************************************************************************)
(* The places of the processes.                                            *)
(***************************************************************************)
\* p calls the mailbox of its place.
LEMMA EvaluateIs ==
  ASSUME TypeOK, NEW p \in Proc, Evaluate(p)
  PROVE  /\ at[p] = Unset /\ pc[p] \in MutexCalls \union PrivCalls \union {"F_unlock"}
         /\ at'[p] = IF pc[p] = "F_unlock" THEN mine[p]
                     ELSE IF pc[p] \in PrivCalls THEN SemTable[handle[p]].priv
                     ELSE SemTable[handle[p]].mutex
         /\ line' = IF pc[p] \in Receives /\ at'[p] \in Box
                    THEN [line EXCEPT ![at'[p]] = Append(@, p)] ELSE line
         /\ mine'[p] = IF pc[p] = "F_lock" THEN at'[p] ELSE mine[p]
         /\ UNCHANGED <<semVars, slots, mail, boxes, pc, handle, open>>
<1> DEFINE b == IF pc[p] = "F_unlock" THEN mine[p]
                ELSE IF pc[p] \in PrivCalls THEN SemTable[handle[p]].priv
                ELSE SemTable[handle[p]].mutex
<1>1. /\ at[p] = Unset /\ pc[p] \in MutexCalls \union PrivCalls \union {"F_unlock"}
      /\ at' = [at EXCEPT ![p] = b]
      /\ line' = IF pc[p] \in Receives /\ b \in Box THEN [line EXCEPT ![b] = Append(@, p)] ELSE line
      /\ mine' = IF pc[p] = "F_lock" THEN [mine EXCEPT ![p] = b] ELSE mine
      /\ UNCHANGED <<semVars, slots, mail, boxes, pc, handle, open>>
  BY DEF Evaluate
<1> HIDE DEF b
<1>2. at'[p] = b /\ (pc[p] = "F_lock" => mine'[p] = b)
  BY <1>1 DEF TypeOK
<1> QED BY <1>1, <1>2 DEF b

LEMMA StandsActs ==
  ASSUME TInv, OInv, NEW p \in Proc, ActsInCall(p), Calling(p)'
  PROVE  Stands(p)' /\ Settles(p)'
<1>0. TypeOK /\ Acts(p) /\ Calling(p) /\ Places /\ TableOK
  BY InCallActs DEF TInv, OInv, Acts, Calling
<1>h. PICK h \in Sem : h = handle[p]
  BY <1>0 DEF TypeOK
<1>1. Stands(p) /\ Settles(p) /\ EntryOK(h) /\ (h \in open => Live(h))
  BY <1>0, <1>h DEF Places, TableOK
<1>2. handle' = handle /\ open' = open /\ boxes' = boxes
  BY <1>0 DEF Acts
<1>3. CASE Evaluate(p)
  <2>1. /\ at[p] = Unset /\ pc[p] \in MutexCalls \union PrivCalls \union {"F_unlock"}
        /\ at'[p] = IF pc[p] = "F_unlock" THEN mine[p]
                    ELSE IF pc[p] \in PrivCalls THEN SemTable[h].priv
                    ELSE SemTable[h].mutex
        /\ mine'[p] = IF pc[p] = "F_lock" THEN at'[p] ELSE mine[p]
        /\ pc' = pc /\ SemTable' = SemTable
    BY <1>0, <1>3, <1>h, EvaluateIs DEF semVars
  <2>2. CASE Live(h)
    BY <1>h, <1>1, <1>2, <2>1, <2>2 DEF Stands, Settles, Live, MutexCalls, PrivCalls, Freeing
  <2>3. CASE ~Live(h)
    <3>1. pc[p] = "F_unlock" /\ Foreign(mine[p])
      BY <1>h, <1>1, <2>1, <2>3 DEF Stands, Foreign, MutexCalls, PrivCalls
    <3> QED BY <1>h, <1>1, <1>2, <2>1, <2>3, <3>1 DEF Stands, Settles, Live, Foreign, Freeing
  <2> QED BY <2>2, <2>3
<1>4. CASE ~Evaluate(p)
  <2>0. /\ at[p] # Unset /\ mine'[p] = mine[p]
        /\ pc'[p] # "F_send" => at'[p] = Unset
    BY <1>0, <1>4, MovedTo
  <2>1. CASE Takes(p) \/ Gives(p) \/ (Passes(p) /\ pc'[p] # "dead") \/ Wakes(p)
    <3>1. Live(h) /\ h \in open
      BY <1>0, <1>h, <2>1, InUse
    <3>2. pc'[p] \in MutexCalls \union PrivCalls /\ pc'[p] \notin Freeing
      BY <1>0, <2>1 DEF Acts, Takes, Gives, Passes, Wakes, MutexCalls, PrivCalls, Freeing, Calling
    <3>3. ~F_lock(p)
      BY <2>1 DEF Takes, Gives, Passes, Wakes, F_lock
    <3>4. Keeps(h)
      BY <1>0, <3>3, ActsKeep
    <3> QED BY <1>h, <1>2, <2>0, <3>1, <3>2, <3>4 DEF Stands, Settles, Live, Keeps, Freeing
  <2>2. CASE Passes(p) /\ pc'[p] = "dead"
    BY <2>2 DEF Calling
  <2>3. CASE F_lock(p)
    <3>1. /\ Live(h) /\ SemTable'[h].id = -1 /\ h \notin open
          /\ SemTable'[h].priv = NoBox /\ SemTable'[h].mutex = NoBox
          /\ at[p] = SemTable[h].mutex /\ mine[p] = at[p]
          /\ \A g \in Sem : g # h => Keeps(g)
      BY <1>0, <1>h, <2>3, F_lockKeeps
    <3>2. \/ pc'[p] = "F_send" /\ at'[p] = SemTable[h].priv
          \/ pc'[p] = "F_unlock" /\ at'[p] = Unset
      BY <1>0, <1>h, <2>3, F_lockActs
    <3>3. PICK b \in 1 .. boxes : b = SemTable[h].mutex
      BY <1>1, <3>1 DEF EntryOK
    <3>4. PICK c \in 1 .. boxes : c = SemTable[h].priv
      BY <1>1, <3>1 DEF EntryOK
    <3>5. \A g \in Sem : g # h => Apart(h, g)
      BY <1>0, <3>1 DEF TableOK
    <3>6. \A g \in Sem : /\ SemTable'[g].priv # b /\ SemTable'[g].mutex # b
                         /\ SemTable'[g].priv # c /\ SemTable'[g].mutex # c
      <4> SUFFICES ASSUME NEW g \in Sem
                   PROVE  /\ SemTable'[g].priv # b /\ SemTable'[g].mutex # b
                          /\ SemTable'[g].priv # c /\ SemTable'[g].mutex # c
        OBVIOUS
      <4>1. CASE g = h
        <5>1. b # NoBox /\ c # NoBox
          BY <1>0 DEF TypeOK
        <5> QED BY <3>1, <4>1, <5>1
      <4>2. CASE g # h
        BY <3>1, <3>3, <3>4, <3>5, <4>2 DEF Apart, Keeps
      <4> QED BY <4>1, <4>2
    <3>7. mine'[p] = b
      BY <2>0, <3>1, <3>3
    <3>8. Stands(p)'
      BY <1>h, <1>2, <3>1, <3>2, <3>3, <3>4, <3>6, <3>7 DEF Stands, Live, Foreign
    <3> QED BY <1>h, <1>2, <3>1, <3>2, <3>8 DEF Settles, Freeing
  <2>4. CASE F_send(p)
    <3>1. /\ Keeps(h) /\ pc[p] = "F_send"
          /\ \/ pc'[p] = "F_send" /\ at'[p] = at[p]
             \/ pc'[p] = "F_unlock" /\ at'[p] = Unset
      BY <1>0, <1>h, <2>4, F_sendActs
    <3>2. ~Live(h) /\ Foreign(at[p]) /\ Foreign(mine[p])
      BY <1>h, <1>1, <3>1 DEF Stands, MutexCalls, PrivCalls
    <3>3. \A g \in Sem : Keeps(g)
      BY <1>0, <2>4, <3>1, ActsKeep DEF F_lock
    <3> QED BY <1>h, <1>1, <1>2, <2>0, <3>1, <3>2, <3>3
            DEF Stands, Settles, Live, Foreign, Keeps, Freeing
  <2>5. CASE F_unlock(p)
    <3>1. \A x : Goto(p, x) => pc'[p] = x
      BY <1>0 DEF TypeOK, Goto
    <3>2. pc'[p] = "user"
      BY <2>5, <3>1 DEF F_unlock
    <3> QED BY <3>2 DEF Calling
  <2>6. Takes(p) \/ Gives(p) \/ Passes(p) \/ Wakes(p) \/ Frees(p)
    BY <1>0, <1>4, ActsKinds
  <2> QED BY <2>1, <2>2, <2>3, <2>4, <2>5, <2>6 DEF Frees
<1> QED BY <1>3, <1>4

\* The mailboxes of the freed entry leave the table; none comes in.
LEMMA F_lockForeign ==
  ASSUME TypeOK, OInv, NEW p \in Proc, F_lock(p), NEW b,
         Foreign(b) \/ b = SemTable[handle[p]].priv
  PROVE  Foreign(b)'
<1>0. TableOK /\ boxes' = boxes /\ boxes \in Nat
  BY F_lockActs, SMTT(30) DEF OInv, Acts, TypeOK
<1>1. PICK h \in Sem : h = handle[p]
  BY DEF TypeOK
<1>2. /\ Live(h) /\ SemTable'[h].priv = NoBox /\ SemTable'[h].mutex = NoBox
      /\ \A g \in Sem : g # h => Keeps(g)
  BY <1>1, F_lockKeeps
<1>3. EntryOK(h) /\ \A g \in Sem : g # h => Apart(h, g)
  BY <1>0, <1>2 DEF TableOK
<1>4. b \in 1 .. boxes
  BY <1>1, <1>2, <1>3 DEF EntryOK, Foreign
<1>5. ASSUME NEW g \in Sem PROVE SemTable'[g].priv # b /\ SemTable'[g].mutex # b
  <2>1. CASE g = h
    BY <1>0, <1>2, <1>4, <2>1
  <2>2. CASE g # h
    BY <1>1, <1>2, <1>3, <2>2 DEF Apart, Keeps, Foreign
  <2> QED BY <2>1, <2>2
<1> QED BY <1>0, <1>4, <1>5 DEF Foreign

LEMMA PlacesActs ==
  ASSUME TInv, OInv, NEW p \in Proc, ActsInCall(p)
  PROVE  Places'
<1>0. TypeOK /\ Acts(p) /\ Places /\ TableOK /\ pc[p] \notin Idle \union Creating
  BY InCallActs DEF TInv, OInv, Acts
<1>2. handle' = handle /\ open' = open /\ boxes' = boxes
  BY <1>0 DEF Acts
<1>3. ASSUME NEW q \in Proc, Calling(q)' PROVE Stands(q)' /\ Settles(q)'
  <2>1. CASE q = p
    BY <1>3, <2>1, StandsActs
  <2>2. CASE q # p
    <3>0. PICK f \in Sem : f = handle[p]
      BY <1>0 DEF TypeOK
    <3>1. /\ pc'[q] = pc[q] /\ at'[q] = at[q] /\ mine'[q] = mine[q] /\ Calling(q)
          /\ handle[q] \in Sem
      BY <1>0, <1>3, <2>2 DEF Acts, Calling, TypeOK
    <3>2. Stands(q) /\ Settles(q)
      BY <1>0, <3>1 DEF Places
    <3>3. Settles(q)'
      BY <1>2, <3>1, <3>2 DEF Settles
    <3>4. CASE ~F_lock(p)
      <4>1. \A g \in Sem : Keeps(g)
        BY <1>0, <3>4, ActsKeep
      <4> QED BY <1>2, <3>1, <3>2, <3>3, <4>1 DEF Stands, Live, Foreign, Keeps
    <3>5. CASE F_lock(p)
      <4>1. /\ Live(f) /\ SemTable'[f].id = -1 /\ f \notin open
            /\ \A g \in Sem : g # f => Keeps(g)
        BY <1>0, <3>0, <3>5, F_lockKeeps
      <4>2. \A b : Foreign(b) \/ b = SemTable[f].priv => Foreign(b)'
        BY <1>0, <3>0, <3>5, F_lockForeign
      <4>3. CASE handle[q] = f
        <5>1. pc[q] = "P_wait" /\ at[q] = SemTable[f].priv
          <6>1. pc[p] \in Freeing
            BY <3>5 DEF F_lock, Freeing
          <6>2. pc[q] \notin Freeing
            BY <1>0, <2>2, <3>0, <4>3, <6>1 DEF Places
          <6>3. pc[q] = "P_wait" /\ at[q] # Unset
            BY <3>2, <4>1, <4>3, <6>2 DEF Settles
          <6> QED BY <3>2, <4>1, <4>3, <6>3 DEF Stands, PrivCalls
        <5>2. Foreign(at[q])'
          <6>1. PICK b : b = at[q]
            OBVIOUS
          <6>2. Foreign(b)' /\ at'[q] = b
            BY <3>1, <4>2, <5>1, <6>1
          <6> QED BY <6>2 DEF Foreign
        <5> QED BY <1>2, <3>1, <3>3, <4>1, <4>3, <5>1, <5>2 DEF Stands, Live
      <4>4. CASE handle[q] # f
        <5>1. Keeps(handle[q])
          BY <3>1, <4>1, <4>4
        <5>2. CASE Live(handle[q])
          BY <1>2, <3>1, <3>2, <3>3, <5>1, <5>2 DEF Stands, Live, Keeps
        <5>3. CASE ~Live(handle[q])
          <6>1. PICK b, c : b = at[q] /\ c = mine[q]
            OBVIOUS
          <6>2. /\ at'[q] = b /\ mine'[q] = c
                /\ Foreign(b) => Foreign(b)'
                /\ Foreign(c) => Foreign(c)'
            BY <3>1, <4>2, <6>1
          <6>3. /\ pc[q] \in {"P_wait", "F_send", "F_unlock"}
                /\ pc[q] = "P_wait" => Foreign(b)
                /\ pc[q] = "F_send" => Foreign(b) /\ Foreign(c)
                /\ pc[q] = "F_unlock" => b \in {Unset, c} /\ Foreign(c)
            BY <3>2, <5>3, <6>1 DEF Stands
          <6>4. SemTable'[handle'[q]].id = -1
            BY <1>2, <5>1, <5>3 DEF Keeps, Live
          <6>5. Stands(q)'
            BY <3>1, <6>2, <6>3, <6>4 DEF Stands, Live, Foreign
          <6> QED BY <3>3, <6>5
        <5> QED BY <5>2, <5>3
      <4> QED BY <4>3, <4>4
    <3> QED BY <3>4, <3>5
  <2> QED BY <2>1, <2>2
<1>4. pc'[p] \in Freeing => pc[p] \in Freeing
  <2>1. CASE Evaluate(p)
    BY <2>1 DEF Evaluate
  <2>2. CASE Takes(p) \/ Gives(p) \/ Passes(p) \/ Wakes(p)
    BY <2>2 DEF Takes, Gives, Passes, Wakes, Freeing
  <2>3. CASE Frees(p)
    BY <2>3 DEF Frees, Freeing
  <2> QED BY <1>0, <2>1, <2>2, <2>3, ActsKinds
<1>5. ASSUME NEW q \in Proc, NEW r \in Proc, pc'[q] \in Freeing, pc'[r] \in Freeing,
             handle'[q] = handle'[r]
      PROVE  q = r
  <2>1. pc[q] \in Freeing /\ pc[r] \in Freeing
    BY <1>0, <1>4, <1>5 DEF Acts
  <2> QED BY <1>0, <1>2, <1>5, <2>1 DEF Places
<1> QED BY <1>3, <1>5 DEF Places

-----------------------------------------------------------------------------
(***************************************************************************)
(* The mutexes.                                                            *)
(***************************************************************************)

\* p leaves the mutexes of the other semaphores alone.
LEMMA ElsewhereActs ==
  ASSUME TInv, OInv, NEW p \in Proc, ActsInCall(p),
         NEW g \in Sem, Live(g), g # handle[p]
  PROVE  /\ mail'[SemTable[g].mutex] = mail[SemTable[g].mutex]
         /\ line'[SemTable[g].mutex] = line[SemTable[g].mutex]
         /\ mail'[SemTable[g].priv] = mail[SemTable[g].priv]
<1>0. TypeOK /\ Acts(p) /\ Calling(p) /\ TableOK /\ Places /\ boxes \in 0 .. MaxBox
  BY InCallActs DEF TInv, OInv, Acts, Calling, TypeOK
<1>h. PICK h \in Sem : h = handle[p]
  BY <1>0 DEF TypeOK
<1>1. PICK m \in 1 .. boxes : m = SemTable[g].mutex
  BY <1>0 DEF TableOK, EntryOK
<1>2. PICK s \in 1 .. boxes : s = SemTable[g].priv
  BY <1>0 DEF TableOK, EntryOK
<1>3. m \in Box /\ s \in Box
  BY <1>0, <1>1, <1>2
<1>4. at[p] # m /\ at[p] # s
  <2>1. CASE at[p] = Unset
    BY <1>1, <1>2, <2>1
  <2>2. CASE at[p] # Unset
    BY <1>0, <1>1, <1>2, <2>2, AtIs
  <2> QED BY <2>1, <2>2
<1>5. SemTable[h].priv # m /\ SemTable[h].mutex # m
  BY <1>0, <1>h, <1>1 DEF TableOK, Apart
<1>6. at'[p] # m
  <2>1. CASE Evaluate(p) /\ pc[p] = "F_unlock"
    <3>1. Foreign(mine[p])
      BY <1>0, <2>1 DEF Places, Stands, MutexCalls, PrivCalls
    <3>2. at'[p] = mine[p]
      BY <1>0, <2>1, EvaluateIs
    <3> QED BY <1>1, <3>1, <3>2 DEF Foreign
  <2>2. CASE Evaluate(p) /\ pc[p] # "F_unlock"
    BY <1>0, <1>h, <1>5, <2>2, EvaluateIs
  <2>3. CASE ~Evaluate(p) /\ pc'[p] # "F_send"
    <3>1. at'[p] = Unset
      BY <1>0, <2>3, MovedTo
    <3> QED BY <1>1, <3>1
  <2>4. CASE ~Evaluate(p) /\ pc'[p] = "F_send"
    <3>1. F_lock(p) \/ F_send(p)
      BY <1>0, <2>4, ActsKinds DEF Takes, Gives, Passes, Wakes, Frees
    <3>2. at'[p] \in {Unset, SemTable[h].priv, at[p]}
      BY <1>0, <1>h, <3>1, F_lockActs, F_sendActs
    <3> QED BY <1>1, <1>4, <1>5, <3>2
  <2> QED BY <2>1, <2>2, <2>3, <2>4
<1> QED BY <1>0, <1>1, <1>2, <1>3, <1>4, <1>6 DEF Acts

LEMMA MutexesActs ==
  ASSUME TInv, OInv, NEW p \in Proc, ActsInCall(p)
  PROVE  Mutexes'
<1>0. TypeOK /\ Acts(p) /\ Calling(p) /\ TableOK /\ Places /\ Mutexes
      /\ boxes \in 0 .. MaxBox
  BY InCallActs DEF TInv, OInv, Acts, Calling, TypeOK
<1>h. PICK h \in Sem : h = handle[p]
  BY <1>0 DEF TypeOK
<1>a. /\ \A q \in Proc : q # p => pc'[q] = pc[q] /\ at'[q] = at[q]
      /\ handle' = handle /\ slots' = slots
  BY <1>0 DEF Acts
<1> SUFFICES ASSUME NEW g \in Sem, Live(g)' PROVE Mutex(g, SemTable[g].mutex)'
  BY DEF Mutexes
<1>1. ~(F_lock(p) /\ g = h)
  BY <1>0, <1>h, F_lockKeeps DEF Live
<1>2. Keeps(g)
  <2>1. CASE F_lock(p)
    BY <1>0, <1>h, <1>1, <2>1, F_lockKeeps
  <2>2. CASE ~F_lock(p)
    BY <1>0, <2>2, ActsKeep
  <2> QED BY <2>1, <2>2
<1>3. Live(g) /\ SemTable'[g].mutex = SemTable[g].mutex
  BY <1>2 DEF Keeps, Live
<1>4. PICK b \in 1 .. boxes : b = SemTable[g].mutex
  BY <1>0, <1>3 DEF TableOK, EntryOK
<1>5. b \in Box /\ b # Unset
  BY <1>0, <1>4
<1>6. Mutex(g, b)
  BY <1>0, <1>3, <1>4 DEF Mutexes
<1>7. SUFFICES /\ \A q, r \in InsideOf(g)' : q = r
               /\ mail'[b] = IF InsideOf(g)' = {} THEN 0 ELSE 1
               /\ \/ line'[b] = <<>>
                  \/ \E q \in InsideOf(g)' : line'[b] = <<q>> /\ at'[q] = b /\ pc'[q] \in Receives
  BY <1>a, <1>3, <1>4, <1>6 DEF Mutex
<1>8. CASE InsideOf(g)' = InsideOf(g) /\ mail'[b] = mail[b] /\ line'[b] = line[b]
           /\ ((g = h => at[p] # b) \/ (at'[p] = at[p] /\ pc'[p] = pc[p]))
  <2>1. ASSUME NEW q \in InsideOf(g), line[b] = <<q>>, at[q] = b, pc[q] \in Receives
        PROVE  at'[q] = b /\ pc'[q] \in Receives
    <3>1. q \in Proc /\ handle[q] = g
      BY DEF InsideOf
    <3> QED BY <1>h, <1>a, <1>8, <2>1, <3>1
  <2> QED BY <1>6, <1>8, <2>1 DEF Mutex
<1>9. CASE g # h
  <2>1. mail'[b] = mail[b] /\ line'[b] = line[b]
    BY <1>h, <1>3, <1>4, <1>9, ElsewhereActs
  <2>2. InsideOf(g)' = InsideOf(g)
    BY <1>h, <1>a, <1>9 DEF InsideOf
  <2> QED BY <1>8, <1>9, <2>1, <2>2
<1>10. CASE g = h /\ Evaluate(p)
  <2>1. /\ at[p] = Unset /\ pc[p] \in MutexCalls \union PrivCalls \union {"F_unlock"}
        /\ at'[p] = IF pc[p] = "F_unlock" THEN mine[p]
                    ELSE IF pc[p] \in PrivCalls THEN SemTable[h].priv
                    ELSE SemTable[h].mutex
        /\ line' = IF pc[p] \in Receives /\ at'[p] \in Box
                   THEN [line EXCEPT ![at'[p]] = Append(@, p)] ELSE line
        /\ pc' = pc /\ mail' = mail
    BY <1>0, <1>h, <1>10, EvaluateIs
  <2>2. InsideOf(g)' = InsideOf(g)
    BY <1>a, <2>1 DEF InsideOf
  <2>3. CASE ~(pc[p] \in Receives /\ at'[p] = b)
    <3>1. line'[b] = line[b]
      BY <1>0, <1>5, <2>1, <2>3 DEF TypeOK
    <3> QED BY <1>5, <1>8, <2>1, <2>2, <3>1
  <2>4. CASE pc[p] \in Receives /\ at'[p] = b
    <3>1. pc[p] \in MutexCalls /\ pc[p] \notin PrivCalls
      <4>1. pc[p] # "F_unlock"
        BY <1>0, <1>h, <1>3, <1>10 DEF Places, Stands, MutexCalls, PrivCalls
      <4>2. SemTable[h].priv # SemTable[h].mutex
        BY <1>0, <1>3, <1>10 DEF TableOK, EntryOK
      <4> QED BY <1>4, <1>10, <2>1, <2>4, <4>1, <4>2
    <3>2. p \in InsideOf(g)
      BY <1>h, <1>10, <2>4, <3>1 DEF InsideOf, Inside, MutexCalls, PrivCalls, Receives
    <3>3. line[b] = <<>>
      BY <1>5, <1>6, <2>1, <3>2 DEF Mutex
    <3>4. line'[b] = <<p>>
      <4>1. line' = [line EXCEPT ![b] = Append(@, p)] /\ line \in [Box -> Seq(Proc)]
        BY <1>0, <1>5, <2>1, <2>4 DEF TypeOK
      <4> QED BY <1>5, <3>3, <4>1
    <3> QED BY <1>6, <2>1, <2>2, <2>4, <3>2, <3>4 DEF Mutex
  <2> QED BY <2>3, <2>4
<1>11. CASE g = h /\ Takes(p)
  <2>1. at[p] = b /\ at'[p] = Unset /\ Sent(p)
    <3>1. at[p] = b
      BY <1>0, <1>h, <1>4, <1>11, InUse
    <3>2. ~Evaluate(p) /\ pc'[p] # "F_send"
      BY <1>0, <3>1, <1>5, EvaluateIs, <1>11 DEF Takes
    <3>3. at'[p] = Unset
      BY <1>0, <3>2, MovedTo
    <3> QED BY <3>1, <3>3, <1>11 DEF Takes, P_lock, V_lock, P_in, V_in
  <2>2. line' = line /\ mail'[b] = mail[b] + 1
    BY <1>0, <1>5, <2>1, SentType
  <2>3. mail[b] < slots[b] \/ mail[b] < Len(line[b])
    BY <1>5, <2>1 DEF Sent
  <2>4. Len(line[b]) = 0 \/ Len(line[b]) = 1
    <3>1. line[b] = <<>> \/ Len(line[b]) = 1
      BY <1>6 DEF Mutex
    <3>2. Len(<<>>) = 0
      OBVIOUS
    <3> QED BY <3>1, <3>2
  <2>5. InsideOf(g) = {} /\ mail[b] = 0
    <3>1. slots[b] = 1 /\ mail[b] = IF InsideOf(g) = {} THEN 0 ELSE 1
      BY <1>6 DEF Mutex
    <3>2. mail[b] # 1
      <4> SUFFICES ASSUME mail[b] = 1 PROVE FALSE
        OBVIOUS
      <4>1. CASE Len(line[b]) = 0
        BY <2>3, <3>1, <4>1
      <4>2. CASE Len(line[b]) = 1
        BY <2>3, <3>1, <4>2
      <4> QED BY <2>4, <4>1, <4>2
    <3> QED BY <3>1, <3>2
  <2>6. InsideOf(g)' = {p}
    <3>1. pc'[p] \in Inside
      BY <1>11 DEF Takes, Inside
    <3> QED BY <1>h, <1>a, <1>11, <2>5, <3>1 DEF InsideOf
  <2>7. line'[b] = <<>>
    BY <1>6, <2>2, <2>5 DEF Mutex
  <2> QED BY <2>2, <2>5, <2>6, <2>7
<1>12. CASE g = h /\ Gives(p)
  <2>1. at[p] = b /\ Received(p)
    BY <1>0, <1>h, <1>4, <1>12, InUse DEF Gives, P_out, V_out, P_unlock, V_unlock
  <2>2. p \in InsideOf(g)
    BY <1>h, <1>12 DEF InsideOf, Inside, Gives
  <2>3. mail[b] = 1
    BY <1>6, <2>2 DEF Mutex
  <2>4. /\ mail'[b] = mail[b] - 1
        /\ \E i \in DOMAIN line[b] : line[b][i] = p /\ line'[b] = RemoveAt(line[b], i)
    BY <1>0, <1>5, <2>1, ReceivedType
  <2>5. line[b] \in Seq(Proc) /\ (line[b] = <<>> \/ Len(line[b]) = 1)
    BY <1>0, <1>5, <1>6 DEF Mutex, TypeOK
  <2>6. line'[b] = <<>>
    <3>1. PICK i \in DOMAIN line[b] : line'[b] = RemoveAt(line[b], i)
      BY <2>4
    <3>2. Len(line[b]) = 1
      BY <2>5, <3>1
    <3> QED BY <2>5, <3>1, <3>2, RemoveAtType
  <2>7. InsideOf(g)' = {}
    <3>1. pc'[p] \notin Inside
      BY <1>12 DEF Gives, Inside
    <3>2. \A q \in InsideOf(g) : q = p
      BY <1>6, <2>2 DEF Mutex
    <3> QED BY <1>a, <3>1, <3>2 DEF InsideOf
  <2> QED BY <2>3, <2>4, <2>6, <2>7
<1>13. CASE g = h /\ (Passes(p) \/ Wakes(p))
  <2>1. at[p] # b
    <3>1. (at[p] = SemTable[h].priv /\ at[p] # SemTable[h].mutex) \/ Foreign(at[p])
      BY <1>0, <1>h, <1>13, InUse
    <3> QED BY <1>4, <1>13, <3>1 DEF Foreign
  <2>2. at'[p] = Unset
    <3>1. pc'[p] # "F_send"
      BY <1>13 DEF Passes, Wakes
    <3>2. ~Evaluate(p)
      BY <1>0, EvaluateIs, <1>13, SentAt DEF Passes, Wakes, P_wait, P_take, V_send
    <3> QED BY <1>0, <3>1, <3>2, MovedTo
  <2>3. mail'[b] = mail[b] /\ line'[b] = line[b]
    BY <1>0, <1>5, <2>1, <2>2 DEF Acts
  <2>4. pc'[p] \in Inside <=> pc[p] \in Inside
    BY <1>13 DEF Passes, Wakes, Inside
  <2>5. InsideOf(g)' = InsideOf(g)
    BY <1>a, <2>4 DEF InsideOf
  <2> QED BY <1>8, <2>1, <2>3, <2>5
<1>14. CASE g = h /\ Frees(p)
  <2>1. pc[p] \in {"F_send", "F_unlock"}
    BY <1>1, <1>14 DEF Frees
  <2> QED BY <1>0, <1>h, <1>3, <1>14, <2>1 DEF Places, Stands, MutexCalls, PrivCalls
<1> QED BY <1>0, <1>9, <1>10, <1>11, <1>12, <1>13, <1>14, ActsKinds

-----------------------------------------------------------------------------
(***************************************************************************)
(* The private mailboxes and the count.                                    *)
(***************************************************************************)
LEMMA SetsMove ==
  ASSUME TypeOK, NEW p \in Proc, NEW h, h = handle[p], handle' = handle,
         \A q \in Proc : q # p => pc'[q] = pc[q]
  PROVE  /\ Cardinality(Taking(h)) \in Nat /\ Cardinality(Taking(h))' \in Nat
         /\ Cardinality(Waiting(h)) \in Nat /\ Cardinality(Waiting(h))' \in Nat
         /\ Cardinality(Sending(h)) \in Nat /\ Cardinality(Sending(h))' \in Nat
         /\ Cardinality(Taking(h))' = Cardinality(Taking(h))
              + (IF pc'[p] = "P_take" THEN 1 ELSE 0) - (IF pc[p] = "P_take" THEN 1 ELSE 0)
         /\ Cardinality(Waiting(h))' = Cardinality(Waiting(h))
              + (IF pc'[p] \in {"P_out", "P_wait"} THEN 1 ELSE 0)
              - (IF pc[p] \in {"P_out", "P_wait"} THEN 1 ELSE 0)
         /\ Cardinality(Sending(h))' = Cardinality(Sending(h))
              + (IF pc'[p] \in {"V_out", "V_send"} THEN 1 ELSE 0)
              - (IF pc[p] \in {"V_out", "V_send"} THEN 1 ELSE 0)
<1>0. IsFiniteSet(Proc)
  OBVIOUS
<1>1. PICK T1, T2 : T1 = Taking(h) /\ T2 = Taking(h)'
  OBVIOUS
<1>2. PICK W1, W2 : W1 = Waiting(h) /\ W2 = Waiting(h)'
  OBVIOUS
<1>3. PICK S1, S2 : S1 = Sending(h) /\ S2 = Sending(h)'
  OBVIOUS
<1>4. /\ \A q : q # p => (q \in T1 <=> q \in T2) /\ (q \in W1 <=> q \in W2) /\ (q \in S1 <=> q \in S2)
      /\ p \in T1 <=> pc[p] = "P_take"
      /\ p \in T2 <=> pc'[p] = "P_take"
      /\ p \in W1 <=> pc[p] \in {"P_out", "P_wait"}
      /\ p \in W2 <=> pc'[p] \in {"P_out", "P_wait"}
      /\ p \in S1 <=> pc[p] \in {"V_out", "V_send"}
      /\ p \in S2 <=> pc'[p] \in {"V_out", "V_send"}
  BY <1>1, <1>2, <1>3 DEF Taking, Waiting, Sending
<1>5. T1 \subseteq Proc /\ W1 \subseteq Proc /\ S1 \subseteq Proc
  BY <1>1, <1>2, <1>3 DEF Taking, Waiting, Sending
<1>6. IsFiniteSet(T1) /\ IsFiniteSet(W1) /\ IsFiniteSet(S1)
  BY <1>0, <1>5, FS_Subset
<1>7. /\ Cardinality(T1) \in Nat /\ Cardinality(T2) \in Nat
      /\ Cardinality(T2) = Cardinality(T1) + (IF p \in T2 THEN 1 ELSE 0)
                                           - (IF p \in T1 THEN 1 ELSE 0)
  BY <1>4, <1>6, CardMoves
<1>8. /\ Cardinality(W1) \in Nat /\ Cardinality(W2) \in Nat
      /\ Cardinality(W2) = Cardinality(W1) + (IF p \in W2 THEN 1 ELSE 0)
                                           - (IF p \in W1 THEN 1 ELSE 0)
  BY <1>4, <1>6, CardMoves
<1>9. /\ Cardinality(S1) \in Nat /\ Cardinality(S2) \in Nat
      /\ Cardinality(S2) = Cardinality(S1) + (IF p \in S2 THEN 1 ELSE 0)
                                           - (IF p \in S1 THEN 1 ELSE 0)
  BY <1>4, <1>6, CardMoves
<1> QED BY <1>1, <1>2, <1>3, <1>4, <1>7, <1>8, <1>9

\* What a step can do to the messages m, to the messages x that are to be sent
\* and to the count n of a semaphore.
LEMMA CountStep ==
  ASSUME NEW m1 \in Nat, NEW x1 \in Nat, NEW n1 \in Int, m1 + x1 <= n1,
         NEW m2, NEW x2, NEW n2,
         \/ m2 = m1 /\ x2 = x1 /\ n2 = n1
         \/ m2 = m1 /\ x2 = x1 + 1 /\ n2 = n1 + 1
         \/ m2 = m1 /\ x2 = x1 /\ n2 = n1 + 1
         \/ m2 = m1 + 1 /\ x2 = x1 - 1 /\ n2 = n1
         \/ m2 = m1 - 1 /\ x2 = x1 /\ n2 = n1 - 1 /\ m1 >= 1
  PROVE  /\ m2 + x2 <= n2 /\ n2 \in {n1, n1 + 1, n1 - 1}
         /\ n2 = n1 - 1 => n1 > 0
OBVIOUS

\* The count of p's own semaphore, while it is in use, the messages in its
\* private mailbox and the Vs that are to send one there.
LEMMA OwnActs ==
  ASSUME TInv, OInv, NEW p \in Proc, ActsInCall(p),
         NEW h, h = handle[p], h \in open
  PROVE  /\ mail'[SemTable'[h].priv] + Cardinality(Sending(h))' <= Tokens(h)'
         /\ Tokens(h)' \in {Tokens(h), Tokens(h) + 1, Tokens(h) - 1}
         /\ Tokens(h)' = Tokens(h) - 1 => Tokens(h) > 0
         /\ Tokens(h) \in Int
         /\ 0 <= SemTable'[h].value
         /\ SemTable'[h].blockedProcs # <<>> => SemTable'[h].value = 0
<1>0. TypeOK /\ Acts(p) /\ Calling(p) /\ TableOK /\ boxes \in 0 .. MaxBox /\ h \in Sem
  BY InCallActs DEF TInv, OInv, Acts, Calling, TypeOK
<1>1. /\ Live(h) /\ 0 <= SemTable[h].value
      /\ SemTable[h].blockedProcs # <<>> => SemTable[h].value = 0
      /\ mail[SemTable[h].priv] + Cardinality(Sending(h)) <= Tokens(h)
      /\ SemTable[h].value \in Int /\ SemTable[h].blockedProcs \in Seq(Proc)
  BY <1>0, EntryType DEF OInv, TableOK, Queues, Mails
<1>2. PICK s \in Box : s = SemTable[h].priv
  BY <1>0, <1>1 DEF TableOK, EntryOK
<1>3. ~F_lock(p)
  BY <1>0, F_lockKeeps
<1>4. SemTable'[h].priv = s
  BY <1>0, <1>2, <1>3, ActsKeep DEF Keeps
<1>5. /\ Cardinality(Taking(h)) \in Nat /\ Cardinality(Taking(h))' \in Nat
      /\ Cardinality(Waiting(h)) \in Nat /\ Cardinality(Waiting(h))' \in Nat
      /\ Cardinality(Sending(h)) \in Nat /\ Cardinality(Sending(h))' \in Nat
      /\ Cardinality(Taking(h))' = Cardinality(Taking(h))
           + (IF pc'[p] = "P_take" THEN 1 ELSE 0) - (IF pc[p] = "P_take" THEN 1 ELSE 0)
      /\ Cardinality(Waiting(h))' = Cardinality(Waiting(h))
           + (IF pc'[p] \in {"P_out", "P_wait"} THEN 1 ELSE 0)
           - (IF pc[p] \in {"P_out", "P_wait"} THEN 1 ELSE 0)
      /\ Cardinality(Sending(h))' = Cardinality(Sending(h))
           + (IF pc'[p] \in {"V_out", "V_send"} THEN 1 ELSE 0)
           - (IF pc[p] \in {"V_out", "V_send"} THEN 1 ELSE 0)
  BY <1>0, SetsMove DEF Acts
<1>t. PICK t1, t2 : t1 = Cardinality(Taking(h)) /\ t2 = Cardinality(Taking(h))'
  OBVIOUS
<1>w. PICK w1, w2 : w1 = Cardinality(Waiting(h)) /\ w2 = Cardinality(Waiting(h))'
  OBVIOUS
<1>x. PICK x1, x2 : x1 = Cardinality(Sending(h)) /\ x2 = Cardinality(Sending(h))'
  OBVIOUS
<1>v. PICK v1, v2 : v1 = SemTable[h].value /\ v2 = SemTable'[h].value
  OBVIOUS
<1>l. PICK l1, l2 : l1 = Len(SemTable[h].blockedProcs) /\ l2 = Len(SemTable'[h].blockedProcs)
  OBVIOUS
<1>m. PICK m1, m2 : m1 = mail[s] /\ m2 = mail'[s]
  OBVIOUS
<1>n. PICK n1, n2 : n1 = v1 + t1 + w1 - l1 /\ n2 = v2 + t2 + w2 - l2
  OBVIOUS
<1>6. Tokens(h) = n1 /\ Tokens(h)' = n2
  BY <1>t, <1>w, <1>v, <1>l, <1>n DEF Tokens
<1>7. /\ m1 \in Nat /\ l1 \in Nat /\ v1 \in Int /\ t1 \in Nat /\ w1 \in Nat /\ x1 \in Nat
      /\ n1 \in Int /\ m1 + x1 <= n1
  <2>1. m1 \in Nat
    BY <1>0, <1>m DEF TypeOK
  <2>2. l1 \in Nat
    BY <1>1, <1>l
  <2>3. v1 \in Int /\ t1 \in Nat /\ w1 \in Nat /\ x1 \in Nat
    BY <1>1, <1>5, <1>t, <1>w, <1>x, <1>v
  <2>4. n1 \in Int
    BY <1>n, <2>2, <2>3
  <2>5. m1 + x1 <= n1
    BY <1>1, <1>2, <1>6, <1>x, <1>m
  <2> QED BY <2>1, <2>2, <2>3, <2>4, <2>5
<1>8. /\ t2 = t1 + (IF pc'[p] = "P_take" THEN 1 ELSE 0) - (IF pc[p] = "P_take" THEN 1 ELSE 0)
      /\ w2 = w1 + (IF pc'[p] \in {"P_out", "P_wait"} THEN 1 ELSE 0)
                 - (IF pc[p] \in {"P_out", "P_wait"} THEN 1 ELSE 0)
      /\ x2 = x1 + (IF pc'[p] \in {"V_out", "V_send"} THEN 1 ELSE 0)
                 - (IF pc[p] \in {"V_out", "V_send"} THEN 1 ELSE 0)
  BY <1>5, <1>t, <1>w, <1>x
<1> DEFINE Good ==
      /\ \/ m2 = m1 /\ x2 = x1 /\ n2 = n1
         \/ m2 = m1 /\ x2 = x1 + 1 /\ n2 = n1 + 1
         \/ m2 = m1 /\ x2 = x1 /\ n2 = n1 + 1
         \/ m2 = m1 + 1 /\ x2 = x1 - 1 /\ n2 = n1
         \/ m2 = m1 - 1 /\ x2 = x1 /\ n2 = n1 - 1 /\ m1 >= 1
      /\ 0 <= SemTable'[h].value
      /\ SemTable'[h].blockedProcs # <<>> => SemTable'[h].value = 0
<1>g. SUFFICES Good
  <2>1. ASSUME Good PROVE /\ m2 + x2 <= n2 /\ n2 \in {n1, n1 + 1, n1 - 1}
                          /\ n2 = n1 - 1 => n1 > 0
    BY <1>7, <2>1, CountStep
  <2>2. ASSUME Good PROVE mail'[SemTable'[h].priv] + Cardinality(Sending(h))' <= Tokens(h)'
    BY <1>4, <1>6, <2>1, <2>2, <1>m, <1>x
  <2>3. ASSUME Good PROVE /\ 0 <= SemTable'[h].value
                          /\ SemTable'[h].blockedProcs # <<>> => SemTable'[h].value = 0
    BY <2>3
  <2> QED BY <1>6, <1>7, <2>1, <2>2, <2>3
<1>9. CASE Evaluate(p) \/ Gives(p) \/ P_in(p) \/ V_in(p)
  <2>1. v2 = v1 /\ l2 = l1 /\ SemTable' = SemTable
    <3>1. CASE Evaluate(p)
      BY <3>1, <1>v, <1>l DEF Evaluate, semVars
    <3>2. CASE ~Evaluate(p)
      <4>1. SemTable' = SemTable
        BY <1>9, <3>2, MovesAre DEF Gives, Moves, semVars
      <4> QED BY <4>1, <1>v, <1>l
    <3> QED BY <3>1, <3>2
  <2>2. m2 = m1
    <3>1. CASE Evaluate(p)
      BY <3>1, <1>m DEF Evaluate
    <3>2. CASE ~Evaluate(p)
      <4>1. Gives(p) \/ Takes(p)
        BY <1>0, <1>9, <3>2, ActsKinds
           DEF Takes, Gives, Passes, Wakes, Frees, P_in, V_in
      <4>2. at[p] # s
        BY <1>0, <1>2, <4>1, InUse
      <4> QED BY <1>0, <1>2, <1>m, <4>2 DEF Acts
    <3> QED BY <3>1, <3>2
  <2>3. /\ t2 = t1 /\ w2 = w1 /\ x2 = x1
    <3>1. CASE Evaluate(p)
      <4>1. pc' = pc
        BY <3>1 DEF Evaluate
      <4> QED BY <1>7, <1>8, <4>1
    <3>2. CASE Gives(p)
      <4>0. \A x : Goto(p, x) => pc'[p] = x
        BY <1>0 DEF TypeOK, Goto
      <4>1. \/ pc[p] = "P_out" /\ pc'[p] = "P_wait"
            \/ pc[p] = "V_out" /\ pc'[p] = "V_send"
            \/ pc[p] \in {"P_unlock", "V_unlock"} /\ pc'[p] = "user"
        BY <3>2, <4>0 DEF Gives, P_out, V_out, P_unlock, V_unlock
      <4> QED BY <1>7, <1>8, <4>1
    <3>3. CASE P_in(p) \/ V_in(p)
      <4>0. \A x : Goto(p, x) => pc'[p] = x
        BY <1>0 DEF TypeOK, Goto
      <4>1. pc[p] \in {"P_in", "V_in"} /\ pc'[p] \in {"P_unlock", "V_unlock"}
        BY <3>3, <4>0 DEF P_in, V_in
      <4> QED BY <1>7, <1>8, <4>1
    <3> QED BY <1>9, <3>1, <3>2, <3>3
  <2>4. n2 = n1
    BY <1>n, <2>1, <2>3
  <2>5. /\ 0 <= SemTable'[h].value
        /\ SemTable'[h].blockedProcs # <<>> => SemTable'[h].value = 0
    BY <1>1, <2>1
  <2> QED BY <2>2, <2>3, <2>4, <2>5
<1>10. CASE P_lock(p) \/ V_lock(p)
  <2>1. m2 = m1
    <3>1. Takes(p)
      BY <1>0, <1>10, P_lockActs, V_lockActs DEF Takes
    <3>2. at[p] # s
      BY <1>0, <1>2, <3>1, InUse
    <3> QED BY <1>0, <1>2, <1>m, <3>2 DEF Acts
  <2>2. CASE P_lock(p)
    <3>1. /\ pc[p] = "P_lock"
          /\ \/ pc'[p] = "P_out" /\ v1 = 0 /\ v2 = 0 /\ l2 = l1 + 1
             \/ /\ pc'[p] = "P_take" /\ v1 # 0 /\ v2 = v1 - 1 /\ l2 = l1
                /\ SemTable'[h].blockedProcs = SemTable[h].blockedProcs
      BY <1>0, <2>2, <1>v, <1>l, P_lockActs
    <3>2. /\ 0 <= SemTable'[h].value
          /\ SemTable'[h].blockedProcs # <<>> => SemTable'[h].value = 0
      <4>1. CASE pc'[p] = "P_out" /\ v1 = 0 /\ v2 = 0
        BY <1>v, <4>1
      <4>2. CASE /\ v1 # 0 /\ v2 = v1 - 1
                 /\ SemTable'[h].blockedProcs = SemTable[h].blockedProcs
        <5>1. 0 <= v1 /\ SemTable[h].blockedProcs = <<>>
          BY <1>1, <1>v, <4>2
        <5>2. 0 <= v2
          BY <1>7, <4>2, <5>1
        <5> QED BY <1>v, <4>2, <5>1, <5>2
      <4> QED BY <3>1, <4>1, <4>2
    <3>3. x2 = x1 /\ n2 = n1
      <4>1. CASE pc'[p] = "P_out" /\ v1 = 0 /\ v2 = 0 /\ l2 = l1 + 1
        <5>1. t2 = t1 /\ w2 = w1 + 1 /\ x2 = x1
          BY <1>7, <1>8, <3>1, <4>1
        <5> QED BY <1>7, <1>n, <4>1, <5>1
      <4>2. CASE pc'[p] = "P_take" /\ v2 = v1 - 1 /\ l2 = l1
        <5>1. t2 = t1 + 1 /\ w2 = w1 /\ x2 = x1
          BY <1>7, <1>8, <3>1, <4>2
        <5> QED BY <1>7, <1>n, <4>2, <5>1
      <4> QED BY <3>1, <4>1, <4>2
    <3> QED BY <2>1, <3>2, <3>3
  <2>3. CASE V_lock(p)
    <3>1. /\ pc[p] = "V_lock"
          /\ \/ /\ pc'[p] = "V_out" /\ v2 = v1 /\ l2 = l1 - 1
                /\ SemTable[h].blockedProcs # <<>>
             \/ /\ pc'[p] = "V_unlock" /\ v2 = v1 + 1 /\ l2 = l1
                /\ SemTable[h].blockedProcs = <<>>
                /\ SemTable'[h].blockedProcs = SemTable[h].blockedProcs
      BY <1>0, <2>3, <1>v, <1>l, V_lockActs
    <3>2. CASE pc'[p] = "V_out" /\ v2 = v1 /\ l2 = l1 - 1 /\ SemTable[h].blockedProcs # <<>>
      <4>1. t2 = t1 /\ w2 = w1 /\ x2 = x1 + 1
        BY <1>7, <1>8, <3>1, <3>2
      <4>2. n2 = n1 + 1
        BY <1>7, <1>n, <3>2, <4>1
      <4>3. v1 = 0
        BY <1>1, <1>v, <3>2
      <4>4. SemTable'[h].value = 0
        BY <1>v, <3>2, <4>3
      <4> QED BY <2>1, <4>1, <4>2, <4>4
    <3>3. CASE /\ pc'[p] = "V_unlock" /\ v2 = v1 + 1 /\ l2 = l1
               /\ SemTable'[h].blockedProcs = <<>>
      <4>1. t2 = t1 /\ w2 = w1 /\ x2 = x1
        BY <1>7, <1>8, <3>1, <3>3
      <4>2. n2 = n1 + 1
        BY <1>7, <1>n, <3>3, <4>1
      <4>3. 0 <= v1
        BY <1>1, <1>v
      <4>4. 0 <= v2
        BY <1>7, <3>3, <4>3
      <4> QED BY <1>v, <2>1, <3>3, <4>1, <4>2, <4>4
    <3> QED BY <3>1, <3>2, <3>3
  <2> QED BY <1>10, <2>2, <2>3
<1>11. CASE Passes(p) \/ Wakes(p)
  <2>0. at[p] = s /\ (Passes(p) => pc'[p] # "dead")
    BY <1>0, <1>2, <1>11, InUse
  <2>1. v2 = v1 /\ l2 = l1 /\ SemTable' = SemTable
    <3>1. SemTable' = SemTable
      BY <1>11, MovesAre DEF Passes, Wakes, Moves, semVars
    <3> QED BY <3>1, <1>v, <1>l
  <2>2. /\ 0 <= SemTable'[h].value
        /\ SemTable'[h].blockedProcs # <<>> => SemTable'[h].value = 0
    BY <1>1, <2>1
  <2>3. CASE Wakes(p)
    <3>1. m2 = m1 + 1
      BY <1>0, <1>2, <1>m, <2>0, <2>3, SentType DEF Wakes, V_send
    <3>2. pc[p] = "V_send" /\ pc'[p] = "V_in"
      BY <2>3 DEF Wakes
    <3>3. t2 = t1 /\ w2 = w1 /\ x2 = x1 - 1
      BY <1>7, <1>8, <3>2
    <3>4. n2 = n1
      BY <1>n, <2>1, <3>3
    <3> QED BY <2>2, <3>1, <3>3, <3>4
  <2>4. CASE Passes(p)
    <3>1. m1 >= 1 /\ m2 = m1 - 1
      BY <1>0, <1>2, <1>m, <2>0, <2>4, ReceivedType, SMTT(30) DEF Passes, P_wait, P_take
    <3>2. \/ pc[p] = "P_wait" /\ pc'[p] = "P_in"
          \/ pc[p] = "P_take" /\ pc'[p] = "P_unlock"
      BY <2>0, <2>4 DEF Passes
    <3>3. CASE pc[p] = "P_wait" /\ pc'[p] = "P_in"
      <4>1. t2 = t1 /\ w2 = w1 - 1 /\ x2 = x1
        BY <1>7, <1>8, <3>3
      <4>2. n2 = n1 - 1
        BY <1>7, <1>n, <2>1, <4>1
      <4> QED BY <2>2, <3>1, <4>1, <4>2
    <3>4. CASE pc[p] = "P_take" /\ pc'[p] = "P_unlock"
      <4>1. t2 = t1 - 1 /\ w2 = w1 /\ x2 = x1
        BY <1>7, <1>8, <3>4
      <4>2. n2 = n1 - 1
        BY <1>7, <1>n, <2>1, <4>1
      <4> QED BY <2>2, <3>1, <4>1, <4>2
    <3> QED BY <3>2, <3>3, <3>4
  <2> QED BY <1>11, <2>3, <2>4
<1>12. ~Frees(p)
  BY <1>0, InUse
<1> QED BY <1>0, <1>9, <1>10, <1>11, <1>12, ActsKinds DEF Takes

\* A semaphore that p is not in a call on counts as before.
LEMMA OtherActs ==
  ASSUME TInv, OInv, NEW p \in Proc, ActsInCall(p),
         NEW g \in Sem, g # handle[p]
  PROVE  /\ SemTable'[g] = SemTable[g]
         /\ Taking(g)' = Taking(g) /\ Waiting(g)' = Waiting(g) /\ Sending(g)' = Sending(g)
         /\ Tokens(g)' = Tokens(g)
<1>0. TypeOK /\ Acts(p)
  BY InCallActs DEF TInv
<1>1. /\ SemTable'[g] = SemTable[g] /\ handle' = handle
      /\ \A q \in Proc : q # p => pc'[q] = pc[q]
  BY <1>0 DEF Acts
<1>2. Taking(g)' = Taking(g) /\ Waiting(g)' = Waiting(g) /\ Sending(g)' = Sending(g)
  BY <1>1 DEF Taking, Waiting, Sending
<1>3. Tokens(g)' = Tokens(g)
  BY <1>1, <1>2 DEF Tokens
<1> QED BY <1>1, <1>2, <1>3

LEMMA MailsActs ==
  ASSUME TInv, OInv, NEW p \in Proc, ActsInCall(p)
  PROVE  Mails' /\ Queues'
<1>0. TypeOK /\ open' = open /\ Mails /\ Queues /\ TableOK
  BY InCallActs DEF TInv, OInv, Acts
<1>1. ASSUME NEW g \in open
      PROVE  /\ mail'[SemTable'[g].priv] + Cardinality(Sending(g))' <= Tokens(g)'
             /\ 0 <= SemTable'[g].value
             /\ SemTable'[g].blockedProcs # <<>> => SemTable'[g].value = 0
  <2>1. CASE g = handle[p]
    BY <2>1, OwnActs
  <2>2. CASE g # handle[p]
    <3>1. g \in Sem /\ Live(g)
      BY <1>0 DEF TypeOK, TableOK
    <3>2. /\ SemTable'[g] = SemTable[g] /\ Sending(g)' = Sending(g) /\ Tokens(g)' = Tokens(g)
      BY <2>2, <3>1, OtherActs
    <3>3. mail'[SemTable[g].priv] = mail[SemTable[g].priv]
      BY <2>2, <3>1, ElsewhereActs
    <3> QED BY <1>0, <3>2, <3>3 DEF Mails, Queues
  <2> QED BY <2>1, <2>2
<1> QED BY <1>0, <1>1 DEF Mails, Queues

LEMMA ClosingActs ==
  ASSUME TInv, OInv, NEW p \in Proc, ActsInCall(p)
  PROVE  Closing'
<1>0. TypeOK /\ Acts(p) /\ Calling(p) /\ Closing /\ Places /\ TableOK /\ boxes \in 0 .. MaxBox
  BY InCallActs DEF TInv, OInv, Acts, Calling, TypeOK
<1>h. PICK h \in Sem : h = handle[p]
  BY <1>0 DEF TypeOK
<1>1. SUFFICES ASSUME NEW q \in Proc, NEW g \in Sem, g = handle[q], pc'[q] = "P_wait",
                      g \notin open, SemTable'[g].id # -1
               PROVE  mail'[SemTable'[g].priv] = 0
  <2>1. handle' = handle /\ open' = open /\ handle \in [Proc -> Sem]
    BY <1>0 DEF Acts, TypeOK
  <2> QED BY <2>1 DEF Closing, Live
<1>2. ~(F_lock(p) /\ g = h)
  BY <1>0, <1>h, <1>1, F_lockKeeps
<1>3. Keeps(g)
  <2>1. CASE F_lock(p)
    BY <1>0, <1>h, <1>2, <2>1, F_lockKeeps
  <2>2. CASE ~F_lock(p)
    BY <1>0, <2>2, ActsKeep
  <2> QED BY <2>1, <2>2
<1>4. Live(g) /\ SemTable'[g].priv = SemTable[g].priv
  BY <1>1, <1>3 DEF Keeps, Live
<1>5. pc[q] = "P_wait"
  <2>1. CASE q # p
    BY <1>0, <1>1, <2>1 DEF Acts
  <2>2. CASE q = p
    <3>1. ~Gives(p)
      BY <1>0, <1>1, <2>2, InUse
    <3>2. Evaluate(p)
      BY <1>0, <1>1, <2>2, <3>1, ActsKinds DEF Takes, Passes, Wakes, Frees
    <3> QED BY <1>1, <2>2, <3>2 DEF Evaluate
  <2> QED BY <2>1, <2>2
<1>6. mail[SemTable[g].priv] = 0
  BY <1>0, <1>1, <1>4, <1>5 DEF Closing
<1>7. mail'[SemTable[g].priv] = mail[SemTable[g].priv]
  <2>1. CASE g # h
    BY <1>h, <1>4, <2>1, ElsewhereActs
  <2>2. CASE g = h /\ Evaluate(p)
    BY <2>2 DEF Evaluate
  <2>3. CASE g = h /\ ~Evaluate(p)
    <3>1. Frees(p)
      BY <1>0, <1>h, <1>1, <1>4, <2>3, InUse, ActsKinds
    <3>2. F_lock(p) \/ pc[p] \in {"F_send", "F_unlock"}
      BY <3>1 DEF Frees
    <3>3. ~Live(h)
      BY <1>0, <1>h, <1>2, <2>3, <3>2 DEF Places, Stands, MutexCalls, PrivCalls
    <3> QED BY <1>4, <2>3, <3>3
  <2> QED BY <2>1, <2>2, <2>3
<1> QED BY <1>4, <1>6, <1>7

LEMMA OInvActs ==
  ASSUME TInv, OInv, TInv', NEW p \in Proc, ActsInCall(p)
  PROVE  OInv'
<1>0. TypeOK
  BY DEF TInv
<1>1. Alone' /\ TableOK'
  BY <1>0, AloneActs, TableOKActs
<1>2. Places' /\ Mutexes'
  BY PlacesActs, MutexesActs
<1>3. Mails' /\ Queues'
  BY MailsActs
<1>4. Counted' /\ Closing'
  BY CountedActs, ClosingActs
<1> QED BY <1>1, <1>2, <1>3, <1>4 DEF OInv

-----------------------------------------------------------------------------
(***************************************************************************)
(* The inductive invariant.                                                *)
(***************************************************************************)
LEMMA OInvInit == Init => IInv
<1> SUFFICES ASSUME Init PROVE IInv
  OBVIOUS
<1>1. \A h \in Sem : SemTable[h].id = -1 /\ SemTable[h].priv = NoBox /\ SemTable[h].mutex = NoBox
  BY DEF Init, FreeEntry
<1>2. \A p \in Proc : pc[p] = "user"
  BY DEF Init
<1>3. open = {} /\ numSems = 0
  BY DEF Init
<1>4. Alone
  BY <1>2 DEF Alone
<1>5. TableOK
  BY <1>1, <1>3 DEF TableOK, EntryOK, Live
<1>6. Places
  BY <1>2 DEF Places, Calling, Freeing
<1>7. Mutexes
  BY <1>1 DEF Mutexes, Live
<1>8. Mails /\ Queues
  BY <1>3 DEF Mails, Queues
<1>9. Closing
  BY <1>2 DEF Closing
<1>10. Counted
  <2>1. Used = {} /\ Creators = {}
    BY <1>1, <1>2 DEF Used, Creators
  <2> QED BY <1>3, <2>1, FS_EmptySet DEF Counted
<1> QED BY <1>4, <1>5, <1>6, <1>7, <1>8, <1>9, <1>10, TypesInit DEF IInv, OInv

\* Users that have not been orderly stay so.
LEMMA OrderlyBefore ==
  ASSUME TypeOK, Next, orderly'
  PROVE  orderly
<1>1. PICK p \in Proc :
         \/ \E h \in Sem : semP(p, h) \/ semV(p, h) \/ semFree(p, h)
         \/ \E v \in Values : semCreate(p, v)
         \/ C_find(p) \/ C_fill(p) \/ ActsInCall(p)
  BY NextCases
<1>2. CASE \E h \in Sem : semP(p, h) \/ semV(p, h) \/ semFree(p, h)
  BY <1>2 DEF semP, semV, semFree, Judge, orderly
<1>3. CASE \E v \in Values : semCreate(p, v)
  BY <1>3 DEF semCreate, Judge, orderly
<1>4. CASE C_find(p) \/ C_fill(p)
  BY <1>4 DEF C_find, C_fill, userVars, orderly
<1>5. CASE ActsInCall(p)
  BY <1>5, InCallActs DEF Acts, orderly
<1> QED BY <1>1, <1>2, <1>3, <1>4, <1>5

LEMMA IInvNext ==
  ASSUME IInv, [Next]_vars
  PROVE  IInv'
<1>0. TInv /\ TInv' /\ TypeOK
  BY TypesNext DEF IInv, TInv
<1>1. CASE UNCHANGED vars
  <2>1. UNCHANGED <<SemTable, numSems, slots, mail, line, boxes, pc, handle, at, mine, open, events>>
    BY <1>1 DEF vars, semVars, boxVars, callVars, userVars
  <2>2. orderly' = orderly
    BY <2>1 DEF orderly
  <2>3. OInv' = OInv
    <3>1. Alone' = Alone
      BY <2>1 DEF Alone, Creator, Foreign, FreeEntries, Live
    <3>2. TableOK' = TableOK
      BY <2>1 DEF TableOK, EntryOK, Apart, Live
    <3>3. Places' = Places
      BY <2>1 DEF Places, Calling, Stands, Settles, Foreign, Live
    <3>4. Mutexes' = Mutexes
      BY <2>1 DEF Mutexes, Mutex, InsideOf, Live
    <3>5. Mails' = Mails
      BY <2>1 DEF Mails, Tokens, Sending, Taking, Waiting
    <3>6. Counted' = Counted
      BY <2>1 DEF Counted, Used, Creators
    <3>7. Queues' = Queues /\ Closing' = Closing
      BY <2>1 DEF Queues, Closing, Live
    <3> QED BY <3>1, <3>2, <3>3, <3>4, <3>5, <3>6, <3>7 DEF OInv
  <2> QED BY <1>0, <2>2, <2>3 DEF IInv
<1>2. CASE Next
  <2>0. SUFFICES ASSUME orderly' PROVE OInv'
    BY <1>0 DEF IInv
  <2>1. OInv
    BY <1>0, <1>2, <2>0, OrderlyBefore DEF IInv
  <2>2. PICK p \in Proc :
           \/ \E h \in Sem : semP(p, h) \/ semV(p, h) \/ semFree(p, h)
           \/ \E v \in Values : semCreate(p, v)
           \/ C_find(p) \/ C_fill(p) \/ ActsInCall(p)
    BY <1>2, NextCases
  <2>3. CASE \E h \in Sem : semP(p, h) \/ semV(p, h) \/ semFree(p, h)
    BY <1>0, <2>0, <2>1, <2>3, OInvEnter
  <2>4. CASE \E v \in Values : semCreate(p, v)
    BY <1>0, <2>0, <2>1, <2>4, OInvCreate
  <2>5. CASE C_find(p)
    BY <1>0, <2>1, <2>5, OInvFind
  <2>6. CASE C_fill(p)
    BY <1>0, <2>1, <2>6, OInvFill
  <2>7. CASE ActsInCall(p)
    BY <1>0, <2>1, <2>7, OInvActs
  <2> QED BY <2>2, <2>3, <2>4, <2>5, <2>6, <2>7
<1> QED BY <1>1, <1>2

-----------------------------------------------------------------------------
LEMMA OneInsideNow ==
  ASSUME IInv
  PROVE  OneInside
<1>1. SUFFICES ASSUME orderly, NEW p \in Proc, NEW q \in Proc, pc[p] \in Inside, pc[q] \in Inside,
                      handle[p] = handle[q]
               PROVE  p = q
  BY DEF OneInside
<1>2. TypeOK /\ Places /\ Mutexes
  BY <1>1 DEF IInv, TInv, OInv
<1>3. PICK h \in Sem : h = handle[p]
  BY <1>2 DEF TypeOK
<1>4. CASE Live(h)
  <2>1. Mutex(h, SemTable[h].mutex)
    BY <1>2, <1>4 DEF Mutexes
  <2> QED BY <1>1, <1>3, <2>1 DEF Mutex, InsideOf
<1>5. CASE ~Live(h)
  <2>1. Calling(p) /\ Calling(q)
    BY <1>1 DEF Calling, Inside
  <2>2. pc[p] \in {"P_wait", "F_send", "F_unlock"} /\ pc[q] \in {"P_wait", "F_send", "F_unlock"}
    BY <1>1, <1>2, <1>3, <1>5, <2>1 DEF Places, Stands
  <2>3. pc[p] \in Freeing /\ pc[q] \in Freeing
    BY <1>1, <2>2 DEF Inside, Freeing
  <2> QED BY <1>1, <1>2, <2>3 DEF Places
<1> QED BY <1>4, <1>5

\* The value and the queue of a semaphore are changed by one process at a time,
\* although a P gives the mutex back before it waits and a free clears the id of
\* the mailbox that the others read (phase31.c:415, 424, 477-481, 526).
THEOREM OneProcessInside == Spec => []OneInside
<1>1. IInv => OneInside
  BY OneInsideNow
<1> QED BY OInvInit, IInvNext, <1>1, PTL DEF Spec

LEMMA TableCountedNow ==
  ASSUME IInv
  PROVE  TableCounted
<1>1. SUFFICES ASSUME orderly
               PROVE  /\ numSems = Cardinality({h \in Sem : SemTable[h].id # -1})
                           + Cardinality({p \in Proc : pc[p] \in {"C_find", "C_fill"}})
                      /\ \A p \in Proc : pc[p] = "C_find" => FreeEntries # {}
  BY DEF TableCounted
<1>2. Counted /\ Alone
  BY <1>1 DEF IInv, OInv
<1>3. \A p \in Proc : pc[p] = "C_find" => FreeEntries # {}
  BY <1>2 DEF Alone, Creator
<1> QED BY <1>2, <1>3 DEF Counted, Used, Creators

\* A semCreate that is let in finds a free entry (phase31.c:338, 362, 527).
THEOREM TableIsCounted == Spec => []TableCounted
<1>1. IInv => TableCounted
  BY TableCountedNow
<1> QED BY OInvInit, IInvNext, <1>1, PTL DEF Spec

-----------------------------------------------------------------------------
(***************************************************************************)
(* The semaphores implement counting semaphores.                           *)
(***************************************************************************)
LEMMA CountIs ==
  /\ Count = [g \in Sem |-> IF g \notin open THEN -1 ELSE Tokens(g)]
  /\ Count' = [g \in Sem |-> IF g \notin open' THEN -1 ELSE Tokens(g)']
BY DEF Count, Tokens

\* The counts differ at most at h.
LEMMA CountChanges ==
  ASSUME NEW h \in Sem, NEW x,
         \A g \in Sem : g # h => (g \in open' <=> g \in open)
                                 /\ (g \in open => Tokens(g)' = Tokens(g)),
         x = IF h \notin open' THEN -1 ELSE Tokens(h)'
  PROVE  Count' = [Count EXCEPT ![h] = x] /\ (x = Count[h] => Count' = Count)
<1>1. \A g \in Sem : Count'[g] = IF g = h THEN x ELSE Count[g]
  BY CountIs
<1>2. Count' = [g \in Sem |-> Count'[g]] /\ Count = [g \in Sem |-> Count[g]]
  BY CountIs
<1> QED BY <1>1, <1>2

\* A semaphore in use does not count below zero.
LEMMA TokensNat ==
  ASSUME TypeOK, OInv, NEW h \in open
  PROVE  h \in Sem /\ Tokens(h) \in Nat
<1>1. h \in Sem /\ Live(h) /\ boxes \in 0 .. MaxBox /\ IsFiniteSet(Proc)
  BY DEF TypeOK, OInv, TableOK
<1>2. SemTable[h].priv \in Box
  BY <1>1 DEF OInv, TableOK, EntryOK
<1>3. mail[SemTable[h].priv] \in Nat
  BY <1>2 DEF TypeOK
<1>4. Cardinality(Sending(h)) \in Nat /\ Cardinality(Taking(h)) \in Nat
      /\ Cardinality(Waiting(h)) \in Nat
  <2>1. Sending(h) \subseteq Proc /\ Taking(h) \subseteq Proc /\ Waiting(h) \subseteq Proc
    BY DEF Sending, Taking, Waiting
  <2> QED BY <1>1, <2>1, FS_Subset, FS_CardinalityType
<1>5. mail[SemTable[h].priv] + Cardinality(Sending(h)) <= Tokens(h)
  BY DEF OInv, Mails
<1>6. Tokens(h) \in Int
  <2>1. SemTable[h].value \in Int
    BY <1>1, EntryType
  <2>2. Len(SemTable[h].blockedProcs) \in Nat
    <3>1. SemTable[h].blockedProcs \in Seq(Proc)
      BY <1>1, EntryType
    <3> QED BY <3>1
  <2> QED BY <1>4, <2>1, <2>2 DEF Tokens
<1> QED BY <1>1, <1>3, <1>4, <1>5, <1>6

LEMMA CountsEnter ==
  ASSUME TInv, OInv, NEW p \in Proc, NEW h \in Sem, orderly',
         semP(p, h) \/ semV(p, h) \/ semFree(p, h)
  PROVE  CS!Next \/ Count' = Count
<1>0. TypeOK
  BY DEF TInv
<1>a. /\ pc[p] = "user" /\ handle' = [handle EXCEPT ![p] = h]
      /\ pc'[p] \in {"P_lock", "V_lock", "F_lock"}
      /\ \A q \in Proc : q # p => pc'[q] = pc[q]
      /\ SemTable' = SemTable /\ h \in open
      /\ pc'[p] # "F_lock" => open' = open
      /\ pc'[p] = "F_lock" => open' = open \ {h}
  BY <1>0, EnterIs DEF semVars
<1>b. \A q \in Proc : q # p => handle'[q] = handle[q]
  BY <1>0, <1>a DEF TypeOK
<1>1. \A g : Tokens(g)' = Tokens(g)
  <2>1. \A g : Taking(g)' = Taking(g) /\ Waiting(g)' = Waiting(g)
    BY <1>a, <1>b DEF Taking, Waiting
  <2> QED BY <1>a, <2>1 DEF Tokens
<1>2. CASE pc'[p] # "F_lock"
  BY <1>a, <1>1, <1>2, CountIs
<1>3. CASE pc'[p] = "F_lock"
  <2>1. open' = open \ {h} /\ h \notin open'
    BY <1>a, <1>3
  <2>2. Count' = [Count EXCEPT ![h] = -1]
    BY <1>1, <2>1, CountChanges
  <2>3. Count[h] # -1
    BY <1>0, <1>a, TokensNat, CountIs
  <2> QED BY <2>2, <2>3 DEF CS!Next, CS!Free, CS!None
<1> QED BY <1>2, <1>3

LEMMA CountsFill ==
  ASSUME TInv, OInv, NEW p \in Proc, C_fill(p)
  PROVE  CS!Next
<1>1. PICK h : h = handle[p]
  OBVIOUS
<1>2. PICK v : v = slots[mine[p] - 1]
  OBVIOUS
<1>3. /\ h \in Sem /\ h \notin open /\ v \in Values /\ open' = open \union {h}
      /\ SemTable'[h].value = v /\ SemTable'[h].blockedProcs = <<>>
      /\ Taking(h)' = {} /\ Waiting(h)' = {}
      /\ \A g \in Sem : g # h => /\ SemTable'[g] = SemTable[g]
                                 /\ Taking(g)' = Taking(g) /\ Waiting(g)' = Waiting(g)
  <2>1. handle' = handle
    BY DEF C_fill
  <2> QED BY <1>1, <1>2, <2>1, OInvFill DEF Taking, Waiting
<1>4. Tokens(h)' = v
  <2>1. Cardinality(Taking(h)') = 0 /\ Cardinality(Waiting(h)') = 0
        /\ Len(SemTable'[h].blockedProcs) = 0
    BY <1>3, FS_EmptySet
  <2>2. v \in Nat
    BY <1>3
  <2> QED BY <1>3, <2>1, <2>2 DEF Tokens
<1>5. \A g \in Sem : g # h => Tokens(g)' = Tokens(g)
  BY <1>3 DEF Tokens
<1>6. Count' = [Count EXCEPT ![h] = v]
  BY <1>3, <1>4, <1>5, CountChanges
<1>7. Count[h] = -1
  BY <1>3, CountIs
<1> QED BY <1>3, <1>6, <1>7 DEF CS!Next, CS!Create, CS!None

LEMMA CountsActs ==
  ASSUME TInv, OInv, NEW p \in Proc, ActsInCall(p)
  PROVE  CS!Next \/ Count' = Count
<1>0. TypeOK /\ open' = open
  BY InCallActs DEF TInv, Acts
<1>1. PICK h \in Sem : h = handle[p]
  BY <1>0 DEF TypeOK
<1>2. \A g \in Sem : g # h => Tokens(g)' = Tokens(g)
  BY <1>1, OtherActs
<1>3. CASE h \notin open
  <2>1. \A g \in open : g \in Sem /\ g # h
    BY <1>0, <1>3 DEF TypeOK
  <2> QED BY <1>0, <1>2, <2>1, CountIs
<1>4. CASE h \in open
  <2>1. Count[h] = Tokens(h) /\ Tokens(h) \in Nat
    BY <1>0, <1>4, TokensNat, CountIs
  <2>2. /\ Tokens(h)' \in {Tokens(h), Tokens(h) + 1, Tokens(h) - 1}
        /\ Tokens(h)' = Tokens(h) - 1 => Tokens(h) > 0
    BY <1>1, <1>4, OwnActs
  <2>3. PICK t : t = Tokens(h)'
    OBVIOUS
  <2>4. Count' = [Count EXCEPT ![h] = t] /\ (t = Count[h] => Count' = Count)
    BY <1>0, <1>2, <1>4, <2>3, CountChanges
  <2>5. CASE t = Count[h]
    BY <2>4, <2>5
  <2>6. CASE t = Count[h] + 1
    <3>1. CS!V(h)
      BY <2>1, <2>4, <2>6 DEF CS!V, CS!None
    <3> QED BY <3>1 DEF CS!Next
  <2>7. CASE t = Count[h] - 1 /\ Count[h] > 0
    <3>1. CS!P(h)
      BY <2>1, <2>4, <2>7 DEF CS!P
    <3> QED BY <3>1 DEF CS!Next
  <2> QED BY <2>1, <2>2, <2>3, <2>5, <2>6, <2>7
<1> QED BY <1>3, <1>4

\* No step of an orderly behaviour does to the counts what a counting semaphore
\* could not do.
LEMMA CountsStep ==
  ASSUME IInv, [Next]_vars
  PROVE  [orderly' => CS!Next]_Count
<1>0. TInv /\ TypeOK
  BY DEF IInv, TInv
<1>1. CASE UNCHANGED vars
  <2>1. UNCHANGED <<SemTable, pc, handle, open>>
    BY <1>1 DEF vars, semVars, callVars, userVars
  <2>2. Count' = Count
    BY <2>1 DEF Count, Taking, Waiting
  <2> QED BY <2>2
<1>2. CASE Next
  <2>0. SUFFICES ASSUME orderly' PROVE CS!Next \/ Count' = Count
    OBVIOUS
  <2>1. OInv
    BY <1>0, <1>2, <2>0, OrderlyBefore DEF IInv
  <2>2. PICK p \in Proc :
           \/ \E h \in Sem : semP(p, h) \/ semV(p, h) \/ semFree(p, h)
           \/ \E v \in Values : semCreate(p, v)
           \/ C_find(p) \/ C_fill(p) \/ ActsInCall(p)
    BY <1>2, NextCases
  <2>3. CASE \E h \in Sem : semP(p, h) \/ semV(p, h) \/ semFree(p, h)
    BY <1>0, <2>0, <2>1, <2>3, CountsEnter
  <2>4. CASE \E v \in Values : semCreate(p, v)
    <3>1. /\ UNCHANGED <<SemTable, handle, open>>
          /\ pc[p] = "user" /\ pc'[p] = "C_find"
          /\ \A q \in Proc : q # p => pc'[q] = pc[q]
      BY <1>0, <2>4, semCreateIs
    <3>2. \A g : Taking(g)' = Taking(g) /\ Waiting(g)' = Waiting(g)
      BY <3>1 DEF Taking, Waiting
    <3>3. \A g : Tokens(g)' = Tokens(g)
      BY <3>1, <3>2 DEF Tokens
    <3> QED BY <3>1, <3>3, CountIs
  <2>5. CASE C_find(p)
    <3>1. /\ UNCHANGED <<SemTable, open>>
          /\ pc[p] = "C_find" /\ pc'[p] = "C_fill"
          /\ \A q \in Proc : q # p => pc'[q] = pc[q] /\ handle'[q] = handle[q]
      BY <1>0, <2>5, C_findIs DEF semVars, userVars
    <3>2. \A g : Taking(g)' = Taking(g) /\ Waiting(g)' = Waiting(g)
      BY <3>1 DEF Taking, Waiting
    <3>3. \A g : Tokens(g)' = Tokens(g)
      BY <3>1, <3>2 DEF Tokens
    <3> QED BY <3>1, <3>3, CountIs
  <2>6. CASE C_fill(p)
    BY <1>0, <2>1, <2>6, CountsFill
  <2>7. CASE ActsInCall(p)
    BY <1>0, <2>1, <2>7, CountsActs
  <2> QED BY <2>2, <2>3, <2>4, <2>5, <2>6, <2>7
<1> QED BY <1>1, <1>2

\* In orderly use the entry, its two mailboxes and the places of the processes
\* are a counting semaphore: never do more Ps pass than the start value and the
\* Vs allow (phase31.c:410-441, 471-487).
THEOREM CountsAsSemaphores == Spec => Counts
<1>1. Init => CS!Init
  BY CountIs DEF Init, CS!Init, CS!None
<1>2. Spec => []IInv
  BY OInvInit, IInvNext, PTL DEF Spec
<1>3. IInv /\ [Next]_vars => [orderly' => CS!Next]_Count
  BY CountsStep
<1> QED BY <1>1, <1>2, <1>3, PTL DEF Spec, Counts
=============================================================================
