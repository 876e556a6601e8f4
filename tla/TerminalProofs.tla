-------------------------- MODULE TerminalProofs --------------------------
(***************************************************************************)
(* Proofs about one terminal: no character is lost, repeated or reordered  *)
(* between the driver's mailbox and the lines that are read; the process   *)
(* that is woken for a line is the one that wrote it; and a line is put    *)
(* out in order, and whole if the device reported only when nobody had     *)
(* anything to do.  For any number of processes, any lines, sizes of lines *)
(* and of mailboxes.                                                       *)
(***************************************************************************)
EXTENDS TerminalProperties, TLAPS, SequenceTheorems, NaturalsInduction,
        WellFoundedInduction

\* A non-empty set of natural numbers has a least element.
LEMMA LeastExists ==
  ASSUME NEW S, S \subseteq Nat, S # {}
  PROVE  \E x \in S : \A y \in S : x <= y
<1> DEFINE R == {ss \in Nat \X Nat : ss[1] < ss[2]}
<1>1. IsWellFoundedOn(R, Nat)
  BY NatLessThanWellFounded DEF OpToRel
<1>2. PICK x \in S : \A y \in S : ~(<<y, x>> \in R)
  <2>1. \E x \in S : \A y \in S : ~(<<y, x>> \in R)
    BY <1>1, WFMin
  <2> QED BY <2>1
<1>3. ASSUME NEW y \in S PROVE x <= y
  <2>1. x \in Nat /\ y \in Nat
    OBVIOUS
  <2>2. ~(<<y, x>> \in R)
    BY <1>2
  <2>3. ~(y < x)
    BY <2>1, <2>2
  <2> QED BY <2>1, <2>3
<1> QED BY <1>3

-----------------------------------------------------------------------------
(***************************************************************************)
(* FlattenSeq is defined by recursion on the index; what it is of a longer *)
(* or shorter sequence follows by the least index at which it would fail.  *)
(***************************************************************************)
\* f[i] is the concatenation of the first i sequences.
Flat(f, s) == f[1] = s[1] /\ \A i \in 2 .. Len(s) : f[i] = f[i - 1] \o s[i]

LEMMA FlatExists ==
  ASSUME NEW s, Len(s) \in Nat
  PROVE  \E f : f = [i \in 1 .. Len(s) |-> IF i = 1 THEN s[i] ELSE f[i - 1] \o s[i]]
<1> DEFINE P(n) == \E f : f = [i \in 1 .. n |-> IF i = 1 THEN s[i] ELSE f[i - 1] \o s[i]]
           Bad == {n \in Nat : ~P(n)}
<1> SUFFICES ASSUME Bad # {} PROVE FALSE
  OBVIOUS
<1>1. PICK n \in Bad : \A m \in Bad : n <= m
  <2>1. Bad \subseteq Nat
    OBVIOUS
  <2> QED BY <2>1, LeastExists
<1>2. n # 0
  <2>1. P(0)
    <3> DEFINE f == [i \in {} |-> s]
    <3>1. f = [i \in 1 .. 0 |-> IF i = 1 THEN s[i] ELSE f[i - 1] \o s[i]]
      OBVIOUS
    <3> QED BY <3>1
  <2> QED BY <2>1
<1>3. n - 1 \in Nat /\ P(n - 1)
  <2>1. n - 1 \in Nat /\ n - 1 < n
    BY <1>2
  <2> HIDE DEF P
  <2>2. n - 1 \notin Bad
    <3>1. \A m \in Bad : ~(m < n)
      BY <1>1
    <3> QED BY <2>1, <3>1
  <2> QED BY <2>1, <2>2
<1>4. PICK f : f = [i \in 1 .. n - 1 |-> IF i = 1 THEN s[i] ELSE f[i - 1] \o s[i]]
  BY <1>3
<1> DEFINE g == [i \in 1 .. n |-> IF i = 1 THEN s[i] ELSE f[i - 1] \o s[i]]
<1>5. \A i \in 1 .. n - 1 : g[i] = f[i]
  <2> SUFFICES ASSUME NEW i \in 1 .. n - 1 PROVE g[i] = f[i]
    OBVIOUS
  <2>1. g[i] = IF i = 1 THEN s[i] ELSE f[i - 1] \o s[i]
    OBVIOUS
  <2>2. f[i] = IF i = 1 THEN s[i] ELSE f[i - 1] \o s[i]
    BY <1>4
  <2> QED BY <2>1, <2>2
<1>6. g = [i \in 1 .. n |-> IF i = 1 THEN s[i] ELSE g[i - 1] \o s[i]]
  <2>1. \A i \in 1 .. n : i # 1 => g[i - 1] = f[i - 1]
    <3> SUFFICES ASSUME NEW i \in 1 .. n, i # 1 PROVE g[i - 1] = f[i - 1]
      OBVIOUS
    <3>1. i - 1 \in 1 .. n - 1
      OBVIOUS
    <3> QED BY <3>1, <1>5
  <2> DEFINE h == [i \in 1 .. n |-> IF i = 1 THEN s[i] ELSE g[i - 1] \o s[i]]
  <2>2. DOMAIN g = 1 .. n /\ DOMAIN h = 1 .. n
    OBVIOUS
  <2>3. \A i \in 1 .. n : g[i] = h[i]
    <3> SUFFICES ASSUME NEW i \in 1 .. n PROVE g[i] = h[i]
      OBVIOUS
    <3>1. g[i] = IF i = 1 THEN s[i] ELSE f[i - 1] \o s[i]
      OBVIOUS
    <3> HIDE DEF g
    <3>2. h[i] = IF i = 1 THEN s[i] ELSE g[i - 1] \o s[i]
      OBVIOUS
    <3> QED BY <3>1, <3>2, <2>1
  <2>4. g = [i \in 1 .. n |-> g[i]] /\ h = [i \in 1 .. n |-> h[i]]
    OBVIOUS
  <2> HIDE DEF g, h
  <2>5. g = h
    BY <2>3, <2>4
  <2> QED BY <2>5 DEF h
<1>7. P(n)
  BY <1>6
<1> QED BY <1>7

LEMMA FlattenIs ==
  ASSUME NEW s, Len(s) \in Nat, Len(s) # 0
  PROVE  \E f : Flat(f, s) /\ FlattenSeq(s) = f[Len(s)]
<1> DEFINE f == CHOOSE f : f = [i \in 1 .. Len(s) |-> IF i = 1 THEN s[i] ELSE f[i - 1] \o s[i]]
<1>1. f = [i \in 1 .. Len(s) |-> IF i = 1 THEN s[i] ELSE f[i - 1] \o s[i]]
  BY FlatExists
<1>2. FlattenSeq(s) = f[Len(s)]
  BY Zenon DEF FlattenSeq
<1> HIDE DEF f
<1>3. f[1] = s[1]
  <2>1. 1 \in 1 .. Len(s)
    OBVIOUS
  <2> QED BY <1>1, <2>1
<1>4. \A i \in 2 .. Len(s) : f[i] = f[i - 1] \o s[i]
  <2> SUFFICES ASSUME NEW i \in 2 .. Len(s) PROVE f[i] = f[i - 1] \o s[i]
    OBVIOUS
  <2>1. i \in 1 .. Len(s) /\ i # 1
    OBVIOUS
  <2> QED BY <1>1, <2>1
<1> QED BY <1>2, <1>3, <1>4 DEF Flat

LEMMA FlatSeqs ==
  ASSUME NEW T, NEW s \in Seq(Seq(T)), NEW f, Flat(f, s), NEW n \in 1 .. Len(s)
  PROVE  f[n] \in Seq(T)
<1> DEFINE Bad == {i \in 1 .. Len(s) : f[i] \notin Seq(T)}
<1> SUFFICES ASSUME Bad # {} PROVE FALSE
  OBVIOUS
<1>0. Len(s) \in Nat /\ \A i \in 1 .. Len(s) : s[i] \in Seq(T)
  OBVIOUS
<1>1. PICK i \in Bad : \A j \in Bad : i <= j
  <2>1. Bad \subseteq Nat
    OBVIOUS
  <2> QED BY <2>1, LeastExists
<1>2. i # 1
  BY <1>0 DEF Flat
<1>3. i - 1 \in 1 .. Len(s) /\ i - 1 < i /\ i \in 2 .. Len(s)
  BY <1>2, <1>0
<1>4. f[i - 1] \in Seq(T)
  BY <1>1, <1>3
<1>5. f[i] = f[i - 1] \o s[i]
  BY <1>3 DEF Flat
<1>6. f[i] \in Seq(T)
  BY <1>0, <1>3, <1>4, <1>5, ConcatProperties
<1> QED BY <1>6

LEMMA FlattenEmpty == FlattenSeq(<<>>) = <<>>
BY DEF FlattenSeq

LEMMA FlattenType ==
  ASSUME NEW T, NEW s \in Seq(Seq(T))
  PROVE  FlattenSeq(s) \in Seq(T)
<1>1. Len(s) \in Nat
  OBVIOUS
<1>2. CASE Len(s) = 0
  <2>1. s = <<>>
    BY <1>2, EmptySeq
  <2>2. <<>> \in Seq(T)
    OBVIOUS
  <2> QED BY <2>1, <2>2, FlattenEmpty
<1>3. CASE Len(s) # 0
  <2>1. PICK f : Flat(f, s) /\ FlattenSeq(s) = f[Len(s)]
    BY <1>1, <1>3, FlattenIs
  <2>2. Len(s) \in 1 .. Len(s)
    BY <1>1, <1>3
  <2>3. f[Len(s)] \in Seq(T)
    BY <2>1, <2>2, FlatSeqs, Zenon
  <2> QED BY <2>1, <2>3
<1> QED BY <1>2, <1>3

\* Grouping does not matter.
Assoc(a, b, c) == (a \o b) \o c = a \o (b \o c)
LEMMA Associative ==
  ASSUME NEW T, NEW a \in Seq(T), NEW b \in Seq(T), NEW c \in Seq(T)
  PROVE  Assoc(a, b, c)
BY ConcatAssociative DEF Assoc

LEMMA FlattenAppend ==
  ASSUME NEW T, NEW s \in Seq(Seq(T)), NEW x \in Seq(T)
  PROVE  FlattenSeq(Append(s, x)) = FlattenSeq(s) \o x
<1> DEFINE t == Append(s, x)
           n == Len(s)
<1>1. /\ n \in Nat /\ t \in Seq(Seq(T)) /\ Len(t) = n + 1
      /\ \A i \in 1 .. n : t[i] = s[i]
      /\ t[n + 1] = x
  OBVIOUS
<1> HIDE DEF t
<1>2. PICK g : Flat(g, t) /\ FlattenSeq(t) = g[n + 1]
  <2>1. Len(t) \in Nat /\ Len(t) # 0
    BY <1>1
  <2> QED BY <1>1, <2>1, FlattenIs
<1>3. CASE n = 0
  <2>1. FlattenSeq(s) = <<>>
    BY <1>3, EmptySeq, FlattenEmpty
  <2>2. FlattenSeq(t) = x
    BY <1>1, <1>2, <1>3 DEF Flat
  <2> QED BY <2>1, <2>2, ConcatEmptySeq DEF t
<1>4. CASE n # 0
  <2>1. PICK f : Flat(f, s) /\ FlattenSeq(s) = f[n]
    BY <1>1, <1>4, FlattenIs
  <2> DEFINE Bad == {i \in 1 .. n : g[i] # f[i]}
  <2>2. Bad = {}
    <3> SUFFICES ASSUME Bad # {} PROVE FALSE
      OBVIOUS
    <3>1. PICK i \in Bad : \A j \in Bad : i <= j
      <4>1. Bad \subseteq Nat
        OBVIOUS
      <4> QED BY <4>1, LeastExists
    <3>2. i # 1
      BY <1>1, <1>2, <2>1 DEF Flat
    <3>3. i - 1 \in 1 .. n /\ i - 1 < i /\ i \in 2 .. n /\ i \in 2 .. n + 1
      BY <1>1, <3>2
    <3>4. g[i - 1] = f[i - 1]
      BY <3>1, <3>3
    <3>5. f[i] = f[i - 1] \o s[i]
      BY <2>1, <3>3 DEF Flat
    <3>6. g[i] = g[i - 1] \o t[i] /\ t[i] = s[i]
      BY <1>1, <1>2, <3>3 DEF Flat
    <3> QED BY <3>4, <3>5, <3>6
  <2>3. n \in 1 .. n /\ n + 1 \in 2 .. n + 1
    BY <1>1, <1>4
  <2>4. g[n] = f[n]
    BY <2>2, <2>3
  <2>5. g[n + 1] = g[n] \o t[n + 1]
    <3>1. PICK i \in 2 .. Len(t) : i = n + 1 /\ i - 1 = n
      BY <1>1, <2>3
    <3>2. g[i] = g[i - 1] \o t[i]
      BY <1>2 DEF Flat
    <3> QED BY <3>1, <3>2
  <2> QED BY <1>1, <1>2, <2>1, <2>4, <2>5 DEF t
<1> QED BY <1>3, <1>4

\* t is s without its first sequence; what f and g make of them.
Ahead(f, g, s, n) == \A i \in 1 .. n : f[i + 1] = s[1] \o g[i]
WithHead(s, t, n) == Len(s) = n + 1 /\ Len(t) = n /\ \A i \in 1 .. n : t[i] = s[i + 1]

\* Without its first sequence, everything that follows it is concatenated alike.
LEMMA FlatTail ==
  ASSUME NEW T, NEW s \in Seq(Seq(T)), NEW t \in Seq(Seq(T)),
         NEW n \in Nat, WithHead(s, t, n),
         NEW f, Flat(f, s), NEW g, Flat(g, t)
  PROVE  Ahead(f, g, s, n)
<1> USE DEF WithHead, Ahead
<1> DEFINE Bad == {i \in 1 .. n : f[i + 1] # s[1] \o g[i]}
<1> SUFFICES ASSUME Bad # {} PROVE FALSE
  OBVIOUS
<1>1. PICK i \in Bad : \A j \in Bad : i <= j
  <2>1. 1 .. n \subseteq Nat
    OBVIOUS
  <2>2. Bad \subseteq 1 .. n
    BY Zenon
  <2> HIDE DEF Bad
  <2>3. Bad \subseteq Nat
    BY <2>1, <2>2
  <2> QED BY <2>3, LeastExists
<1>2. i \in 1 .. n /\ f[i + 1] # s[1] \o g[i]
  OBVIOUS
<1>3. ASSUME NEW j \in 1 .. n, j < i PROVE f[j + 1] = s[1] \o g[j]
  <2> SUFFICES ASSUME j \in Bad PROVE FALSE
    BY <1>3
  <2>1. i <= j
    BY <1>1, Zenon
  <2> HIDE DEF Bad
  <2> QED BY <2>1, <1>2, <1>3
<1> HIDE DEF Bad
<1>4. PICK k \in 2 .. Len(s) : k = i + 1 /\ k - 1 = i
  BY <1>2
<1>5. f[k] = f[i] \o s[k]
  <2>1. f[k] = f[k - 1] \o s[k]
    BY DEF Flat
  <2> QED BY <2>1, <1>4
<1>6. t[i] = s[k]
  BY <1>2, <1>4
<1>7. CASE i = 1
  <2>1. f[i] = s[1] /\ g[i] = s[k]
    BY <1>6, <1>7 DEF Flat
  <2> QED BY <1>2, <1>4, <1>5, <2>1
<1>8. CASE i # 1
  <2>1. PICK j \in 1 .. n : j + 1 = i /\ i - 1 = j /\ j < i /\ i \in 2 .. n
    BY <1>2, <1>8
  <2>2. f[i] = s[1] \o g[j]
    BY <1>3, <2>1
  <2>3. g[i] = g[j] \o s[k]
    <3>1. g[i] = g[i - 1] \o t[i]
      BY <2>1 DEF Flat
    <3> QED BY <3>1, <2>1, <1>6
  <2>4. g[j] \in Seq(T)
    BY FlatSeqs
  <2>5. s[1] \in Seq(T) /\ s[k] \in Seq(T)
    BY <1>4
  <2>6. (s[1] \o g[j]) \o s[k] = s[1] \o (g[j] \o s[k])
    <3>1. Assoc(s[1], g[j], s[k])
      BY <2>4, <2>5, Associative, Zenon
    <3> QED BY <3>1 DEF Assoc
  <2> QED BY <1>2, <1>4, <1>5, <2>2, <2>3, <2>6
<1> QED BY <1>7, <1>8

LEMMA FlattenHead ==
  ASSUME NEW T, NEW s \in Seq(Seq(T)), s # <<>>
  PROVE  FlattenSeq(s) = Head(s) \o FlattenSeq(Tail(s))
<1> DEFINE tl == Tail(s)
<1>1. PICK n \in Nat : Len(s) = n + 1
  <2>1. Len(s) \in Nat /\ Len(s) # 0
    BY EmptySeq
  <2>2. Len(s) - 1 \in Nat /\ Len(s) = (Len(s) - 1) + 1
    BY <2>1
  <2> QED BY <2>2
<1>2. /\ tl \in Seq(Seq(T)) /\ Len(tl) = n
      /\ \A i \in 1 .. n : tl[i] = s[i + 1]
      /\ s[1] = Head(s) /\ Head(s) \in Seq(T)
  BY <1>1
<1> HIDE DEF tl
<1>3. PICK f : Flat(f, s) /\ FlattenSeq(s) = f[n + 1]
  <2>1. Len(s) \in Nat /\ Len(s) # 0
    BY <1>1
  <2> QED BY <1>1, <2>1, FlattenIs
<1>4. CASE n = 0
  <2>1. FlattenSeq(tl) = <<>>
    BY <1>2, <1>4, EmptySeq, FlattenEmpty
  <2>2. f[n + 1] = Head(s)
    BY <1>2, <1>3, <1>4 DEF Flat
  <2>3. Head(s) \o <<>> = Head(s)
    BY <1>2, ConcatEmptySeq
  <2> QED BY <1>3, <2>1, <2>2, <2>3 DEF tl
<1>5. CASE n # 0
  <2>1. PICK g : Flat(g, tl) /\ FlattenSeq(tl) = g[n]
    BY <1>2, <1>5, FlattenIs
  <2>2. n \in 1 .. n
    BY <1>5
  <2>3. Ahead(f, g, s, n)
    <3>1. Flat(f, s) /\ Flat(g, tl)
      BY <1>3, <2>1
    <3>2. WithHead(s, tl, n)
      BY <1>1, <1>2 DEF WithHead
    <3>3. tl \in Seq(Seq(T))
      BY <1>2
    <3>4. n \in Nat /\ s \in Seq(Seq(T))
      OBVIOUS
    <3> HIDE DEF WithHead, Flat
    <3> QED BY ONLY <3>1, <3>2, <3>3, <3>4, FlatTail, ZenonT(30)
  <2>4. f[n + 1] = s[1] \o g[n]
    BY <2>2, <2>3 DEF Ahead
  <2> QED BY <1>2, <1>3, <2>1, <2>4 DEF tl
<1> QED BY <1>4, <1>5

-----------------------------------------------------------------------------
(***************************************************************************)
(* The inductive invariant.  Types first: what TypeOK says of lengths, and *)
(* of what the mailboxes and the reader's line hold.                       *)
(***************************************************************************)
Text == Char \union {Blank}
Held == Text \union {NONE}

ControlTypes  == control \in [recv_int : BOOLEAN, xmit_int : BOOLEAN]
DeviceTypes   == busy \in BOOLEAN /\ typed \in 0 .. MaxTyped
RecvTypes     == char_recv \in Seq(Held) /\ Len(char_recv) <= CharSlots
SendTypes     == char_send \in Seq({"ready"}) /\ Len(char_send) <= CharSlots
ReadTypes     == line_read \in Seq(Seq(Text)) /\ Len(line_read) <= LineSlots
WriteTypes    == line_write \in Seq(OutLine) /\ Len(line_write) <= LineSlots
PidTypes      == pid_mbox \in Seq(User) /\ Len(pid_mbox) <= PidSlots
DriverTypes   == driver \in [pc : {"waitdevice", "woken", "ended"}, char : Held]
PcTypes       == pc \in [User -> {"user", "read", "pid", "line", "semp"}]
SizeTypes     == size \in [User -> Nat]
SemTypes      == block_sem \in [User -> 0 .. 1]
EndTypes      == /\ start3 \in {"start4", "zapReader", "joinReader", "zapWriter", "joinWriter",
                              "zapDriver"}
               /\ zapped \subseteq {"driver", "reader", "writer"}
AcceptedTypes == accepted \in Seq(Held)
TakenTypes    == taken \in Seq(Seq(Text))
ShownTypes    == shown \in Seq(Nat)
FlagTypes     == term_int \in BOOLEAN /\ late \in BOOLEAN /\ silenced \in BOOLEAN

\* There is room for a character as long as the reader waits for one.
ReaderTypes ==
  /\ reader \in [pc : {"receive", "send", "ended"}, receive : Text, line : Seq(Text)]
  /\ Len(reader.line) <= MAXLINE
  /\ reader.pc = "receive" => Len(reader.line) < MAXLINE

\* Where in its line the writer is.
AtLine == writer.pc \in {"ready", "put", "finish", "pid"}
WriterTypes ==
  /\ writer \in [pc : {"line", "ready", "put", "finish", "pid", "ended"}, line : OutLine,
                 next : 0 .. MAXLINE, ctrl : BOOLEAN]
  /\ writer.pc \in {"ready", "put"} => writer.next < writer.line.size
  /\ writer.pc \in {"finish", "pid"} => writer.next = writer.line.size

\* q is not in the part of term_write_real that belongs to one process at a
\* time, or has been told that its line was written.
Settled(q) == pc[q] # "line" /\ (pc[q] = "semp" => block_sem[q] = 1)

NobodyWrites ==
  /\ pid_mbox = <<>> /\ \A q \in User : Settled(q)
  /\ start3 = "start4" => line_write = <<>> /\ writer.pc = "line"

\* Where the line of p is.
ToSend(p)    == pc[p] = "line" /\ line_write = <<>> /\ writer.pc = "line"
Dropped(p)   == pc[p] = "semp" /\ line_write = <<>> /\ writer.pc = "line"
Waits(p)     == /\ pc[p] = "semp" /\ Len(line_write) = 1 /\ Head(line_write).by = p
                /\ writer.pc = "line"
IsWritten(p) == pc[p] = "semp" /\ line_write = <<>> /\ AtLine /\ writer.line.by = p

Writes(p) ==
  /\ pid_mbox = <<p>> /\ start3 = "start4" /\ block_sem[p] = 0
  /\ \A q \in User : q # p => Settled(q)
  /\ ToSend(p) \/ Dropped(p) \/ Waits(p) \/ IsWritten(p)

Pairs ==
  /\ start3 = "start4" => "writer" \notin zapped
  /\ start3 # "start4" => \A q \in User : pc[q] = "user"
  /\ \A q \in User : block_sem[q] > 0 => pc[q] = "semp"
  /\ NobodyWrites \/ \E p \in User : Writes(p)

\* The characters of the line put out so far.
InOrder == /\ \A i, j \in 1 .. Len(shown) : i < j => shown[i] < shown[j]
           /\ \A i \in 1 .. Len(shown) : shown[i] < writer.next
ShownSoFar ==
  AtLine => InOrder /\ (~late => shown = [i \in 1 .. writer.next |-> i - 1])

\* If the device reported only when nobody had anything to do, it is idle
\* whenever it says so, until it gets a character.
Idle ==
  ~late =>
    /\ driver.pc = "woken" => ~busy /\ WriterBlocked
    /\ char_send # <<>> => ~busy
    /\ writer.pc = "put" => ~busy /\ char_send = <<>> /\ driver.pc # "woken"

\* A line as it is read.
Ends(line) == {i \in 1 .. Len(line) : line[i] \in Newlines}
Whole(line) == Ends(line) = {Len(line)} \/ (Ends(line) = {} /\ Len(line) = MAXLINE)

Lines ==
  start3 = "start4" =>
    /\ "reader" \notin zapped /\ reader.pc # "ended"
    /\ char_recv \in Seq(Char) /\ driver.char \in Char \union {NONE}
    /\ accepted = FlattenSeq(taken) \o FlattenSeq(line_read) \o reader.line \o char_recv
    /\ \A n \in 1 .. Len(taken) : Whole(taken[n])
    /\ \A n \in 1 .. Len(line_read) : Whole(line_read[n])
    /\ reader.pc = "send" => Whole(reader.line)
    /\ reader.pc = "receive" => Ends(reader.line) = {}

TInv ==
  /\ ControlTypes /\ DeviceTypes /\ RecvTypes /\ SendTypes /\ ReadTypes /\ WriteTypes
  /\ PidTypes /\ DriverTypes /\ ReaderTypes /\ WriterTypes /\ PcTypes /\ SizeTypes /\ SemTypes
  /\ EndTypes /\ AcceptedTypes /\ TakenTypes /\ ShownTypes /\ FlagTypes

-----------------------------------------------------------------------------
\* The steps one at a time.
LEMMA Steps ==
  ASSUME Next
  PROVE  \/ Poll \/ TermDriver \/ ReceiveChar \/ SendLine
         \/ TakeLine \/ AwaitReady \/ PutChar \/ FinishLine \/ WakeWriter
         \/ \E p \in User : term_read_real(p)
         \/ \E p \in User, n \in Sizes : term_write_real(p, n)
         \/ \E p \in User : GetLine(p)
         \/ \E p \in User : SendPid(p)
         \/ \E p \in User : SendText(p)
         \/ \E p \in User : AwaitWritten(p)
         \/ Start3
<1>1. \/ Poll \/ TermDriver \/ TermReader \/ TermWriter \/ Start3
      \/ \E p \in User : term_read_real(p) \/ (\E n \in Sizes : term_write_real(p, n)) \/ InCall(p)
  BY Zenon DEF Next
<1>2. TermReader => ReceiveChar \/ SendLine
  BY Zenon DEF TermReader
<1>3. TermWriter => TakeLine \/ AwaitReady \/ PutChar \/ FinishLine \/ WakeWriter
  BY Zenon DEF TermWriter
<1>4. \A p \in User : InCall(p) => GetLine(p) \/ SendPid(p) \/ SendText(p) \/ AwaitWritten(p)
  BY Zenon DEF InCall
<1> QED BY <1>1, <1>2, <1>3, <1>4, Zenon

\* The size of a line is within the bound.
LEMMA LineSizes == \A l \in OutLine : l.size \in 0 .. MAXLINE
BY TerminalAssumption DEF OutLine, NoLine

LEMMA Characters ==
  /\ Char \subseteq Text /\ Text \subseteq Held /\ NONE \in Held /\ Blank \in Text
  /\ \A c \in Held : c # NONE => c \in Text
BY DEF Text, Held

LEMMA InitTypes == Init => TInv
<1> SUFFICES ASSUME Init PROVE TInv
  OBVIOUS
<1> USE TerminalAssumption DEF Init
<1>1. ControlTypes /\ DeviceTypes
  <2>1. ControlTypes
    BY DEF ControlTypes
  <2>2. busy = FALSE /\ typed = 0
    OBVIOUS
  <2>3. DeviceTypes
    <3>1. 0 \in 0 .. MaxTyped
      OBVIOUS
    <3> QED BY <2>2, <3>1, Zenon DEF DeviceTypes
  <2> QED BY <2>1, <2>3, Zenon
<1>2. RecvTypes /\ SendTypes
  BY DEF RecvTypes, SendTypes, CharSlots
<1>3. ReadTypes /\ WriteTypes
  BY DEF ReadTypes, WriteTypes
<1>4. PidTypes
  BY DEF PidTypes, PidSlots
<1>5. DriverTypes
  BY DEF DriverTypes, Held
<1>6. ReaderTypes
  <2>1. Blank \in Text /\ <<>> \in Seq(Text)
    BY DEF Text
  <2>2. reader = [pc |-> "receive", receive |-> Blank, line |-> <<>>] /\ 0 < MAXLINE
    OBVIOUS
  <2> QED BY <2>1, <2>2 DEF ReaderTypes
<1>7. WriterTypes
  <2>1. NoLine \in OutLine
    BY DEF OutLine
  <2> QED BY <2>1 DEF WriterTypes
<1>8. PcTypes /\ SizeTypes /\ SemTypes
  BY DEF PcTypes, SizeTypes, SemTypes
<1>9. EndTypes
  BY DEF EndTypes
<1>10. AcceptedTypes /\ TakenTypes /\ ShownTypes
  BY DEF AcceptedTypes, TakenTypes, ShownTypes
<1>11. FlagTypes
  BY DEF FlagTypes
<1> QED
  BY <1>1, <1>2, <1>3, <1>4, <1>5, <1>6, <1>7, <1>8, <1>9, <1>10, <1>11, Zenon DEF TInv

LEMMA TypesKept ==
  ASSUME TInv, Pairs, Next
  PROVE  TInv'
<1> USE DEF deviceVars, boxVars, driverVars, userVars, endVars,
        seenVars, readerRest, writerRest, userRest
<1>0. /\ ControlTypes /\ DeviceTypes /\ RecvTypes /\ SendTypes /\ ReadTypes /\ WriteTypes
      /\ PidTypes /\ DriverTypes /\ ReaderTypes /\ WriterTypes /\ PcTypes /\ SizeTypes /\ SemTypes
      /\ EndTypes /\ AcceptedTypes /\ TakenTypes /\ ShownTypes /\ FlagTypes
  BY Zenon DEF TInv
<1>1. ASSUME Poll PROVE TInv'
  <2>1. DeviceTypes'
    <3>1. PICK ch \in Input : typed' = IF ch \in Char THEN ch ELSE typed
      BY <1>1 DEF Poll
    <3>2. typed' \in 0 .. MaxTyped
      BY <1>0, <3>1, TerminalAssumption DEF Char, DeviceTypes
    <3>3. busy' = FALSE
      BY <1>1 DEF Poll
    <3> QED BY <1>0, <3>2, <3>3 DEF DeviceTypes
  <2>2. DriverTypes'
    <3>1. PICK ch \in Input : driver' = driver \/ driver' = [pc |-> "woken", char |-> ch]
      BY <1>1 DEF Poll
    <3>2. ch \in Held
      BY <1>0, <3>1, TerminalAssumption DEF DeviceTypes, Input, Held, Text, Char, NONE, Blank
    <3> QED BY <1>0, <3>1, <3>2 DEF DriverTypes
  <2>3. FlagTypes'
    BY <1>0, <1>1 DEF Poll, FlagTypes
  <2>4. UNCHANGED <<control, char_recv, char_send, line_read, line_write, pid_mbox, reader,
                    writer, pc, size, block_sem, start3, zapped, accepted, taken, shown>>
    BY <1>1 DEF Poll
  <2>5. /\ ControlTypes' /\ RecvTypes' /\ SendTypes' /\ ReadTypes' /\ WriteTypes' /\ PidTypes'
        /\ ReaderTypes' /\ WriterTypes' /\ PcTypes' /\ SizeTypes' /\ SemTypes' /\ EndTypes'
        /\ AcceptedTypes' /\ TakenTypes' /\ ShownTypes'
    BY <1>0, <2>4 DEF ControlTypes, RecvTypes, SendTypes, ReadTypes, WriteTypes, PidTypes,
      ReaderTypes, WriterTypes, PcTypes, SizeTypes, SemTypes, EndTypes, AcceptedTypes,
      TakenTypes, ShownTypes
  <2> QED BY <2>1, <2>2, <2>3, <2>5, Zenon DEF TInv
<1>2. ASSUME TermDriver PROVE TInv'
  <2>1. RecvTypes'
    <3>1. \/ char_recv' = char_recv
          \/ char_recv' = Append(char_recv, driver.char) /\ Len(char_recv) < 1
      BY <1>2 DEF TermDriver, Received, CharSlots
    <3>2. driver.char \in Held
      BY <1>0 DEF DriverTypes
    <3> QED BY <1>0, <3>1, <3>2 DEF RecvTypes, CharSlots
  <2>2. SendTypes'
    BY <1>0, <1>2 DEF TermDriver, SendTypes, Ready, CharSlots
  <2>3. DriverTypes'
    <3>1. \/ driver' = [driver EXCEPT !.pc = "ended"]
          \/ driver' = [pc |-> "waitdevice", char |-> NONE]
      BY <1>2 DEF TermDriver
    <3>2. NONE \in Held
      BY DEF Held
    <3> QED BY <1>0, <3>1, <3>2 DEF DriverTypes
  <2>4. AcceptedTypes'
    <3>1. accepted' = accepted \/ accepted' = Append(accepted, driver.char)
      BY <1>2 DEF TermDriver
    <3>2. driver.char \in Held
      BY <1>0 DEF DriverTypes
    <3> QED BY <1>0, <3>1, <3>2 DEF AcceptedTypes
  <2>5. UNCHANGED <<control, busy, typed, line_read, line_write, pid_mbox, reader, writer, pc,
                    size, block_sem, start3, zapped, taken, shown, term_int, late, silenced>>
    BY <1>2 DEF TermDriver
  <2>6. /\ ControlTypes' /\ DeviceTypes' /\ ReadTypes' /\ WriteTypes' /\ PidTypes' /\ ReaderTypes'
        /\ WriterTypes' /\ PcTypes' /\ SizeTypes' /\ SemTypes' /\ EndTypes' /\ TakenTypes'
        /\ ShownTypes' /\ FlagTypes'
    BY <1>0, <2>5 DEF ControlTypes, DeviceTypes, ReadTypes, WriteTypes, PidTypes, ReaderTypes,
      WriterTypes, PcTypes, SizeTypes, SemTypes, EndTypes, TakenTypes, ShownTypes, FlagTypes
  <2> QED BY <2>1, <2>2, <2>3, <2>4, <2>6, Zenon DEF TInv
<1>3. ASSUME ReceiveChar PROVE TInv'
  <2>1. RecvTypes'
    <3>1. char_recv # <<>> /\ char_recv' = Tail(char_recv)
      BY <1>3 DEF ReceiveChar
    <3>2. char_recv' \in Seq(Held) /\ Len(char_recv') = Len(char_recv) - 1 /\ Len(char_recv) \in Nat
      BY <1>0, <3>1 DEF RecvTypes
    <3> QED BY <1>0, <3>2, TerminalAssumption DEF RecvTypes, CharSlots
  <2>2. ReaderTypes'
    <3> DEFINE ch == IF Head(char_recv) = NONE THEN reader.receive ELSE Head(char_recv)
    <3>1. PICK ends \in EndsLine(ch, reader.line) :
            reader' = [pc |-> IF ends THEN "send" ELSE Again("reader"), receive |-> ch,
                       line |-> Append(reader.line, ch)]
      BY <1>3 DEF ReceiveChar
    <3>2. reader.pc = "receive" /\ char_recv # <<>>
      BY <1>3 DEF ReceiveChar
    <3>3. ch \in Text
      <4>1. Head(char_recv) \in Held
        BY <1>0, <3>2 DEF RecvTypes
      <4>2. reader.receive \in Text
        BY <1>0 DEF ReaderTypes
      <4> QED BY <4>1, <4>2 DEF Held
    <3> HIDE DEF ch
    <3>4. Len(reader.line) < MAXLINE /\ reader.line \in Seq(Text)
      BY <1>0, <3>2 DEF ReaderTypes
    <3>5. /\ Append(reader.line, ch) \in Seq(Text)
          /\ Len(Append(reader.line, ch)) = Len(reader.line) + 1 /\ Len(reader.line) \in Nat
      BY <3>3, <3>4
    <3>6. /\ Len(reader.line) + 1 <= MAXLINE
          /\ (~ends => Len(reader.line) + 1 < MAXLINE)
      <4>1. Len(reader.line) + 1 = MAXLINE => ends
        BY <3>1 DEF EndsLine
      <4> QED BY <3>4, <3>5, <4>1, TerminalAssumption
    <3>7. (IF ends THEN "send" ELSE Again("reader")) \in {"receive", "send", "ended"}
      BY DEF Again
    <3>8. ends => (IF ends THEN "send" ELSE Again("reader")) = "send"
      OBVIOUS
    <3> HIDE DEF Again
    <3> QED BY <3>1, <3>3, <3>5, <3>6, <3>7, <3>8 DEF ReaderTypes
  <2>3. UNCHANGED <<control, busy, typed, char_send, line_read, line_write, pid_mbox, driver,
                    writer, pc, size, block_sem, start3, zapped, accepted, taken, shown,
                    term_int, late, silenced>>
    BY <1>3 DEF ReceiveChar
  <2>4. /\ ControlTypes' /\ DeviceTypes' /\ SendTypes' /\ ReadTypes' /\ WriteTypes' /\ PidTypes'
        /\ DriverTypes' /\ WriterTypes' /\ PcTypes' /\ SizeTypes' /\ SemTypes' /\ EndTypes'
        /\ AcceptedTypes' /\ TakenTypes' /\ ShownTypes' /\ FlagTypes'
    BY <1>0, <2>3 DEF ControlTypes, DeviceTypes, SendTypes, ReadTypes, WriteTypes, PidTypes,
      DriverTypes, WriterTypes, PcTypes, SizeTypes, SemTypes, EndTypes, AcceptedTypes,
      TakenTypes, ShownTypes, FlagTypes
  <2> QED BY <2>1, <2>2, <2>4, Zenon DEF TInv
<1>4. ASSUME SendLine PROVE TInv'
  <2>1. ReadTypes'
    <3>1. Len(line_read) < LineSlots /\ line_read' = Append(line_read, reader.line)
      BY <1>4 DEF SendLine
    <3>2. reader.line \in Seq(Text)
      BY <1>0 DEF ReaderTypes
    <3>3. line_read' \in Seq(Seq(Text)) /\ Len(line_read') = Len(line_read) + 1
      BY <1>0, <3>1, <3>2 DEF ReadTypes
    <3> QED BY <1>0, <3>1, <3>3, TerminalAssumption DEF ReadTypes
  <2>2. ReaderTypes'
    <3>1. reader' = [reader EXCEPT !.pc = Again("reader"), !.line = <<>>]
      BY <1>4 DEF SendLine
    <3>2. Again("reader") \in {"receive", "send", "ended"}
      BY DEF Again
    <3> HIDE DEF Again
    <3>3. <<>> \in Seq(Text) /\ Len(<<>>) = 0 /\ 0 < MAXLINE
      BY TerminalAssumption
    <3>4. /\ reader' \in [pc : {"receive", "send", "ended"}, receive : Text, line : Seq(Text)]
          /\ reader'.line = <<>>
      BY <1>0, <3>1, <3>2, <3>3 DEF ReaderTypes
    <3> QED BY <3>3, <3>4, TerminalAssumption DEF ReaderTypes
  <2>3. UNCHANGED <<control, busy, typed, char_recv, char_send, line_write, pid_mbox, driver,
                    writer, pc, size, block_sem, start3, zapped, accepted, taken, shown,
                    term_int, late, silenced>>
    BY <1>4 DEF SendLine
  <2>4. /\ ControlTypes' /\ DeviceTypes' /\ RecvTypes' /\ SendTypes' /\ WriteTypes' /\ PidTypes'
        /\ DriverTypes' /\ WriterTypes' /\ PcTypes' /\ SizeTypes' /\ SemTypes' /\ EndTypes'
        /\ AcceptedTypes' /\ TakenTypes' /\ ShownTypes' /\ FlagTypes'
    BY <1>0, <2>3 DEF ControlTypes, DeviceTypes, RecvTypes, SendTypes, WriteTypes, PidTypes,
      DriverTypes, WriterTypes, PcTypes, SizeTypes, SemTypes, EndTypes, AcceptedTypes,
      TakenTypes, ShownTypes, FlagTypes
  <2> QED BY <2>1, <2>2, <2>4, Zenon DEF TInv
<1>5. ASSUME TakeLine PROVE TInv'
  <2>1. ControlTypes'
    <3>1. writer.ctrl \in BOOLEAN
      BY <1>0 DEF WriterTypes
    <3>2. control' = control \/ control' = [recv_int |-> writer.ctrl, xmit_int |-> TRUE]
      BY <1>5 DEF TakeLine, SetControl
    <3>3. CASE control' = control
      BY <1>0, <3>3 DEF ControlTypes
    <3>4. CASE control' = [recv_int |-> writer.ctrl, xmit_int |-> TRUE]
      BY <3>1, <3>4 DEF ControlTypes
    <3> QED BY <3>2, <3>3, <3>4
  <2>2. WriteTypes'
    <3>1. line_write # <<>> /\ line_write' = Tail(line_write)
      BY <1>5 DEF TakeLine
    <3>2. /\ line_write' \in Seq(OutLine) /\ Len(line_write') = Len(line_write) - 1
          /\ Len(line_write) \in Nat
      BY <1>0, <3>1 DEF WriteTypes
    <3> QED BY <1>0, <3>2, TerminalAssumption DEF WriteTypes
  <2>3. WriterTypes'
    <3> DEFINE l == Head(line_write)
    <3>1. \/ writer' = [writer EXCEPT !.pc = "ended"]
          \/ writer' = [writer EXCEPT !.pc = AtChar(l, 0), !.line = l, !.next = 0]
      BY <1>5 DEF TakeLine
    <3>2. l \in OutLine
      BY <1>0, <1>5 DEF TakeLine, WriteTypes
    <3> HIDE DEF l
    <3>3. l.size \in 0 .. MAXLINE
      BY <3>2, LineSizes
    <3>4. /\ AtChar(l, 0) \in {"ready", "finish"}
          /\ (AtChar(l, 0) = "ready" => 0 < l.size) /\ (AtChar(l, 0) = "finish" => l.size = 0)
      BY <3>3, TerminalAssumption DEF AtChar
    <3>5. 0 \in 0 .. MAXLINE
      BY TerminalAssumption
    <3>6. CASE writer' = [writer EXCEPT !.pc = "ended"]
      BY <1>0, <3>6 DEF WriterTypes
    <3>7. CASE writer' = [writer EXCEPT !.pc = AtChar(l, 0), !.line = l, !.next = 0]
      BY <1>0, <3>2, <3>4, <3>5, <3>7 DEF WriterTypes
    <3> QED BY <3>1, <3>6, <3>7
  <2>4. ShownTypes'
    <3>1. shown' = <<>> \/ shown' = shown
      BY <1>5 DEF TakeLine
    <3>2. <<>> \in Seq(Nat)
      OBVIOUS
    <3> QED BY <1>0, <3>1, <3>2, Zenon DEF ShownTypes
  <2>5. UNCHANGED <<busy, typed, char_recv, char_send, line_read, pid_mbox, driver, reader, pc,
                    size, block_sem, start3, zapped, accepted, taken, term_int, late,
                    silenced>>
    BY <1>5 DEF TakeLine
  <2>6. /\ DeviceTypes' /\ RecvTypes' /\ SendTypes' /\ ReadTypes' /\ PidTypes' /\ DriverTypes'
        /\ ReaderTypes' /\ PcTypes' /\ SizeTypes' /\ SemTypes' /\ EndTypes' /\ AcceptedTypes'
        /\ TakenTypes' /\ FlagTypes'
    BY <1>0, <2>5 DEF DeviceTypes, RecvTypes, SendTypes, ReadTypes, PidTypes, DriverTypes,
      ReaderTypes, PcTypes, SizeTypes, SemTypes, EndTypes, AcceptedTypes, TakenTypes, FlagTypes
  <2> QED BY <2>1, <2>2, <2>3, <2>4, <2>6, Zenon DEF TInv
<1>6. ASSUME AwaitReady PROVE TInv'
  <2>1. SendTypes'
    <3>1. char_send # <<>> /\ char_send' = Tail(char_send)
      BY <1>6 DEF AwaitReady
    <3>2. /\ char_send' \in Seq({"ready"}) /\ Len(char_send') = Len(char_send) - 1
          /\ Len(char_send) \in Nat
      BY <1>0, <3>1 DEF SendTypes
    <3> QED BY <1>0, <3>2, TerminalAssumption DEF SendTypes, CharSlots
  <2>2. WriterTypes'
    BY <1>0, <1>6 DEF AwaitReady, WriterTypes
  <2>3. UNCHANGED <<control, busy, typed, char_recv, line_read, line_write, pid_mbox, driver,
                    reader, pc, size, block_sem, start3, zapped, accepted, taken, shown,
                    term_int, late, silenced>>
    BY <1>6 DEF AwaitReady
  <2>4. /\ ControlTypes' /\ DeviceTypes' /\ RecvTypes' /\ ReadTypes' /\ WriteTypes' /\ PidTypes'
        /\ DriverTypes' /\ ReaderTypes' /\ PcTypes' /\ SizeTypes' /\ SemTypes' /\ EndTypes'
        /\ AcceptedTypes' /\ TakenTypes' /\ ShownTypes' /\ FlagTypes'
    BY <1>0, <2>3 DEF ControlTypes, DeviceTypes, RecvTypes, ReadTypes, WriteTypes, PidTypes,
      DriverTypes, ReaderTypes, PcTypes, SizeTypes, SemTypes, EndTypes, AcceptedTypes,
      TakenTypes, ShownTypes, FlagTypes
  <2> QED BY <2>1, <2>2, <2>4, Zenon DEF TInv
<1>7. ASSUME PutChar PROVE TInv'
  <2>1. ControlTypes'
    BY <1>0, <1>7 DEF PutChar, ControlTypes, SetControl
  <2>2. DeviceTypes'
    BY <1>0, <1>7 DEF PutChar, DeviceTypes
  <2>3. WriterTypes'
    <3> DEFINE w == AtChar(writer.line, writer.next + 1)
    <3>1. writer.pc = "put" /\ writer' = [writer EXCEPT !.pc = w, !.next = @ + 1]
      BY <1>7 DEF PutChar
    <3>2. /\ writer.line.size \in 0 .. MAXLINE /\ writer.next \in 0 .. MAXLINE
          /\ writer.next < writer.line.size
      BY <1>0, <3>1, LineSizes DEF WriterTypes
    <3>3. writer.next + 1 \in 0 .. MAXLINE /\ writer.next + 1 <= writer.line.size
      BY <3>2, TerminalAssumption
    <3>4. /\ w \in {"ready", "finish"} /\ (w = "ready" => writer.next + 1 < writer.line.size)
          /\ (w = "finish" => writer.next + 1 = writer.line.size)
      BY <3>2, <3>3 DEF AtChar
    <3> HIDE DEF w
    <3>5. /\ writer' \in [pc : {"line", "ready", "put", "finish", "pid", "ended"},
                           line : OutLine, next : 0 .. MAXLINE, ctrl : BOOLEAN]
          /\ writer'.pc = w /\ writer'.next = writer.next + 1 /\ writer'.line = writer.line
      BY <1>0, <3>1, <3>3, <3>4 DEF WriterTypes
    <3> QED BY <3>4, <3>5 DEF WriterTypes
  <2>4. ShownTypes'
    <3>1. shown' = shown \/ shown' = Append(shown, writer.next)
      BY <1>7 DEF PutChar
    <3>2. writer.next \in Nat /\ shown \in Seq(Nat)
      BY <1>0, TerminalAssumption DEF WriterTypes, ShownTypes
    <3>3. CASE shown' = shown
      BY <3>2, <3>3 DEF ShownTypes
    <3>4. CASE shown' = Append(shown, writer.next)
      <4>1. Append(shown, writer.next) \in Seq(Nat)
        BY <3>2
      <4> QED BY <3>4, <4>1, Zenon DEF ShownTypes
    <3> QED BY <3>1, <3>3, <3>4
  <2>5. UNCHANGED <<char_recv, char_send, line_read, line_write, pid_mbox, driver, reader, pc,
                    size, block_sem, start3, zapped, accepted, taken, term_int, late,
                    silenced>>
    BY <1>7 DEF PutChar
  <2>6. /\ RecvTypes' /\ SendTypes' /\ ReadTypes' /\ WriteTypes' /\ PidTypes' /\ DriverTypes'
        /\ ReaderTypes' /\ PcTypes' /\ SizeTypes' /\ SemTypes' /\ EndTypes' /\ AcceptedTypes'
        /\ TakenTypes' /\ FlagTypes'
    BY <1>0, <2>5 DEF RecvTypes, SendTypes, ReadTypes, WriteTypes, PidTypes, DriverTypes,
      ReaderTypes, PcTypes, SizeTypes, SemTypes, EndTypes, AcceptedTypes, TakenTypes, FlagTypes
  <2> QED BY <2>1, <2>2, <2>3, <2>4, <2>6, Zenon DEF TInv
<1>8. ASSUME FinishLine PROVE TInv'
  <2>1. ControlTypes'
    <3>1. term_int \in BOOLEAN
      BY <1>0 DEF FlagTypes
    <3>2. control' = [recv_int |-> term_int, xmit_int |-> FALSE]
      BY <1>8 DEF FinishLine, SetControl
    <3> QED BY <3>1, <3>2 DEF ControlTypes
  <2>2. WriterTypes'
    <3>1. term_int \in BOOLEAN
      BY <1>0 DEF FlagTypes
    <3>2. writer.pc = "finish" /\ writer' = [writer EXCEPT !.pc = "pid", !.ctrl = term_int]
      BY <1>8 DEF FinishLine
    <3> QED BY <1>0, <3>1, <3>2 DEF WriterTypes
  <2>3. FlagTypes'
    BY <1>0, <1>8 DEF FinishLine, FlagTypes
  <2>4. UNCHANGED <<busy, typed, char_recv, char_send, line_read, line_write, pid_mbox, driver,
                    reader, pc, size, block_sem, start3, zapped, accepted, taken, shown>>
    BY <1>8 DEF FinishLine
  <2>5. /\ DeviceTypes' /\ RecvTypes' /\ SendTypes' /\ ReadTypes' /\ WriteTypes' /\ PidTypes'
        /\ DriverTypes' /\ ReaderTypes' /\ PcTypes' /\ SizeTypes' /\ SemTypes' /\ EndTypes'
        /\ AcceptedTypes' /\ TakenTypes' /\ ShownTypes'
    BY <1>0, <2>4 DEF DeviceTypes, RecvTypes, SendTypes, ReadTypes, WriteTypes, PidTypes,
      DriverTypes, ReaderTypes, PcTypes, SizeTypes, SemTypes, EndTypes, AcceptedTypes,
      TakenTypes, ShownTypes
  <2> QED BY <2>1, <2>2, <2>3, <2>5, Zenon DEF TInv
<1>9. ASSUME WakeWriter PROVE TInv'
  <2>1. PidTypes'
    <3>1. pid_mbox # <<>> /\ pid_mbox' = Tail(pid_mbox)
      BY <1>9 DEF WakeWriter
    <3>2. pid_mbox' \in Seq(User) /\ Len(pid_mbox') = Len(pid_mbox) - 1 /\ Len(pid_mbox) \in Nat
      BY <1>0, <3>1 DEF PidTypes
    <3> QED BY <1>0, <3>2, TerminalAssumption DEF PidTypes, PidSlots
  <2>2. WriterTypes'
    BY <1>0, <1>9 DEF WakeWriter, WriterTypes, Again
  <2>3. SemTypes'
    <3>1. /\ pid_mbox # <<>> /\ writer.pc = "pid"
          /\ block_sem' = [block_sem EXCEPT ![Head(pid_mbox)] = @ + 1]
      BY <1>9 DEF WakeWriter
    <3>2. PICK p \in User : Writes(p)
      BY <3>1, Zenon DEF Pairs, NobodyWrites
    <3>3. Head(pid_mbox) = p /\ block_sem[p] = 0
      BY <3>2 DEF Writes
    <3> QED BY <1>0, <3>1, <3>3 DEF SemTypes
  <2>4. UNCHANGED <<control, busy, typed, char_recv, char_send, line_read, line_write, driver,
                    reader, pc, size, start3, zapped, accepted, taken, shown, term_int, late,
                    silenced>>
    BY <1>9 DEF WakeWriter
  <2>5. /\ ControlTypes' /\ DeviceTypes' /\ RecvTypes' /\ SendTypes' /\ ReadTypes' /\ WriteTypes'
        /\ DriverTypes' /\ ReaderTypes' /\ PcTypes' /\ SizeTypes' /\ EndTypes' /\ AcceptedTypes'
        /\ TakenTypes' /\ ShownTypes' /\ FlagTypes'
    BY <1>0, <2>4 DEF ControlTypes, DeviceTypes, RecvTypes, SendTypes, ReadTypes, WriteTypes,
      DriverTypes, ReaderTypes, PcTypes, SizeTypes, EndTypes, AcceptedTypes, TakenTypes,
      ShownTypes, FlagTypes
  <2> QED BY <2>1, <2>2, <2>3, <2>5, Zenon DEF TInv
<1>10. ASSUME NEW p \in User, term_read_real(p) PROVE TInv'
  <2>1. ControlTypes'
    <3>2. control' = control \/ control' = [recv_int |-> TRUE, xmit_int |-> FALSE]
      BY <1>10 DEF term_read_real, SetControl
    <3>3. CASE control' = control
      BY <1>0, <3>3 DEF ControlTypes
    <3>4. CASE control' = [recv_int |-> TRUE, xmit_int |-> FALSE]
      BY <3>4 DEF ControlTypes
    <3> QED BY <3>2, <3>3, <3>4
  <2>2. PcTypes'
    BY <1>0, <1>10 DEF term_read_real, PcTypes
  <2>3. FlagTypes'
    BY <1>0, <1>10 DEF term_read_real, FlagTypes
  <2>4. UNCHANGED <<busy, typed, char_recv, char_send, line_read, line_write, pid_mbox, driver,
                    reader, writer, size, block_sem, start3, zapped, accepted, taken, shown>>
    BY <1>10 DEF term_read_real
  <2>5. /\ DeviceTypes' /\ RecvTypes' /\ SendTypes' /\ ReadTypes' /\ WriteTypes' /\ PidTypes'
        /\ DriverTypes' /\ ReaderTypes' /\ WriterTypes' /\ SizeTypes' /\ SemTypes' /\ EndTypes'
        /\ AcceptedTypes' /\ TakenTypes' /\ ShownTypes'
    BY <1>0, <2>4 DEF DeviceTypes, RecvTypes, SendTypes, ReadTypes, WriteTypes, PidTypes,
      DriverTypes, ReaderTypes, WriterTypes, SizeTypes, SemTypes, EndTypes, AcceptedTypes,
      TakenTypes, ShownTypes
  <2> QED BY <2>1, <2>2, <2>3, <2>5, Zenon DEF TInv
<1>11. ASSUME NEW p \in User, NEW n \in Sizes, term_write_real(p, n) PROVE TInv'
  <2>1. PcTypes'
    BY <1>0, <1>11 DEF term_write_real, PcTypes
  <2>2. SizeTypes'
    <3>1. size' = size \/ (n >= 0 /\ size' = [size EXCEPT ![p] = n])
      BY <1>11, TerminalAssumption DEF term_write_real
    <3>2. n >= 0 => n \in Nat
      BY TerminalAssumption
    <3> QED BY <1>0, <3>1, <3>2 DEF SizeTypes
  <2>3. UNCHANGED <<control, busy, typed, char_recv, char_send, line_read, line_write,
                    pid_mbox, driver, reader, writer, block_sem, start3, zapped, accepted,
                    taken, shown, term_int, late, silenced>>
    BY <1>11 DEF term_write_real
  <2>4. /\ ControlTypes' /\ DeviceTypes' /\ RecvTypes' /\ SendTypes' /\ ReadTypes' /\ WriteTypes'
        /\ PidTypes' /\ DriverTypes' /\ ReaderTypes' /\ WriterTypes' /\ SemTypes' /\ EndTypes'
        /\ AcceptedTypes' /\ TakenTypes' /\ ShownTypes' /\ FlagTypes'
    BY <1>0, <2>3 DEF ControlTypes, DeviceTypes, RecvTypes, SendTypes, ReadTypes, WriteTypes,
      PidTypes, DriverTypes, ReaderTypes, WriterTypes, SemTypes, EndTypes, AcceptedTypes,
      TakenTypes, ShownTypes, FlagTypes
  <2> QED BY <2>1, <2>2, <2>4, Zenon DEF TInv
<1>12. ASSUME NEW p \in User, GetLine(p) PROVE TInv'
  <2>1. ReadTypes'
    <3>1. line_read # <<>> /\ line_read' = Tail(line_read)
      BY <1>12 DEF GetLine
    <3>2. /\ line_read' \in Seq(Seq(Text)) /\ Len(line_read') = Len(line_read) - 1
          /\ Len(line_read) \in Nat
      BY <1>0, <3>1 DEF ReadTypes
    <3> QED BY <1>0, <3>2, TerminalAssumption DEF ReadTypes
  <2>2. PcTypes'
    BY <1>0, <1>12 DEF GetLine, PcTypes
  <2>3. TakenTypes'
    <3>1. line_read # <<>> /\ taken' = Append(taken, Head(line_read))
      BY <1>12 DEF GetLine
    <3>2. Head(line_read) \in Seq(Text)
      BY <1>0, <3>1 DEF ReadTypes
    <3> QED BY <1>0, <3>1, <3>2 DEF TakenTypes
  <2>4. UNCHANGED <<control, busy, typed, char_recv, char_send, line_write, pid_mbox, driver,
                    reader, writer, size, block_sem, start3, zapped, accepted, shown, term_int,
                    late, silenced>>
    BY <1>12 DEF GetLine
  <2>5. /\ ControlTypes' /\ DeviceTypes' /\ RecvTypes' /\ SendTypes' /\ WriteTypes' /\ PidTypes'
        /\ DriverTypes' /\ ReaderTypes' /\ WriterTypes' /\ SizeTypes' /\ SemTypes' /\ EndTypes'
        /\ AcceptedTypes' /\ ShownTypes' /\ FlagTypes'
    BY <1>0, <2>4 DEF ControlTypes, DeviceTypes, RecvTypes, SendTypes, WriteTypes, PidTypes,
      DriverTypes, ReaderTypes, WriterTypes, SizeTypes, SemTypes, EndTypes, AcceptedTypes,
      ShownTypes, FlagTypes
  <2> QED BY <2>1, <2>2, <2>3, <2>5, Zenon DEF TInv
<1>13. ASSUME NEW p \in User, SendPid(p) PROVE TInv'
  <2>1. PidTypes'
    BY <1>0, <1>13 DEF SendPid, PidTypes, PidSlots
  <2>2. PcTypes'
    BY <1>0, <1>13 DEF SendPid, PcTypes
  <2>3. UNCHANGED <<control, busy, typed, char_recv, char_send, line_read, line_write, driver,
                    reader, writer, size, block_sem, start3, zapped, accepted, taken, shown,
                    term_int, late, silenced>>
    BY <1>13 DEF SendPid
  <2>4. /\ ControlTypes' /\ DeviceTypes' /\ RecvTypes' /\ SendTypes' /\ ReadTypes' /\ WriteTypes'
        /\ DriverTypes' /\ ReaderTypes' /\ WriterTypes' /\ SizeTypes' /\ SemTypes' /\ EndTypes'
        /\ AcceptedTypes' /\ TakenTypes' /\ ShownTypes' /\ FlagTypes'
    BY <1>0, <2>3 DEF ControlTypes, DeviceTypes, RecvTypes, SendTypes, ReadTypes, WriteTypes,
      DriverTypes, ReaderTypes, WriterTypes, SizeTypes, SemTypes, EndTypes, AcceptedTypes,
      TakenTypes, ShownTypes, FlagTypes
  <2> QED BY <2>1, <2>2, <2>4, Zenon DEF TInv
<1>14. ASSUME NEW p \in User, SendText(p) PROVE TInv'
  <2>1. WriteTypes'
    <3>1. Len(line_write) < LineSlots
      BY <1>14 DEF SendText
    <3>2. \/ line_write' = line_write
          \/ size[p] <= MAXLINE /\ line_write' = Append(line_write, Line(p, size[p]))
      <4>1. size[p] \in Nat
        BY <1>0 DEF SizeTypes
      <4> QED BY <1>14, <4>1, TerminalAssumption DEF SendText
    <3>3. size[p] <= MAXLINE => Line(p, size[p]) \in OutLine
      BY <1>0, TerminalAssumption DEF SizeTypes, OutLine, Line
    <3> QED BY <1>0, <3>1, <3>2, <3>3, TerminalAssumption DEF WriteTypes
  <2>2. PcTypes'
    BY <1>0, <1>14 DEF SendText, PcTypes
  <2>3. UNCHANGED <<control, busy, typed, char_recv, char_send, line_read, pid_mbox, driver,
                    reader, writer, size, block_sem, start3, zapped, accepted, taken, shown,
                    term_int, late, silenced>>
    BY <1>14 DEF SendText
  <2>4. /\ ControlTypes' /\ DeviceTypes' /\ RecvTypes' /\ SendTypes' /\ ReadTypes' /\ PidTypes'
        /\ DriverTypes' /\ ReaderTypes' /\ WriterTypes' /\ SizeTypes' /\ SemTypes' /\ EndTypes'
        /\ AcceptedTypes' /\ TakenTypes' /\ ShownTypes' /\ FlagTypes'
    BY <1>0, <2>3 DEF ControlTypes, DeviceTypes, RecvTypes, SendTypes, ReadTypes, PidTypes,
      DriverTypes, ReaderTypes, WriterTypes, SizeTypes, SemTypes, EndTypes, AcceptedTypes,
      TakenTypes, ShownTypes, FlagTypes
  <2> QED BY <2>1, <2>2, <2>4, Zenon DEF TInv
<1>15. ASSUME NEW p \in User, AwaitWritten(p) PROVE TInv'
  <2>1. PcTypes'
    BY <1>0, <1>15 DEF AwaitWritten, PcTypes
  <2>2. SizeTypes'
    BY <1>0, <1>15 DEF AwaitWritten, SizeTypes
  <2>3. SemTypes'
    BY <1>0, <1>15 DEF AwaitWritten, SemTypes
  <2>4. UNCHANGED <<control, busy, typed, char_recv, char_send, line_read, line_write,
                    pid_mbox, driver, reader, writer, start3, zapped, accepted, taken, shown,
                    term_int, late, silenced>>
    BY <1>15 DEF AwaitWritten
  <2>5. /\ ControlTypes' /\ DeviceTypes' /\ RecvTypes' /\ SendTypes' /\ ReadTypes' /\ WriteTypes'
        /\ PidTypes' /\ DriverTypes' /\ ReaderTypes' /\ WriterTypes' /\ EndTypes' /\ AcceptedTypes'
        /\ TakenTypes' /\ ShownTypes' /\ FlagTypes'
    BY <1>0, <2>4 DEF ControlTypes, DeviceTypes, RecvTypes, SendTypes, ReadTypes, WriteTypes,
      PidTypes, DriverTypes, ReaderTypes, WriterTypes, EndTypes, AcceptedTypes, TakenTypes,
      ShownTypes, FlagTypes
  <2> QED BY <2>1, <2>2, <2>3, <2>5, Zenon DEF TInv
<1>16. ASSUME Start3 PROVE TInv'
  <2>1. ControlTypes'
    <3>2. control' = control \/ control' = [recv_int |-> TRUE, xmit_int |-> FALSE]
      BY <1>16 DEF Start3, Zap, SetControl
    <3>3. CASE control' = control
      BY <1>0, <3>3 DEF ControlTypes
    <3>4. CASE control' = [recv_int |-> TRUE, xmit_int |-> FALSE]
      BY <3>4 DEF ControlTypes
    <3> QED BY <3>2, <3>3, <3>4
  <2>2. RecvTypes'
    <3>1. \/ char_recv' = char_recv
          \/ char_recv' = Append(char_recv, NONE) /\ Len(char_recv) < 1
      BY <1>16 DEF Start3, Zap, CharSlots
    <3>2. NONE \in Held
      BY DEF Held
    <3> QED BY <1>0, <3>1, <3>2 DEF RecvTypes, CharSlots
  <2>3. WriteTypes'
    <3>1. \/ line_write' = line_write
          \/ line_write' = Append(line_write, NoLine) /\ Len(line_write) < LineSlots
      BY <1>16 DEF Start3, Zap
    <3>2. NoLine \in OutLine
      BY DEF OutLine
    <3> QED BY <1>0, <3>1, <3>2, TerminalAssumption DEF WriteTypes
  <2>4. EndTypes'
    BY <1>0, <1>16 DEF Start3, EndTypes, Zap
  <2>5. UNCHANGED <<busy, typed, char_send, line_read, pid_mbox, driver, reader, writer, pc,
                    size, block_sem, accepted, taken, shown, term_int, late, silenced>>
    BY <1>16 DEF Start3, Zap
  <2>6. /\ DeviceTypes' /\ SendTypes' /\ ReadTypes' /\ PidTypes' /\ DriverTypes' /\ ReaderTypes'
        /\ WriterTypes' /\ PcTypes' /\ SizeTypes' /\ SemTypes' /\ AcceptedTypes' /\ TakenTypes'
        /\ ShownTypes' /\ FlagTypes'
    BY <1>0, <2>5 DEF DeviceTypes, SendTypes, ReadTypes, PidTypes, DriverTypes, ReaderTypes,
      WriterTypes, PcTypes, SizeTypes, SemTypes, AcceptedTypes, TakenTypes, ShownTypes,
      FlagTypes
  <2> QED BY <2>1, <2>2, <2>3, <2>4, <2>6, Zenon DEF TInv
<1> QED
  BY Steps, <1>1, <1>2, <1>3, <1>4, <1>5, <1>6, <1>7, <1>8, <1>9, <1>10, <1>11, <1>12, <1>13,
     <1>14, <1>15, <1>16, Zenon

LEMMA TypesHold == ASSUME TInv PROVE TypeOK
<1> USE DEF TInv
<1>1. control \in [recv_int : BOOLEAN, xmit_int : BOOLEAN]
  BY Zenon DEF ControlTypes
<1>2. busy \in BOOLEAN /\ typed \in 0 .. MaxTyped
  BY Zenon DEF DeviceTypes
<1>3. Len(char_recv) <= CharSlots /\ Len(char_send) <= CharSlots /\ Len(pid_mbox) <= PidSlots
  BY Zenon DEF RecvTypes, SendTypes, PidTypes
<1>4. Len(line_read) <= LineSlots /\ Len(line_write) <= LineSlots
  BY Zenon DEF ReadTypes, WriteTypes
<1>5. driver \in [pc : {"waitdevice", "woken", "ended"}, char : Char \union {NONE, Blank}]
  <2>1. Held = Char \union {NONE, Blank}
    BY DEF Held, Text
  <2> QED BY <2>1, Zenon DEF DriverTypes
<1>6. /\ reader.pc \in {"receive", "send", "ended"} /\ reader.receive \in Char \union {Blank}
      /\ Len(reader.line) <= MAXLINE
  <2>1. ReaderTypes
    BY Zenon
  <2> HIDE DEF TInv
  <2> QED BY <2>1 DEF ReaderTypes, Text
<1>7. writer \in [pc : {"line", "ready", "put", "finish", "pid", "ended"}, line : OutLine,
                  next : 0 .. MAXLINE, ctrl : BOOLEAN]
  BY Zenon DEF WriterTypes
<1>8. /\ pc \in [User -> {"user", "read", "pid", "line", "semp"}] /\ size \in [User -> Nat]
      /\ block_sem \in [User -> 0 .. 1]
  BY Zenon DEF PcTypes, SizeTypes, SemTypes
<1>9. /\ start3 \in {"start4", "zapReader", "joinReader", "zapWriter", "joinWriter", "zapDriver"}
      /\ zapped \subseteq {"driver", "reader", "writer"}
  BY Zenon DEF EndTypes
<1>10. term_int \in BOOLEAN
  BY Zenon DEF FlagTypes
<1> QED
  BY <1>1, <1>2, <1>3, <1>4, <1>5, <1>6, <1>7, <1>8, <1>9, <1>10, Zenon DEF TypeOK

-----------------------------------------------------------------------------
(***************************************************************************)
(* The pid in pid_mbox is that of the process whose line is on its way.    *)
(***************************************************************************)
pairVars == <<line_write, pid_mbox, pc, block_sem, start3, zapped, writer>>

LEMMA PairsSame == ASSUME Pairs, UNCHANGED pairVars PROVE Pairs'
<1>1. /\ line_write' = line_write /\ pid_mbox' = pid_mbox /\ pc' = pc /\ block_sem' = block_sem
      /\ start3' = start3 /\ zapped' = zapped /\ writer' = writer
  BY DEF pairVars
<1>2. \A q : /\ (Settled(q) <=> Settled(q)') /\ (ToSend(q) <=> ToSend(q)')
             /\ (Dropped(q) <=> Dropped(q)') /\ (Waits(q) <=> Waits(q)')
             /\ (IsWritten(q) <=> IsWritten(q)')
  BY <1>1 DEF Settled, ToSend, Dropped, Waits, IsWritten, AtLine
<1>3. \A q : Writes(q) => Writes(q)'
  BY <1>1, <1>2, Zenon DEF Writes
<1>4. NobodyWrites => NobodyWrites'
  BY <1>1, <1>2, Zenon DEF NobodyWrites
<1> QED BY <1>1, <1>3, <1>4, Zenon DEF Pairs

\* The writer works on its line.
LEMMA PairsWritten ==
  ASSUME Pairs, AtLine, AtLine', writer'.line = writer.line,
         UNCHANGED <<line_write, pid_mbox, pc, block_sem, start3, zapped>>
  PROVE  Pairs'
<1>1. writer.pc # "line"
  BY DEF AtLine
<1>2. \A q : Settled(q) <=> Settled(q)'
  BY DEF Settled
<1>3. \A q : Writes(q) => Writes(q)'
  <2> SUFFICES ASSUME NEW q, Writes(q) PROVE Writes(q)'
    OBVIOUS
  <2>1. IsWritten(q)
    BY <1>1, Zenon DEF Writes, ToSend, Dropped, Waits
  <2>2. IsWritten(q)'
    BY <2>1, Zenon DEF IsWritten
  <2> QED BY <1>2, <2>2, Zenon DEF Writes
<1>4. NobodyWrites => NobodyWrites'
  BY <1>1, <1>2, Zenon DEF NobodyWrites
<1> QED BY <1>3, <1>4, Zenon DEF Pairs

\* A process moves outside the part that belongs to one.
LEMMA PairsOutside ==
  ASSUME Pairs, NEW p \in User, NEW v, pc \in [User -> {"user", "read", "pid", "line", "semp"}],
         pc' = [pc EXCEPT ![p] = v], pc[p] \notin {"line", "semp"}, v \notin {"line", "semp"},
         start3 = "start4",
         UNCHANGED <<line_write, pid_mbox, block_sem, start3, zapped, writer>>
  PROVE  Pairs'
<1>1. \A q \in User : q # p => pc'[q] = pc[q]
  OBVIOUS
<1>2. pc'[p] = v
  OBVIOUS
<1>3. \A q \in User : Settled(q) => Settled(q)'
  BY <1>1, <1>2 DEF Settled
<1>4. \A q \in User : Writes(q) => Writes(q)'
  <2> SUFFICES ASSUME NEW q \in User, Writes(q) PROVE Writes(q)'
    OBVIOUS
  <2>1. pc[q] \in {"line", "semp"}
    BY DEF Writes, ToSend, Dropped, Waits, IsWritten
  <2>2. pc'[q] = pc[q]
    BY <1>1, <2>1
  <2>3. (ToSend(q) \/ Dropped(q) \/ Waits(q) \/ IsWritten(q))'
    BY <2>2 DEF Writes, ToSend, Dropped, Waits, IsWritten, AtLine
  <2> QED BY <1>3, <2>3, Zenon DEF Writes
<1>5. NobodyWrites => NobodyWrites'
  BY <1>3, Zenon DEF NobodyWrites
<1>6. \A q \in User : block_sem[q] > 0 => pc'[q] = "semp"
  <2>1. \A q \in User : block_sem[q] > 0 => pc[q] = "semp"
    BY Zenon DEF Pairs
  <2> QED BY <1>1, <2>1
<1> QED BY <1>4, <1>5, <1>6, Zenon DEF Pairs

\* Whoever has passed its pid on is the one that writes.
LEMMA OneWrites ==
  ASSUME Pairs, NEW p \in User, pc[p] = "line" PROVE Writes(p) /\ ToSend(p)
<1>1. ~Settled(p)
  BY DEF Settled
<1>2. Writes(p)
  BY <1>1, Zenon DEF Pairs, NobodyWrites, Writes
<1> QED BY <1>2 DEF Writes, ToSend, Dropped, Waits, IsWritten

LEMMA SomebodyWrites ==
  ASSUME Pairs, pid_mbox # <<>> PROVE \E p \in User : Writes(p)
BY Zenon DEF Pairs, NobodyWrites

LEMMA PairsKept ==
  ASSUME TInv, Pairs, Next
  PROVE  Pairs'
<1> USE DEF deviceVars, boxVars, driverVars, userVars, endVars, seenVars,
        readerRest, writerRest, userRest
<1>0. /\ pc \in [User -> {"user", "read", "pid", "line", "semp"}]
      /\ block_sem \in [User -> 0 .. 1]
      /\ pid_mbox \in Seq(User) /\ Len(pid_mbox) <= 1
      /\ line_write \in Seq(OutLine)
  BY DEF TInv, PcTypes, SemTypes, PidTypes, WriteTypes, PidSlots
<1>w. writer \in [pc : {"line", "ready", "put", "finish", "pid", "ended"}, line : OutLine,
                  next : 0 .. MAXLINE, ctrl : BOOLEAN]
  BY Zenon DEF TInv, WriterTypes
<1>1. ASSUME Poll PROVE Pairs'
  BY <1>1, PairsSame DEF Poll, pairVars
<1>2. ASSUME TermDriver PROVE Pairs'
  BY <1>2, PairsSame DEF TermDriver, pairVars
<1>3. ASSUME ReceiveChar PROVE Pairs'
  BY <1>3, PairsSame DEF ReceiveChar, pairVars
<1>4. ASSUME SendLine PROVE Pairs'
  BY <1>4, PairsSame DEF SendLine, pairVars
<1>5. ASSUME TakeLine PROVE Pairs'
  <2>1. /\ line_write # <<>> /\ line_write' = Tail(line_write) /\ writer.pc = "line"
        /\ UNCHANGED <<pid_mbox, pc, block_sem, start3, zapped>>
    BY <1>5 DEF TakeLine
  <2>2. CASE start3 = "start4"
    <3>1. "writer" \notin zapped
      BY <2>2 DEF Pairs
    <3>2. PICK p \in User : Writes(p)
      BY <2>1, <2>2, Zenon DEF Pairs, NobodyWrites
    <3>3. Waits(p)
      BY <2>1, <3>2, Zenon DEF Writes, ToSend, Dropped, IsWritten
    <3>4. line_write' = <<>>
      BY <1>0, <2>1, <3>3, EmptySeq DEF Waits
    <3>5. writer'.pc \in {"ready", "finish"} /\ writer'.line = Head(line_write)
      <4>1. writer' = [writer EXCEPT !.pc = AtChar(Head(line_write), 0),
                                     !.line = Head(line_write), !.next = 0]
        BY <1>5, <3>1 DEF TakeLine
      <4>2. AtChar(Head(line_write), 0) \in {"ready", "finish"}
        BY DEF AtChar
      <4> HIDE DEF AtChar
      <4> QED BY <1>w, <4>1, <4>2
    <3>6. IsWritten(p)'
      BY <2>1, <3>3, <3>4, <3>5 DEF Waits, IsWritten, AtLine
    <3>7. \A q \in User : Settled(q) => Settled(q)'
      BY <2>1, Zenon DEF Settled
    <3>8. Writes(p)'
      BY <2>1, <3>2, <3>6, <3>7, Zenon DEF Writes
    <3> QED BY <2>1, <3>8, Zenon DEF Pairs
  <2>3. CASE start3 # "start4"
    <3>1. NobodyWrites
      BY <2>3, Zenon DEF Pairs, Writes
    <3>2. \A q \in User : Settled(q) => Settled(q)'
      BY <2>1, Zenon DEF Settled
    <3>3. NobodyWrites'
      BY <2>1, <2>3, <3>1, <3>2, Zenon DEF NobodyWrites
    <3> QED BY <2>1, <2>3, <3>3, Zenon DEF Pairs
  <2> QED BY <2>2, <2>3
<1>6. ASSUME AwaitReady PROVE Pairs'
  <2>1. /\ writer.pc = "ready" /\ writer' = [writer EXCEPT !.pc = "put"]
        /\ UNCHANGED <<line_write, pid_mbox, pc, block_sem, start3, zapped>>
    BY <1>6 DEF AwaitReady
  <2>2. AtLine /\ AtLine' /\ writer'.line = writer.line
    BY <1>w, <2>1 DEF AtLine
  <2> QED BY <2>1, <2>2, PairsWritten
<1>7. ASSUME PutChar PROVE Pairs'
  <2>1. /\ writer.pc = "put" /\ UNCHANGED <<line_write, pid_mbox, pc, block_sem, start3, zapped>>
        /\ writer' = [writer EXCEPT !.pc = AtChar(writer.line, writer.next + 1), !.next = @ + 1]
    BY <1>7 DEF PutChar
  <2>2. AtChar(writer.line, writer.next + 1) \in {"ready", "finish"}
    BY DEF AtChar
  <2> HIDE DEF AtChar
  <2>3. AtLine /\ AtLine' /\ writer'.line = writer.line
    BY <1>w, <2>1, <2>2 DEF AtLine
  <2> QED BY <2>1, <2>3, PairsWritten
<1>8. ASSUME FinishLine PROVE Pairs'
  <2>1. /\ writer.pc = "finish" /\ writer' = [writer EXCEPT !.pc = "pid", !.ctrl = term_int]
        /\ UNCHANGED <<line_write, pid_mbox, pc, block_sem, start3, zapped>>
    BY <1>8 DEF FinishLine
  <2>2. AtLine /\ AtLine' /\ writer'.line = writer.line
    BY <1>w, <2>1 DEF AtLine
  <2> QED BY <2>1, <2>2, PairsWritten
<1>9. ASSUME WakeWriter PROVE Pairs'
  <2>1. /\ pid_mbox # <<>> /\ writer.pc = "pid" /\ pid_mbox' = Tail(pid_mbox)
        /\ block_sem' = [block_sem EXCEPT ![Head(pid_mbox)] = @ + 1]
        /\ writer' = [writer EXCEPT !.pc = Again("writer")]
        /\ UNCHANGED <<line_write, pc, start3, zapped>>
    BY <1>9 DEF WakeWriter
  <2>2. PICK p \in User : Writes(p)
    BY <2>1, SomebodyWrites
  <2>3. IsWritten(p)
    BY <2>1, <2>2 DEF Writes, ToSend, Dropped, Waits
  <2>4. /\ pid_mbox = <<p>> /\ start3 = "start4" /\ block_sem[p] = 0 /\ pc[p] = "semp"
        /\ line_write = <<>> /\ \A q \in User : q # p => Settled(q)
    BY <2>2, <2>3, Zenon DEF Writes, IsWritten
  <2>5. pid_mbox' = <<>>
    BY <2>1, <2>4
  <2>6. block_sem'[p] = 1 /\ \A q \in User : q # p => block_sem'[q] = block_sem[q]
    BY <1>0, <2>1, <2>4
  <2>7. writer'.pc = "line"
    <3>1. Again("writer") = "line"
      BY <2>4 DEF Again, Pairs
    <3> QED BY <1>w, <2>1, <3>1
  <2>8. \A q \in User : Settled(q)'
    BY <2>1, <2>4, <2>6 DEF Settled
  <2>9. NobodyWrites'
    BY <2>1, <2>4, <2>5, <2>7, <2>8, Zenon DEF NobodyWrites
  <2>10. \A q \in User : block_sem'[q] > 0 => pc'[q] = "semp"
    <3>1. \A q \in User : block_sem[q] > 0 => pc[q] = "semp"
      BY Zenon DEF Pairs
    <3> QED BY <2>1, <2>4, <2>6, <3>1
  <2> QED BY <2>1, <2>4, <2>9, <2>10, Zenon DEF Pairs
<1>10. ASSUME NEW p \in User, term_read_real(p) PROVE Pairs'
  <2>1. /\ pc[p] = "user" /\ start3 = "start4" /\ pc' = [pc EXCEPT ![p] = "read"]
        /\ UNCHANGED <<line_write, pid_mbox, block_sem, start3, zapped, writer>>
    BY <1>10 DEF term_read_real
  <2> QED BY <1>0, <2>1, PairsOutside, ZenonT(30)
<1>11. ASSUME NEW p \in User, NEW n \in Sizes, term_write_real(p, n) PROVE Pairs'
  <2>1. /\ pc[p] = "user" /\ start3 = "start4"
        /\ pc' = pc \/ pc' = [pc EXCEPT ![p] = "pid"]
        /\ UNCHANGED <<line_write, pid_mbox, block_sem, start3, zapped, writer>>
    BY <1>11 DEF term_write_real
  <2>2. CASE pc' = pc
    BY <2>1, <2>2, PairsSame DEF pairVars
  <2>3. CASE pc' = [pc EXCEPT ![p] = "pid"]
    BY <1>0, <2>1, <2>3, PairsOutside
  <2> QED BY <2>1, <2>2, <2>3
<1>12. ASSUME NEW p \in User, GetLine(p) PROVE Pairs'
  <2>1. /\ pc[p] = "read" /\ pc' = [pc EXCEPT ![p] = "user"]
        /\ UNCHANGED <<line_write, pid_mbox, block_sem, start3, zapped, writer>>
    BY <1>12 DEF GetLine
  <2>2. start3 = "start4"
    BY <2>1 DEF Pairs
  <2> QED BY <1>0, <2>1, <2>2, PairsOutside, ZenonT(30)
<1>13. ASSUME NEW p \in User, SendPid(p) PROVE Pairs'
  <2>1. /\ pc[p] = "pid" /\ Len(pid_mbox) < 1 /\ pid_mbox' = Append(pid_mbox, p)
        /\ pc' = [pc EXCEPT ![p] = "line"]
        /\ UNCHANGED <<line_write, block_sem, start3, zapped, writer>>
    BY <1>13 DEF SendPid, PidSlots
  <2>2. start3 = "start4"
    BY <2>1 DEF Pairs
  <2>3. pid_mbox = <<>> /\ pid_mbox' = <<p>>
    <3>1. Len(pid_mbox) = 0
      BY <1>0, <2>1
    <3>2. pid_mbox = <<>>
      BY <1>0, <3>1, EmptySeq
    <3>3. Append(<<>>, p) = <<p>>
      OBVIOUS
    <3> QED BY <2>1, <3>2, <3>3
  <2>4. NobodyWrites
    BY <2>3, Zenon DEF Pairs, Writes
  <2>5. block_sem[p] = 0
    BY <1>0, <2>1 DEF Pairs
  <2>6. pc'[p] = "line" /\ \A q \in User : q # p => pc'[q] = pc[q]
    BY <1>0, <2>1
  <2>7. ToSend(p)'
    BY <2>1, <2>2, <2>4, <2>6 DEF NobodyWrites, ToSend
  <2>8. \A q \in User : q # p => Settled(q)'
    BY <2>1, <2>4, <2>6 DEF NobodyWrites, Settled
  <2>9. Writes(p)'
    BY <2>1, <2>2, <2>3, <2>5, <2>7, <2>8, Zenon DEF Writes
  <2>10. \A q \in User : block_sem'[q] > 0 => pc'[q] = "semp"
    BY <2>1, <2>5, <2>6 DEF Pairs
  <2> QED BY <2>1, <2>2, <2>9, <2>10, Zenon DEF Pairs
<1>14. ASSUME NEW p \in User, SendText(p) PROVE Pairs'
  <2>1. /\ pc[p] = "line" /\ pc' = [pc EXCEPT ![p] = "semp"]
        /\ line_write' = line_write \/ line_write' = Append(line_write, Line(p, size[p]))
        /\ UNCHANGED <<pid_mbox, block_sem, start3, zapped, writer>>
    BY <1>14 DEF SendText
  <2>2. Writes(p) /\ ToSend(p)
    BY <2>1, OneWrites
  <2>3. pc'[p] = "semp" /\ \A q \in User : q # p => pc'[q] = pc[q]
    BY <1>0, <2>1
  <2>4. line_write' = <<>> \/ line_write' = <<Line(p, size[p])>>
    BY <2>1, <2>2 DEF ToSend
  <2>5. Dropped(p)' \/ Waits(p)'
    <3>1. CASE line_write' = <<>>
      BY <2>1, <2>2, <2>3, <3>1 DEF ToSend, Dropped
    <3>2. CASE line_write' = <<Line(p, size[p])>>
      <4>1. Len(line_write') = 1 /\ Head(line_write').by = p
        BY <3>2 DEF Line
      <4> QED BY <2>1, <2>2, <2>3, <4>1 DEF ToSend, Waits
    <3> QED BY <2>4, <3>1, <3>2
  <2>6. \A q \in User : q # p => Settled(q)'
    BY <2>1, <2>2, <2>3 DEF Writes, Settled
  <2>7. Writes(p)'
    BY <2>1, <2>2, <2>5, <2>6, Zenon DEF Writes
  <2>8. start3 = "start4" /\ \A q \in User : block_sem'[q] > 0 => pc'[q] = "semp"
    BY <2>1, <2>2, <2>3 DEF Pairs, Writes
  <2> QED BY <2>1, <2>7, <2>8, Zenon DEF Pairs
<1>15. ASSUME NEW p \in User, AwaitWritten(p) PROVE Pairs'
  <2>1. /\ pc[p] = "semp" /\ block_sem[p] > 0 /\ pc' = [pc EXCEPT ![p] = "user"]
        /\ block_sem' = [block_sem EXCEPT ![p] = @ - 1]
        /\ UNCHANGED <<line_write, pid_mbox, start3, zapped, writer>>
    BY <1>15 DEF AwaitWritten
  <2>2. /\ pc'[p] = "user" /\ block_sem'[p] = 0
        /\ \A q \in User : q # p => pc'[q] = pc[q] /\ block_sem'[q] = block_sem[q]
    BY <1>0, <2>1
  <2>3. \A q \in User : Settled(q) => Settled(q)'
    BY <2>2 DEF Settled
  <2>4. \A q \in User : Writes(q) => Writes(q)'
    <3> SUFFICES ASSUME NEW q \in User, Writes(q) PROVE Writes(q)'
      OBVIOUS
    <3>1. q # p
      <4>1. block_sem[q] = 0
        BY Zenon DEF Writes
      <4> QED BY <2>1, <4>1
    <3>2. pc'[q] = pc[q] /\ block_sem'[q] = block_sem[q]
      BY <2>2, <3>1
    <3>3. (ToSend(q) \/ Dropped(q) \/ Waits(q) \/ IsWritten(q))'
      BY <2>1, <3>2 DEF Writes, ToSend, Dropped, Waits, IsWritten, AtLine
    <3> QED BY <2>1, <2>3, <3>2, <3>3, Zenon DEF Writes
  <2>5. NobodyWrites => NobodyWrites'
    BY <2>1, <2>3, Zenon DEF NobodyWrites
  <2>6. start3 = "start4" /\ \A q \in User : block_sem'[q] > 0 => pc'[q] = "semp"
    BY <2>1, <2>2 DEF Pairs
  <2> QED BY <2>1, <2>4, <2>5, <2>6, Zenon DEF Pairs
<1>16. ASSUME Start3 PROVE Pairs'
  <2>1. /\ UNCHANGED <<pid_mbox, pc, block_sem, writer>> /\ start3' # "start4"
        /\ start3 = "start4" => \A q \in User : pc[q] = "user"
    BY <1>16 DEF Start3
  <2>2. \A q \in User : pc[q] = "user"
    BY <2>1, Zenon DEF Pairs
  <2>3. NobodyWrites
    BY <2>2, Zenon DEF Pairs, Writes, ToSend, Dropped, Waits, IsWritten
  <2>4. \A q \in User : Settled(q)'
    BY <2>1, <2>3, Zenon DEF NobodyWrites, Settled
  <2>5. NobodyWrites'
    BY <2>1, <2>3, <2>4, Zenon DEF NobodyWrites
  <2> QED BY <2>1, <2>2, <2>5, Zenon DEF Pairs
<1> QED
  BY Steps, <1>1, <1>2, <1>3, <1>4, <1>5, <1>6, <1>7, <1>8, <1>9, <1>10, <1>11, <1>12, <1>13,
     <1>14, <1>15, <1>16, Zenon

LEMMA InitPairs == Init => Pairs
<1> SUFFICES ASSUME Init PROVE Pairs
  OBVIOUS
<1>1. NobodyWrites
  BY DEF Init, NobodyWrites, Settled
<1>2. start3 = "start4" /\ zapped = {} /\ \A q \in User : block_sem[q] = 0
  BY DEF Init
<1> QED BY <1>1, <1>2 DEF Pairs

LEMMA PairsTell == ASSUME Pairs PROVE WriterPaired
<1>1. ASSUME writer.pc = "pid", pid_mbox # <<>>, start3 = "start4"
      PROVE  writer.line.by = Head(pid_mbox)
  <2>1. PICK p \in User : Writes(p)
    BY <1>1, SomebodyWrites
  <2>2. IsWritten(p) /\ pid_mbox = <<p>>
    BY <1>1, <2>1 DEF Writes, ToSend, Dropped, Waits
  <2> QED BY <2>2 DEF IsWritten
<1>2. \A p \in User : block_sem[p] > 0 => pc[p] = "semp"
  BY Zenon DEF Pairs
<1> QED BY <1>1, <1>2, Zenon DEF WriterPaired

-----------------------------------------------------------------------------
(***************************************************************************)
(* The device is idle when the writer puts a character out, and the line   *)
(* grows by one character at a time.                                       *)
(***************************************************************************)
idleVars == <<late, driver, busy, char_send, writer, line_write, pid_mbox>>

LEMMA IdleSame == ASSUME Idle, UNCHANGED idleVars PROVE Idle'
<1>1. /\ late' = late /\ driver' = driver /\ busy' = busy /\ char_send' = char_send
      /\ writer' = writer /\ line_write' = line_write /\ pid_mbox' = pid_mbox
  BY DEF idleVars
<1>2. WriterBlocked <=> WriterBlocked'
  BY <1>1 DEF WriterBlocked
<1> QED BY <1>1, <1>2, Zenon DEF Idle

\* Nothing is there for the writer while the driver is about to tell it.
LEMMA DriverAsleep ==
  ASSUME Idle, ~late, DriverTypes, ~WriterBlocked \/ DriverBlocked
  PROVE  driver.pc # "woken"
BY DEF Idle, DriverBlocked

LEMMA IdleKept ==
  ASSUME TInv, Pairs, Idle, Next
  PROVE  Idle'
<1> USE DEF deviceVars, boxVars, driverVars, userVars, endVars, seenVars,
        readerRest, writerRest, userRest
<1>0. /\ char_send \in Seq({"ready"}) /\ Len(char_send) <= 1
      /\ pid_mbox \in Seq(User) /\ DriverTypes
      /\ driver \in [pc : {"waitdevice", "woken", "ended"}, char : Held]
  BY DEF TInv, SendTypes, PidTypes, CharSlots, DriverTypes
<1>w. writer \in [pc : {"line", "ready", "put", "finish", "pid", "ended"}, line : OutLine,
                  next : 0 .. MAXLINE, ctrl : BOOLEAN]
  BY Zenon DEF TInv, WriterTypes
<1>1. ASSUME Poll PROVE Idle'
  <2> SUFFICES ASSUME ~late' PROVE Idle'
    BY Zenon DEF Idle
  <2>1. /\ Quiet /\ busy' = FALSE
        /\ writer' = writer /\ char_send' = char_send /\ line_write' = line_write
        /\ pid_mbox' = pid_mbox
    BY <1>1 DEF Poll
  <2>2. WriterBlocked /\ WriterBlocked'
    BY <2>1 DEF Quiet, WriterBlocked
  <2>3. writer.pc # "put"
    BY <2>2 DEF WriterBlocked
  <2> QED BY <2>1, <2>2, <2>3, Zenon DEF Idle
<1>2. ASSUME TermDriver PROVE Idle'
  <2> SUFFICES ASSUME ~late' PROVE Idle'
    BY Zenon DEF Idle
  <2>1. /\ driver.pc = "woken" /\ ~late /\ busy' = busy /\ writer' = writer
        /\ \/ driver' = [driver EXCEPT !.pc = "ended"]
           \/ driver' = [pc |-> "waitdevice", char |-> NONE]
    BY <1>2 DEF TermDriver
  <2>2. ~busy /\ WriterBlocked
    BY <2>1, Zenon DEF Idle
  <2>3. writer.pc # "put"
    BY <2>2 DEF WriterBlocked
  <2>4. driver'.pc # "woken"
    BY <1>0, <2>1
  <2>5. ~busy' /\ writer'.pc # "put"
    BY <2>1, <2>2, <2>3
  <2> QED BY <2>4, <2>5, Zenon DEF Idle
<1>3. ASSUME ReceiveChar PROVE Idle'
  BY <1>3, IdleSame DEF ReceiveChar, idleVars
<1>4. ASSUME SendLine PROVE Idle'
  BY <1>4, IdleSame DEF SendLine, idleVars
<1>5. ASSUME TakeLine PROVE Idle'
  <2> SUFFICES ASSUME ~late' PROVE Idle'
    BY Zenon DEF Idle
  <2>1. /\ ~late /\ UNCHANGED <<driver, busy, char_send>>
        /\ writer.pc = "line" /\ line_write # <<>>
        /\ \/ writer' = [writer EXCEPT !.pc = "ended"]
           \/ writer' = [writer EXCEPT !.pc = AtChar(Head(line_write), 0),
                                       !.line = Head(line_write), !.next = 0]
    BY <1>5 DEF TakeLine
  <2>2. ~WriterBlocked
    BY <2>1 DEF WriterBlocked
  <2>3. driver'.pc # "woken"
    BY <1>0, <2>1, <2>2, DriverAsleep
  <2>4. writer'.pc # "put"
    <3>1. AtChar(Head(line_write), 0) # "put"
      BY DEF AtChar
    <3> HIDE DEF AtChar
    <3> QED BY <1>w, <2>1, <3>1
  <2>5. char_send' # <<>> => ~busy'
    BY <2>1, Zenon DEF Idle
  <2> QED BY <2>3, <2>4, <2>5, Zenon DEF Idle
<1>6. ASSUME AwaitReady PROVE Idle'
  <2> SUFFICES ASSUME ~late' PROVE Idle'
    BY Zenon DEF Idle
  <2>1. /\ ~late /\ UNCHANGED <<driver, busy>> /\ char_send # <<>> /\ writer.pc = "ready"
        /\ char_send' = Tail(char_send)
    BY <1>6 DEF AwaitReady
  <2>2. ~WriterBlocked
    BY <2>1 DEF WriterBlocked
  <2>3. driver'.pc # "woken"
    BY <1>0, <2>1, <2>2, DriverAsleep
  <2>4. char_send' = <<>>
    <3>1. Len(char_send') = 0 /\ char_send' \in Seq({"ready"})
      <4>1. Len(char_send) # 0 /\ Len(char_send) \in Nat
        BY <1>0, <2>1, EmptySeq
      <4>2. char_send' \in Seq({"ready"}) /\ Len(char_send') = Len(char_send) - 1
        BY <1>0, <2>1
      <4> QED BY <1>0, <4>1, <4>2
    <3> QED BY <3>1, EmptySeq
  <2>5. ~busy'
    BY <2>1, Zenon DEF Idle
  <2> QED BY <2>3, <2>4, <2>5, Zenon DEF Idle
<1>7. ASSUME PutChar PROVE Idle'
  <2> SUFFICES ASSUME ~late' PROVE Idle'
    BY Zenon DEF Idle
  <2>1. /\ ~late /\ UNCHANGED <<driver, char_send>> /\ writer.pc = "put"
        /\ writer' = [writer EXCEPT !.pc = AtChar(writer.line, writer.next + 1), !.next = @ + 1]
    BY <1>7 DEF PutChar
  <2>2. char_send' = <<>> /\ driver'.pc # "woken"
    BY <2>1, Zenon DEF Idle
  <2>3. writer'.pc # "put"
    <3>1. AtChar(writer.line, writer.next + 1) # "put"
      BY DEF AtChar
    <3> HIDE DEF AtChar
    <3> QED BY <1>w, <2>1, <3>1
  <2> QED BY <2>2, <2>3, Zenon DEF Idle
<1>8. ASSUME FinishLine PROVE Idle'
  <2> SUFFICES ASSUME ~late' PROVE Idle'
    BY Zenon DEF Idle
  <2>1. /\ ~late /\ UNCHANGED <<driver, busy, char_send>> /\ writer.pc = "finish"
        /\ writer' = [writer EXCEPT !.pc = "pid", !.ctrl = term_int]
    BY <1>8 DEF FinishLine
  <2>2. ~WriterBlocked
    BY <2>1 DEF WriterBlocked
  <2>3. driver'.pc # "woken"
    BY <1>0, <2>1, <2>2, DriverAsleep
  <2>4. writer'.pc # "put"
    BY <1>w, <2>1
  <2>5. char_send' # <<>> => ~busy'
    BY <2>1, Zenon DEF Idle
  <2> QED BY <2>3, <2>4, <2>5, Zenon DEF Idle
<1>9. ASSUME WakeWriter PROVE Idle'
  <2> SUFFICES ASSUME ~late' PROVE Idle'
    BY Zenon DEF Idle
  <2>1. /\ ~late /\ UNCHANGED <<driver, busy, char_send>> /\ writer.pc = "pid"
        /\ pid_mbox # <<>> /\ writer' = [writer EXCEPT !.pc = Again("writer")]
    BY <1>9 DEF WakeWriter
  <2>2. ~WriterBlocked
    BY <2>1 DEF WriterBlocked
  <2>3. driver'.pc # "woken"
    BY <1>0, <2>1, <2>2, DriverAsleep
  <2>4. writer'.pc # "put"
    BY <1>w, <2>1 DEF Again
  <2>5. char_send' # <<>> => ~busy'
    BY <2>1, Zenon DEF Idle
  <2> QED BY <2>3, <2>4, <2>5, Zenon DEF Idle
<1>10. ASSUME NEW p \in User, term_read_real(p) PROVE Idle'
  BY <1>10, IdleSame DEF term_read_real, idleVars
<1>11. ASSUME NEW p \in User, NEW n \in Sizes, term_write_real(p, n) PROVE Idle'
  BY <1>11, IdleSame DEF term_write_real, idleVars
<1>12. ASSUME NEW p \in User, GetLine(p) PROVE Idle'
  BY <1>12, IdleSame DEF GetLine, idleVars
<1>13. ASSUME NEW p \in User, SendPid(p) PROVE Idle'
  <2>1. /\ pc[p] = "pid" /\ Len(pid_mbox) < 1
        /\ UNCHANGED <<late, driver, busy, char_send, writer, line_write>>
    BY <1>13 DEF SendPid, PidSlots
  <2>2. start3 = "start4" /\ pid_mbox = <<>>
    <3>1. start3 = "start4"
      BY <2>1 DEF Pairs
    <3>2. Len(pid_mbox) = 0
      BY <1>0, <2>1
    <3>3. pid_mbox = <<>>
      BY <1>0, <3>2, EmptySeq
    <3> QED BY <3>1, <3>3
  <2>3. writer.pc = "line"
    BY <2>2, Zenon DEF Pairs, NobodyWrites, Writes
  <2>4. WriterBlocked => WriterBlocked'
    BY <2>1, <2>3 DEF WriterBlocked
  <2> QED BY <2>1, <2>4, Zenon DEF Idle
<1>14. ASSUME NEW p \in User, SendText(p) PROVE Idle'
  <2>1. Quiet /\ UNCHANGED <<late, driver, busy, char_send, writer>>
    BY <1>14 DEF SendText
  <2>2. driver.pc # "woken"
    BY <2>1 DEF Quiet, DriverBlocked
  <2> QED BY <2>1, <2>2, Zenon DEF Idle
<1>15. ASSUME NEW p \in User, AwaitWritten(p) PROVE Idle'
  BY <1>15, IdleSame DEF AwaitWritten, idleVars
<1>16. ASSUME Start3 PROVE Idle'
  <2>1. Quiet /\ UNCHANGED <<late, driver, busy, char_send, writer>>
    BY <1>16 DEF Start3
  <2>2. driver.pc # "woken"
    BY <2>1 DEF Quiet, DriverBlocked
  <2> QED BY <2>1, <2>2, Zenon DEF Idle
<1> QED
  BY Steps, <1>1, <1>2, <1>3, <1>4, <1>5, <1>6, <1>7, <1>8, <1>9, <1>10, <1>11, <1>12, <1>13,
     <1>14, <1>15, <1>16, Zenon

LEMMA InitIdle == Init => Idle /\ ShownSoFar
<1> SUFFICES ASSUME Init PROVE Idle /\ ShownSoFar
  OBVIOUS
<1>1. driver.pc # "woken" /\ writer.pc = "line" /\ char_send = <<>>
  BY DEF Init
<1>2. Idle
  BY <1>1 DEF Idle
<1>3. ShownSoFar
  BY <1>1 DEF ShownSoFar, AtLine
<1> QED BY <1>2, <1>3

\* As long as the writer is at the same place.
LEMMA ShownSame ==
  ASSUME ShownSoFar, AtLine' => AtLine, writer'.next = writer.next, shown' = shown,
         ~late' => ~late
  PROVE  ShownSoFar'
<1>1. InOrder => InOrder'
  BY DEF InOrder
<1> QED BY <1>1 DEF ShownSoFar

LEMMA ShownKept ==
  ASSUME TInv, Idle, ShownSoFar, Next
  PROVE  ShownSoFar'
<1> USE DEF deviceVars, boxVars, driverVars, userVars, endVars, seenVars,
        readerRest, writerRest, userRest
<1>w. writer \in [pc : {"line", "ready", "put", "finish", "pid", "ended"}, line : OutLine,
                  next : 0 .. MAXLINE, ctrl : BOOLEAN]
  BY Zenon DEF TInv, WriterTypes
<1>a. ASSUME UNCHANGED <<writer, shown>>, ~late' => ~late PROVE ShownSoFar'
  <2>1. AtLine' => AtLine
    BY <1>a DEF AtLine
  <2> QED BY <1>a, <2>1, ShownSame
<1>1. ASSUME Poll PROVE ShownSoFar'
  BY <1>1, <1>a DEF Poll
<1>2. ASSUME TermDriver PROVE ShownSoFar'
  BY <1>2, <1>a DEF TermDriver
<1>3. ASSUME ReceiveChar PROVE ShownSoFar'
  BY <1>3, <1>a DEF ReceiveChar
<1>4. ASSUME SendLine PROVE ShownSoFar'
  BY <1>4, <1>a DEF SendLine
<1>5. ASSUME TakeLine PROVE ShownSoFar'
  <2>1. \/ writer' = [writer EXCEPT !.pc = "ended"]
        \/ /\ shown' = <<>>
           /\ writer' = [writer EXCEPT !.pc = AtChar(Head(line_write), 0),
                                       !.line = Head(line_write), !.next = 0]
    BY <1>5 DEF TakeLine
  <2>2. CASE writer' = [writer EXCEPT !.pc = "ended"]
    <3>1. ~AtLine'
      BY <1>w, <2>2 DEF AtLine
    <3> QED BY <3>1, Zenon DEF ShownSoFar
  <2>3. CASE /\ shown' = <<>>
             /\ writer' = [writer EXCEPT !.pc = AtChar(Head(line_write), 0),
                                         !.line = Head(line_write), !.next = 0]
    <3>1. writer'.next = 0
      BY <1>w, <2>3
    <3>2. <<>> = [i \in 1 .. 0 |-> i - 1]
      OBVIOUS
    <3>3. shown' = [i \in 1 .. writer'.next |-> i - 1]
      BY <2>3, <3>1, <3>2
    <3>4. InOrder'
      BY <2>3 DEF InOrder
    <3> QED BY <3>3, <3>4 DEF ShownSoFar
  <2> QED BY <2>1, <2>2, <2>3
<1>6. ASSUME AwaitReady PROVE ShownSoFar'
  <2>1. /\ writer.pc = "ready" /\ writer' = [writer EXCEPT !.pc = "put"]
        /\ shown' = shown /\ late' = late
    BY <1>6 DEF AwaitReady
  <2>2. AtLine /\ writer'.next = writer.next
    BY <1>w, <2>1 DEF AtLine
  <2> QED BY <2>1, <2>2, ShownSame
<1>7. ASSUME PutChar PROVE ShownSoFar'
  <2>1. /\ writer.pc = "put" /\ late' = late
        /\ shown' = IF busy THEN shown ELSE Append(shown, writer.next)
        /\ writer' = [writer EXCEPT !.pc = AtChar(writer.line, writer.next + 1), !.next = @ + 1]
    BY <1>7 DEF PutChar
  <2>2. writer'.next = writer.next + 1 /\ AtLine
    BY <1>w, <2>1 DEF AtLine
  <2>3. PICK n \in Nat : n = writer.next
    BY <1>w, TerminalAssumption
  <2>4. shown \in Seq(Nat) /\ InOrder
    BY <2>2, Zenon DEF TInv, ShownTypes, ShownSoFar
  <2>5. InOrder'
    <3>1. CASE shown' = shown
      <4>1. \A i \in 1 .. Len(shown) : shown[i] \in Nat /\ shown[i] < n
        BY <2>3, <2>4 DEF InOrder
      <4>2. \A i \in 1 .. Len(shown) : shown[i] < n + 1
        BY <2>3, <4>1
      <4> QED BY <2>2, <2>3, <2>4, <3>1, <4>2 DEF InOrder
    <3>2. CASE shown' = Append(shown, n)
      <4>1. /\ Len(shown') = Len(shown) + 1 /\ Len(shown) \in Nat /\ shown'[Len(shown) + 1] = n
            /\ \A i \in 1 .. Len(shown) : shown'[i] = shown[i] /\ shown[i] \in Nat
        BY <2>3, <2>4, <3>2
      <4>2. \A i \in 1 .. Len(shown) : shown[i] < n
        BY <2>3, <2>4 DEF InOrder
      <4>3. \A i \in 1 .. Len(shown') : i \in 1 .. Len(shown) \/ i = Len(shown) + 1
        BY <4>1
      <4>4. \A i \in 1 .. Len(shown') : shown'[i] < n + 1
        BY <2>3, <4>1, <4>2, <4>3
      <4>5. \A i, j \in 1 .. Len(shown') : i < j => shown'[i] < shown'[j]
        <5> SUFFICES ASSUME NEW i \in 1 .. Len(shown'), NEW j \in 1 .. Len(shown'), i < j
                     PROVE  shown'[i] < shown'[j]
          OBVIOUS
        <5>1. i \in 1 .. Len(shown)
          BY <4>1, <4>3
        <5>2. CASE j \in 1 .. Len(shown)
          BY <2>4, <4>1, <5>1, <5>2 DEF InOrder
        <5>3. CASE j = Len(shown) + 1
          BY <4>1, <4>2, <5>1, <5>3
        <5> QED BY <4>3, <5>2, <5>3
      <4> QED BY <2>2, <2>3, <4>4, <4>5 DEF InOrder
    <3> QED BY <2>1, <2>3, <3>1, <3>2
  <2>6. ASSUME ~late' PROVE shown' = [i \in 1 .. writer'.next |-> i - 1]
    <3>1. ~late
      BY <2>1, <2>6
    <3>2. ~busy
      BY <2>1, <3>1, Zenon DEF Idle
    <3>3. shown = [i \in 1 .. n |-> i - 1]
      BY <2>2, <2>3, <3>1 DEF ShownSoFar
    <3>4. shown' = Append(shown, n)
      BY <2>1, <2>3, <3>2
    <3>5. Append([i \in 1 .. n |-> i - 1], n) = [i \in 1 .. n + 1 |-> i - 1]
      <4> DEFINE s == [i \in 1 .. n |-> i - 1]
                 t == [i \in 1 .. n + 1 |-> i - 1]
      <4>1. s \in Seq(Nat) /\ Len(s) = n /\ t \in Seq(Nat) /\ Len(t) = n + 1
        OBVIOUS
      <4>2. \A i \in 1 .. n : s[i] = i - 1
        OBVIOUS
      <4>3. \A i \in 1 .. n + 1 : t[i] = i - 1
        OBVIOUS
      <4> HIDE DEF s, t
      <4>4. Append(s, n) \in Seq(Nat) /\ Len(Append(s, n)) = n + 1
        BY <4>1
      <4>5. \A i \in 1 .. n + 1 : Append(s, n)[i] = t[i]
        <5> SUFFICES ASSUME NEW i \in 1 .. n + 1 PROVE Append(s, n)[i] = t[i]
          OBVIOUS
        <5>1. CASE i \in 1 .. n
          <6>1. Append(s, n)[i] = s[i]
            BY <4>1, <5>1
          <6>2. s[i] = i - 1 /\ t[i] = i - 1
            BY <4>2, <4>3, <5>1
          <6> QED BY <6>1, <6>2
        <5>2. CASE i = n + 1
          <6>1. Append(s, n)[i] = n
            BY <4>1, <5>2
          <6>2. t[i] = n
            BY <4>3, <5>2
          <6> QED BY <6>1, <6>2
        <5>3. i \in 1 .. n \/ i = n + 1
          OBVIOUS
        <5> QED BY <5>1, <5>2, <5>3, Zenon
      <4>6. Append(s, n) = t
        BY <4>1, <4>4, <4>5, SeqEqual
      <4> QED BY <4>6 DEF s, t
    <3> QED BY <2>2, <2>3, <3>3, <3>4, <3>5
  <2> QED BY <2>5, <2>6, Zenon DEF ShownSoFar
<1>8. ASSUME FinishLine PROVE ShownSoFar'
  <2>1. /\ writer.pc = "finish" /\ writer' = [writer EXCEPT !.pc = "pid", !.ctrl = term_int]
        /\ shown' = shown /\ late' = late
    BY <1>8 DEF FinishLine
  <2>2. AtLine /\ writer'.next = writer.next
    BY <1>w, <2>1 DEF AtLine
  <2> QED BY <2>1, <2>2, ShownSame
<1>9. ASSUME WakeWriter PROVE ShownSoFar'
  <2>1. writer' = [writer EXCEPT !.pc = Again("writer")]
    BY <1>9 DEF WakeWriter
  <2>2. ~AtLine'
    BY <1>w, <2>1 DEF AtLine, Again
  <2> QED BY <2>2, Zenon DEF ShownSoFar
<1>10. ASSUME NEW p \in User, term_read_real(p) PROVE ShownSoFar'
  BY <1>10, <1>a DEF term_read_real
<1>11. ASSUME NEW p \in User, NEW n \in Sizes, term_write_real(p, n) PROVE ShownSoFar'
  BY <1>11, <1>a DEF term_write_real
<1>12. ASSUME NEW p \in User, GetLine(p) PROVE ShownSoFar'
  BY <1>12, <1>a DEF GetLine
<1>13. ASSUME NEW p \in User, SendPid(p) PROVE ShownSoFar'
  BY <1>13, <1>a DEF SendPid
<1>14. ASSUME NEW p \in User, SendText(p) PROVE ShownSoFar'
  BY <1>14, <1>a DEF SendText
<1>15. ASSUME NEW p \in User, AwaitWritten(p) PROVE ShownSoFar'
  BY <1>15, <1>a DEF AwaitWritten
<1>16. ASSUME Start3 PROVE ShownSoFar'
  BY <1>16, <1>a DEF Start3
<1> QED
  BY Steps, <1>1, <1>2, <1>3, <1>4, <1>5, <1>6, <1>7, <1>8, <1>9, <1>10, <1>11, <1>12, <1>13,
     <1>14, <1>15, <1>16, Zenon

LEMMA ShownTells == ASSUME TInv, ShownSoFar PROVE LineShown
<1> SUFFICES ASSUME writer.pc \in {"finish", "pid"}
             PROVE  /\ \A i, j \in 1 .. Len(shown) : i < j => shown[i] < shown[j]
                    /\ ~late => shown = [i \in 1 .. writer.line.size |-> i - 1]
  BY Zenon DEF LineShown
<1>1. AtLine
  BY DEF AtLine
<1>2. writer.next = writer.line.size
  BY DEF TInv, WriterTypes
<1> QED BY <1>1, <1>2, Zenon DEF ShownSoFar, InOrder

-----------------------------------------------------------------------------
(***************************************************************************)
(* Characters on their way from TermDriver to the lines that are read.     *)
(***************************************************************************)
lineVars == <<start3, zapped, reader, char_recv, driver, accepted, taken, line_read>>

LEMMA LinesSame == ASSUME Lines, UNCHANGED lineVars PROVE Lines'
<1>1. /\ start3' = start3 /\ zapped' = zapped /\ reader' = reader /\ char_recv' = char_recv
      /\ driver' = driver /\ accepted' = accepted /\ taken' = taken /\ line_read' = line_read
  BY DEF lineVars
<1>2. CASE start3 # "start4"
  BY <1>1, <1>2, Zenon DEF Lines
<1>3. CASE start3 = "start4"
  <2> USE <1>3 DEF Lines
  <2>1. /\ "reader" \notin zapped' /\ reader'.pc # "ended"
        /\ char_recv' \in Seq(Char) /\ driver'.char \in Char \union {NONE}
    BY <1>1, Zenon
  <2>2. accepted' = FlattenSeq(taken') \o FlattenSeq(line_read') \o reader'.line \o char_recv'
    BY <1>1
  <2>3. /\ \A n \in 1 .. Len(taken') : Whole(taken'[n])
        /\ \A n \in 1 .. Len(line_read') : Whole(line_read'[n])
        /\ reader'.pc = "send" => Whole(reader'.line)
        /\ reader'.pc = "receive" => Ends(reader'.line) = {}
    BY <1>1, Zenon
  <2> QED BY <2>1, <2>2, <2>3, Zenon DEF Whole, Ends
<1> QED BY <1>2, <1>3

\* The characters of one line after those of another.
InRow(a, b, c, d)         == ((a \o b) \o c) \o d
TailJoins(a, b, c, d)     == InRow(a, b, c, d) = InRow(a, b, <<>>, c \o d)
LineJoins(a, b, c, d)     == InRow(a, b, c, d) = InRow(a, b \o c, <<>>, d)
LineLeaves(a, b, h, c, d) == InRow(a, h \o b, c, d) = InRow(a \o h, b, c, d)
RowGrowsBy(a, b, c, d, x) == Append(InRow(a, b, c, d), x) = InRow(a, b, c, Append(d, x))

LEMMA RowTail ==
  ASSUME NEW T, NEW a \in Seq(T), NEW b \in Seq(T), NEW c \in Seq(T), NEW d \in Seq(T)
  PROVE  TailJoins(a, b, c, d) /\ LineJoins(a, b, c, d)
<1>1. /\ a \o b \in Seq(T) /\ c \o d \in Seq(T) /\ b \o c \in Seq(T)
  OBVIOUS
<1>2. Assoc(a \o b, c, d) /\ Assoc(a, b, c)
  BY <1>1, Associative
<1>3. \A x \in Seq(T) : x \o <<>> = x
  BY ConcatEmptySeq
<1>4. (a \o b) \o <<>> = a \o b /\ (a \o (b \o c)) \o <<>> = a \o (b \o c)
  <2>1. a \o (b \o c) \in Seq(T)
    BY <1>1
  <2> QED BY <1>1, <1>3, <2>1
<1> QED BY <1>2, <1>4 DEF InRow, Assoc, TailJoins, LineJoins

LEMMA RowMoves ==
  ASSUME NEW T, NEW a \in Seq(T), NEW b \in Seq(T), NEW h \in Seq(T), NEW c \in Seq(T),
         NEW d \in Seq(T)
  PROVE  LineLeaves(a, b, h, c, d)
<1>1. Assoc(a, h, b)
  BY Associative
<1> QED BY <1>1 DEF InRow, Assoc, LineLeaves

LEMMA RowGrows ==
  ASSUME NEW T, NEW a \in Seq(T), NEW b \in Seq(T), NEW c \in Seq(T), NEW d \in Seq(T),
         NEW x \in T
  PROVE  RowGrowsBy(a, b, c, d, x)
<1>1. (a \o b) \o c \in Seq(T) /\ <<x>> \in Seq(T)
  OBVIOUS
<1>2. Assoc((a \o b) \o c, d, <<x>>)
  BY <1>1, Associative
<1>3. \A s \in Seq(T) : Append(s, x) = s \o <<x>>
  OBVIOUS
<1>4. InRow(a, b, c, d) \in Seq(T)
  BY <1>1 DEF InRow
<1>5. Append(InRow(a, b, c, d), x) = InRow(a, b, c, d) \o <<x>> /\ Append(d, x) = d \o <<x>>
  BY <1>3, <1>4
<1> QED BY <1>2, <1>5 DEF InRow, Assoc, RowGrowsBy

\* What a line looks like with one more character.
LEMMA EndsAppend ==
  ASSUME NEW l \in Seq(Text), NEW c \in Text, Ends(l) = {}
  PROVE  Ends(Append(l, c)) = IF c \in Newlines THEN {Len(l) + 1} ELSE {}
<1>1. /\ Len(Append(l, c)) = Len(l) + 1 /\ Len(l) \in Nat
      /\ Append(l, c)[Len(l) + 1] = c
      /\ \A i \in 1 .. Len(l) : Append(l, c)[i] = l[i]
  OBVIOUS
<1>2. \A i \in 1 .. Len(l) + 1 : i \in 1 .. Len(l) \/ i = Len(l) + 1
  BY <1>1
<1>3. Len(l) + 1 \in 1 .. Len(l) + 1
  BY <1>1
<1>4. \A i \in 1 .. Len(l) : l[i] \notin Newlines
  BY Zenon DEF Ends
<1> QED BY <1>1, <1>2, <1>3, <1>4, Zenon DEF Ends

LEMMA LinesKept ==
  ASSUME TInv, Lines, Next
  PROVE  Lines'
<1> USE DEF deviceVars, boxVars, driverVars, userVars, endVars, seenVars,
        readerRest, writerRest, userRest
<1>0. /\ taken \in Seq(Seq(Text)) /\ line_read \in Seq(Seq(Text)) /\ reader.line \in Seq(Text)
      /\ char_recv \in Seq(Held) /\ Len(char_recv) <= 1
      /\ driver \in [pc : {"waitdevice", "woken", "ended"}, char : Held]
  BY DEF TInv, TakenTypes, ReadTypes, ReaderTypes, RecvTypes, DriverTypes, CharSlots
<1>r. reader \in [pc : {"receive", "send", "ended"}, receive : Text, line : Seq(Text)]
  BY DEF TInv, ReaderTypes
<1>t. ASSUME start3 = "start4"
      PROVE  /\ "reader" \notin zapped /\ reader.pc # "ended"
             /\ char_recv \in Seq(Char) /\ driver.char \in Char \union {NONE}
             /\ accepted = InRow(FlattenSeq(taken), FlattenSeq(line_read), reader.line, char_recv)
             /\ \A n \in 1 .. Len(taken) : Whole(taken[n])
             /\ \A n \in 1 .. Len(line_read) : Whole(line_read[n])
             /\ reader.pc = "send" => Whole(reader.line)
             /\ reader.pc = "receive" => Ends(reader.line) = {}
  BY <1>t, Zenon DEF Lines, InRow
<1>f. /\ FlattenSeq(taken) \in Seq(Text) /\ FlattenSeq(line_read) \in Seq(Text)
      /\ Char \subseteq Text /\ Text \subseteq Held
  BY <1>0, FlattenType, Characters, Zenon
<1>c. ASSUME char_recv \in Seq(Char) PROVE char_recv \in Seq(Text)
  BY <1>c DEF Text
<1>1. ASSUME Poll PROVE Lines'
  <2> SUFFICES ASSUME start3' = "start4" PROVE Lines'
    BY Zenon DEF Lines
  <2>1. UNCHANGED <<start3, zapped, reader, char_recv, accepted, taken, line_read>>
    BY <1>1 DEF Poll
  <2>2. driver'.char \in Char \union {NONE}
    <3>1. PICK ch \in Input : driver' = driver \/ driver' = [pc |-> "woken", char |-> ch]
      BY <1>1 DEF Poll
    <3>2. ch \in Char \union {NONE}
      <4>1. typed \in 0 .. MaxTyped
        BY DEF TInv, DeviceTypes
      <4> QED BY <2>1, <4>1, TerminalAssumption DEF Input, Char
    <3>3. driver.char \in Char \union {NONE}
      BY <1>t, <2>1
    <3> QED BY <3>1, <3>2, <3>3
  <2>3. accepted' = InRow(FlattenSeq(taken'), FlattenSeq(line_read'), reader'.line, char_recv')
    BY <1>t, <2>1, Zenon
  <2> QED BY <1>t, <2>1, <2>2, <2>3, Zenon DEF Lines, Whole, Ends, InRow
<1>2. ASSUME TermDriver PROVE Lines'
  <2> SUFFICES ASSUME start3' = "start4" PROVE Lines'
    BY Zenon DEF Lines
  <2>1. UNCHANGED <<start3, zapped, reader, taken, line_read>>
    BY <1>2 DEF TermDriver
  <2>2. \/ driver' = [driver EXCEPT !.pc = "ended"]
        \/ driver' = [pc |-> "waitdevice", char |-> NONE]
    BY <1>2 DEF TermDriver
  <2>3. driver'.char \in Char \union {NONE}
    <3>1. driver.char \in Char \union {NONE}
      BY <1>t, <2>1
    <3>2. CASE driver' = [driver EXCEPT !.pc = "ended"]
      BY <1>0, <3>1, <3>2
    <3>3. CASE driver' = [pc |-> "waitdevice", char |-> NONE]
      BY <3>3
    <3> QED BY <2>2, <3>2, <3>3
  <2>4. \/ accepted' = accepted /\ char_recv' = char_recv
        \/ /\ accepted' = Append(accepted, driver.char) /\ driver.char # NONE
           /\ char_recv' = Append(char_recv, driver.char)
    BY <1>2 DEF TermDriver, Received
  <2>5. /\ char_recv' \in Seq(Char)
        /\ accepted' = InRow(FlattenSeq(taken'), FlattenSeq(line_read'), reader'.line, char_recv')
    <3>1. CASE accepted' = accepted /\ char_recv' = char_recv
      BY <1>t, <2>1, <3>1, Zenon
    <3>2. CASE /\ accepted' = Append(accepted, driver.char) /\ driver.char # NONE
               /\ char_recv' = Append(char_recv, driver.char)
      <4>1. driver.char \in Char /\ char_recv \in Seq(Char)
        BY <1>t, <2>1, <3>2
      <4>2. char_recv' \in Seq(Char)
        BY <3>2, <4>1
      <4>3. char_recv \in Seq(Text) /\ driver.char \in Text
        BY <1>f, <1>c, <4>1
      <4>4. Append(InRow(FlattenSeq(taken), FlattenSeq(line_read), reader.line, char_recv),
                   driver.char)
            = InRow(FlattenSeq(taken), FlattenSeq(line_read), reader.line,
                    Append(char_recv, driver.char))
        <5>1. RowGrowsBy(FlattenSeq(taken), FlattenSeq(line_read), reader.line, char_recv,
                         driver.char)
          BY <1>0, <1>f, <4>3, RowGrows, Zenon
        <5> QED BY <5>1 DEF RowGrowsBy
      <4> QED BY <1>t, <2>1, <3>2, <4>2, <4>4, Zenon
    <3> QED BY <2>4, <3>1, <3>2
  <2> QED BY <1>t, <2>1, <2>3, <2>5, Zenon DEF Lines, Whole, Ends, InRow
<1>3. ASSUME ReceiveChar PROVE Lines'
  <2> SUFFICES ASSUME start3' = "start4" PROVE Lines'
    BY Zenon DEF Lines
  <2>1. /\ UNCHANGED <<start3, zapped, driver, accepted, taken, line_read>>
        /\ reader.pc = "receive" /\ char_recv # <<>> /\ char_recv' = Tail(char_recv)
    BY <1>3 DEF ReceiveChar
  <2>2. PICK c \in Char : char_recv = <<c>>
    <3>1. char_recv \in Seq(Char) /\ Len(char_recv) = 1
      <4>1. char_recv \in Seq(Char)
        BY <1>t, <2>1
      <4>2. Len(char_recv) \in Nat /\ Len(char_recv) # 0
        BY <2>1, <4>1, EmptySeq
      <4>3. Len(char_recv) <= 1
        BY <1>0
      <4>4. Len(char_recv) = 1
        <5>1. PICK n \in Nat : n = Len(char_recv)
          BY <4>2
        <5>2. n # 0 /\ n <= 1
          BY <4>2, <4>3, <5>1, Zenon
        <5>3. n = 1
          BY <5>2
        <5> QED BY <5>1, <5>3
      <4> QED BY <4>1, <4>4, Zenon
    <3>2. char_recv[1] \in Char /\ char_recv = <<char_recv[1]>>
      BY <3>1
    <3> QED BY <3>2
  <2>3. Head(char_recv) = c /\ char_recv' = <<>> /\ c # NONE /\ c # Blank /\ c \in Text
    BY <2>1, <2>2, TerminalAssumption DEF Char, NONE, Blank, Text
  <2> DEFINE line == reader.line
             new  == Append(line, c)
  <2>4. PICK ends \in EndsLine(c, line) :
          reader' = [pc |-> IF ends THEN "send" ELSE Again("reader"), receive |-> c, line |-> new]
    BY <1>3, <2>3 DEF ReceiveChar
  <2>5. ends = (Len(line) + 1 = MAXLINE \/ c \in Newlines)
    <3>1. EndsLine(c, line) = IF Len(line) + 1 = MAXLINE THEN {TRUE} ELSE {c \in Newlines}
      BY <2>3 DEF EndsLine
    <3> QED BY <2>4, <3>1
  <2>6. Again("reader") = "receive"
    BY <1>t, <2>1 DEF Again
  <2>7. reader'.pc = (IF ends THEN "send" ELSE "receive") /\ reader'.line = new
    BY <2>4, <2>6
  <2>8. Ends(new) = (IF c \in Newlines THEN {Len(line) + 1} ELSE {}) /\ Len(new) = Len(line) + 1
    <3>1. Ends(line) = {}
      BY <1>t, <2>1
    <3>2. Len(new) = Len(line) + 1
      BY <1>0
    <3> QED BY <1>0, <2>3, <3>1, <3>2, EndsAppend, Zenon
  <2>9. accepted' = InRow(FlattenSeq(taken'), FlattenSeq(line_read'), reader'.line, char_recv')
    <3>1. line \in Seq(Text) /\ <<c>> \in Seq(Text) /\ <<>> \in Seq(Text) /\ new \in Seq(Text)
      BY <1>0, <2>3
    <3>2. line \o <<c>> = new /\ new \o <<>> = new
      BY <3>1
    <3>3. InRow(FlattenSeq(taken), FlattenSeq(line_read), line, <<c>>)
            = InRow(FlattenSeq(taken), FlattenSeq(line_read), <<>>, line \o <<c>>)
      <4>1. TailJoins(FlattenSeq(taken), FlattenSeq(line_read), line, <<c>>)
        BY <1>f, <3>1, RowTail, Zenon
      <4> QED BY <4>1 DEF TailJoins
    <3>4. InRow(FlattenSeq(taken), FlattenSeq(line_read), new, <<>>)
            = InRow(FlattenSeq(taken), FlattenSeq(line_read), <<>>, new \o <<>>)
      <4>1. TailJoins(FlattenSeq(taken), FlattenSeq(line_read), new, <<>>)
        BY <1>f, <3>1, RowTail, Zenon
      <4> QED BY <4>1 DEF TailJoins
    <3>5. accepted = InRow(FlattenSeq(taken), FlattenSeq(line_read), line, <<c>>)
      BY <1>t, <2>1, <2>2, Zenon
    <3> HIDE DEF line, new
    <3>6. accepted = InRow(FlattenSeq(taken), FlattenSeq(line_read), new, <<>>)
      BY <3>2, <3>3, <3>4, <3>5
    <3> QED BY <2>1, <2>3, <2>7, <3>6, Zenon
  <2>10. char_recv' \in Seq(Char)
    BY <2>3
  <2>11. (reader'.pc = "send" => Whole(new)) /\ (reader'.pc = "receive" => Ends(new) = {})
         /\ reader'.pc # "ended"
    <3> HIDE DEF new, line
    <3> QED BY <2>5, <2>7, <2>8 DEF Whole
  <2> HIDE DEF new
  <2> QED BY <1>t, <2>1, <2>7, <2>9, <2>10, <2>11, Zenon DEF Lines, Whole, Ends, InRow
<1>4. ASSUME SendLine PROVE Lines'
  <2> SUFFICES ASSUME start3' = "start4" PROVE Lines'
    BY Zenon DEF Lines
  <2>1. /\ UNCHANGED <<start3, zapped, driver, accepted, taken, char_recv>>
        /\ reader.pc = "send" /\ line_read' = Append(line_read, reader.line)
        /\ reader' = [reader EXCEPT !.pc = Again("reader"), !.line = <<>>]
    BY <1>4 DEF SendLine
  <2>2. reader'.pc = "receive" /\ reader'.line = <<>>
    <3>1. Again("reader") = "receive"
      BY <1>t, <2>1 DEF Again
    <3> QED BY <1>r, <2>1, <3>1
  <2>3. Ends(<<>>) = {}
    BY DEF Ends
  <2>4. \A n \in 1 .. Len(line_read') : Whole(line_read'[n])
    <3>1. /\ Len(line_read') = Len(line_read) + 1 /\ Len(line_read) \in Nat
          /\ line_read'[Len(line_read) + 1] = reader.line
          /\ \A n \in 1 .. Len(line_read) : line_read'[n] = line_read[n]
      BY <1>0, <2>1
    <3>2. \A n \in 1 .. Len(line_read') : n \in 1 .. Len(line_read) \/ n = Len(line_read) + 1
      BY <3>1
    <3>3. Whole(reader.line)
      BY <1>t, <2>1
    <3> QED BY <1>t, <2>1, <3>1, <3>2, <3>3, Zenon
  <2>5. accepted' = InRow(FlattenSeq(taken'), FlattenSeq(line_read'), reader'.line, char_recv')
    <3>1. FlattenSeq(line_read') = FlattenSeq(line_read) \o reader.line
      BY <1>0, <2>1, FlattenAppend
    <3>2. char_recv \in Seq(Text)
      BY <1>t, <1>c, <2>1
    <3>3. InRow(FlattenSeq(taken), FlattenSeq(line_read), reader.line, char_recv)
            = InRow(FlattenSeq(taken), FlattenSeq(line_read) \o reader.line, <<>>, char_recv)
      <4>1. LineJoins(FlattenSeq(taken), FlattenSeq(line_read), reader.line, char_recv)
        BY <1>0, <1>f, <3>2, RowTail, Zenon
      <4> QED BY <4>1 DEF LineJoins
    <3>4. accepted = InRow(FlattenSeq(taken), FlattenSeq(line_read), reader.line, char_recv)
      BY <1>t, <2>1
    <3> QED BY <2>1, <2>2, <3>1, <3>3, <3>4
  <2> QED BY <1>t, <2>1, <2>2, <2>3, <2>4, <2>5, Zenon DEF Lines, Whole, Ends, InRow
<1>5. ASSUME TakeLine PROVE Lines'
  BY <1>5, LinesSame DEF TakeLine, lineVars
<1>6. ASSUME AwaitReady PROVE Lines'
  BY <1>6, LinesSame DEF AwaitReady, lineVars
<1>7. ASSUME PutChar PROVE Lines'
  BY <1>7, LinesSame DEF PutChar, lineVars
<1>8. ASSUME FinishLine PROVE Lines'
  BY <1>8, LinesSame DEF FinishLine, lineVars
<1>9. ASSUME WakeWriter PROVE Lines'
  BY <1>9, LinesSame DEF WakeWriter, lineVars
<1>10. ASSUME NEW p \in User, term_read_real(p) PROVE Lines'
  BY <1>10, LinesSame DEF term_read_real, lineVars
<1>11. ASSUME NEW p \in User, NEW n \in Sizes, term_write_real(p, n) PROVE Lines'
  BY <1>11, LinesSame DEF term_write_real, lineVars
<1>12. ASSUME NEW p \in User, GetLine(p) PROVE Lines'
  <2> SUFFICES ASSUME start3' = "start4" PROVE Lines'
    BY Zenon DEF Lines
  <2>1. /\ UNCHANGED <<start3, zapped, reader, driver, accepted, char_recv>>
        /\ line_read # <<>> /\ line_read' = Tail(line_read)
        /\ taken' = Append(taken, Head(line_read))
    BY <1>12 DEF GetLine
  <2> DEFINE h == Head(line_read)
  <2>2. /\ h \in Seq(Text) /\ Len(line_read) \in Nat /\ Len(line_read) # 0
        /\ line_read[1] = h
        /\ Len(line_read') = Len(line_read) - 1
        /\ line_read' \in Seq(Seq(Text))
        /\ \A n \in 1 .. Len(line_read') : line_read'[n] = line_read[n + 1]
    BY <1>0, <2>1
  <2>3. /\ Len(taken') = Len(taken) + 1 /\ Len(taken) \in Nat
        /\ taken'[Len(taken) + 1] = h
        /\ \A n \in 1 .. Len(taken) : taken'[n] = taken[n]
    BY <1>0, <2>1
  <2>4. FlattenSeq(taken') = FlattenSeq(taken) \o h
    BY <1>0, <2>1, <2>2, FlattenAppend
  <2>5. FlattenSeq(line_read) = h \o FlattenSeq(line_read')
    BY <1>0, <2>1, FlattenHead
  <2>6. FlattenSeq(line_read') \in Seq(Text) /\ char_recv \in Seq(Text)
    BY <1>t, <1>c, <2>1, <2>2, FlattenType
  <2> HIDE DEF h
  <2>7. InRow(FlattenSeq(taken), h \o FlattenSeq(line_read'), reader.line, char_recv)
          = InRow(FlattenSeq(taken) \o h, FlattenSeq(line_read'), reader.line, char_recv)
    <3>1. LineLeaves(FlattenSeq(taken), FlattenSeq(line_read'), h, reader.line, char_recv)
      BY <1>0, <1>f, <2>2, <2>6, RowMoves, Zenon
    <3> QED BY <3>1 DEF LineLeaves
  <2>8. accepted' = InRow(FlattenSeq(taken'), FlattenSeq(line_read'), reader'.line, char_recv')
    <3>1. accepted = InRow(FlattenSeq(taken), FlattenSeq(line_read), reader.line, char_recv)
      BY <1>t, <2>1
    <3> QED BY <2>1, <2>4, <2>5, <2>7, <3>1
  <2>9. \A n \in 1 .. Len(taken') : Whole(taken'[n])
    <3>1. \A n \in 1 .. Len(taken') : n \in 1 .. Len(taken) \/ n = Len(taken) + 1
      BY <2>3
    <3>2. Whole(h)
      <4>1. 1 \in 1 .. Len(line_read)
        BY <2>2
      <4> QED BY <1>t, <2>1, <2>2, <4>1, Zenon
    <3> QED BY <1>t, <2>1, <2>3, <3>1, <3>2, Zenon
  <2>10. \A n \in 1 .. Len(line_read') : Whole(line_read'[n])
    <3>1. \A n \in 1 .. Len(line_read') : n + 1 \in 1 .. Len(line_read)
      BY <2>2
    <3> QED BY <1>t, <2>1, <2>2, <3>1, Zenon
  <2> QED BY <1>t, <2>1, <2>8, <2>9, <2>10, Zenon DEF Lines, Whole, Ends, InRow
<1>13. ASSUME NEW p \in User, SendPid(p) PROVE Lines'
  BY <1>13, LinesSame DEF SendPid, lineVars
<1>14. ASSUME NEW p \in User, SendText(p) PROVE Lines'
  BY <1>14, LinesSame DEF SendText, lineVars
<1>15. ASSUME NEW p \in User, AwaitWritten(p) PROVE Lines'
  BY <1>15, LinesSame DEF AwaitWritten, lineVars
<1>16. ASSUME Start3 PROVE Lines'
  <2>1. start3' # "start4"
    BY <1>16 DEF Start3
  <2> QED BY <2>1, Zenon DEF Lines
<1> QED
  BY Steps, <1>1, <1>2, <1>3, <1>4, <1>5, <1>6, <1>7, <1>8, <1>9, <1>10, <1>11, <1>12, <1>13,
     <1>14, <1>15, <1>16, Zenon

LEMMA InitLines == Init => Lines
<1> SUFFICES ASSUME Init PROVE Lines
  OBVIOUS
<1>1. /\ zapped = {} /\ reader.pc = "receive" /\ reader.line = <<>> /\ char_recv = <<>>
      /\ driver.char = NONE /\ accepted = <<>> /\ taken = <<>> /\ line_read = <<>>
  BY DEF Init
<1>2. <<>> \o <<>> \o <<>> \o <<>> = <<>>
  OBVIOUS
<1>3. accepted = FlattenSeq(taken) \o FlattenSeq(line_read) \o reader.line \o char_recv
  BY <1>1, <1>2, FlattenEmpty
<1>4. Ends(<<>>) = {}
  BY DEF Ends
<1>5. char_recv \in Seq(Char) /\ Len(taken) = 0 /\ Len(line_read) = 0
  BY <1>1
<1> QED BY <1>1, <1>3, <1>4, <1>5 DEF Lines

LEMMA LinesTell == ASSUME TInv, Lines PROVE LinesInOrder
<1> SUFFICES ASSUME start3 = "start4"
             PROVE  /\ accepted = FlattenSeq(taken) \o FlattenSeq(line_read) \o reader.line
                                    \o char_recv
                    /\ \A n \in 1 .. Len(taken) : Whole(taken[n])
  BY Zenon DEF LinesInOrder, Whole, Ends
<1> QED BY Zenon DEF Lines

-----------------------------------------------------------------------------
TermInv == TInv /\ Pairs /\ Idle /\ ShownSoFar /\ Lines

\* Whatever does not change keeps the invariant.
LEMMA TermSame == ASSUME TermInv, UNCHANGED vars PROVE TermInv'
<1>1. /\ UNCHANGED deviceVars /\ UNCHANGED boxVars /\ UNCHANGED driverVars
      /\ UNCHANGED userVars /\ UNCHANGED endVars /\ UNCHANGED seenVars
  BY DEF vars
<1>2. UNCHANGED pairVars /\ UNCHANGED idleVars /\ UNCHANGED lineVars
  BY <1>1 DEF boxVars, driverVars, userVars, endVars, seenVars, deviceVars,
              pairVars, idleVars, lineVars
<1>3. Pairs' /\ Idle' /\ Lines'
  BY <1>2, PairsSame, IdleSame, LinesSame, Zenon DEF TermInv
<1>4. ShownSoFar'
  <2>1. writer' = writer /\ shown' = shown /\ late' = late
    BY <1>1 DEF driverVars, seenVars
  <2> QED BY <2>1, ShownSame DEF TermInv, AtLine
<1>5. TInv'
  <2> USE <1>1 DEF TermInv, TInv
  <2>1. ControlTypes' /\ DeviceTypes'
    BY Zenon DEF ControlTypes, DeviceTypes, deviceVars
  <2>2. RecvTypes' /\ SendTypes' /\ ReadTypes' /\ WriteTypes' /\ PidTypes'
    BY Zenon DEF RecvTypes, SendTypes, ReadTypes, WriteTypes, PidTypes, boxVars
  <2>3. DriverTypes' /\ ReaderTypes' /\ WriterTypes'
    BY Zenon DEF DriverTypes, ReaderTypes, WriterTypes, driverVars
  <2>4. PcTypes' /\ SizeTypes' /\ SemTypes' /\ EndTypes'
    BY Zenon DEF PcTypes, SizeTypes, SemTypes, EndTypes, userVars, endVars
  <2>5. AcceptedTypes' /\ TakenTypes' /\ ShownTypes' /\ FlagTypes'
    BY Zenon DEF AcceptedTypes, TakenTypes, ShownTypes, FlagTypes, seenVars, driverVars
  <2> QED BY <2>1, <2>2, <2>3, <2>4, <2>5, Zenon
<1> QED BY <1>3, <1>4, <1>5, Zenon DEF TermInv

\* The invariant of the three drivers, from which the properties follow.
THEOREM TermHolds == Spec => []TermInv
<1>1. Init => TermInv
  BY InitTypes, InitPairs, InitIdle, InitLines, Zenon DEF TermInv
<1>2. TermInv /\ [Next]_vars => TermInv'
  <2> SUFFICES ASSUME TermInv, [Next]_vars PROVE TermInv'
    OBVIOUS
  <2>1. CASE Next
    BY <2>1, TypesKept, PairsKept, IdleKept, ShownKept, LinesKept, Zenon DEF TermInv
  <2>2. CASE UNCHANGED vars
    BY <2>2, TermSame
  <2> QED BY <2>1, <2>2
<1> QED BY <1>1, <1>2, PTL DEF Spec

\* Every variable has the values that the model gives it: no mailbox holds more
\* than its slots, and the reader puts its characters inside its buffer
\* (phase4.c:451); only the terminator of a full line (459) goes one beyond it.
THEOREM TerminalTypes == Spec => []TypeOK
<1>1. TermInv => TypeOK
  BY TypesHold, Zenon DEF TermInv
<1> QED BY <1>1, TermHolds, PTL

\* No character is lost, repeated or reordered between char_recv_mbox and the
\* lines that are read, and each of these ends where a line has to.
THEOREM NoCharacterLost == Spec => []LinesInOrder
<1>1. TermInv => LinesInOrder
  BY LinesTell, Zenon DEF TermInv
<1> QED BY <1>1, TermHolds, PTL

\* The process that TermWriter wakes is the one whose line it has written.
THEOREM RightProcessWoken == Spec => []WriterPaired
<1>1. TermInv => WriterPaired
  BY PairsTell, Zenon DEF TermInv
<1> QED BY <1>1, TermHolds, PTL

\* A finished line was put out in order, and whole if the device reported only
\* when the drivers were all blocked.
THEOREM WholeLineShown == Spec => []LineShown
<1>1. TermInv => LineShown
  BY ShownTells, Zenon DEF TermInv
<1> QED BY <1>1, TermHolds, PTL
=============================================================================
