----------------------------- MODULE Terminal -----------------------------
(***************************************************************************)
(* One terminal of Phase 4 (src/phase4/phase4.c): TermDriver passes what   *)
(* the device reports to TermReader, which makes lines of the characters,  *)
(* and to TermWriter, which puts lines out character by character; they    *)
(* and the processes in term_read_real and term_write_real meet in five    *)
(* mailboxes.                                                              *)
(*                                                                         *)
(* The three drivers have priority 2 and may be sliced among each other    *)
(* anywhere; start3 and user processes have lower ones and run while all   *)
(* three are blocked.                                                      *)
(*                                                                         *)
(* External: the device (dev_term.c of the simulator), which now and then  *)
(* looks for a character and reports that it is ready to transmit; its     *)
(* handler, whose message is lost unless TermDriver waits for it;          *)
(* mailboxes that block a sender while they are full; semaphores; zap and  *)
(* join.                                                                   *)
(***************************************************************************)
EXTENDS Integers, Sequences, FiniteSets

CONSTANTS
  User,        \* processes that read and write
  Sizes,       \* the sizes they write
  MAXLINE,
  LineSlots,   \* of line_read_mbox and line_write_mbox, 10 in the code
  MaxTyped,    \* bound: characters 1, 2, ..., MaxTyped are typed, in this order
  Newlines     \* those of them that end a line

ASSUME TerminalAssumption ==
  /\ Sizes \subseteq Int /\ MAXLINE \in Nat \ {0} /\ LineSlots \in Nat \ {0}
  /\ MaxTyped \in Nat /\ Newlines \subseteq 1 .. MaxTyped

NONE  == 0        \* no character; a message of size 0
Char  == 1 .. MaxTyped
Blank == MaxTyped + 1          \* what an uninitialised character holds, say

VARIABLES
  \* The device:
  control,     \* [recv_int, xmit_int], the interrupts enabled
  busy,        \* it is transmitting a character
  typed,       \* how many characters have been typed
  \* The mailboxes:
  char_recv, char_send, line_read, line_write, pid_mbox,
  \* The drivers:
  driver,      \* [pc, char]
  reader,      \* [pc, receive, line]
  writer,      \* [pc, line, next, ctrl], ctrl whether RECV_INT is left in it
  term_int,    \* term_int[unit]
  \* The processes:
  pc, size, block_sem,
  start3, zapped,
  \* Not in the code:
  accepted,    \* the characters put into char_recv
  taken,       \* the lines received from line_read
  shown,       \* the characters of the writer's line that were put out
  late,        \* the device has reported while a driver had something to do
  silenced     \* its control register was overwritten during a line

deviceVars == <<control, busy, typed>>
boxVars    == <<char_recv, char_send, line_read, line_write, pid_mbox>>
driverVars == <<driver, reader, writer, term_int>>
userVars   == <<pc, size, block_sem>>
endVars    == <<start3, zapped>>
seenVars   == <<accepted, taken, shown, late, silenced>>
vars == <<deviceVars, boxVars, driverVars, userVars, endVars, seenVars>>

\* A line to write is known by its process and size.
Line(p, n) == [by |-> p, size |-> n]
NoLine     == [by |-> "nobody", size |-> 0]
OutLine    == [by : User, size : 0 .. MAXLINE] \union {NoLine}

\* The capacities start3 creates the mailboxes with.
CharSlots == 1
\* Mutant: two pids at a time.
PidSlotsTwo == 2

PidSlots == 1

TypeOK ==
  /\ control \in [recv_int : BOOLEAN, xmit_int : BOOLEAN] /\ busy \in BOOLEAN
  /\ typed \in 0 .. MaxTyped
  /\ Len(char_recv) <= CharSlots /\ Len(char_send) <= CharSlots /\ Len(pid_mbox) <= PidSlots
  /\ Len(line_read) <= LineSlots /\ Len(line_write) <= LineSlots
  /\ driver \in [pc : {"waitdevice", "woken", "ended"}, char : Char \union {NONE, Blank}]
  /\ reader.pc \in {"receive", "send", "ended"} /\ reader.receive \in Char \union {Blank}
  /\ Len(reader.line) <= MAXLINE
  /\ writer \in [pc : {"line", "ready", "put", "finish", "pid", "ended"}, line : OutLine,
                 next : 0 .. MAXLINE, ctrl : BOOLEAN]
  /\ term_int \in BOOLEAN
  /\ pc \in [User -> {"user", "read", "pid", "line", "semp"}] /\ size \in [User -> Nat]
  /\ block_sem \in [User -> 0 .. 1]
  /\ start3 \in {"start4", "zapReader", "joinReader", "zapWriter", "joinWriter", "zapDriver"}
  /\ zapped \subseteq {"driver", "reader", "writer"}

\* All drivers run, wait, and nothing was read or written yet.
Init ==
  /\ control = [recv_int |-> FALSE, xmit_int |-> FALSE] /\ busy = FALSE /\ typed = 0
  /\ char_recv = <<>> /\ char_send = <<>> /\ line_read = <<>> /\ line_write = <<>>
  /\ pid_mbox = <<>>
  /\ driver = [pc |-> "waitdevice", char |-> NONE]
  /\ reader = [pc |-> "receive", receive |-> Blank, line |-> <<>>]
  /\ writer = [pc |-> "line", line |-> NoLine, next |-> 0, ctrl |-> FALSE]
  /\ term_int = FALSE
  /\ pc = [p \in User |-> "user"] /\ size = [p \in User |-> 0] /\ block_sem = [p \in User |-> 0]
  /\ start3 = "start4" /\ zapped = {}
  /\ accepted = <<>> /\ taken = <<>> /\ shown = <<>> /\ late = FALSE /\ silenced = FALSE

-----------------------------------------------------------------------------
\* What blocks the drivers.
DriverBlocked == driver.pc \in {"waitdevice", "ended"}
ReaderBlocked ==
  CASE reader.pc = "receive" -> char_recv = <<>>
    [] reader.pc = "send"    -> Len(line_read) = LineSlots
    [] OTHER                 -> TRUE
WriterBlocked ==
  CASE writer.pc = "line"   -> line_write = <<>>
    [] writer.pc = "ready"  -> char_send = <<>>
    [] writer.pc = "pid"    -> pid_mbox = <<>>
    [] OTHER                -> writer.pc = "ended"
Quiet == DriverBlocked /\ ReaderBlocked /\ WriterBlocked

\* The device looks at its input, whether or not anybody wants it, and is ready
\* to transmit from then on.  When start3 zaps the driver it writes a last line
\* to the input.
Input == {NONE} \union (IF start3 = "zapDriver" THEN {Blank} ELSE {})
                \union (IF typed < MaxTyped THEN {typed + 1} ELSE {})

Poll ==
  \E ch \in Input :
    LET interrupt == control.xmit_int \/ (control.recv_int /\ ch # NONE)
    IN  /\ busy' = FALSE
        /\ typed' = IF ch \in Char THEN ch ELSE typed
        /\ driver' = IF interrupt /\ driver.pc = "waitdevice"
                     THEN [pc |-> "woken", char |-> ch] ELSE driver
        /\ late' = (late \/ ~Quiet)
        /\ UNCHANGED <<control, boxVars, reader, writer, term_int, userVars, endVars,
                       accepted, taken, shown, silenced>>

\* device_output with new interrupts; with a character, which the device drops
\* while it is transmitting another.
SetControl(recv, xmit) == control' = [recv_int |-> recv, xmit_int |-> xmit]

-----------------------------------------------------------------------------
(* TermDriver *)

\* What the sends of the driver leave in the boxes: conditional ones lose what
\* does not fit.
Received == driver.char # NONE /\ Len(char_recv) < CharSlots
Ready(box) == IF Len(box) < CharSlots THEN Append(box, "ready") ELSE box

TermDriver ==
  /\ driver.pc = "woken"
  /\ IF "driver" \in zapped
     THEN driver' = [driver EXCEPT !.pc = "ended"] /\ UNCHANGED <<char_recv, char_send, accepted>>
     ELSE /\ driver' = [pc |-> "waitdevice", char |-> NONE]
          /\ char_recv' = IF Received THEN Append(char_recv, driver.char) ELSE char_recv
          /\ accepted' = IF Received THEN Append(accepted, driver.char) ELSE accepted
          /\ char_send' = Ready(char_send)
  /\ UNCHANGED <<deviceVars, line_read, line_write, pid_mbox, reader, writer, term_int,
                 userVars, endVars, taken, shown, late, silenced>>

-----------------------------------------------------------------------------
(* TermReader *)

Again(p) == IF p \in zapped THEN "ended" ELSE IF p = "reader" THEN "receive" ELSE "line"

readerRest == <<deviceVars, char_send, line_write, pid_mbox, driver, writer, term_int,
                userVars, endVars, seenVars>>

\* Mutant: a full line is not sent before the next character is put into it.
EndsLineOnly(ch, line) == IF ch = Blank THEN BOOLEAN ELSE {ch \in Newlines}

\* A character that was never received may be anything.
EndsLine(ch, line) ==
  IF Len(line) + 1 = MAXLINE THEN {TRUE} ELSE IF ch = Blank THEN BOOLEAN ELSE {ch \in Newlines}

\* A message of size 0 leaves what was received before.
ReceiveChar ==
  LET ch == IF Head(char_recv) = NONE THEN reader.receive ELSE Head(char_recv)
  IN  /\ reader.pc = "receive" /\ char_recv # <<>>
      /\ char_recv' = Tail(char_recv)
      /\ \E ends \in EndsLine(ch, reader.line) :
           reader' = [pc |-> IF ends THEN "send" ELSE Again("reader"),
                      receive |-> ch, line |-> Append(reader.line, ch)]
      /\ UNCHANGED <<line_read, readerRest>>

\* Mutant: the line is not reset.
SendLineKeeps ==
  /\ reader.pc = "send" /\ Len(line_read) < LineSlots
  /\ line_read' = Append(line_read, reader.line)
  /\ reader' = [reader EXCEPT !.pc = Again("reader")]
  /\ UNCHANGED <<char_recv, readerRest>>

SendLine ==
  /\ reader.pc = "send" /\ Len(line_read) < LineSlots
  /\ line_read' = Append(line_read, reader.line)
  /\ reader' = [reader EXCEPT !.pc = Again("reader"), !.line = <<>>]
  /\ UNCHANGED <<char_recv, readerRest>>

TermReader == ReceiveChar \/ SendLine

-----------------------------------------------------------------------------
(* TermWriter *)

writerRest == <<typed, char_recv, line_read, driver, reader, pc, size, endVars,
                accepted, taken, late, silenced>>

\* Mutant: the device is not waited for.
AtCharAtOnce(line, next) == IF next < line.size THEN "put" ELSE "finish"

AtChar(line, next) == IF next < line.size THEN "ready" ELSE "finish"

\* Mutant: transmit interrupts are not enabled.
TakeLineSilently ==
  /\ writer.pc = "line" /\ line_write # <<>>
  /\ line_write' = Tail(line_write) /\ shown' = <<>>
  /\ writer' = [writer EXCEPT !.pc = AtChar(Head(line_write), 0), !.line = Head(line_write),
                              !.next = 0]
  /\ UNCHANGED <<control, busy, char_send, pid_mbox, term_int, block_sem, writerRest>>

TakeLine ==
  /\ writer.pc = "line" /\ line_write # <<>>
  /\ line_write' = Tail(line_write)
  /\ IF "writer" \in zapped
     THEN writer' = [writer EXCEPT !.pc = "ended"] /\ UNCHANGED <<control, shown>>
     ELSE /\ SetControl(writer.ctrl, TRUE)
          /\ writer' = [writer EXCEPT !.pc = AtChar(Head(line_write), 0),
                                      !.line = Head(line_write), !.next = 0]
          /\ shown' = <<>>
  /\ UNCHANGED <<busy, char_send, pid_mbox, term_int, block_sem, writerRest>>

AwaitReady ==
  /\ writer.pc = "ready" /\ char_send # <<>>
  /\ char_send' = Tail(char_send)
  /\ writer' = [writer EXCEPT !.pc = "put"]
  /\ UNCHANGED <<control, busy, line_write, pid_mbox, term_int, block_sem, shown, writerRest>>

\* device_output drops the character while the device is transmitting another.
PutChar ==
  /\ writer.pc = "put"
  /\ SetControl(FALSE, TRUE)
  /\ busy' = TRUE
  /\ shown' = IF busy THEN shown ELSE Append(shown, writer.next)
  /\ writer' = [writer EXCEPT !.pc = AtChar(writer.line, writer.next + 1), !.next = @ + 1]
  /\ UNCHANGED <<char_send, line_write, pid_mbox, term_int, block_sem, writerRest>>

FinishLine ==
  /\ writer.pc = "finish"
  /\ SetControl(term_int, FALSE)
  /\ term_int' = FALSE
  /\ writer' = [writer EXCEPT !.pc = "pid", !.ctrl = term_int]
  /\ UNCHANGED <<busy, char_send, line_write, pid_mbox, block_sem, shown, writerRest>>

WakeWriter ==
  /\ writer.pc = "pid" /\ pid_mbox # <<>>
  /\ pid_mbox' = Tail(pid_mbox)
  /\ block_sem' = [block_sem EXCEPT ![Head(pid_mbox)] = @ + 1]
  /\ writer' = [writer EXCEPT !.pc = Again("writer")]
  /\ UNCHANGED <<control, busy, char_send, line_write, term_int, shown, writerRest>>

TermWriter == TakeLine \/ AwaitReady \/ PutChar \/ FinishLine \/ WakeWriter

-----------------------------------------------------------------------------
(* The calls.  Those with a bad size or unit return at once. *)

userRest == <<busy, typed, char_recv, char_send, driver, reader, writer, endVars,
              accepted, shown, late>>

term_read_real(p) ==
  /\ pc[p] = "user" /\ start3 = "start4" /\ Quiet
  /\ pc' = [pc EXCEPT ![p] = "read"]
  /\ IF term_int THEN UNCHANGED <<control, term_int, silenced>>
     ELSE /\ SetControl(TRUE, FALSE)
          /\ term_int' = TRUE
          /\ silenced' = (silenced \/ control.xmit_int)
  /\ UNCHANGED <<line_read, line_write, pid_mbox, size, block_sem, taken, userRest>>

\* The line is copied as far as the caller's buffer goes.
GetLine(p) ==
  /\ pc[p] = "read" /\ line_read # <<>>
  /\ line_read' = Tail(line_read)
  /\ taken' = Append(taken, Head(line_read))
  /\ pc' = [pc EXCEPT ![p] = "user"]
  /\ UNCHANGED <<control, term_int, line_write, pid_mbox, size, block_sem, silenced, userRest>>

term_write_real(p, n) ==
  /\ pc[p] = "user" /\ start3 = "start4" /\ Quiet
  /\ IF n < 0 THEN UNCHANGED <<pc, size>>
     ELSE pc' = [pc EXCEPT ![p] = "pid"] /\ size' = [size EXCEPT ![p] = n]
  /\ UNCHANGED <<control, term_int, line_read, line_write, pid_mbox, block_sem,
                 taken, silenced, userRest>>

SendPid(p) ==
  /\ pc[p] = "pid" /\ Len(pid_mbox) < PidSlots
  /\ pid_mbox' = Append(pid_mbox, p)
  /\ pc' = [pc EXCEPT ![p] = "line"]
  /\ UNCHANGED <<control, term_int, line_read, line_write, size, block_sem, taken,
                 silenced, userRest>>

\* A mailbox takes no message larger than its slots; the result is not looked at.
SendText(p) ==
  /\ pc[p] = "line" /\ Quiet /\ Len(line_write) < LineSlots
  /\ line_write' = IF size[p] > MAXLINE THEN line_write
                   ELSE Append(line_write, Line(p, size[p]))
  /\ pc' = [pc EXCEPT ![p] = "semp"]
  /\ UNCHANGED <<control, term_int, line_read, pid_mbox, size, block_sem, taken,
                 silenced, userRest>>

AwaitWritten(p) ==
  /\ pc[p] = "semp" /\ block_sem[p] > 0
  /\ block_sem' = [block_sem EXCEPT ![p] = @ - 1]
  /\ pc' = [pc EXCEPT ![p] = "user"]
  /\ size' = [size EXCEPT ![p] = 0]
  /\ UNCHANGED <<control, term_int, line_read, line_write, pid_mbox, taken, silenced,
                 userRest>>

InCall(p) == GetLine(p) \/ SendPid(p) \/ SendText(p) \/ AwaitWritten(p)

-----------------------------------------------------------------------------
\* start3 tells a driver with a message of size 0 that it is about to end, zaps
\* it, and waits; the one for the terminal itself gets an interrupt.
Zap(d) == zapped' = zapped \union {d} /\ UNCHANGED <<control, char_recv, line_write>>

Start3 ==
  /\ Quiet
  /\ CASE start3 = "start4" ->
            /\ \A p \in User : pc[p] = "user"
            /\ Len(char_recv) < CharSlots
            /\ char_recv' = Append(char_recv, NONE) /\ start3' = "zapReader"
            /\ UNCHANGED <<control, line_write, zapped>>
       [] start3 = "zapReader" -> Zap("reader") /\ start3' = "joinReader"
       [] start3 = "joinReader" ->
            /\ reader.pc = "ended" /\ Len(line_write) < LineSlots
            /\ line_write' = Append(line_write, NoLine) /\ start3' = "zapWriter"
            /\ UNCHANGED <<control, char_recv, zapped>>
       [] start3 = "zapWriter" -> Zap("writer") /\ start3' = "joinWriter"
       [] start3 = "joinWriter" ->
            /\ writer.pc = "ended"
            /\ SetControl(TRUE, FALSE) /\ zapped' = zapped \union {"driver"}
            /\ start3' = "zapDriver" /\ UNCHANGED <<char_recv, line_write>>
       [] OTHER -> FALSE
  /\ UNCHANGED <<busy, typed, char_send, line_read, pid_mbox, driverVars, userVars, seenVars>>

Next ==
  \/ Poll
  \/ TermDriver \/ TermReader \/ TermWriter
  \/ \E p \in User : term_read_real(p) \/ (\E n \in Sizes : term_write_real(p, n)) \/ InCall(p)
  \/ Start3

Spec == Init /\ [][Next]_vars
=============================================================================
