------------------------ MODULE TerminalProperties ------------------------
(***************************************************************************)
(* What the processes that use a terminal can rely on, and when.           *)
(***************************************************************************)
EXTENDS Terminal, SequencesExt

\* Every character that TermDriver got into its mailbox is, once and in order,
\* in a line that was read, in a line that waits, in the line the reader is
\* making or on its way to it; and each line that was read ends, for the
\* first time, with a newline or is as long as a line can be (phase4.c:455).
LinesInOrder ==
  start3 = "start4" =>
    /\ accepted = FlattenSeq(taken) \o FlattenSeq(line_read) \o reader.line \o char_recv
    /\ \A n \in 1 .. Len(taken) :
         LET line == taken[n]
             ends == {i \in 1 .. Len(line) : line[i] \in Newlines}
         IN  ends = {Len(line)} \/ (ends = {} /\ Len(line) = MAXLINE)

\* pid_mbox, "pid to block" (phase4.c:97), and line_write_mbox are filled one
\* after the other by processes that compete: the process that is woken for a
\* line is the one that wrote it, and it is still waiting or about to.
WriterPaired ==
  /\ writer.pc = "pid" /\ pid_mbox # <<>> /\ start3 = "start4" => writer.line.by = Head(pid_mbox)
  /\ \A p \in User : block_sem[p] > 0 => pc[p] = "semp"

\* "xmit the line" (phase4.c:500): when a line is finished its characters have
\* been put out in order, each once; none was dropped by the device while
\* it was busy unless it had reported readiness while a driver was at work.
LineShown ==
  LET text == [i \in 1 .. writer.line.size |-> i - 1]
  IN  writer.pc \in {"finish", "pid"} =>
        /\ \A i, j \in 1 .. Len(shown) : i < j => shown[i] < shown[j]
        /\ ~late => shown = text

-----------------------------------------------------------------------------
(***************************************************************************)
(* Fairness: the device is looked at again and again, drivers are not kept *)
(* from the processor for ever, and blocked processes wait in the order in *)
(* which they came.                                                        *)
(***************************************************************************)
FairSpec ==
  /\ Spec
  /\ WF_vars(Poll) /\ WF_vars(TermDriver) /\ WF_vars(TermReader) /\ WF_vars(TermWriter)
  /\ \A p \in User : SF_vars(InCall(p))

\* Every write ends, although the device reports at times when nobody waits for
\* it, unless a read has overwritten the control register during a line.
WritesEnd ==
  \A p \in User : []~silenced => (pc[p] \in {"pid", "line", "semp"} ~> pc[p] = "user")
=============================================================================
