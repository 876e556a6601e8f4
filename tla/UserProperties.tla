--------------------------- MODULE UserProperties ---------------------------
(***************************************************************************)
(* What the processes of Phase 3 get right while no entry of the table is  *)
(* used twice, no process spawns one of its own priority, and no child     *)
(* from the middle of a list ends.                                         *)
(***************************************************************************)
EXTENDS UserProcess

Live(p) == pc[p] \notin Ended \union {"none"}

\* "block until spawnReal is done" (phase31.c:240): whichever of the two sides
\* comes first, a process starts with the function it was spawned with.
OwnFunction == \A p \in Pid : pc[p] = "user" => ran[p] = p

\* The entries from head to tail, by the links.
Listed(o) ==
  LET q == ProcTable3[o].children
      Upto(n) == \A m \in 1 .. n - 1 : Entry(ProcTable3, o)[m] \notin {NULL, q.tail}
  IN  {Entry(ProcTable3, o)[n] : n \in {m \in 1 .. MAXPROC : Upto(m)}} \ {NULL}

\* The children that p has put into its list, and that neither p has taken off
\* to zap them nor have left by themselves.
Known(p) ==
  {c \in Children(p) : /\ c \notin zapped /\ pc[c] \notin Ended \union {"T_quit"}
                       /\ ~(pc[p] = "S_enq" /\ other[p] = c)}

\* The list of a process holds just those children, and as many as its size
\* says, although entries that leave keep their links, and although the list
\* is worked off by terminateReal while children leave it (phase31.c:317, 321).
ChildrenListed ==
  ~midRemoved => \A p \in Pid \ {Start2} : Live(p) /\ ProcTable3[SlotOf(p)].pid = p =>
    /\ Listed(SlotOf(p)) = {SlotOf(c) : c \in Known(p)}
    /\ ProcTable3[SlotOf(p)].children.size = Cardinality(Known(p))

\* "zap all children" (phase31.c:314): when a process gets to its quit, its
\* children have quit.
LastToQuit == \A p \in Pid : pc[p] = "T_quit" => \A c \in Children(p) : pc[c] \in Ended

\* Terminate takes all the descendants along: they have quit when the process
\* does, so quit finds no active child, zap no missing one, and terminateReal
\* no list without a first entry (phase31.c:316-322).
TakesChildren ==
  ~midRemoved =>
    /\ ~halted
    /\ LastToQuit

-----------------------------------------------------------------------------
(***************************************************************************)
(* Fairness: the processor does not stop while somebody is due, and the    *)
(* user program that has it does not keep it for ever: it calls Terminate  *)
(* or returns, which is the same (phase31.c:256), if not something else.   *)
(***************************************************************************)
FairSpec == Spec /\ WF_vars(\E p \in Pid : InCall(p) \/ (Runs(p) /\ terminate(p)))

\* Every process that is forked gets to run its function, or is terminated: the
\* wake-up that spawnReal sends to the mailbox is neither early nor lost
\* (phase31.c:214, 241).
EveryChildStarts ==
  \A p \in Pid : pc[p] \in Launching ~> (pc[p] \notin Launching \/ halted)

\* A process that is zapped ends, with all it has spawned, wherever it is.
ZappedEnd == \A p \in Pid : p \in zapped ~> (pc[p] \in Ended \/ midRemoved)
=============================================================================
