---------------------------- MODULE DiskShutdown ----------------------------
(***************************************************************************)
(* The end of a disk driver (src/phase4/phase4.c): when the users are gone *)
(* start3 wakes the driver, zaps it and waits for its end.                 *)
(***************************************************************************)
EXTENDS DiskDriver

Quit(p) ==
  /\ Runs(p) /\ p # start3
  /\ pc' = [pc EXCEPT ![p] = "quit"]
  /\ UNCHANGED <<queue, procVars, driverVars, semVars, zapped, asked, moved>>

\* The users are gone: semv_real wakes the driver, and when start3 gets the
\* processor back it zaps it and waits for its end.
Shutdown ==
  /\ Runs(start3) /\ tracks # -1
  /\ \A p \in User : pc[p] = "quit"
  /\ driverSem' = driverSem + 1
  /\ pc' = [pc EXCEPT ![start3] = "zap"]
  /\ UNCHANGED <<queue, procVars, driverVars, procSem, zapped, asked, moved>>

ZapDriver ==
  /\ pc[start3] = "zap" /\ ~DriverReady /\ ~zapped
  /\ zapped' = TRUE
  /\ UNCHANGED <<queue, procVars, driverVars, semVars, pc, asked, moved>>

Join ==
  /\ pc[start3] = "zap" /\ driver = "quit"
  /\ pc' = [pc EXCEPT ![start3] = "quit"]
  /\ UNCHANGED <<queue, procVars, driverVars, semVars, zapped, asked, moved>>

\* A driver that was zapped in waitdevice returns.
Abandon ==
  /\ driver \in {"tracks", "seek", "transfer"} /\ zapped
  /\ driver' = "quit"
  /\ UNCHANGED <<queue, procVars, tracks, track, s, semVars, pc, zapped, asked, moved>>

NextToEnd ==
  \/ Next
  \/ \E p \in User : Quit(p)
  \/ Shutdown \/ ZapDriver \/ Join \/ Abandon

StartThree == Shutdown \/ ZapDriver \/ Join

\* Whoever can run gets the processor, and the disk answers.
FairSpecToEnd ==
  Init /\ [][NextToEnd]_vars
       /\ WF_vars(Driver) /\ WF_vars(Abandon) /\ WF_vars(StartThree)

\* start3 is to zap the drivers and then, "eventually, at the end", to quit
\* (phase4.c:205-258): once the users are gone it gets past the disk driver.
ShutdownEnds ==
  (pc[start3] = "zap") ~> (pc[start3] = "quit")
=============================================================================
