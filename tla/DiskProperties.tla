--------------------------- MODULE DiskProperties ---------------------------
(***************************************************************************)
(* What the disk queue and its driver get right.                           *)
(***************************************************************************)
EXTENDS DiskDriver, FiniteSets

\* The links of the queue are a ring of the waiting processes in the order of
\* their tracks, whatever was inserted while the driver was at work
\* (phase4.c:900-996).
RingInOrder == Ring(queue) /\ Sorted(queue, disk_track)

\* The driver's semaphore counts the requests it has not begun: it neither
\* sleeps while one waits nor takes one from an empty queue (phase4.c:314-323,
\* 667-669).
RequestsCounted ==
  driverSem + (IF driver = "semp" THEN 0 ELSE 1) = queue.size

\* A process waits for the disk exactly as long as it is in the queue, and it is
\* woken once per request.
WaitersQueued ==
  \A p \in Proc :
    (pc[p] = "blocked" /\ procSem[p] = 0) <=> \E i \in 1 .. queue.size : Entries(queue)[i] = p

\* How many of the processes of e have a lower track than t.
Lower(e, trk, t) == Cardinality({i \in 1 .. Len(e) : trk[e[i]] < t})

\* Those of track t, which follow one another when e is in order.
OnTrack(e, trk, t) == SubSeq(e, Lower(e, trk, t) + 1, Lower(e, trk, t + 1))

\* The queue implements the circular scan: requests for a track are served in
\* the order of their arrival, and the next one is the nearest at the same track
\* or further out, or else the lowest (phase4.c:900-996).
Scan == INSTANCE Elevator WITH
          Track   <- 0 .. NTracks,
          waiting <- [t \in 0 .. NTracks |-> OnTrack(Entries(queue), disk_track, t)],
          serving <- queue.curr

CircularScan == Scan!Spec

FirstSector(p) == asked[p].track * DISK_TRACK_SIZE + asked[p].first

\* The step in which the driver takes p off the queue and wakes it.
Completes(p) == procSem'[p] = procSem[p] + 1

\* A request that spans tracks moves exactly its sectors, each once and in the
\* order of the buffer, however its fields and the queue change meanwhile
\* (phase4.c:339-377).
WholeTransfer ==
  [][\A p \in Proc : Completes(p) /\ opr[p] = "RW" =>
        moved' = [i \in 1 .. asked[p].sectors |-> FirstSector(p) + i - 1]]_vars

\* A new request for the very track that is being served.
Crowds == \E p \in Proc :
  /\ pc[p] = "run" /\ pc'[p] = "blocked"
  /\ queue.curr # NULL /\ disk_track'[p] = disk_track[queue.curr]

\* The disk answers, and the driver runs when it can.
FairSpec == Spec /\ WF_vars(Driver)

\* Everybody is served, unless requests for the track being served never stop
\* coming: those go in front of all the other tracks (phase4.c:914).
Served ==
  <>[][~Crowds]_vars =>
    \A p \in Proc : (pc[p] = "blocked") ~> (procSem[p] > 0 \/ pc[p] = "run")
=============================================================================
