----------------------------- MODULE DiskDriver -----------------------------
(***************************************************************************)
(* One disk unit of Phase 4 (src/phase4/phase4.c): the processes that call *)
(* disk_read_real, disk_write_real and disk_size_real, the driver that     *)
(* serves them in the order of the disk queue, and start3, which asks for  *)
(* the number of tracks before there are users.  The end of the driver is  *)
(* in DiskShutdown.                                                        *)
(*                                                                         *)
(* The driver has a higher priority than the others, so they run only      *)
(* while it waits on its semaphore or in waitdevice, and each of its turns *)
(* is one step up to the next wait.  A request runs with interrupts off up *)
(* to its semv_real, so it is one step too.  Semaphores, zap, join and the *)
(* disk itself are external to Phase 4.                                    *)
(***************************************************************************)
EXTENDS Integers, DiskQueue

CONSTANTS
  start3,            \* the member of Proc that runs start3
  DISK_TRACK_SIZE,   \* sectors per track
  NTracks,           \* tracks of the disk
  Requests           \* the [track, first, sectors] that users ask for

ASSUME DiskDriverAssumption ==
  /\ start3 \in Proc
  /\ DISK_TRACK_SIZE \in Nat \ {0} /\ NTracks \in Nat \ {0}
  /\ Requests \subseteq [track : Int, first : Int, sectors : Nat]

User == Proc \ {start3}

VARIABLES
  queue,             \* disk_queues[unit]
  disk_track,        \* of the requesting processes
  disk_first_sec,
  disk_sectors,
  opr,               \* disk_request.opr; "RW" is DISK_READ or DISK_WRITE
  tracks,            \* disk_track of the driver: the size of the disk, or -1
  driver,            \* where the driver waits, or "quit"
  track, s,          \* its local variables
  driverSem,         \* the value of its block_sem
  procSem,           \* those of the processes
  pc,                \* where each process is
  zapped,            \* is_zapped() of the driver
  \* Kept for the properties, not in the code:
  asked,             \* the last request of each process
  moved              \* the sectors the driver has asked the disk to transfer
                     \* for the current request, numbered from 0 on the disk

procVars   == <<disk_track, disk_first_sec, disk_sectors, opr>>
driverVars == <<tracks, driver, track, s>>
semVars    == <<driverSem, procSem>>
vars == <<queue, procVars, driverVars, semVars, pc, zapped, asked, moved>>

Places == {"semp", "tracks", "seek", "transfer", "quit"}

TypeOK ==
  /\ queue \in Queue
  /\ disk_track \in [Proc -> Int]
  /\ disk_first_sec \in [Proc -> Int]
  /\ disk_sectors \in [Proc -> Int]
  /\ opr \in [Proc -> {"TRACKS", "RW"}]
  /\ tracks \in {-1, NTracks}
  /\ driver \in Places
  /\ track \in Int /\ s \in Int
  /\ driverSem \in Nat /\ procSem \in [Proc -> Nat]
  /\ pc \in [Proc -> {"start", "run", "blocked", "zap", "quit"}]
  /\ zapped \in BOOLEAN
  /\ asked \in [Proc -> [track : Int, first : Int, sectors : Nat]]
  /\ moved \in Seq(Int)

\* start3 has started the driver, which has set up its queue and is waiting;
\* the users come with start4, once start3 knows the size of the disk.
Init ==
  /\ queue = EmptyQueue
  /\ disk_track = [p \in Proc |-> -1]
  /\ disk_first_sec = [p \in Proc |-> 0]
  /\ disk_sectors = [p \in Proc |-> 0]
  /\ opr = [p \in Proc |-> "RW"]
  /\ tracks = -1
  /\ driver = "semp"
  /\ track = 0 /\ s = 0
  /\ driverSem = 0 /\ procSem = [p \in Proc |-> 0]
  /\ pc = [p \in Proc |-> IF p = start3 THEN "run" ELSE "start"]
  /\ zapped = FALSE
  /\ asked = [p \in Proc |-> [track |-> 0, first |-> 0, sectors |-> 0]]
  /\ moved = <<>>

-----------------------------------------------------------------------------
(***************************************************************************)
(* The processes.                                                          *)
(***************************************************************************)

\* Mutant: the driver does not wait for its semaphore.
DriverAwake == driver = "semp"

DriverReady == driver = "semp" /\ driverSem > 0

Runs(p) == pc[p] = "run" /\ ~DriverReady

\* The arguments that disk_read_or_write_real refuses.
Illegal(r) ==
  \/ r.track < 0 \/ r.track > tracks
  \/ r.first < 0 \/ r.first > DISK_TRACK_SIZE
  \/ (r.first + r.sectors) \div DISK_TRACK_SIZE + r.track > tracks

\* Mutant: the driver is not told.
EnqueueUntold(p, t) ==
  /\ disk_track' = [disk_track EXCEPT ![p] = t]
  /\ queue' = add_disk_queue(queue, disk_track', p)
  /\ pc' = [pc EXCEPT ![p] = "blocked"]
  /\ UNCHANGED driverSem

\* Into the queue, semv_real for the driver, semp_real for p.
Enqueue(p, t) ==
  /\ disk_track' = [disk_track EXCEPT ![p] = t]
  /\ queue' = add_disk_queue(queue, disk_track', p)
  /\ driverSem' = driverSem + 1
  /\ pc' = [pc EXCEPT ![p] = "blocked"]

\* disk_read_or_write_real; a refused request returns -1 and changes nothing.
disk_read_or_write_real(p, r) ==
  /\ Runs(p) /\ ~Illegal(r)
  /\ opr' = [opr EXCEPT ![p] = "RW"]
  /\ disk_first_sec' = [disk_first_sec EXCEPT ![p] = r.first]
  /\ disk_sectors' = [disk_sectors EXCEPT ![p] = r.sectors]
  /\ asked' = [asked EXCEPT ![p] = r]
  /\ Enqueue(p, r.track)
  /\ UNCHANGED <<driverVars, procSem, zapped, moved>>

\* disk_size_real; once the size is known it is read and nothing changes.
disk_size_real(p) ==
  /\ Runs(p) /\ tracks = -1
  /\ opr' = [opr EXCEPT ![p] = "TRACKS"]
  /\ Enqueue(p, 0)
  /\ UNCHANGED <<disk_first_sec, disk_sectors, driverVars, procSem, zapped, asked, moved>>

\* semp_real returns to p, which returns from its call; start3 then knows the
\* size of the disk and spawns start4, from which the users come.
Return(p) ==
  /\ pc[p] = "blocked" /\ procSem[p] > 0 /\ ~DriverReady
  /\ procSem' = [procSem EXCEPT ![p] = @ - 1]
  /\ pc' = IF p = start3 THEN [q \in Proc |-> "run"] ELSE [pc EXCEPT ![p] = "run"]
  /\ UNCHANGED <<queue, procVars, driverVars, driverSem, zapped, asked, moved>>

-----------------------------------------------------------------------------
(***************************************************************************)
(* The driver.                                                             *)
(***************************************************************************)

\* Mutants: the process with the lowest track is woken; nobody is.
FinishWakesHead(q) ==
  /\ queue' = remove_disk_queue(q)
  /\ procSem' = [procSem EXCEPT ![q.head] = @ + 1]
  /\ driver' = "semp"
FinishSilently(q) ==
  /\ queue' = remove_disk_queue(q)
  /\ driver' = "semp"
  /\ UNCHANGED procSem

\* The served process leaves the queue and is woken; the driver returns to its
\* semaphore.
Finish(q) ==
  /\ queue' = remove_disk_queue(q)
  /\ procSem' = [procSem EXCEPT ![peek_disk_queue(q).curr] = @ + 1]
  /\ driver' = "semp"

\* Seek to track t for process p.
Seek(t) ==
  /\ driver' = "seek"
  /\ track' = t

\* Start of the request of the process that q's curr points to.
Begin(q) ==
  LET p == q.curr
  IN  /\ moved' = <<>>
      /\ IF opr[p] = "TRACKS"
         THEN driver' = "tracks" /\ track' = disk_track[p] /\ queue' = q /\ UNCHANGED procSem
         ELSE IF disk_sectors[p] > 0
         THEN Seek(disk_track[p]) /\ queue' = q /\ UNCHANGED procSem
         ELSE track' = disk_track[p] /\ Finish(q)

Wake ==
  /\ DriverReady
  /\ driverSem' = driverSem - 1
  /\ IF zapped THEN driver' = "quit" /\ UNCHANGED <<queue, track, procSem, moved>>
     ELSE IF queue.size > 0 THEN Begin(peek_disk_queue(queue))
     ELSE UNCHANGED <<queue, track, driver, procSem, moved>>
  /\ UNCHANGED <<procVars, tracks, s, pc, zapped, asked>>

\* waitdevice returns with the interrupt of the disk, and the driver goes on.
Interrupted(where) == driver = where /\ ~zapped

TracksKnown ==
  /\ Interrupted("tracks")
  /\ tracks' = NTracks
  /\ Finish(queue)
  /\ UNCHANGED <<procVars, track, s, driverSem, pc, zapped, asked, moved>>

Transfer(sector) ==
  /\ driver' = "transfer"
  /\ s' = sector
  /\ moved' = Append(moved, track * DISK_TRACK_SIZE + sector)
  /\ UNCHANGED <<queue, disk_first_sec, track, procSem>>

\* Mutant: the next track is not read from its first sector.
NextTrackSameSector(p) ==
  /\ UNCHANGED disk_first_sec
  /\ Seek(track + 1)

\* The next track, from its first sector.
NextTrack(p) ==
  /\ disk_first_sec' = [disk_first_sec EXCEPT ![p] = 0]
  /\ Seek(track + 1)

\* The arm is at the track: its sectors follow from disk_first_sec on.  There is
\* none when disk_first_sec is DISK_TRACK_SIZE.
SeekDone ==
  LET p == queue.curr
  IN  /\ Interrupted("seek")
      /\ IF disk_first_sec[p] < DISK_TRACK_SIZE THEN Transfer(disk_first_sec[p])
         ELSE NextTrack(p) /\ s' = disk_first_sec[p] /\ UNCHANGED <<queue, procSem, moved>>
      /\ UNCHANGED <<disk_track, disk_sectors, opr, tracks, driverSem, pc, zapped, asked>>

\* A sector is done: the next one, the next track, or the end of the request.
SectorDone ==
  LET p == queue.curr
  IN  /\ Interrupted("transfer")
      /\ disk_sectors' = [disk_sectors EXCEPT ![p] = @ - 1]
      /\ IF disk_sectors[p] = 1
         THEN /\ Finish(queue)
              /\ track' = track + 1 /\ s' = s + 1
              /\ disk_first_sec' = [disk_first_sec EXCEPT ![p] = 0]
              /\ UNCHANGED moved
         ELSE IF s + 1 < DISK_TRACK_SIZE THEN Transfer(s + 1)
         ELSE NextTrack(p) /\ s' = s + 1 /\ UNCHANGED <<queue, procSem, moved>>
      /\ UNCHANGED <<disk_track, opr, tracks, driverSem, pc, zapped, asked>>

Driver == Wake \/ TracksKnown \/ SeekDone \/ SectorDone

Process(p) ==
  \/ \E r \in Requests : p # start3 /\ disk_read_or_write_real(p, r)
  \/ p = start3 /\ disk_size_real(p)
  \/ Return(p)

Next == Driver \/ \E p \in Proc : Process(p)

Spec == Init /\ [][Next]_vars
=============================================================================
