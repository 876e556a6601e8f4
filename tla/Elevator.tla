------------------------------ MODULE Elevator ------------------------------
(***************************************************************************)
(* What the disk queue promises, without a queue: a circular scan of the   *)
(* tracks.  The requests for one track are served in the order in which    *)
(* they came; after a request the next one is the nearest at the same      *)
(* track or further out, and when there is none the scan starts again from *)
(* the lowest track.                                                       *)
(***************************************************************************)
EXTENDS Naturals, Sequences

CONSTANTS Proc, Track, NULL

VARIABLES
  waiting,   \* per track, the processes that wait for it, first come first
  serving    \* the process to serve; NULL as long as none is chosen

vars == <<waiting, serving>>

Tracks(w) == {t \in Track : w[t] # <<>>}
Nearest(w, from) ==
  LET ahead == {t \in Tracks(w) : t >= from}
      among == IF ahead = {} THEN Tracks(w) ELSE ahead
  IN  IF among = {} THEN NULL
      ELSE Head(w[CHOOSE t \in among : \A u \in among : t <= u])

Waits(p) == \E t \in Track : \E i \in DOMAIN waiting[t] : waiting[t][i] = p

Init ==
  /\ waiting = [t \in Track |-> <<>>]
  /\ serving = NULL

Ask(p, t) ==
  /\ ~Waits(p)
  /\ waiting' = [waiting EXCEPT ![t] = Append(@, p)]
  /\ UNCHANGED serving

Choose ==
  /\ serving = NULL /\ Tracks(waiting) # {}
  /\ serving' = Nearest(waiting, 0)
  /\ UNCHANGED waiting

\* The process to serve is the first of its track.
Serve(t) ==
  /\ waiting[t] # <<>>
  /\ Head(waiting[t]) = IF serving = NULL THEN Nearest(waiting, 0) ELSE serving
  /\ waiting' = [waiting EXCEPT ![t] = Tail(@)]
  /\ serving' = Nearest(waiting', t)

Next ==
  \/ \E p \in Proc, t \in Track : Ask(p, t)
  \/ Choose
  \/ \E t \in Track : Serve(t)

Spec == Init /\ [][Next]_vars
=============================================================================
