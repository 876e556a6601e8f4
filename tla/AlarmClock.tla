---------------------------- MODULE AlarmClock ----------------------------
(***************************************************************************)
(* What the sleepers of Phase 4 are promised: an alarm rings once its time *)
(* has come, and the alarms ring in the order of their times.              *)
(***************************************************************************)
EXTENDS Integers

VARIABLES
  now,       \* the time
  alarms     \* a set of [who, at]

Init == now = 0 /\ alarms = {}

Advance == now' > now /\ UNCHANGED alarms

Set == /\ \E a \in alarms' :
            /\ a.who \notin {b.who : b \in alarms}
            /\ alarms' = alarms \union {a}
       /\ UNCHANGED now

Ring == /\ \E a \in alarms :
             /\ a.at <= now
             /\ \A b \in alarms : a.at <= b.at
             /\ alarms' = alarms \ {a}
        /\ UNCHANGED now

Next == Advance \/ Set \/ Ring

Spec == Init /\ [][Next]_<<now, alarms>>
=============================================================================
