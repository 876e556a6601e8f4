SPECIFICATION FairSpec
CONSTANTS
  Slot = {p1, p2, p3, p4}
  SEC = 1
  Seconds <- TheSeconds
  MAXINT = 3
  MaxTime = 3
INVARIANTS TypeOK WokenOnce
PROPERTIES WakesInOrder OnTime EverySleeperWakes
