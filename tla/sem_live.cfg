SPECIFICATION FairSpec
INVARIANTS
  TypeOK
PROPERTIES
  CallsEnd
  FreedWaitersTerminate
CONSTANTS
  p1 = p1
  p2 = p2
  p3 = p3
  Proc <- ThreeProcs
  MAXSEMS = 1
  Values <- ZeroOrOne
  MaxBox = 2
  MaxValue = 1
CHECK_DEADLOCK FALSE
