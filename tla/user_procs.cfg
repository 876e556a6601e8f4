SPECIFICATION FairSpec
INVARIANTS
  TypeOK
  OwnFunction
  ChildrenListed
  TakesChildren
PROPERTIES
  EveryChildStarts
  
CONSTANTS
  MAXPROC = 6
  MaxPid = 4
  Priorities <- HighAndLow
  SamePriority = FALSE
CHECK_DEADLOCK FALSE
