SPECIFICATION Spec
INVARIANTS
  NobodyStranded
  SendersWaitOnlyWhenFull
PROPERTIES
  FifoChannel
  NothingLost
CONSTANTS
  p1 = p1
  p2 = p2
  p3 = p3
  Proc <- ThreeProcs
  Priority <- HighLowLow
  Sentinel = Sentinel
  ZapTargets <- LastProc
  MAXMBOX = 3
  MAXSLOTS = 2
  MAX_MESSAGE = 1
  InitBoxes <- ZeroOneTwo
  CreateArgs <- Nothing
  ReleaseArgs <- Ids01
  SendArgs <- SendAll
  RecvArgs <- RecvSlotted
  CondRecvArgs <- RecvAll
  MaxMsg = 3
CHECK_DEADLOCK FALSE
