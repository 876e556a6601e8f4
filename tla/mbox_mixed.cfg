SPECIFICATION Spec
INVARIANTS
  TypeOK
  SlotOwnership
  BoxOwnership
  WithinCapacity
  QueuedAreBlocked
CONSTANTS
  p1 = p1
  p2 = p2
  p3 = p3
  Proc <- ThreeProcs
  Priority <- HighLowLow
  Sentinel = Sentinel
  ZapTargets <- NoProcs
  MAXMBOX = 2
  MAXSLOTS = 2
  MAX_MESSAGE = 1
  InitBoxes <- ZeroAndSignal
  CreateArgs <- CreateMixed
  ReleaseArgs <- BadIds
  SendArgs <- SendMixed
  RecvArgs <- RecvMixed
  CondRecvArgs <- RecvMixed
  MaxMsg = 3
CHECK_DEADLOCK FALSE
