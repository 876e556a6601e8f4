SPECIFICATION ClockFairSpec
PROPERTIES
  ClockWakes
CONSTANTS
  p1 = p1
  p2 = p2
  p3 = p3
  Proc <- ThreeProcs
  Priority <- HighLowLow
  Sentinel = Sentinel
  ZapTargets <- Nothing
  MAXMBOX = 3
  MAXSLOTS = 2
  MAX_MESSAGE = 1
  InitBoxes <- TwoDevices
  CreateArgs <- Nothing
  ReleaseArgs <- Nothing
  SendArgs <- Nothing
  RecvArgs <- Nothing
  CondRecvArgs <- Nothing
  MaxMsg = 2
  Ticks = 2
  CLOCKBOX = 0
  DeviceBoxes <- Disk
CHECK_DEADLOCK FALSE
