SPECIFICATION HandlersFairSpec
INVARIANTS
  TellsDeviceWait
PROPERTIES
  ReleaseWakesAll
CONSTANTS
  p1 = p1
  p2 = p2
  p3 = p3
  Proc <- ThreeProcs
  Priority <- HighLowLow
  Sentinel = Sentinel
  ZapTargets <- LastProc
  MAXMBOX = 3
  MAXSLOTS = 2
  MAX_MESSAGE = 1
  InitBoxes <- TwoDevices
  CreateArgs <- Nothing
  ReleaseArgs <- Id2
  SendArgs <- SignalSend
  RecvArgs <- SignalRecv
  CondRecvArgs <- Nothing
  MaxMsg = 2
  Ticks = 2
  CLOCKBOX = 0
  DeviceBoxes <- Disk
CHECK_DEADLOCK FALSE
