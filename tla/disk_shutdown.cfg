SPECIFICATION FairSpecToEnd
PROPERTY ShutdownEnds
CONSTANTS
  u1 = u1
  u2 = u2
  start3 = start3
  NULL = NULL
  Proc <- TwoUsers
  DISK_TRACK_SIZE = 2
  NTracks = 3
  Requests <- OneSector
CHECK_DEADLOCK FALSE
