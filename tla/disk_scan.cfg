SPECIFICATION FairSpec
INVARIANTS
  TypeOK
  RingInOrder
  RequestsCounted
  WaitersQueued
PROPERTIES
  CircularScan
  WholeTransfer
  Served
CONSTANTS
  u1 = u1
  u2 = u2
  u3 = u3
  start3 = start3
  NULL = NULL
  Proc <- ThreeUsers
  DISK_TRACK_SIZE = 2
  NTracks = 3
  Requests <- Mixed
