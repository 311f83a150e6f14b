\* A send buffer of one segment, so that send() fills it.
CONSTANTS
  AppBytes = 1
  PeerBytes = 0
  SendSize = 1
  RcvSize = 1
  InitWnd = 1
  MaxWnd = 1
  AckMod = 8
  DupAcks = FALSE
  OtherFlows = TRUE
  Timestamps = FALSE
  Epoll = FALSE
SPECIFICATION Spec
INVARIANT AckRaisesWriteEvent
CHECK_DEADLOCK FALSE
