\* FIN and the ACK of our FIN in one segment.
CONSTANTS
  AppBytes = 0
  PeerBytes = 0
  SendSize = 1
  RcvSize = 1
  InitWnd = 1
  MaxWnd = 1
  AckMod = 8
  DupAcks = FALSE
  OtherFlows = TRUE
  Timestamps = FALSE
  Epoll = FALSE
SPECIFICATION Spec
INVARIANT BothFinsLeadToTimeWait
CHECK_DEADLOCK FALSE
