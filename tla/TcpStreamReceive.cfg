\* The receiving half: the receive buffer fills up, segments overtake, and a send
\* buffer of one segment fills up.
CONSTANTS
  AppBytes = 2
  PeerBytes = 2
  SendSize = 1
  RcvSize = 2
  InitWnd = 3
  MaxWnd = 1
  AckMod = 8
  DupAcks = TRUE
  OtherFlows = TRUE
  Timestamps = TRUE
  Epoll = TRUE
SPECIFICATION Spec
INVARIANTS TypeOK PeerStreamInOrder AckCntNeverWraps NoSleepOnData
PROPERTIES WindowNeverShrinks
CHECK_DEADLOCK FALSE
