\* The sending half, under fairness: the application sends and closes, the peer only closes.
CONSTANTS
  AppBytes = 2
  PeerBytes = 0
  SendSize = 3
  RcvSize = 2
  InitWnd = 3
  MaxWnd = 2
  AckMod = 8
  DupAcks = FALSE
  OtherFlows = TRUE
  Timestamps = TRUE
  Epoll = FALSE
SPECIFICATION FairSpec
INVARIANTS NoAssertFails OneTimerLink InFlightTimed SendPointers
  FinNotForgotten FinAckedMeansAllAcked
PROPERTY TimeWaitEnds
CHECK_DEADLOCK FALSE
