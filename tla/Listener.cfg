\* Two streams for a backlog of one: the ring wraps, fills and empties.  One socket
\* listens at a time, one stream may be freed too early, once.
CONSTANTS
  Stream = {s1, s2}
  NULL = NULL
  Capacity = 1
  STACK = STACK
  Producers = {STACK}
  MaxFds = 1
  NOFD = NOFD
  MaxListening = 1
  s1 = s1
  MaxStale <- MCMaxStale
SPECIFICATION FairSpec
INVARIANTS AssertStream RingInv
  ListenerTypeOK NoSleepOnAccept StreamsKept SocketsTrue
PROPERTIES ImplementsFifo QueuedIsAccepted
CHECK_DEADLOCK FALSE
