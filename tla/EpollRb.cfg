\* Two sockets, both of which one epoll_wait can return.
CONSTANTS
  Sock = {k1, k2}
  FREED = FREED
  MaxEvents = 2
  MaxList = 3
SPECIFICATION FairSpec
INVARIANTS ListMatchesFlags NoSleepOnEvent EventsReported
PROPERTIES ListedIsReported
CHECK_DEADLOCK FALSE
