\* As many streams as CheckRtmTimeout handles in one call, a ring that wraps
\* within the clock's range, and connections that time out.
CONSTANTS
  Stream = {s1, s2}
  RTO_HASH = 3
  Rto = 1
  Timeout = 2
  Thresh = 2
  Every = 1
  Word = 16
  MaxTs = 4
SPECIFICATION Spec
INVARIANTS TypeOK ListsTrue NothingDueLeft
SYMMETRY Symmetry
CHECK_DEADLOCK FALSE
