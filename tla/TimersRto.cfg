\* One stream is enough, and a store far from full.
CONSTANTS
  Stream = {s1}
  RTO_HASH = 3
  Rto = 1
  Timeout = 2
  Thresh = 2
  Every = 1
  Word = 16
  MaxTs = 4
SPECIFICATION Spec
INVARIANT NoRtoOverdue
SYMMETRY Symmetry
CHECK_DEADLOCK FALSE
