\* Two segments on one stream, so that a window holds it up before the other.
SPECIFICATION FairSpec
CONSTANTS
  s1 = s1
  s2 = s2
  a1 = a1
  Stream = {s1, s2}
  Addr = {a1}
  daddr <- OnePeer
  Bytes <- MCBytes
  MaxWnd = 1
INVARIANTS ListsMatchFlags FreedUnlisted AcksListed FinAwaited AskedNotForgotten
PROPERTIES WindowKept DataServed ControlDrains
