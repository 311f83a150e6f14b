\* One byte of the bitmap, at its real width, is enough to set its top bit.
CONSTANTS
  MaxFds = 1
  NOFD = NOFD
SPECIFICATION Spec
INVARIANT IdsUnique
CHECK_DEADLOCK FALSE
