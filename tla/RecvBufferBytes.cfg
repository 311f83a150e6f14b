CONSTANTS
  Size = 5
  InitWnd = 7
  Modulus = 16
  NoByte = NoByte
SPECIFICATION Spec
INVARIANT BytesInPlace
