\* A buffer of five bytes, room for three fragments with holes between them;
\* sequence numbers wrap every sixteen.
CONSTANTS
  Size = 5
  InitWnd = 7
  Modulus = 16
  NoByte = NoByte
SPECIFICATION Spec
VIEW WithoutData
INVARIANTS NoAssertFails MemoryInBounds WindowFits AckedIsHeld
PROPERTIES ImplementsReassembly
