SPECIFICATION FairSpec
CONSTANTS
  Size = 4
  MaxBytes = 7
  Byte <- MCByte
  Senders = {s1, s2}
  MaxChunk = 2
  Room = 2
  ReadSize = 2
  MaxIn = 2
INVARIANTS TypeOK LockMeansData InOrder
PROPERTIES OutputDrainsUnwrapped InputServedFitting
CHECK_DEADLOCK FALSE
