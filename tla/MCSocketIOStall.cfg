SPECIFICATION FairSpec
CONSTANTS
  Size = 4
  MaxBytes = 7
  Byte <- MCByte
  Senders = {s1}
  MaxChunk = 2
  Room = 2
  ReadSize = 2
  MaxIn = 2
PROPERTY OutputDrains
CHECK_DEADLOCK FALSE
