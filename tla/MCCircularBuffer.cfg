SPECIFICATION Spec
CONSTANTS
  Size = 4
  Byte = {0, 1}
  MaxRun = 4
INVARIANTS TypeOK RegionsInBounds DrainedIsWhole
PROPERTY FifoSpec
