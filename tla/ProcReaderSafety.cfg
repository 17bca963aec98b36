SPECIFICATION ReaderSpec
CONSTANTS
  Neighbors = {n1, n2, n3, n4}
  Identities = {i1, i2}
  Frames <- MCFrames
  MaxTime = 1
  NULL = NULL
SYMMETRY Symmetry
INVARIANTS ReaderTypeOK ShownOnce BracketsPlaced IndexIsPlace
CHECK_DEADLOCK FALSE
