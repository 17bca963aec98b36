SPECIFICATION ReaderSpec
CONSTANTS
  Neighbors = {n1, n2}
  Identities = {i1, i2}
  Frames <- MCFrames
  MaxTime = 1
  NULL = NULL
INVARIANT IndexFindsEntry
CHECK_DEADLOCK FALSE
