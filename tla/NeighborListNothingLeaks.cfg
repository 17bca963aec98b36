SPECIFICATION Spec
CONSTANTS
  Neighbors = {n1, n2}
  Identities = {i1, i2}
  Frames <- OneFrame
  MaxTime = 2
  NULL = NULL
INVARIANT NothingLeaks
CHECK_DEADLOCK FALSE
