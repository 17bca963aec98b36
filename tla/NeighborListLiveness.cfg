SPECIFICATION FairSpec
CONSTANTS
  Neighbors = {n1, n2, n3}
  Identities = {i1, i2, i3}
  Frames <- OneFrame
  MaxTime = 1
  NULL = NULL
PROPERTIES ExpiredLeave CleanEnds
CHECK_DEADLOCK FALSE
