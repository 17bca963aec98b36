SPECIFICATION Spec
CONSTANTS
  Neighbors = {n1, n2, n3}
  Identities = {i1, i2, i3}
  Frames <- ShortFrames
  MaxTime = 2
  NULL = NULL
SYMMETRY Symmetry
INVARIANTS ListInv UniqueIdentity
PROPERTIES OnlyExpiredLeave TableSpec HoldIsOfFrame
CHECK_DEADLOCK FALSE
