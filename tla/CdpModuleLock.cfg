SPECIFICATION ModuleSpec
CONSTANTS
  Neighbors = {n1}
  Identities = {i1}
  Frames <- MCEndless
  Endless <- MCEndless
  MaxTime = 1
  NULL = NULL
  Cpus = {c1, c2}
  Procs = {p1}
  TransmitInterval = 1
INVARIANT LockControlsAccess
CHECK_DEADLOCK FALSE
