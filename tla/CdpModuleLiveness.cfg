SPECIFICATION FairModuleSpec
CONSTANTS
  Neighbors = {n1}
  Identities = {i1}
  Frames <- MCFrames
  Endless <- MCEndless
  MaxTime = 0
  NULL = NULL
  Cpus = {c1, c2}
  Procs = {p1}
  TransmitInterval = 1
PROPERTIES UnloadDrains
CHECK_DEADLOCK FALSE
