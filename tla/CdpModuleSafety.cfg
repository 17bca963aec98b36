SPECIFICATION ModuleSpec
CONSTANTS
  Neighbors = {n1, n2}
  Identities = {i1, i2}
  Frames <- MCEndless
  Endless <- MCEndless
  MaxTime = 1
  NULL = NULL
  Cpus = {c1, c2}
  Procs = {p1}
  TransmitInterval = 1
SYMMETRY Symmetry
INVARIANTS UsersGoneBeforeClean NoSpinOverHolder TimerAlive
PROPERTIES ListStepsWhileLoaded
CHECK_DEADLOCK FALSE
