SPECIFICATION Spec
CONSTANTS
  w1 = w1
  w2 = w2
  Worker = {w1, w2}
  NoWorker = NoWorker
  Exec = {1, 2}
  Priority <- MCPriorityPair
  Supports <- MCSupportsPair
  Parents = {2}
  Stepped = {2}
  MaxTurns = 1
  MaxMishaps = 3
INVARIANTS
  SingleHolder
  NoDoubleRun
PROPERTIES
  HandOverOwnResult
  SettledIsFinal
  BackgroundYields
  ImplementsLease
SYMMETRY WorkerSymmetry
