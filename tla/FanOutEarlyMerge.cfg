SPECIFICATION Spec
CONSTANTS
  w1 = w1
  w2 = w2
  Worker = {w1, w2}
  NoWorker = NoWorker
  Chunks = 2
  MaxRetries = 0
  Recursive = FALSE
  MaxRounds = 1
  MaxChildren = 2
  MaxMishaps = 0
CHECK_DEADLOCK FALSE
INVARIANTS
  MergesAfterChildren
