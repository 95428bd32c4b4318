SPECIFICATION Spec
CONSTANTS
  w1 = w1
  w2 = w2
  Worker = {w1, w2}
  NoWorker = NoWorker
  Chunks = 2
  MaxRetries = 1
  Recursive = FALSE
  MaxRounds = 2
  MaxChildren = 3
  MaxMishaps = 1
CHECK_DEADLOCK FALSE
INVARIANTS
  ResultsAreGenuine
  ToldOnce
SYMMETRY WorkerSymmetry
