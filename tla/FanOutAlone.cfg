SPECIFICATION FairSpec
CONSTANTS
  w1 = w1
  w2 = w2
  Worker = {w1}
  NoWorker = NoWorker
  Chunks = 2
  MaxRetries = 1
  Recursive = TRUE
  MaxRounds = 3
  MaxChildren = 12
  MaxMishaps = 0
CHECK_DEADLOCK FALSE
INVARIANTS
  TypeOK
  ChildrenAreCounted
PROPERTIES
  PlansEnd
  ImplementsMapReduce
