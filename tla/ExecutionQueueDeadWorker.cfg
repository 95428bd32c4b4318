SPECIFICATION FairSpec
CONSTANTS
  w1 = w1
  w2 = w2
  Worker = {w1, w2}
  NoWorker = NoWorker
  Exec = {1}
  Priority <- MCPriorityOne
  Supports <- MCSupportsOne
  Parents = {}
  Stepped = {}
  MaxTurns = 1
  MaxMishaps = 1
PROPERTIES
  DeadWorkersExecutionIsRequeued
