SPECIFICATION Spec
CONSTANTS
  MinFallback = 3
  BatchSize = 2
  MaxFallbacks = 1
  HeadLength = 1
  MaxItems = 2
  RefineChunk = 3
  Topic <- MCTopic
  Usable = {1, 2, 3, 4, 5, 6}
  Silent = {13, 22, 23, 31}
  Json <- MCJson
  MaxRetries = 2
CHECK_DEADLOCK FALSE
INVARIANTS
  TextIsKept
  TaskResultsAreClean
