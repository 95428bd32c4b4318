SPECIFICATION FairSpec
CONSTANTS
  w1 = w1
  w2 = w2
  Worker = {w1, w2}
  NoWorker = NoWorker
  Exec = {1, 2, 3}
  Priority <- MCPriority
  Supports <- MCSupportsSome
  Parents = {2}
  Stepped = {3}
  MaxTurns = 1
  MaxMishaps = 0
PROPERTIES
  ClaimIsReleased
  QueuedIsServed
