SPECIFICATION Spec
CONSTANTS
  Worker = {w1, w2}
  NoWorker = NoWorker
  Tool = {a, b}
  UnknownTool = unknown
  MaxSteps = 2
  MaxMishaps = 2
  Process = {"worker"}
  Manager = "manager"
  Caller = {c1, c2}
  Home <- MCHome
  MaxServers = 3
  MaxPolls = 1
  MaxFaults = 2
  Proc = {"p1", "p2", "p3"}
  Id = {"i1", "i2"}
  IdOf <- MCIdOf
  MaxEnds = 3
  Workers = 3
  Tasks = 2
  Adapter = {"a", "copy of a", "b", "deleted"}
  None = None
  FileName <- MCFileName
  OnDisk = {"a", "copy of a", "b"}
  OwnAdapter <- MCOwnAdapter
  MaxChanges = 3
  Ingester = {i1, i2}
  Document = {d}
  Memory = {m}
  Parts = 2
  MaxJobs = 4
  MaxStoreFaults = 1
  Entity = {"a", "b"}
  Unknown = "x"
  Predicate = {"p", "q"}
  Confidence = {1, 2}
  Chunk = {k1, k2}
  Answers <- MCAnswers
  MaxModifies = 2
  MaxLength = 6
  MaxPiece = 3
  Quarter = 2
  MaxFrames = 5
CHECK_DEADLOCK FALSE
INVARIANTS
  TypeOK
  EngineIsKnown
  WorkersAreAccountedFor
  VectorsInSync
  GraphIsWhatWasFound
  UserSeesTheText
  TranscriptRepeatsNothing
PROPERTIES
  StepsCountOnce
  CallsEnd
