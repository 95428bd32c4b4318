SPECIFICATION Spec
CONSTANTS
  MaxRounds = 2
  MaxCalls = 2
  MaxOps = 6
  MaxFaults = 2
INVARIANTS
  TypeOK
  AnsweredBeforeInference
  EvidenceBeforeEffect
  PartialListsDurableWork
  OperationsClosed
  AnswerIsDurable
CHECK_DEADLOCK FALSE
