SPECIFICATION Spec
CONSTANTS
  ArtifactBatch = 1
  EventBatch = 2
  MaxEvents = 3
  MaxDecisions = 1
  MaxFaults = 2
INVARIANTS
  OrderKept
  CausesPrecede
  ArtifactsPrecede
  NothingLost
  EvidenceBeforeDecision
