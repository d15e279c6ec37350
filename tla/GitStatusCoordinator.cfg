SPECIFICATION Spec
CONSTANTS
  Status = {s1, s2}
  NoStatus = NoStatus
  Activator = {a1, a2}
  Worker = {w1, w2}
  MaxGeneration = 2
  MaxRevision = 2
INVARIANTS
  TypeOK
  OneWorkerPerGeneration
  NoRefreshIsLost
  PublishedIsEmitted
PROPERTIES
  RevisionsIncrease
SYMMETRY Symmetry
CHECK_DEADLOCK FALSE
