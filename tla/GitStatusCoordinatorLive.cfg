SPECIFICATION FairSpec
CONSTANTS
  Status = {s1, s2}
  NoStatus = NoStatus
  Activator = {a1}
  Worker = {w1, w2}
  MaxGeneration = 2
  MaxRevision = 1
PROPERTIES
  RefreshIsServed
  StaleWorkersEnd
CHECK_DEADLOCK FALSE
