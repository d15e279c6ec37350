SPECIFICATION FeedSpec
CONSTANTS
  Status = {s1, s2}
  Unavailable = {s2}
  NoStatus = NoStatus
  NoSnapshot = NoSnapshot
  Activator = {a1}
  Worker = {w1, w2}
  MaxGeneration = 2
  MaxRevision = 1
INVARIANTS
  FeedIsCurrent
SYMMETRY Symmetry
CHECK_DEADLOCK FALSE
