SPECIFICATION FairSpec
CONSTANTS
  MaxSeq = 7
  Held = 4
  PageMax = 1
  PageLimit = 2
  Recovery = {}
  Queue = Queue
INVARIANTS
  ShownOnce
PROPERTIES
  ChainEnds
CHECK_DEADLOCK FALSE
