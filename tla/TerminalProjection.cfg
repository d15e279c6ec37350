SPECIFICATION Spec
CONSTANTS
  MaxSeq = 4
  Held = 4
  PageMax = 2
  PageLimit = 3
  Recovery = {r1, r2}
  Queue = Queue
INVARIANTS
  NothingIsSkipped
SYMMETRY Symmetry
CHECK_DEADLOCK FALSE
