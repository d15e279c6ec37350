SPECIFICATION FairSpec
CONSTANTS
  Agent = {a1, a2}
  Human = Human
  Caller = {c1, c2}
  MaxMessages = 2
  MaxCalls = 2
  MaxTargets = 2
INVARIANTS
  SequenceIsUnique
  WrittenIsRecorded
PROPERTIES
  LeavesForAReason
  KeptIsStored
CHECK_DEADLOCK FALSE
