SPECIFICATION FairSpec
CONSTANTS
  Slot = {w1, w2}
  MaxAttempts = 10
INVARIANTS
  OneWorker
  ConnectedIsTrue
PROPERTIES
  WorkersFollow
CHECK_DEADLOCK FALSE
