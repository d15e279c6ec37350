SPECIFICATION FairSpec
CONSTANTS
  Background = {b1, b2}
  MaxSettings = 1
  MaxChange = 1
INVARIANTS
  WatchedIsOpen
  OpenIsWatched
PROPERTIES
  ChangesAreReported
CHECK_DEADLOCK FALSE
