SPECIFICATION FairSpec
CONSTANTS
  MaxBytes = 4
  ReadMax = 2
  QueueCap = 2
  RingCap = 3
  EventMax = 2
  TailCap = 2
INVARIANTS
  TypeOK
  HistoryIsNewest
  DeltaIsComplete
  EachByteOnceInOrder
  LatestIsKept
PROPERTIES
  ImplementsRecoveryLog
  NothingWaitsForEver
  ReaderEnds
CHECK_DEADLOCK FALSE
