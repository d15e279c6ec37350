SPECIFICATION FairSpec
CONSTANTS
  Call = {c1, c2}
  General = {g1, g2}
  Specific = {s}
  Target = {t1, t2}
  Mode = {"open", "pairing"}
  MaxMessage = 2
  MaxChange = 1
  MaxFault = 1
INVARIANTS
  AdmittedOnly
  TypedOnce
  RejectionIsCurrent
  OffsetIsBehind
PROPERTIES
  EveryMessageIsSettled
CHECK_DEADLOCK FALSE
