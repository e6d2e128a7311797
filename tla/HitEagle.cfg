SPECIFICATION Spec
CONSTANTS
  Align = 4
  Unit = 4
  DraftBlock = 2
  WindowTokens = 4
  Kpool = 2
  Compact = FALSE
  DraftDense = FALSE
  MambaDense = FALSE
  MaxLen = 13
  MaxRequests = 3
INVARIANTS
  HitUsable
  NoBoundaryMissed
  PriorReachable
CHECK_DEADLOCK FALSE
