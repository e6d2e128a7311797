SPECIFICATION FairSpec
CONSTANTS
  Align = 6
  Unit = 2
  DraftBlock = 2
  WindowTokens = 6
  Kpool = 2
  Compact = TRUE
  DraftDense = FALSE
  MambaDense = TRUE
  MaxLen = 14
  MaxRequests = 2
INVARIANTS
  HitUsable
  NoBoundaryMissed
PROPERTY LookupEnds
CHECK_DEADLOCK FALSE
