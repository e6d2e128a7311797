SPECIFICATION Spec
CONSTANTS
  Rids = {1, 2}
  Tier <- MCFlatTier
  MaxTok = 2
  Chunk = 1
  Ladder = {1, 2}
  MaxChunks = 1
  MaxStep = 3
  Unit = 4
  Share = 1
  Interval = 1
  Models <- MCTwoSizes
  QueueDepth = 2
  Addrs = {1}
  MinDt = 0
  MaxDt = 1
  MaxEvents = 3
INVARIANTS
  TypeOK
  StepBudget
  BorrowAlone
  SoleContendedPrefill
  DebtBounded
  NoDebtOutsideContention
  CreditCeiling
PROPERTIES
  DebtSurvivesChurn
