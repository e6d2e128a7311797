SPECIFICATION Spec
CONSTANTS
  Rids = {1, 2, 3}
  Tier <- MCTwoTiers
  MaxTok = 2
  Chunk = 1
  Ladder = {1}
  MaxChunks = 2
  MaxStep = 3
  Unit = 2
  Share = 1
  Interval = 1
  Models <- MCTwoSizes
  QueueDepth = 1
  Addrs = {1}
  MinDt = 0
  MaxDt = 1
  MaxEvents = 3
INVARIANTS
  NoBorrowPastDeferredTier
