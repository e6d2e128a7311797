SPECIFICATION Spec
CONSTANTS
  Rids = {1, 2, 3}
  Tier <- MCTwoTiers
  MaxTok = 2
  Chunk = 1
  Ladder = {1}
  MaxChunks = 1
  MaxStep = 1
  Unit = 2
  Share = 1
  Interval = 1
  Models <- MCColdTwo
  QueueDepth = 1
  Addrs = {1}
  MinDt = 1
  MaxDt = 1
  MaxEvents = 3
INVARIANTS
  SlotBound
  TiersKept
