SPECIFICATION FairSpec
CONSTANTS
  Rids = {1, 2}
  Tier <- MCFlatTier
  MaxTok = 2
  Chunk = 1
  Ladder = {1, 2}
  MaxChunks = 1
  MaxStep = 3
  Unit = 2
  Share = 1
  Interval = 1
  Models <- MCTwoSizes
  QueueDepth = 2
  Addrs = {1}
  MinDt = 1
  MaxDt = 1
  MaxEvents = 2
PROPERTIES
  EventuallyScheduled
