SPECIFICATION Spec
CONSTANTS
  Rids = {1, 2}
  Tier <- MCFlatTier
  MaxTok = 1
  Chunk = 1
  Ladder = {1}
  MaxChunks = 1
  MaxStep = 3
  Unit = 2
  Share = 1
  Interval = 1
  Models <- MCOneSize
  QueueDepth = 2
  Addrs = {1, 2}
  MinDt = 1
  MaxDt = 1
  MaxEvents = 3
INVARIANTS
  ServiceBelongsToRequest
