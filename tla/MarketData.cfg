CONSTANTS
  MaxTick = 3
  MaxLevelQty = 1
  Aims = {1, 2, 3}
  Mid = 2
  Seeded = 1
  MaxEdits = 1
  MaxSeq = 6
  Depth = 1
  WireCap = 1
  RingCap = 1
  Lossy = TRUE
  SimStalls = TRUE
  SimMayDie = TRUE
SPECIFICATION FeedSpec
INVARIANTS SimTypeOK SimUncrossed LocalWithinSim QuoteIsSims BookWithinSim HealthyUntilLoss
CHECK_DEADLOCK FALSE
