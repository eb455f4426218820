CONSTANTS
  MaxTick = 3
  MaxLevelQty = 1
  Aims = {2}
  Mid = 2
  Seeded = 1
  MaxEdits = 1
  MaxSeq = 6
  Depth = 1
  WireCap = 1
  RingCap = 1
  Lossy = TRUE
  SimStalls = FALSE
  SimMayDie = FALSE
SPECIFICATION FeedSpec
INVARIANT ResumesAfterGap
CHECK_DEADLOCK FALSE
