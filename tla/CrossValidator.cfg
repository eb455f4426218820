CONSTANTS
  MaxTick = 3
  MaxLevelQty = 1
  Mid = 2
  Seeded = 1
  Aims = {2}
  MaxEdits = 1
  MaxSeq = 5
  Depth = 1
  WireCap = 3
  RingCap = 1
  Lossy = FALSE
  SimStalls = FALSE
  SimMayDie = TRUE
SPECIFICATION FairPipeSpec
PROPERTIES CatchesUp ShutsDown
CHECK_DEADLOCK FALSE
