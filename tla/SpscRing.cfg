CONSTANTS
  Item = {a, b}
  Capacity = 2
  Modulus = 8
  NoItem = NoItem
  Torn = Torn
  Moved = Moved
SPECIFICATION FairRingSpec
INVARIANTS RingTypeOK NoRace ViewsInStep
PROPERTIES RingIsFifo Delivered
