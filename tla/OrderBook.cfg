CONSTANTS
  OrderId = {1, 2}
  Price = {1, 2}
  OrderQtys = {1, 2}
  MaxClock = 4
  MaxMixed = 2
  Deltas <- MCDeltas
  Uses = {{"L2"}, {"L3"}, {"L2", "L3"}}
  NoEntry = NoEntry
SPECIFICATION OBSpec
INVARIANTS Accounts IndexLive  ReplayHarmless DiffShowsDelta
CHECK_DEADLOCK FALSE
