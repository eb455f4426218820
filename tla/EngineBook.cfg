CONSTANTS
  OrderId = {1, 2}
  MaxPx = 2
  MaxQty = 2
  LimitPrices = {1,2}
  MaxResting = 3
  Orders <- MCOrders
  NewQtys <- MCNewQtys
  GarbageNode <- MCGarbage
  DanglingErase = {"crash", "survive"}
  NoLoc = NoLoc
  NoNode = NoNode
  NoRequest = NoRequest
SPECIFICATION FairSpec
INVARIANTS TypeOK Uncrossed NoPhantomLevel LocFindsLevel RestingSound NoTradeThrough
PROPERTY HandlerReturns
CHECK_DEADLOCK FALSE
