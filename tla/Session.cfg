CONSTANTS
  OrderId = {1, 2, 3, 4}
  MaxPx = 2
  MaxQty = 2
  LimitPrices = {1, 2}
  OrderTypes = {"Limit", "Market"}
  MaxResting = 4
  Commands = {"cancel", "replace"}
  EditedPrices = {0, 1}
  MaxAccepted = 2
  Orders <- MCOrders
  NewQtys <- MCNewQtys
  GarbageNode <- MCGarbage
  DanglingErase = {"crash", "survive"}
  NoLoc = NoLoc
  NoNode = NoNode
  NoRequest = NoRequest
SPECIFICATION SessionSpec
INVARIANTS LeavesReported AcceptedCovers
PROPERTY ImplementsPriceTime
CHECK_DEADLOCK FALSE
