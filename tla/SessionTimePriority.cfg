CONSTANTS
  OrderId = {1, 2, 3, 4, 5, 6, 7, 8}
  MaxPx = 1
  MaxQty = 1
  LimitPrices = {1}
  OrderTypes = {"Limit"}
  MaxResting = 4
  Commands = {"cancel"}
  EditedPrices = {0, 1}
  MaxAccepted = 2
  Orders <- MCOrders
  NewQtys <- MCNewQtys
  GarbageNode = {}
  DanglingErase = {"crash"}
  NoLoc = NoLoc
  NoNode = NoNode
  NoRequest = NoRequest
SPECIFICATION SessionSpec
INVARIANT TimePriority
CHECK_DEADLOCK FALSE
