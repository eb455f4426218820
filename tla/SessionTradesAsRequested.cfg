CONSTANTS
  OrderId = {1, 2, 3, 4}
  MaxPx = 1
  MaxQty = 2
  LimitPrices = {1}
  OrderTypes = {"Limit"}
  MaxResting = 3
  Commands = {"cancel", "replace"}
  EditedPrices = {0, 1}
  MaxAccepted = 2
  Orders <- MCOrders
  NewQtys <- MCNewQtys
  GarbageNode = {}
  DanglingErase = {"crash"}
  NoLoc = NoLoc
  NoNode = NoNode
  NoRequest = NoRequest
SPECIFICATION SessionSpec
PROPERTY TradesAsRequested
CHECK_DEADLOCK FALSE
