CONSTANTS
  OrderId = {1, 2, 3, 4, 5}
  MaxPx = 1
  MaxResting = 4
  Orders <- MCOrders
  NewQtys <- MCNewQtys
  GarbageNode = {}
  DanglingErase = {"crash", "survive"}
  NoLoc = NoLoc
  NoNode = NoNode
  NoRequest = NoRequest
  Scripts <- MCScripts
  OrderCap = 2
  ExecCap = 3
SPECIFICATION FairPipelineSpec
INVARIANTS PipelineTypeOK CompletedIsGone
PROPERTIES ViewShrinks Terminates
CHECK_DEADLOCK FALSE
