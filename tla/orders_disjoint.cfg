SPECIFICATION Spec
CONSTANTS
  Orders = {o1, o2}
  Variants = {v1, v2}
  Procs = {p1, p2}
  Ops = {"checkout", "accept", "reject", "prepare", "markReady", "dispatch", "complete", "customerCancel", "adjust", "switch"}
  MaxQty = 2
  InitialStock = 2
  MaxStock = 3
  MaxSales = 2
  MaxAge = 0
  AutoDisable = {v1}
  Methods = {"COD"}
  ChangeQtys = {1}
  Overlap = "acrossOrders"
  NoOrder = NoOrder
INVARIANTS NoOversell GoodsTraced
PROPERTIES TerminalIsFinal HistoryIsChain ImplementsOrderBook
SYMMETRY Symmetry
CHECK_DEADLOCK FALSE
