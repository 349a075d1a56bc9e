SPECIFICATION Spec
CONSTANTS
  Orders = {o1, o2}
  Variants = {v1}
  Procs = {p1, p2}
  Ops = {"checkout", "accept", "reject", "prepare", "markReady", "dispatch", "complete", "cancel", "abort"}
  MaxQty = 1
  InitialStock = 1
  MaxStock = 1
  MaxSales = 2
  MaxAge = 0
  AutoDisable = {v1}
  Methods = {"COD"}
  ChangeQtys = {}
  Overlap = "any"
  NoOrder = NoOrder
INVARIANTS NoLeakedReservation NoOverReservation CompletedIsSettled
PROPERTIES TerminalIsFinal
SYMMETRY Symmetry
CHECK_DEADLOCK FALSE
