SPECIFICATION Spec
CONSTANTS
  Orders = {o1, o2}
  Variants = {v1}
  Procs = {p1, p2}
  Ops = {"checkout", "accept", "reject", "prepare", "markReady", "dispatch", "complete", "cancel", "customerCancel", "pos", "adjust", "switch", "timeoutJob", "abort"}
  MaxQty = 2
  InitialStock = 0
  MaxStock = 2
  MaxSales = 2
  MaxAge = 3
  AutoDisable = {v1}
  Methods = {"PAY_AT_PICKUP"}
  ChangeQtys <- UpAndDown
  Overlap = "jobAlone"
  NoOrder = NoOrder
INVARIANTS ExactReservation
PROPERTIES SoldOutIsHidden
SYMMETRY Symmetry
CHECK_DEADLOCK FALSE
