SPECIFICATION Spec
CONSTANTS
  Stores = {"a", "b"}
  Variants = {"a1", "b1"}
  StoreOf <- OneOfEach
  Procs = {p1}
  Keys = {k1}
  Available <- TwoInStock
  Ops = {"add", "update", "remove", "clear", "merge", "cartCheckout", "checkout", "crash", "withdraw"}
  Overlapping = FALSE
  MaxCarts = 2
  MaxLines = 3
  MaxOrders = 2
INVARIANTS FewLinesPerVariant CartOrderedOnce
SYMMETRY Symmetry
CHECK_DEADLOCK FALSE
