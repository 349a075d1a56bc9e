SPECIFICATION Spec
CONSTANTS
  Stores = {"a", "b"}
  Variants = {"a1", "b1"}
  StoreOf <- OneOfEach
  Procs = {p1, p2}
  Keys = {k1, k2}
  Available <- OneInStock
  Ops = {"add", "confirm", "update", "merge", "cartCheckout", "crash", "expire"}
  Overlapping = TRUE
  MaxCarts = 2
  MaxLines = 3
  MaxOrders = 2
INVARIANTS FewLinesPerVariant CartsOfOneStore KeyNamesItsOrder
SYMMETRY Symmetry
CHECK_DEADLOCK FALSE
