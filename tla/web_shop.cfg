SPECIFICATION FairSpec
CONSTANTS
  Stores = {"a", "b"}
  Variants = {"a1", "b1"}
  StoreOf <- TwoStores
  Tabs = {t1, t2}
  Calls = {c1, c2}
  MaxQty = 2
  MaxActs = 4
INVARIANTS OneStore MergedOnce ShownIsServed
PROPERTIES EveryPageOpens
CHECK_DEADLOCK FALSE
