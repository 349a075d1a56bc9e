SPECIFICATION FairSpec
CONSTANTS
  Txs = {t1, t2, t3}
  Rows = {r1, r2}
  InitialStock = 1
  NoRequest = NoRequest
  Kinds <- KindsOfThree
  t1 = t1
  t2 = t2
  t3 = t3
  PoolSize = 2
PROPERTIES ImplementsStockBook EveryTxEnds
CHECK_DEADLOCK FALSE
