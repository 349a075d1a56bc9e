-------------------------- MODULE MCStockTransactions --------------------------
(* TLC definitions for StockTransactions. *)
EXTENDS StockTransactions, TLC

CONSTANTS t1, t2, t3

\* One transaction of any kind, beside one that may form a cycle with it or compete for
\* the pool, and one that locks a single row or competes for the pool.
KindsOfThree == t1 :> Book!Kind @@ t2 :> {"checkout", "merge"} @@ t3 :> {"adjust", "merge"}
===============================================================================
