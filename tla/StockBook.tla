------------------------------- MODULE StockBook -------------------------------
(***************************************************************************)
(* What the transactions on the stock promise: each one happens at once.   *)
(* A transaction is opened with the operation it is to do and the rows it  *)
(* concerns, and ends committed, all of its rows changed together and from *)
(* a state of all of them that allows it, or failed, and nothing changed.  *)
(***************************************************************************)
EXTENDS Inventory

CONSTANTS Txs, Rows, InitialStock, NoRequest

VARIABLES stock, request, outcome

vars == <<stock, request, outcome>>

-------------------------------------------------------------------------------
\* A merge of carts changes no stock.
Kind == {"checkout", "release", "complete", "pos", "adjust", "merge"}

\* What each operation asks of a row, and what it does to it, one unit at a time.
Allows(kind, row) ==
  CASE kind = "checkout" -> CanReserveStock(row, 1)
    [] kind = "pos"      -> CanDecrementDirectStock(row, 1)
    [] kind = "adjust"   -> CanAdjustStock(row, 1)
    [] OTHER             -> TRUE

Changed(kind, row) ==
  CASE kind = "checkout" -> ReserveStock(row, 1)
    [] kind = "release"  -> ReleaseReservedStock(row, 1)
    [] kind = "complete" -> CommitReservedStock(row, 1)
    [] kind = "pos"      -> DecrementDirectStock(row, 1)
    [] kind = "adjust"   -> AdjustStock(row, 1)

Init ==
  /\ stock = [r \in Rows |-> InitInventory(InitialStock, FALSE)]
  /\ request = [t \in Txs |-> NoRequest]
  /\ outcome = [t \in Txs |-> "none"]

Open(t) ==
  /\ outcome[t] = "none"
  /\ \E kind \in Kind, rows \in SUBSET Rows :
       request' = [request EXCEPT ![t] = [kind |-> kind, rows |-> rows]]
  /\ outcome' = [outcome EXCEPT ![t] = "open"]
  /\ UNCHANGED stock

Commit(t) ==
  /\ outcome[t] = "open"
  /\ \A r \in request[t].rows : Allows(request[t].kind, stock[r])
  /\ stock' = [r \in Rows |-> IF r \in request[t].rows
                                THEN Changed(request[t].kind, stock[r]) ELSE stock[r]]
  /\ outcome' = [outcome EXCEPT ![t] = "committed"]
  /\ UNCHANGED request

Fail(t) ==
  /\ outcome[t] = "open"
  /\ outcome' = [outcome EXCEPT ![t] = "failed"]
  /\ UNCHANGED <<stock, request>>

Next == \E t \in Txs : Open(t) \/ Commit(t) \/ Fail(t)

Spec == Init /\ [][Next]_vars
===============================================================================
