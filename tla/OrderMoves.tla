----------------------------- MODULE OrderMoves -----------------------------
(***************************************************************************)
(* The statuses of an order and the moves the API's handlers allow: what   *)
(* the order service, the store's console and the customer's pages share.  *)
(***************************************************************************)
OrderStatus == {"PLACED", "ACCEPTED", "REJECTED", "PREPARING", "READY_FOR_PICKUP",
                "OUT_FOR_DELIVERY", "COMPLETED", "CANCELLED"}
TerminalStatuses == {"COMPLETED", "CANCELLED", "REJECTED"}
OpenStatuses     == OrderStatus \ TerminalStatuses

\* "NONE" is the fromStatus of the first history row, and here the status of an
\* order that does not exist yet.
Status == OrderStatus \cup {"NONE"}

\* Mutants: an order can be completed again; a cancelled one can be rejected; an
\* accepted one can be dispatched.
CompletedTwice(op)    == IF op = "complete" THEN {"OUT_FOR_DELIVERY", "COMPLETED"} ELSE OpenStatuses
CancelledRejected(op) == IF op = "reject" THEN {"PLACED", "CANCELLED"} ELSE {"PLACED", "ACCEPTED"}
EarlyDispatch(op)     == IF op = "dispatch" THEN {"ACCEPTED"} ELSE {"PLACED"}

\* The statuses each handler accepts.
AllowedFrom(op) ==
  CASE op = "accept"    -> {"PLACED"}
    [] op = "prepare"   -> {"ACCEPTED"}
    [] op = "markReady" -> {"PREPARING"}
    [] op = "dispatch"  -> {"PREPARING", "READY_FOR_PICKUP"}
    [] op = "reject"    -> {"PLACED", "ACCEPTED"}
    [] op = "cancel"    -> OpenStatuses
    [] op = "complete"  -> {"READY_FOR_PICKUP", "OUT_FOR_DELIVERY"}

Operations == {"accept", "prepare", "markReady", "dispatch", "reject", "cancel", "complete"}

Target(op) ==
  CASE op = "accept"    -> "ACCEPTED"
    [] op = "prepare"   -> "PREPARING"
    [] op = "markReady" -> "READY_FOR_PICKUP"
    [] op = "dispatch"  -> "OUT_FOR_DELIVERY"
    [] op = "reject"    -> "REJECTED"
    [] op = "cancel"    -> "CANCELLED"
    [] op = "complete"  -> "COMPLETED"
=============================================================================
