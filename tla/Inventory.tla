------------------------------ MODULE Inventory ------------------------------
(***************************************************************************)
(* One row of the `inventory` table and what the operations of             *)
(* InventoryService do to it.  A row is a record:                          *)
(*   quantity           units on the shelf                                 *)
(*   reservedQuantity   units promised to APP orders that are still open   *)
(*   isActive           product_variants.is_active of the row's variant    *)
(*   autoDisableAtZero  the row's flag of that name                        *)
(*   ledger             what the variant's inventory_adjustments rows add  *)
(*                      up to (the sum of their changeQty)                 *)
(* The operators are pure: modules that own an inventory apply them inside *)
(* the transaction that holds the row's lock (or, in one case, does not).  *)
(***************************************************************************)
EXTENDS Integers

InventoryRow ==
  [quantity : Nat, reservedQuantity : Nat, isActive : BOOLEAN,
   autoDisableAtZero : BOOLEAN, ledger : Int]

\* initInventory: a new row, with one RESTOCK adjustment when it starts above zero; the
\* variant createProduct or createVariant makes it for is active, also when it is zero.
InitInventory(qty, autoDisable) ==
  [quantity |-> qty, reservedQuantity |-> 0, isActive |-> TRUE,
   autoDisableAtZero |-> autoDisable, ledger |-> qty]

\* What a checkout may still promise.
Available(row) == row.quantity - row.reservedQuantity

\* Math.max(0, n)
ClampAtZero(n) == IF n < 0 THEN 0 ELSE n

(***************************************************************************)
(* adjustStock(changeQty): a plain signed change.  It looks at the shelf   *)
(* quantity only, never at what is reserved.                               *)
(***************************************************************************)
CanAdjustStock(row, changeQty) == row.quantity + changeQty >= 0

\* Mutant: restocking never switches the variant on again.
NeverReenabled(row, newQty) == row.isActive /\ ~(newQty = 0 /\ row.autoDisableAtZero)

\* Switched off at zero, on again when it leaves zero; otherwise as it was.
ActiveAfterAdjustment(row, newQty) ==
  IF ~row.autoDisableAtZero THEN row.isActive
  ELSE /\ newQty # 0
       /\ row.isActive \/ row.quantity = 0

AdjustStock(row, changeQty) ==
  LET newQty == row.quantity + changeQty
  IN  [row EXCEPT !.quantity = newQty,
                  !.ledger   = @ + changeQty,
                  !.isActive = ActiveAfterAdjustment(row, newQty)]

\* Mutant: the reservations of others are ignored.
CanReserveShelf(row, n) == row.quantity >= n

\* reserveStock: promise n units of what is available.
CanReserveStock(row, n) == Available(row) >= n
ReserveStock(row, n)    == [row EXCEPT !.reservedQuantity = @ + n]

\* releaseReservedStock: give n units back, clamped.
ReleaseReservedStock(row, n) ==
  [row EXCEPT !.reservedQuantity = ClampAtZero(@ - n)]

\* Mutant: the reservation is kept.
CommitKeepsReservation(row, n) ==
  [row EXCEPT !.quantity = ClampAtZero(@ - n), !.ledger = @ - n]

\* commitReservedStock: the promised units leave the shelf; both counters are
\* clamped, the adjustment row always says -n.
CommitReservedStock(row, n) ==
  LET newQty == ClampAtZero(row.quantity - n)
  IN  [row EXCEPT !.quantity         = newQty,
                  !.reservedQuantity = ClampAtZero(@ - n),
                  !.ledger           = @ - n,
                  !.isActive         = @ /\ ~(newQty = 0 /\ row.autoDisableAtZero)]

\* decrementDirectStock: adjustStock by -|quantity|, used by the POS counter.
CanDecrementDirectStock(row, n) == CanAdjustStock(row, -n)
DecrementDirectStock(row, n)    == AdjustStock(row, -n)
==============================================================================
