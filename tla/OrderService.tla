----------------------------- MODULE OrderService -----------------------------
(***************************************************************************)
(* The orders of one store and the stock they hold: OrderService,          *)
(* InventoryService and OrderTimeoutJob on one database.                   *)
(*                                                                         *)
(* Requests run concurrently.  A handler that reads the order and writes   *)
(* it later is split where other requests can get in between:              *)
(*  - acceptOrder, prepareOrder, markReady and dispatchOrder read the      *)
(*    order, update it by id, and insert the history row, each in a        *)
(*    statement of its own;                                                *)
(*  - rejectOrder, cancelOrder and completeOrder read the order WITHOUT a  *)
(*    lock at the start of their transaction, then lock the inventory rows *)
(*    FOR UPDATE and write everything until the commit.  Under READ        *)
(*    COMMITTED the order that was read may have changed by the time the   *)
(*    lock is granted.  From the lock to the commit is one step: other     *)
(*    transactions on these rows wait, and a plain update of the order row *)
(*    takes effect before the transaction's own update or after its commit;*)
(*  - checkout, createPosOrder and adjustStock decide after the lock, and  *)
(*    are one step.                                                        *)
(* A request may also die between two of its steps (Abort).                *)
(***************************************************************************)
EXTENDS Inventory, OrderMoves, FiniteSets

CONSTANTS
  Orders,        \* ids of the orders that may be created
  Variants,      \* product variants of the store
  Procs,         \* requests that can be in flight at the same time
  Ops,           \* what clients, the job and the environment do, see AllOps
  MaxQty,        \* largest quantity of one order line
  InitialStock,  \* units of every variant at the start
  MaxStock,      \* bound on what restocking can reach
  MaxSales,      \* bound on how often the goods of one order are taken off the shelf
  MaxAge,        \* bound on the age an order reaches, see Age
  AutoDisable,   \* variants whose row has autoDisableAtZero
  Methods,       \* payment methods customers choose, a subset of PaymentMethod
  ChangeQtys,    \* changes of stock the owner enters
  Overlap,       \* which requests the environment lets overlap, see MayStart
  NoOrder        \* no order id

PaymentMethod == {"UPI", "CARD", "COD", "PAY_AT_PICKUP"}

AllOps == {"checkout", "pos", "adjust", "switch", "accept", "reject", "prepare",
           "markReady", "dispatch", "complete", "cancel", "customerCancel",
           "timeoutJob", "abort"}

ASSUME OrdersAssumption == IsFiniteSet(Orders) /\ NoOrder \notin Orders
ASSUME OpsAssumption    == Ops \subseteq AllOps /\ Overlap \in {"any", "acrossOrders", "jobAlone"}
ASSUME StockAssumption  ==
  /\ InitialStock \in Nat /\ MaxQty \in Nat /\ MaxStock \in Nat /\ MaxSales \in Nat
  /\ ChangeQtys \subseteq Int /\ MaxAge \in 0..3
  /\ AutoDisable \subseteq Variants
ASSUME MethodsAssumption == Methods \subseteq PaymentMethod

VARIABLES
  orders,      \* orders[o]: the row of o and the rows that hang off it
  inventory,   \* inventory[v]: the stock row of v
  req,         \* req[p]: what request p has read and does next
  job          \* the run of the timeout job

vars == <<orders, inventory, req, job>>

-------------------------------------------------------------------------------
(* Orders *)

Quantities == 0..MaxQty
NoItems    == [v \in Variants |-> 0]
Baskets    == [Variants -> Quantities] \ {NoItems}

\* How long ago the order was placed, as far as the code asks: within the
\* customer's cancel window, after it, over 15 minutes, over 120 minutes.
Age == 0..3
InCancelWindow == 0
IsStale        == 2
IsNoShow       == 3

\* `history` is the newest order_status_history row of the order, <<from, to>>.
OrderRow ==
  [status : Status, channel : {"APP", "POS"}, items : [Variants -> Quantities],
   method : PaymentMethod, payment : {"INITIATED", "SUCCESS"},
   invoiced : BOOLEAN, refunds : Nat, sales : Nat,
   history : Status \X Status, age : Age]

Blank == [status |-> "NONE", channel |-> "APP", items |-> NoItems,
          method |-> "COD", payment |-> "INITIATED",
          invoiced |-> FALSE, refunds |-> 0, sales |-> 0,
          history |-> <<"NONE", "NONE">>, age |-> 0]

\* mapPaymentMethodToGateway: cash and pay-at-pickup are both COD at the gateway.
Gateway(method) == IF method \in {"COD", "PAY_AT_PICKUP"} THEN "COD" ELSE method

\* Apply an inventory operation to the rows of a basket.
ForItems(items, Op(_, _)) ==
  [v \in Variants |-> IF items[v] = 0 THEN inventory[v]
                                      ELSE Op(inventory[v], items[v])]
EveryItem(items, Can(_, _)) ==
  \A v \in Variants : items[v] > 0 => Can(inventory[v], items[v])

-------------------------------------------------------------------------------
(* Requests *)

\* The handlers that move an order along without a transaction.
StepOps == {"accept", "prepare", "markReady", "dispatch"}
\* The handlers that end an order inside one.
TxOps == {"reject", "cancel", "complete"}

Idle == [op |-> "cancel", step |-> "idle", order |-> NoOrder, seen |-> "NONE"]

\* A request that is at work has read an order and what it does next.
Request ==
  {Idle} \cup
  [op : StepOps, step : {"update", "history"}, order : Orders, seen : OrderStatus] \cup
  [op : TxOps, step : {"read", "tx"}, order : Orders, seen : OrderStatus]

NoJob == [todo |-> {}, order |-> NoOrder, seen |-> "NONE", reserved |-> NoItems]

JobRun ==
  [todo : SUBSET (Orders \X OrderStatus), order : Orders \cup {NoOrder},
   seen : Status, reserved : [Variants -> Nat]]

Init ==
  /\ orders = [o \in Orders |-> Blank]
  /\ inventory = [v \in Variants |-> InitInventory(InitialStock, v \in AutoDisable)]
  /\ req = [p \in Procs |-> Idle]
  /\ job = NoJob

Busy(o) == \/ \E p \in Procs : req[p].step # "idle" /\ req[p].order = o
           \/ job.order = o \/ \E t \in job.todo : t[1] = o

Quiet == job = NoJob /\ \A p \in Procs : req[p].step = "idle"

\* A request on o may start now: always; or unless something else is at work on o;
\* or unless, besides, the job is at work on any order.
MayTouch(o) == /\ Overlap # "any" => ~Busy(o)
               /\ Overlap = "jobAlone" => job = NoJob
MayStart(p, o) == req[p].step = "idle" /\ MayTouch(o)

Finish(p) == req' = [req EXCEPT ![p] = Idle]

-------------------------------------------------------------------------------
(* Creating orders *)

\* The rows a new order comes with.
NewOrder(channel, items, method, status) ==
  [Blank EXCEPT !.status = status, !.channel = channel, !.items = items,
                !.method = method, !.history = <<"NONE", status>>]

\* checkout: an APP order for active variants, every line available under the
\* lock, and its reservation, in one transaction.
Checkout(o, items, method) ==
  /\ "checkout" \in Ops
  /\ orders[o].status = "NONE" /\ MayTouch(o)
  /\ \A v \in Variants : items[v] > 0 => inventory[v].isActive
  /\ EveryItem(items, CanReserveStock)
  /\ orders' = [orders EXCEPT ![o] = NewOrder("APP", items, method, "PLACED")]
  /\ inventory' = ForItems(items, ReserveStock)
  /\ UNCHANGED <<req, job>>

\* createPosOrder: a COMPLETED, paid and invoiced order; it compares each line
\* with the shelf quantity, not with what is available.
CreatePosOrder(o, items, method) ==
  /\ "pos" \in Ops
  /\ orders[o].status = "NONE" /\ MayTouch(o)
  /\ EveryItem(items, CanDecrementDirectStock)
  /\ orders' = [orders EXCEPT ![o] =
                  [NewOrder("POS", items, method, "COMPLETED")
                     EXCEPT !.payment = "SUCCESS", !.invoiced = TRUE, !.sales = 1]]
  /\ inventory' = ForItems(items, DecrementDirectStock)
  /\ UNCHANGED <<req, job>>

\* adjustStock from the inventory screen: restock, correction, damage.
AdjustStockOf(v, changeQty) ==
  /\ "adjust" \in Ops
  /\ Overlap = "jobAlone" => job = NoJob
  /\ CanAdjustStock(inventory[v], changeQty)
  /\ inventory[v].quantity + changeQty <= MaxStock
  /\ inventory' = [inventory EXCEPT ![v] = AdjustStock(@, changeQty)]
  /\ UNCHANGED <<orders, req, job>>

\* updateVariant of the owner's catalog: the variant's switch is written as asked,
\* whatever the shelf holds.
SwitchVariant(v, on) ==
  /\ "switch" \in Ops
  /\ inventory' = [inventory EXCEPT ![v].isActive = on]
  /\ UNCHANGED <<orders, req, job>>

-------------------------------------------------------------------------------
(* acceptOrder, prepareOrder, markReady, dispatchOrder *)

\* Mutant: the status is not checked.
ReadForStepUnchecked(p, o, op) ==
  /\ op \in Ops
  /\ MayStart(p, o)
  /\ orders[o].status # "NONE"
  /\ req' = [req EXCEPT ![p] = [op |-> op, step |-> "update", order |-> o,
                                seen |-> orders[o].status]]
  /\ UNCHANGED <<orders, inventory, job>>

\* The handler reads the order and checks its status.
ReadForStep(p, o, op) ==
  /\ op \in Ops
  /\ MayStart(p, o)
  /\ orders[o].status \in AllowedFrom(op)
  /\ req' = [req EXCEPT ![p] = [op |-> op, step |-> "update", order |-> o,
                                seen |-> orders[o].status]]
  /\ UNCHANGED <<orders, inventory, job>>

AcceptOrder(p, o)   == ReadForStep(p, o, "accept")
PrepareOrder(p, o)  == ReadForStep(p, o, "prepare")
MarkReady(p, o)     == ReadForStep(p, o, "markReady")
DispatchOrder(p, o) == ReadForStep(p, o, "dispatch")

\* order.update({ where: { id } }): whatever the status is by now.
UpdateStatus(p) ==
  /\ req[p].step = "update"
  /\ orders' = [orders EXCEPT ![req[p].order].status = Target(req[p].op)]
  /\ req' = [req EXCEPT ![p].step = "history"]
  /\ UNCHANGED <<inventory, job>>

\* Mutant: the two statuses are swapped.
RecordSwapped(p) ==
  /\ req[p].step = "history"
  /\ orders' = [orders EXCEPT ![req[p].order].history =
                  <<Target(req[p].op), req[p].seen>>]
  /\ Finish(p)
  /\ UNCHANGED <<inventory, job>>

\* recordStatusChange: fromStatus is the status that was read.
RecordStatusChange(p) ==
  /\ req[p].step = "history"
  /\ orders' = [orders EXCEPT ![req[p].order].history =
                  <<req[p].seen, Target(req[p].op)>>]
  /\ Finish(p)
  /\ UNCHANGED <<inventory, job>>

-------------------------------------------------------------------------------
(* rejectOrder, cancelOrder, customerCancelOrder, completeOrder *)

\* customerCancelOrder: its own read, its own checks, then cancelOrder.
CustomerCancelOrder(p, o) ==
  /\ "customerCancel" \in Ops
  /\ MayStart(p, o)
  /\ orders[o].channel = "APP"
  /\ orders[o].status \in {"PLACED", "ACCEPTED"}
  /\ orders[o].age = InCancelWindow
  /\ req' = [req EXCEPT ![p] = [op |-> "cancel", step |-> "read", order |-> o,
                                seen |-> orders[o].status]]
  /\ UNCHANGED <<orders, inventory, job>>

\* The unlocked read at the start of the transaction.
ReadForTx(p, o, op) ==
  /\ orders[o].status \in AllowedFrom(op)
  /\ req' = [req EXCEPT ![p] = [op |-> op, step |-> "tx", order |-> o,
                                seen |-> orders[o].status]]
  /\ UNCHANGED <<orders, inventory, job>>

RejectOrder(p, o)   == "reject" \in Ops /\ MayStart(p, o) /\ ReadForTx(p, o, "reject")
CompleteOrder(p, o) == "complete" \in Ops /\ MayStart(p, o) /\ ReadForTx(p, o, "complete")
CancelOrder(p, o)   ==
  /\ \/ "cancel" \in Ops /\ MayStart(p, o)
     \/ req[p].step = "read" /\ req[p].order = o
  /\ ReadForTx(p, o, "cancel")

\* A refund row is written for an online payment that was collected.
RefundDue(row) == row.payment = "SUCCESS" /\ Gateway(row.method) \in {"UPI", "CARD"}

\* The rows rejectOrder and cancelOrder write about the order.
Ended(row, seen, target) ==
  [row EXCEPT !.status  = target,
              !.history = <<seen, target>>,
              !.refunds = IF RefundDue(row) THEN @ + 1 ELSE @]

\* From the lock to the commit of rejectOrder: every item is released.
RejectTx(p) ==
  LET o == req[p].order IN
  /\ req[p].step = "tx" /\ req[p].op = "reject"
  /\ inventory' = ForItems(orders[o].items, ReleaseReservedStock)
  /\ orders' = [orders EXCEPT ![o] = Ended(@, req[p].seen, "REJECTED")]
  /\ Finish(p)
  /\ UNCHANGED job

\* The same of cancelOrder: only APP orders hold a reservation.
CancelTx(p) ==
  LET o == req[p].order IN
  /\ req[p].step = "tx" /\ req[p].op = "cancel"
  /\ inventory' = IF orders[o].channel = "APP"
                    THEN ForItems(orders[o].items, ReleaseReservedStock)
                    ELSE inventory
  /\ orders' = [orders EXCEPT ![o] = Ended(@, req[p].seen, "CANCELLED")]
  /\ Finish(p)
  /\ UNCHANGED job

\* Mutant: the invoice is forgotten.
CompletedUninvoiced(row, seen) ==
  [row EXCEPT !.status = "COMPLETED", !.payment = "SUCCESS",
              !.history = <<seen, "COMPLETED">>, !.sales = @ + 1]

\* The rows completeOrder writes about the order: the SALE adjustments of an APP
\* order, a cash payment collected, the invoice unless the order has one.
Completed(row, seen) ==
  [row EXCEPT !.status   = "COMPLETED",
              !.history  = <<seen, "COMPLETED">>,
              !.payment  = IF Gateway(row.method) = "COD" THEN "SUCCESS" ELSE @,
              !.sales    = IF row.channel = "APP" THEN @ + 1 ELSE @,
              !.invoiced = TRUE]

\* The same of completeOrder: the reserved stock of an APP order is committed.
CompleteTx(p) ==
  LET o == req[p].order IN
  /\ req[p].step = "tx" /\ req[p].op = "complete"
  /\ orders[o].sales < MaxSales
  /\ inventory' = IF orders[o].channel = "APP"
                    THEN ForItems(orders[o].items, CommitReservedStock)
                    ELSE inventory
  /\ orders' = [orders EXCEPT ![o] = Completed(@, req[p].seen)]
  /\ Finish(p)
  /\ UNCHANGED job

\* The request ends here: an error answer, a failed statement, a dead process.
\* An open transaction is rolled back; what was written before it stays.
Abort(p) ==
  /\ "abort" \in Ops
  /\ req[p].step # "idle"
  /\ Finish(p)
  /\ UNCHANGED <<orders, inventory, job>>

-------------------------------------------------------------------------------
(* OrderTimeoutJob.cancelStaleOrders *)

\* PLACED for over 15 minutes, or to be paid at a pickup nobody came for in 120.
IsStaleOrder(row) ==
  \/ row.status = "PLACED" /\ row.age >= IsStale
  \/ /\ row.status \in {"ACCEPTED", "READY_FOR_PICKUP"}
     /\ row.method = "PAY_AT_PICKUP" /\ row.payment = "INITIATED"
     /\ row.age >= IsNoShow

StaleOrders == {o \in Orders : IsStaleOrder(orders[o])}

\* The two findMany calls: the list, with the statuses of that moment.
JobScan ==
  /\ "timeoutJob" \in Ops
  /\ job = NoJob
  /\ Overlap = "jobAlone" => Quiet
  /\ \A o \in StaleOrders : MayTouch(o)
  /\ job' = [job EXCEPT !.todo = {<<o, orders[o].status>> : o \in StaleOrders}]
  /\ UNCHANGED <<orders, inventory, req>>

\* The transaction of the next listed order reads the stock rows without locks.
JobRead ==
  /\ job.order = NoOrder
  /\ \E t \in job.todo :
       job' = [todo |-> job.todo \ {t}, order |-> t[1], seen |-> t[2],
               reserved |-> [v \in Variants |-> inventory[v].reservedQuantity]]
  /\ UNCHANGED <<orders, inventory, req>>

\* Mutant: the stock is not released.
JobCommitKeepsStock ==
  /\ job.order # NoOrder
  /\ orders' = [orders EXCEPT ![job.order].status = "CANCELLED"]
  /\ job' = [NoJob EXCEPT !.todo = job.todo]
  /\ UNCHANGED <<inventory, req>>

\* It writes reserved - quantity as computed from that read, and CANCELLED
\* whatever the status is by now.
JobCommit ==
  LET o == job.order
      Release(v) == [inventory[v] EXCEPT !.reservedQuantity =
                       ClampAtZero(job.reserved[v] - orders[o].items[v])] IN
  /\ o # NoOrder
  /\ inventory' = [v \in Variants |-> IF orders[o].items[v] = 0 THEN inventory[v]
                                                              ELSE Release(v)]
  /\ orders' = [orders EXCEPT ![o].status  = "CANCELLED",
                              ![o].history = <<job.seen, "CANCELLED">>]
  /\ job' = [NoJob EXCEPT !.todo = job.todo]
  /\ UNCHANGED req

\* The transaction fails; the job logs it and goes on with the next order.
JobFail ==
  /\ "abort" \in Ops
  /\ job.order # NoOrder
  /\ job' = [NoJob EXCEPT !.todo = job.todo]
  /\ UNCHANGED <<orders, inventory, req>>

-------------------------------------------------------------------------------
\* Time passes for an order.
Tick(o) ==
  /\ orders[o].status \in OpenStatuses
  /\ orders[o].age < MaxAge
  /\ orders' = [orders EXCEPT ![o].age = @ + 1]
  /\ UNCHANGED <<inventory, req, job>>

Create ==
  \E o \in Orders, items \in Baskets, method \in Methods :
    Checkout(o, items, method) \/ CreatePosOrder(o, items, method)

Handle(p) ==
  \/ \E o \in Orders :
       \/ AcceptOrder(p, o)   \/ PrepareOrder(p, o) \/ MarkReady(p, o)
       \/ DispatchOrder(p, o) \/ RejectOrder(p, o)  \/ CompleteOrder(p, o)
       \/ CancelOrder(p, o)   \/ CustomerCancelOrder(p, o)
  \/ UpdateStatus(p) \/ RecordStatusChange(p)
  \/ RejectTx(p) \/ CancelTx(p) \/ CompleteTx(p)
  \/ Abort(p)

TimeoutJob == JobScan \/ JobRead \/ JobCommit \/ JobFail

Next ==
  \/ Create
  \/ \E v \in Variants, changeQty \in ChangeQtys : AdjustStockOf(v, changeQty)
  \/ \E v \in Variants, on \in BOOLEAN : SwitchVariant(v, on)
  \/ \E p \in Procs : Handle(p)
  \/ TimeoutJob
  \/ \E o \in Orders : Tick(o)

Spec == Init /\ [][Next]_vars

-------------------------------------------------------------------------------
(* Properties *)

\* Every table and every request in flight has its type.
TypeOK ==
  /\ orders \in [Orders -> OrderRow]
  /\ inventory \in [Variants -> InventoryRow]
  /\ req \in [Procs -> Request]
  /\ job \in JobRun

OpenOrders == {o \in Orders : orders[o].status \in OpenStatuses}

\* The units of v that open orders were promised, one pair for each unit.
UnitsPromised(v) ==
  UNION {{o} \X (1..orders[o].items[v]) : o \in OpenOrders}
Promised(v) == Cardinality(UnitsPromised(v))

\* releaseReservedStock, commitReservedStock and reserveStock together keep the
\* reservedQuantity column equal to what the open orders were promised.
ExactReservation ==
  \A v \in Variants : inventory[v].reservedQuantity = Promised(v)

\* No reservation outlives its order: however requests overlap, the column never
\* holds units no open order was promised (stock that nobody could buy again).
\* Nor does any column leave its type (negative stock) on the way.
NoLeakedReservation ==
  /\ TypeOK
  /\ \A v \in Variants : inventory[v].reservedQuantity <= Promised(v)

\* checkout never promises more than the shelf holds, and nothing that ends an
\* order takes the shelf below what is still reserved.
NoOverReservation ==
  \A v \in Variants : inventory[v].reservedQuantity <= inventory[v].quantity

\* Open orders can all be served from the shelf.
NoOversell == \A v \in Variants : Promised(v) <= inventory[v].quantity

\* The adjustment rows of a variant explain its quantity.
LedgerExact == \A v \in Variants : inventory[v].ledger = inventory[v].quantity

\* The switch of a variant follows the shelf of every row with autoDisableAtZero:
\* whichever of counter sale, correction and completion takes the last unit hides it,
\* and the first unit put back shows it, also when the owner had set the switch by
\* hand meanwhile.  Nothing else that is done to an order or to the stock touches the
\* switch; what the owner sets stands until then, for an empty shelf too.
SoldOutIsHidden ==
  [][\A v \in Variants :
       LET old == inventory[v]
           new == inventory'[v]
           ofItself == v \in AutoDisable
           crossed == (old.quantity > 0) # (new.quantity > 0)
           stockMoved == new # [old EXCEPT !.isActive = new.isActive]
       IN  /\ ofItself /\ crossed => (new.isActive <=> new.quantity > 0)
           /\ stockMoved /\ new.isActive # old.isActive
                => ofItself /\ (crossed \/ new.quantity = 0)]_vars

\* A COMPLETED order has its sales invoice and its cash has been collected; an
\* order that was never completed has neither.
CompletedIsSettled ==
  \A o \in Orders :
    /\ orders[o].status = "COMPLETED" =>
         /\ orders[o].invoiced
         /\ Gateway(orders[o].method) = "COD" => orders[o].payment = "SUCCESS"
    /\ orders[o].invoiced <=> orders[o].sales > 0

\* The goods of an order are taken off the shelf at most once, and only when it
\* is COMPLETED.
SoldOnce ==
  \A o \in Orders : orders[o].sales = IF orders[o].status = "COMPLETED" THEN 1 ELSE 0

\* Goods can be traced: by order and by ledger.
GoodsTraced == SoldOnce /\ LedgerExact

\* What has read o and will still write its status: handlers, and the timeout job.
LateHandlers(o) ==
  {p \in Procs : req[p].order = o /\ req[p].step \in {"update", "tx"}}
LateJob(o) == job.order = o \/ \E t \in job.todo : t[1] = o

\* COMPLETED, CANCELLED and REJECTED are terminal.  What read the order while it was
\* open may still write its own status over it, each handler and the job once; nothing
\* new starts on an ended order, so its status is final once they are done, and at
\* once where requests on one order do not overlap.
TerminalIsFinal ==
  [][\A o \in Orders : orders[o].status \in TerminalStatuses =>
       /\ LateHandlers(o)' \subseteq LateHandlers(o)
       /\ LateJob(o)' => LateJob(o)
       /\ orders'[o].status # orders[o].status =>
            /\ Overlap = "any"
            /\ <<LateHandlers(o), LateJob(o)>>' # <<LateHandlers(o), LateJob(o)>>]_vars

\* The history of an order is a chain that ends in its status: a new row starts from the
\* status the row before it led to, and says what the status is.
HistoryIsChain ==
  [][\A o \in Orders : orders'[o].history # orders[o].history
                         => /\ orders'[o].history[1] = orders[o].history[2]
                            /\ orders'[o].history[2] = orders'[o].status]_vars

\* Where requests on one order do not overlap, the store sells online only and the
\* owner only restocks, the database behaves like the order book: the reservation
\* counter is an exact index of the open orders, and nothing else changes the shelf.
Book == INSTANCE OrderBook WITH
  status <- [o \in Orders |-> orders[o].status],
  items  <- [o \in Orders |-> orders[o].items],
  onHand <- [v \in Variants |-> inventory[v].quantity]
ImplementsOrderBook == Book!Spec
===============================================================================
