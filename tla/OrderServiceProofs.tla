-------------------------- MODULE OrderServiceProofs --------------------------
(***************************************************************************)
(* What holds of OrderService for every number of orders, variants and     *)
(* concurrent requests, and every stock.                                   *)
(***************************************************************************)
EXTENDS OrderService, FiniteSetTheorems, TLAPS

-------------------------------------------------------------------------------
(* Rows of the inventory table *)

LEMMA RowTypes ==
  ASSUME NEW row \in InventoryRow, NEW n \in Nat
  PROVE  /\ ReserveStock(row, n) \in InventoryRow
         /\ ReleaseReservedStock(row, n) \in InventoryRow
         /\ CommitReservedStock(row, n) \in InventoryRow
  <1>1. ReserveStock(row, n) \in InventoryRow
    BY DEF InventoryRow, ReserveStock
  <1>2. ReleaseReservedStock(row, n) \in InventoryRow
    BY DEF InventoryRow, ReleaseReservedStock, ClampAtZero
  <1>3. CommitReservedStock(row, n) \in InventoryRow
    <2> DEFINE newQty == ClampAtZero(row.quantity - n)
               newReserved == ClampAtZero(row.reservedQuantity - n)
               active == row.isActive /\ ~(newQty = 0 /\ row.autoDisableAtZero)
    <2>1. newQty \in Nat /\ newReserved \in Nat /\ row.ledger - n \in Int
      BY DEF InventoryRow, ClampAtZero
    <2>2. active \in BOOLEAN
      OBVIOUS
    <2>3. CommitReservedStock(row, n) = [row EXCEPT !.quantity = newQty,
            !.reservedQuantity = newReserved, !.ledger = row.ledger - n, !.isActive = active]
      BY DEF CommitReservedStock
    <2> HIDE DEF newQty, newReserved, active
    <2> QED BY <2>1, <2>2, <2>3 DEF InventoryRow
  <1> QED BY <1>1, <1>2, <1>3

LEMMA AdjustType ==
  ASSUME NEW row \in InventoryRow, NEW n \in Int, CanAdjustStock(row, n)
  PROVE  AdjustStock(row, n) \in InventoryRow
  <1> DEFINE newQty == row.quantity + n
             active == ActiveAfterAdjustment(row, newQty)
  <1>1. newQty \in Nat /\ row.ledger + n \in Int
    BY DEF InventoryRow, CanAdjustStock
  <1>2. row.isActive \in BOOLEAN
    BY DEF InventoryRow
  <1>3. active \in BOOLEAN
    BY <1>2, Zenon DEF ActiveAfterAdjustment
  <1>4. AdjustStock(row, n) =
          [row EXCEPT !.quantity = newQty, !.ledger = row.ledger + n, !.isActive = active]
    BY DEF AdjustStock
  <1> HIDE DEF newQty, active
  <1> QED BY <1>1, <1>3, <1>4 DEF InventoryRow

\* Reserving what is available, releasing and committing any amount, clamped or
\* not, all keep reservedQuantity within quantity; so does restocking.
Covered(row) == row.reservedQuantity <= row.quantity

LEMMA RowsStayCovered ==
  ASSUME NEW row \in InventoryRow, NEW n \in Nat, Covered(row)
  PROVE  /\ CanReserveStock(row, n) => Covered(ReserveStock(row, n))
         /\ Covered(ReleaseReservedStock(row, n))
         /\ Covered(CommitReservedStock(row, n))
         /\ Covered(AdjustStock(row, n))
  BY DEF Covered, InventoryRow, CanReserveStock, Available, ReserveStock,
         ReleaseReservedStock, CommitReservedStock, ClampAtZero, AdjustStock

-------------------------------------------------------------------------------
(* Types *)

LEMMA BlankType == Blank \in OrderRow
  BY StockAssumption
  DEF Blank, OrderRow, NoItems, Quantities, Status, PaymentMethod, Age

LEMMA NewOrderType ==
  ASSUME NEW channel \in {"APP", "POS"}, NEW items \in Baskets, NEW method \in Methods,
         NEW status \in {"PLACED", "COMPLETED"}
  PROVE  NewOrder(channel, items, method, status) \in OrderRow
  BY BlankType, MethodsAssumption
  DEF NewOrder, OrderRow, Blank, Baskets, Status, OrderStatus

\* The handlers write only statuses of the enumeration.
LEMMA TargetType == \A op \in StepOps \cup TxOps : Target(op) \in OrderStatus
  BY DEF StepOps, TxOps, Target, OrderStatus

LEMMA ItemsType ==
  ASSUME TypeOK, NEW o \in Orders, NEW v \in Variants
  PROVE  orders[o].items[v] \in Nat
  BY StockAssumption DEF TypeOK, OrderRow, Quantities

\* The operations on the rows of a basket keep the type of the table.
LEMMA ForItemsTypes ==
  ASSUME TypeOK, NEW items \in [Variants -> Nat]
  PROVE  /\ ForItems(items, ReserveStock) \in [Variants -> InventoryRow]
         /\ ForItems(items, ReleaseReservedStock) \in [Variants -> InventoryRow]
         /\ ForItems(items, CommitReservedStock) \in [Variants -> InventoryRow]
         /\ EveryItem(items, CanDecrementDirectStock)
              => ForItems(items, DecrementDirectStock) \in [Variants -> InventoryRow]
  <1>1. \A v \in Variants : inventory[v] \in InventoryRow /\ items[v] \in Nat
    BY DEF TypeOK
  <1>2. ForItems(items, ReserveStock) \in [Variants -> InventoryRow]
    BY <1>1, RowTypes DEF ForItems
  <1>3. ForItems(items, ReleaseReservedStock) \in [Variants -> InventoryRow]
    BY <1>1, RowTypes DEF ForItems
  <1>4. ForItems(items, CommitReservedStock) \in [Variants -> InventoryRow]
    BY <1>1, RowTypes DEF ForItems
  <1>5. ASSUME EveryItem(items, CanDecrementDirectStock)
        PROVE  ForItems(items, DecrementDirectStock) \in [Variants -> InventoryRow]
    <2>1. ASSUME NEW v \in Variants, items[v] > 0
          PROVE  DecrementDirectStock(inventory[v], items[v]) \in InventoryRow
      <3>1. CanAdjustStock(inventory[v], -items[v])
        BY <1>5, <2>1 DEF EveryItem, CanDecrementDirectStock
      <3>2. -items[v] \in Int
        BY <1>1
      <3> QED BY <1>1, <3>1, <3>2, AdjustType DEF DecrementDirectStock
    <2> QED BY <1>1, <2>1 DEF ForItems
  <1> QED BY <1>2, <1>3, <1>4, <1>5

\* Init establishes the types and every step keeps them.
LEMMA TypeInit == Init => TypeOK
  <1> SUFFICES ASSUME Init PROVE TypeOK
    OBVIOUS
  <1>1. orders \in [Orders -> OrderRow]
    BY BlankType DEF Init
  <1>2. inventory \in [Variants -> InventoryRow]
    BY StockAssumption DEF Init, InitInventory, InventoryRow
  <1>3. req \in [Procs -> Request]
    BY DEF Init, Idle, Request, TxOps, Status
  <1>4. job \in JobRun
    BY DEF Init, NoJob, NoItems, JobRun, Status
  <1> QED BY <1>1, <1>2, <1>3, <1>4 DEF TypeOK

\* The rows that handlers write about an order keep its type.
LEMMA OrderRowTypes ==
  ASSUME NEW row \in OrderRow, NEW seen \in Status
  PROVE  /\ Ended(row, seen, "REJECTED") \in OrderRow
         /\ Ended(row, seen, "CANCELLED") \in OrderRow
         /\ Completed(row, seen) \in OrderRow
  <1>1. /\ "REJECTED" \in Status /\ "CANCELLED" \in Status /\ "COMPLETED" \in Status
        /\ row.refunds + 1 \in Nat /\ row.sales + 1 \in Nat
    BY DEF Status, OrderStatus, OrderRow
  <1>2. Completed(row, seen) \in OrderRow
    BY <1>1 DEF Completed, OrderRow
  <1>3. Ended(row, seen, "REJECTED") \in OrderRow /\ Ended(row, seen, "CANCELLED") \in OrderRow
    BY <1>1 DEF Ended, OrderRow
  <1> QED BY <1>2, <1>3

LEMMA FieldTypes ==
  ASSUME NEW row \in OrderRow
  PROVE  /\ \A s \in Status : [row EXCEPT !.status = s] \in OrderRow
         /\ \A h \in Status \X Status : [row EXCEPT !.history = h] \in OrderRow
         /\ \A s \in Status, h \in Status \X Status :
              [row EXCEPT !.status = s, !.history = h] \in OrderRow
         /\ \A a \in Age : [row EXCEPT !.age = a] \in OrderRow
  <1>1. \A s \in Status : [row EXCEPT !.status = s] \in OrderRow
    BY DEF OrderRow
  <1>2. \A h \in Status \X Status : [row EXCEPT !.history = h] \in OrderRow
    BY DEF OrderRow
  <1>3. \A s \in Status, h \in Status \X Status :
          [row EXCEPT !.status = s, !.history = h] \in OrderRow
    BY DEF OrderRow
  <1>4. \A a \in Age : [row EXCEPT !.age = a] \in OrderRow
    BY DEF OrderRow
  <1> QED BY <1>1, <1>2, <1>3, <1>4

\* The owner's switch changes the switch.
LEMMA SwitchFields ==
  ASSUME TypeOK, NEW w \in Variants, NEW on \in BOOLEAN, SwitchVariant(w, on), NEW v \in Variants
  PROVE  /\ \E b \in BOOLEAN : inventory'[v] = [inventory[v] EXCEPT !.isActive = b]
         /\ inventory'[v].quantity = inventory[v].quantity
         /\ inventory'[v].reservedQuantity = inventory[v].reservedQuantity
         /\ inventory'[v].ledger = inventory[v].ledger
         /\ UNCHANGED <<orders, req, job>>
  <1>1. inventory[v] \in InventoryRow
    BY DEF TypeOK
  <1>2. inventory'[v] = IF v = w THEN [inventory[v] EXCEPT !.isActive = on] ELSE inventory[v]
    BY DEF SwitchVariant, TypeOK
  <1>3. inventory[v] = [inventory[v] EXCEPT !.isActive = inventory[v].isActive] /\ inventory[v].isActive \in BOOLEAN
    BY <1>1 DEF InventoryRow
  <1>4. \E b \in BOOLEAN : inventory'[v] = [inventory[v] EXCEPT !.isActive = b]
    BY <1>2, <1>3, Zenon
  <1> QED BY <1>1, <1>4 DEF SwitchVariant, InventoryRow

LEMMA TypeStep == TypeOK /\ [Next]_vars => TypeOK'
  <1> SUFFICES ASSUME TypeOK, [Next]_vars PROVE TypeOK'
    OBVIOUS
  <1> USE DEF TypeOK
  <1>1. ASSUME NEW o \in Orders, NEW items \in Baskets, NEW method \in Methods,
               Checkout(o, items, method)
        PROVE  TypeOK'
    <2>1. items \in [Variants -> Nat]
      BY StockAssumption DEF Baskets, Quantities
    <2>2. NewOrder("APP", items, method, "PLACED") \in OrderRow
      BY NewOrderType
    <2> QED BY <1>1, <2>1, <2>2, ForItemsTypes DEF Checkout
  <1>2. ASSUME NEW o \in Orders, NEW items \in Baskets, NEW method \in Methods,
               CreatePosOrder(o, items, method)
        PROVE  TypeOK'
    <2>1. items \in [Variants -> Nat]
      BY StockAssumption DEF Baskets, Quantities
    <2>2. NewOrder("POS", items, method, "COMPLETED") \in OrderRow
      BY NewOrderType
    <2>3. [NewOrder("POS", items, method, "COMPLETED")
             EXCEPT !.payment = "SUCCESS", !.invoiced = TRUE, !.sales = 1] \in OrderRow
      BY <2>2 DEF OrderRow
    <2> QED BY <1>2, <2>1, <2>3, ForItemsTypes DEF CreatePosOrder
  <1>3. ASSUME NEW v \in Variants, NEW changeQty \in ChangeQtys, AdjustStockOf(v, changeQty)
        PROVE  TypeOK'
    <2>1. AdjustStock(inventory[v], changeQty) \in InventoryRow
      BY <1>3, StockAssumption, AdjustType DEF AdjustStockOf
    <2> QED BY <1>3, <2>1 DEF AdjustStockOf
  <1>9. ASSUME NEW v \in Variants, NEW on \in BOOLEAN, SwitchVariant(v, on)
        PROVE  TypeOK'
    <2>1. [inventory[v] EXCEPT !.isActive = on] \in InventoryRow
      BY DEF InventoryRow
    <2> QED BY <1>9, <2>1 DEF SwitchVariant
  <1>4. ASSUME NEW p \in Procs, Handle(p)
        PROVE  TypeOK'
    <2>1. Idle \in Request
      BY DEF Request
    <2>2. ASSUME NEW o \in Orders, NEW op \in StepOps, ReadForStep(p, o, op)
          PROVE  TypeOK'
      <3>1. orders[o].status \in OrderStatus
        BY <2>2 DEF ReadForStep, AllowedFrom, StepOps, OrderStatus
      <3> QED BY <2>2, <3>1 DEF ReadForStep, Request
    <2>3. ASSUME NEW o \in Orders, NEW op \in TxOps, ReadForTx(p, o, op)
          PROVE  TypeOK'
      <3>1. orders[o].status \in OrderStatus
        BY <2>3 DEF ReadForTx, AllowedFrom, TxOps, OrderStatus, OpenStatuses
      <3> QED BY <2>3, <3>1 DEF ReadForTx, Request
    <2>4. ASSUME NEW o \in Orders, CustomerCancelOrder(p, o)
          PROVE  TypeOK'
      <3>1. orders[o].status \in OrderStatus
        BY <2>4 DEF CustomerCancelOrder, OrderStatus
      <3> QED BY <2>4, <3>1 DEF CustomerCancelOrder, Request, TxOps
    <2>5. CASE UpdateStatus(p)
      <3>1. req[p].step # "idle" /\ req[p].op \in StepOps /\ req[p].order \in Orders
        BY <2>5 DEF UpdateStatus, Request, Idle
      <3>2. Target(req[p].op) \in Status
        BY <3>1, TargetType DEF Status
      <3>3. [orders EXCEPT ![req[p].order].status = Target(req[p].op)] \in [Orders -> OrderRow]
        BY <3>1, <3>2, FieldTypes DEF Status
      <3>4. [req EXCEPT ![p].step = "history"] \in [Procs -> Request]
        BY <2>5 DEF UpdateStatus, Request, Idle
      <3> QED BY <2>5, <3>3, <3>4 DEF UpdateStatus
    <2>6. CASE RecordStatusChange(p)
      <3>1. req[p].op \in StepOps /\ req[p].seen \in OrderStatus
        BY <2>6 DEF RecordStatusChange, Request, Idle
      <3>2. <<req[p].seen, Target(req[p].op)>> \in Status \X Status
        BY <3>1, TargetType DEF Status
      <3>3. [orders EXCEPT ![req[p].order].history = <<req[p].seen, Target(req[p].op)>>]
              \in [Orders -> OrderRow]
        BY <3>2, FieldTypes
      <3> QED BY <2>1, <2>6, <3>3 DEF RecordStatusChange, Finish
    <2>7. CASE RejectTx(p) \/ CancelTx(p) \/ CompleteTx(p)
      <3> DEFINE o == req[p].order
      <3>1. o \in Orders /\ req[p].seen \in Status
        BY <2>7 DEF RejectTx, CancelTx, CompleteTx, Request, Idle, Status
      <3>2. orders[o].items \in [Variants -> Nat]
        BY <3>1, StockAssumption DEF OrderRow, Quantities
      <3>3. inventory' \in [Variants -> InventoryRow]
        BY <2>7, <3>2, ForItemsTypes DEF RejectTx, CancelTx, CompleteTx
      <3>4. /\ Ended(orders[o], req[p].seen, "REJECTED") \in OrderRow
            /\ Ended(orders[o], req[p].seen, "CANCELLED") \in OrderRow
            /\ Completed(orders[o], req[p].seen) \in OrderRow
        BY <3>1, OrderRowTypes
      <3>5. orders' \in [Orders -> OrderRow]
        BY <2>7, <3>4 DEF RejectTx, CancelTx, CompleteTx
      <3> QED BY <2>1, <2>7, <3>3, <3>5 DEF RejectTx, CancelTx, CompleteTx, Finish
    <2>8. CASE Abort(p)
      BY <2>1, <2>8 DEF Abort, Finish
    <2> QED BY <1>4, <2>2, <2>3, <2>4, <2>5, <2>6, <2>7, <2>8
      DEF Handle, AcceptOrder, PrepareOrder, MarkReady, DispatchOrder, RejectOrder,
          CompleteOrder, CancelOrder, StepOps, TxOps
  <1>5. ASSUME TimeoutJob
        PROVE  TypeOK'
    <2>1. CASE JobScan
      <3>1. \A o \in StaleOrders : o \in Orders /\ orders[o].status \in OrderStatus
        BY DEF StaleOrders, IsStaleOrder, OrderStatus
      <3>2. {<<o, orders[o].status>> : o \in StaleOrders} \in SUBSET (Orders \X OrderStatus)
        BY <3>1
      <3> QED BY <2>1, <3>2 DEF JobScan, JobRun
    <2>2. CASE JobRead
      <3>1. [v \in Variants |-> inventory[v].reservedQuantity] \in [Variants -> Nat]
        BY DEF InventoryRow
      <3>2. job' \in JobRun
        BY <2>2, <3>1 DEF JobRead, JobRun, Status
      <3> QED BY <2>2, <3>2 DEF JobRead
    <2>3. CASE JobCommit
      <3> DEFINE o == job.order
                 left(v) == ClampAtZero(job.reserved[v] - orders[o].items[v])
      <3>1. o \in Orders /\ job.seen \in Status
        BY <2>3 DEF JobCommit, JobRun
      <3>2. \A v \in Variants : left(v) \in Nat
        <4> SUFFICES ASSUME NEW v \in Variants PROVE left(v) \in Nat
          OBVIOUS
        <4>1. job.reserved[v] \in Nat /\ orders[o].items[v] \in Nat
          BY <3>1, ItemsType DEF JobRun
        <4> QED BY <4>1 DEF ClampAtZero
      <3>3. inventory' \in [Variants -> InventoryRow]
        <4> HIDE DEF left
        <4>1. \A v \in Variants : [inventory[v] EXCEPT !.reservedQuantity = left(v)] \in InventoryRow
          BY <3>2 DEF InventoryRow
        <4>2. inventory' = [v \in Variants |-> IF orders[o].items[v] = 0 THEN inventory[v]
                              ELSE [inventory[v] EXCEPT !.reservedQuantity = left(v)]]
          BY <2>3 DEF JobCommit, left
        <4> QED BY <4>1, <4>2
      <3>4. orders' \in [Orders -> OrderRow]
        <4>1. "CANCELLED" \in Status /\ <<job.seen, "CANCELLED">> \in Status \X Status
          BY <3>1 DEF Status, OrderStatus
        <4>2. [orders[o] EXCEPT !.status = "CANCELLED", !.history = <<job.seen, "CANCELLED">>]
                \in OrderRow
          BY <3>1, <4>1, FieldTypes
        <4>3. orders' = [orders EXCEPT ![o] =
                [orders[o] EXCEPT !.status = "CANCELLED", !.history = <<job.seen, "CANCELLED">>]]
          BY <2>3, <3>1 DEF JobCommit
        <4> QED BY <3>1, <4>2, <4>3
      <3>5. job' \in JobRun
        BY <2>3 DEF JobCommit, JobRun, NoJob, NoItems, Status
      <3> QED BY <2>3, <3>3, <3>4, <3>5 DEF JobCommit
    <2>4. CASE JobFail
      BY <2>4 DEF JobFail, JobRun, NoJob, NoItems, Status
    <2> QED BY <1>5, <2>1, <2>2, <2>3, <2>4 DEF TimeoutJob
  <1>6. ASSUME NEW o \in Orders, Tick(o)
        PROVE  TypeOK'
    <2>1. orders[o].age + 1 \in Age
      BY <1>6, StockAssumption DEF Tick, OrderRow, Age
    <2>2. [orders[o] EXCEPT !.age = orders[o].age + 1] \in OrderRow
      BY <2>1, FieldTypes, BlankType DEF Status
    <2> QED BY <1>6, <2>2 DEF Tick
  <1>7. CASE UNCHANGED vars
    BY <1>7 DEF vars
  <1> QED BY <1>1, <1>2, <1>3, <1>4, <1>5, <1>6, <1>7, <1>9 DEF Next, Create

\* The tables and the requests in flight keep their types: in particular no
\* interleaving drives reservedQuantity or quantity below zero.
THEOREM TypeCorrect == Spec => []TypeOK
  <1>1. Init => TypeOK
    BY TypeInit
  <1>2. TypeOK /\ [Next]_vars => TypeOK'
    BY TypeStep
  <1> QED BY <1>1, <1>2, PTL DEF Spec

-------------------------------------------------------------------------------
(* The online channel never promises more than the shelf holds *)

\* No counter sales, no timeout job, and the owner only adds stock.
OnlineOnly ==
  /\ "pos" \notin Ops /\ "timeoutJob" \notin Ops
  /\ ChangeQtys \subseteq Nat

CoveredInv ==
  /\ TypeOK
  /\ NoOverReservation
  /\ job = NoJob

LEMMA CoveredStep == OnlineOnly /\ CoveredInv /\ [Next]_vars => CoveredInv'
  <1> SUFFICES ASSUME OnlineOnly, CoveredInv, [Next]_vars PROVE CoveredInv'
    OBVIOUS
  <1>1. TypeOK'
    BY TypeStep DEF CoveredInv
  <1>2. \A v \in Variants : inventory[v] \in InventoryRow /\ Covered(inventory[v])
    BY DEF CoveredInv, TypeOK, NoOverReservation, Covered
  <1>3. job' = NoJob /\ ~JobCommit
    <2>1. job = NoJob /\ ~TimeoutJob
      BY DEF CoveredInv, OnlineOnly, TimeoutJob, JobScan, JobRead, JobCommit, JobFail, NoJob
    <2>2. ASSUME NEW p \in Procs, Handle(p) PROVE UNCHANGED job
      BY <2>2 DEF Handle, AcceptOrder, PrepareOrder, MarkReady, DispatchOrder, ReadForStep, RejectOrder,
                  CompleteOrder, CancelOrder, ReadForTx, CustomerCancelOrder, UpdateStatus,
                  RecordStatusChange, RejectTx, CancelTx, CompleteTx, Abort
    <2>3. UNCHANGED job
      BY <2>1, <2>2 DEF Next, vars, Create, Checkout, CreatePosOrder, AdjustStockOf, SwitchVariant, Tick
    <2> QED BY <2>1, <2>3 DEF TimeoutJob
  <1>4. ASSUME NEW items \in [Variants -> Nat], NEW v \in Variants,
               \/ inventory' = ForItems(items, ReserveStock) /\ EveryItem(items, CanReserveStock)
               \/ inventory' = ForItems(items, ReleaseReservedStock)
               \/ inventory' = ForItems(items, CommitReservedStock)
        PROVE  Covered(inventory'[v])
    <2>1. CASE items[v] = 0
      BY <1>2, <1>4, <2>1 DEF ForItems
    <2>2. CASE items[v] # 0
      <3>1. items[v] > 0
        BY <2>2
      <3> QED BY <1>2, <1>4, <2>2, <3>1, RowsStayCovered DEF ForItems, EveryItem
    <2> QED BY <2>1, <2>2
  <1>5. ASSUME NEW v \in Variants
        PROVE  Covered(inventory'[v])
    <2>1. CASE inventory' = inventory
      BY <1>2, <2>1
    <2>2. ASSUME NEW o \in Orders, NEW items \in Baskets, NEW method \in Methods,
                 Checkout(o, items, method)
          PROVE  Covered(inventory'[v])
      BY <1>4, <2>2, StockAssumption DEF Checkout, Baskets, Quantities
    <2>3. ASSUME NEW w \in Variants, NEW changeQty \in ChangeQtys, AdjustStockOf(w, changeQty)
          PROVE  Covered(inventory'[v])
      <3>1. changeQty \in Nat /\ inventory' = [inventory EXCEPT ![w] = AdjustStock(@, changeQty)]
        BY <2>3 DEF AdjustStockOf, OnlineOnly
      <3>2. inventory'[v] = IF v = w THEN AdjustStock(inventory[w], changeQty) ELSE inventory[v]
        BY <3>1 DEF CoveredInv, TypeOK
      <3> QED BY <1>2, <3>1, <3>2, RowsStayCovered
    <2>5. ASSUME NEW w \in Variants, NEW on \in BOOLEAN, SwitchVariant(w, on)
          PROVE  Covered(inventory'[v])
      BY <1>2, <2>5, SwitchFields DEF Covered, CoveredInv
    <2>4. ASSUME NEW p \in Procs, RejectTx(p) \/ CancelTx(p) \/ CompleteTx(p)
          PROVE  Covered(inventory'[v])
      <3>1. req[p].order \in Orders
        BY <2>4 DEF RejectTx, CancelTx, CompleteTx, CoveredInv, TypeOK, Request, Idle
      <3>2. orders[req[p].order].items \in [Variants -> Nat]
        BY <3>1, StockAssumption DEF CoveredInv, TypeOK, OrderRow, Quantities
      <3> QED BY <1>4, <2>1, <2>4, <3>2 DEF RejectTx, CancelTx, CompleteTx
    <2> QED BY <1>3, <2>1, <2>2, <2>3, <2>4, <2>5
      DEF OnlineOnly, Next, vars, Create, CreatePosOrder, Handle, AcceptOrder, PrepareOrder,
          MarkReady, DispatchOrder, ReadForStep, RejectOrder, CompleteOrder, CancelOrder,
          ReadForTx, CustomerCancelOrder, UpdateStatus, RecordStatusChange, Abort, TimeoutJob,
          JobScan, JobRead, JobFail, Tick
  <1> QED BY <1>1, <1>3, <1>5 DEF CoveredInv, NoOverReservation, Covered

\* However many requests overlap, on one order or on many, and wherever they die:
\* online selling never holds more reservations than there are units on the shelf.
\* The clamps matter: a doubled release or commit takes both counters down.
THEOREM NeverOverReserved == ASSUME OnlineOnly PROVE Spec => []NoOverReservation
  <1>1. Init => CoveredInv
    <2> SUFFICES ASSUME Init PROVE CoveredInv
      OBVIOUS
    <2>1. NoOverReservation
      BY StockAssumption DEF Init, NoOverReservation, InitInventory
    <2> QED BY <2>1, TypeInit DEF CoveredInv, Init
  <1>2. CoveredInv /\ [Next]_vars => CoveredInv'
    BY CoveredStep
  <1>3. CoveredInv => NoOverReservation
    BY DEF CoveredInv
  <1> QED BY <1>1, <1>2, <1>3, PTL DEF Spec

-------------------------------------------------------------------------------
(* Completed orders are settled *)

\* A counter order is created with the invoice that completeOrder gives the others.
SettledInv ==
  /\ TypeOK
  /\ CompletedIsSettled
  /\ \A o \in Orders : orders[o].channel = "POS" => orders[o].invoiced

Settled(row) ==
  /\ row.status = "COMPLETED" =>
       /\ row.invoiced
       /\ Gateway(row.method) = "COD" => row.payment = "SUCCESS"
  /\ row.invoiced <=> row.sales > 0
  /\ row.channel = "POS" => row.invoiced

\* A row that keeps its settlement and does not become COMPLETED stays settled.
LEMMA StaysSettled ==
  ASSUME NEW row, NEW new, Settled(row),
         new.status = "COMPLETED" => row.status = "COMPLETED",
         new.invoiced = row.invoiced, new.sales = row.sales, new.channel = row.channel,
         new.method = row.method, new.payment = row.payment
  PROVE  Settled(new)
  BY DEF Settled

LEMMA CompletedSettles ==
  ASSUME NEW row \in OrderRow, NEW seen, Settled(row)
  PROVE  Settled(Completed(row, seen))
  <1> DEFINE new == Completed(row, seen)
  <1>1. /\ new.status = "COMPLETED" /\ new.invoiced = TRUE
        /\ new.method = row.method /\ new.channel = row.channel
        /\ new.payment = IF Gateway(row.method) = "COD" THEN "SUCCESS" ELSE row.payment
        /\ new.sales = IF row.channel = "APP" THEN row.sales + 1 ELSE row.sales
    BY DEF Completed, OrderRow
  <1>2. new.sales > 0
    BY <1>1 DEF Settled, OrderRow
  <1>3. new.invoiced
    BY <1>1
  <1>4. Gateway(new.method) = "COD" => new.payment = "SUCCESS"
    BY <1>1
  <1> HIDE DEF new
  <1>5. Settled(new)
    BY <1>2, <1>3, <1>4, Zenon DEF Settled
  <1> QED BY <1>5 DEF new

LEMMA SettledStep == SettledInv /\ [Next]_vars => SettledInv'
  <1> SUFFICES ASSUME SettledInv, [Next]_vars PROVE SettledInv'
    OBVIOUS
  <1>1. TypeOK'
    BY TypeStep DEF SettledInv
  <1>2. \A o \in Orders : orders[o] \in OrderRow /\ Settled(orders[o])
    BY DEF SettledInv, TypeOK, CompletedIsSettled, Settled
  <1>3. ASSUME NEW o \in Orders, NEW items \in Baskets, NEW method \in Methods,
               Checkout(o, items, method) \/ CreatePosOrder(o, items, method)
        PROVE  \A x \in Orders : Settled(orders'[x])
    <2>1. Settled(NewOrder("APP", items, method, "PLACED"))
      BY DEF Settled, NewOrder, Blank
    <2>2. Settled([NewOrder("POS", items, method, "COMPLETED")
                     EXCEPT !.payment = "SUCCESS", !.invoiced = TRUE, !.sales = 1])
      BY DEF Settled, NewOrder, Blank
    <2> QED BY <1>2, <1>3, <2>1, <2>2 DEF Checkout, CreatePosOrder, SettledInv, TypeOK
  <1>4. ASSUME NEW p \in Procs, UpdateStatus(p) \/ RecordStatusChange(p)
        PROVE  \A x \in Orders : Settled(orders'[x])
    <2> DEFINE o == req[p].order
    <2>1. o \in Orders /\ req[p].op \in StepOps
      BY <1>4 DEF UpdateStatus, RecordStatusChange, SettledInv, TypeOK, Request, Idle
    <2>2. Target(req[p].op) # "COMPLETED"
      BY <2>1 DEF StepOps, Target
    <2>3. Settled([orders[o] EXCEPT !.status = Target(req[p].op)])
      BY <1>2, <2>1, <2>2, StaysSettled DEF OrderRow
    <2>4. Settled([orders[o] EXCEPT !.history = <<req[p].seen, Target(req[p].op)>>])
      BY <1>2, <2>1, StaysSettled DEF OrderRow
    <2> QED BY <1>2, <1>4, <2>1, <2>3, <2>4
      DEF UpdateStatus, RecordStatusChange, SettledInv, TypeOK
  <1>5. ASSUME NEW p \in Procs, RejectTx(p) \/ CancelTx(p) \/ CompleteTx(p)
        PROVE  \A x \in Orders : Settled(orders'[x])
    <2> DEFINE o == req[p].order
               seen == req[p].seen
    <2>1. o \in Orders
      BY <1>5 DEF RejectTx, CancelTx, CompleteTx, SettledInv, TypeOK, Request, Idle
    <2>2. ASSUME NEW target \in {"REJECTED", "CANCELLED"}
          PROVE  Settled(Ended(orders[o], seen, target))
      <3> DEFINE new == Ended(orders[o], seen, target)
      <3>1. /\ new.status # "COMPLETED" /\ new.invoiced = orders[o].invoiced
            /\ new.sales = orders[o].sales /\ new.channel = orders[o].channel
            /\ new.method = orders[o].method /\ new.payment = orders[o].payment
        BY <1>2, <2>1 DEF Ended, OrderRow
      <3> HIDE DEF new
      <3>2. Settled(new)
        BY <1>2, <2>1, <3>1, StaysSettled
      <3> QED BY <3>2 DEF new
    <2>3. Settled(Completed(orders[o], seen))
      BY <1>2, <2>1, CompletedSettles
    <2> QED BY <1>2, <1>5, <2>1, <2>2, <2>3
      DEF RejectTx, CancelTx, CompleteTx, SettledInv, TypeOK
  <1>6. ASSUME JobCommit
        PROVE  \A x \in Orders : Settled(orders'[x])
    <2> DEFINE o == job.order
               new == [orders[o] EXCEPT !.status = "CANCELLED", !.history = <<job.seen, "CANCELLED">>]
    <2>1. o \in Orders
      BY <1>6 DEF JobCommit, SettledInv, TypeOK, JobRun
    <2>2. /\ new.status # "COMPLETED" /\ new.invoiced = orders[o].invoiced
          /\ new.sales = orders[o].sales /\ new.channel = orders[o].channel
          /\ new.method = orders[o].method /\ new.payment = orders[o].payment
      BY <1>2, <2>1 DEF OrderRow
    <2>3. orders' = [orders EXCEPT ![o] = new]
      BY <1>6, <2>1 DEF JobCommit
    <2> HIDE DEF new
    <2>4. Settled(new)
      BY <1>2, <2>1, <2>2, StaysSettled
    <2> QED BY <1>2, <2>1, <2>3, <2>4 DEF SettledInv, TypeOK
  <1>7. ASSUME NEW o \in Orders, Tick(o)
        PROVE  \A x \in Orders : Settled(orders'[x])
    <2>1. Settled([orders[o] EXCEPT !.age = orders[o].age + 1])
      BY <1>2, StaysSettled DEF OrderRow
    <2> QED BY <1>2, <1>7, <2>1 DEF Tick, SettledInv, TypeOK
  <1>8. ASSUME UNCHANGED orders
        PROVE  \A x \in Orders : Settled(orders'[x])
    BY <1>2, <1>8
  <1>9. \A x \in Orders : Settled(orders'[x])
    BY <1>3, <1>4, <1>5, <1>6, <1>7, <1>8
    DEF Next, vars, Create, AdjustStockOf, SwitchVariant, Handle, AcceptOrder, PrepareOrder, MarkReady,
        DispatchOrder, ReadForStep, RejectOrder, CompleteOrder, CancelOrder, ReadForTx,
        CustomerCancelOrder, Abort, TimeoutJob, JobScan, JobRead, JobFail
  <1> QED BY <1>1, <1>9 DEF SettledInv, CompletedIsSettled, Settled

\* Whatever overlaps and whatever dies: a COMPLETED order has its invoice and its
\* cash, and nothing is invoiced whose goods never left the shelf.
THEOREM CompletedOrdersAreSettled == Spec => []CompletedIsSettled
  <1>1. Init => SettledInv
    <2> SUFFICES ASSUME Init PROVE SettledInv
      OBVIOUS
    <2>1. \A o \in Orders : orders[o] = Blank
      BY DEF Init
    <2>2. Settled(Blank) /\ Blank.channel = "APP"
      BY DEF Settled, Blank
    <2> QED BY <2>1, <2>2, TypeInit DEF SettledInv, CompletedIsSettled, Settled
  <1>2. SettledInv /\ [Next]_vars => SettledInv'
    BY SettledStep
  <1>3. SettledInv => CompletedIsSettled
    BY DEF SettledInv
  <1> QED BY <1>1, <1>2, <1>3, PTL DEF Spec

-------------------------------------------------------------------------------
(* Where requests on one order do not overlap *)

Working(p) == req[p].step # "idle"

\* What is at work on an order is alone with it.
Exclusive ==
  /\ \A p, q \in Procs : p # q /\ Working(p) /\ Working(q) => req[p].order # req[q].order
  /\ \A p \in Procs : Working(p) =>
       /\ job.order # req[p].order
       /\ \A t \in job.todo : t[1] # req[p].order
  /\ \A t \in job.todo :
       /\ t[1] # job.order
       /\ \A u \in job.todo : u[1] = t[1] => u = t

\* What was read is still so when it is acted on, and it was open.
Fresh ==
  /\ \A p \in Procs : req[p].step \in {"update", "tx"} =>
       orders[req[p].order].status \in OpenStatuses
  /\ \A t \in job.todo : orders[t[1]].status \in OpenStatuses
  /\ job.order # NoOrder => orders[job.order].status \in OpenStatuses

ExclusiveInv == TypeOK /\ Exclusive /\ Fresh

LEMMA AllowedFromIsOpen == \A op \in StepOps \cup TxOps : AllowedFrom(op) \subseteq OpenStatuses
  BY DEF StepOps, TxOps, AllowedFrom, OpenStatuses, OrderStatus, TerminalStatuses

LEMMA StaleIsOpen == \A o \in StaleOrders : o \in Orders /\ orders[o].status \in OpenStatuses
  BY DEF StaleOrders, IsStaleOrder, OpenStatuses, OrderStatus, TerminalStatuses

LEMMA TouchedAlone ==
  ASSUME Overlap # "any", NEW o \in Orders, MayTouch(o)
  PROVE  /\ \A q \in Procs : Working(q) => req[q].order # o
         /\ job.order # o
         /\ \A t \in job.todo : t[1] # o
  BY OpsAssumption, OrdersAssumption
  DEF MayTouch, Busy, Working, NoJob

\* Only the request or the job that is at work on an order writes its status; the
\* exception is the request that creates it.
StatusKept(o) == orders'[o].status = orders[o].status

\* A request starts on o, or goes on with it.
LEMMA StartKeepsExclusive ==
  ASSUME ExclusiveInv, NEW p \in Procs, NEW o \in Orders, NEW r \in Request,
         r.order = o, r.step # "idle", orders[o].status \in OpenStatuses,
         req' = [req EXCEPT ![p] = r], UNCHANGED <<orders, inventory, job>>,
         \/ /\ Working(p) /\ req[p].order = o
         \/ /\ \A q \in Procs : Working(q) => req[q].order # o
            /\ job.order # o
            /\ \A t \in job.todo : t[1] # o
  PROVE  Exclusive' /\ Fresh'
  <1>1. \A q \in Procs : req'[q] = IF q = p THEN r ELSE req[q]
    BY DEF ExclusiveInv, TypeOK
  <1>2. Exclusive'
    BY <1>1 DEF ExclusiveInv, Exclusive, Working
  <1>3. Fresh'
    BY <1>1 DEF ExclusiveInv, Fresh
  <1> QED BY <1>2, <1>3

\* A request ends, and has changed the status of its own order at most.
LEMMA FinishKeepsExclusive ==
  ASSUME ExclusiveInv, NEW p \in Procs, Working(p), Finish(p), UNCHANGED job,
         \A o \in Orders : o # req[p].order => StatusKept(o)
  PROVE  Exclusive' /\ Fresh'
  <1>1. \A q \in Procs : req'[q] = IF q = p THEN Idle ELSE req[q]
    BY DEF ExclusiveInv, TypeOK, Finish
  <1>2. Exclusive'
    BY <1>1 DEF ExclusiveInv, Exclusive, Working, Idle
  <1>3. \A q \in Procs : req[q].step \in {"update", "tx"} => Working(q) /\ req[q].order \in Orders
    BY DEF ExclusiveInv, TypeOK, Request, Idle, Working
  <1>4. job.order \in Orders \cup {NoOrder} /\ \A t \in job.todo : t[1] \in Orders
    BY DEF ExclusiveInv, TypeOK, JobRun
  <1>5. Fresh'
    <2>1. ASSUME NEW q \in Procs, req'[q].step \in {"update", "tx"}
          PROVE  orders'[req'[q].order].status \in OpenStatuses
      <3>1. q # p /\ req'[q] = req[q]
        BY <1>1, <2>1 DEF Idle
      <3>2. req[q].order # req[p].order /\ req[q].order \in Orders
        BY <1>3, <2>1, <3>1 DEF ExclusiveInv, Exclusive
      <3> QED BY <2>1, <3>1, <3>2 DEF ExclusiveInv, Fresh, StatusKept
    <2>2. ASSUME NEW t \in job.todo
          PROVE  orders'[t[1]].status \in OpenStatuses
      BY <1>4, <2>2 DEF ExclusiveInv, Exclusive, Fresh, StatusKept
    <2>3. ASSUME job.order # NoOrder
          PROVE  orders'[job.order].status \in OpenStatuses
      BY <1>4, <2>3 DEF ExclusiveInv, Exclusive, Fresh, StatusKept
    <2> QED BY <2>1, <2>2, <2>3 DEF Fresh
  <1> QED BY <1>2, <1>5

LEMMA UpdateKeepsExclusive ==
  ASSUME ExclusiveInv, NEW p \in Procs, UpdateStatus(p)
  PROVE  Exclusive' /\ Fresh' /\ \A o \in Orders : o # req[p].order => StatusKept(o)
  <1>1. \A q \in Procs : req'[q] = IF q = p THEN [req[p] EXCEPT !.step = "history"] ELSE req[q]
    BY DEF ExclusiveInv, TypeOK, UpdateStatus
  <1>2. /\ req'[p].step = "history" /\ req'[p].order = req[p].order /\ Working(p)
        /\ req[p].order \in Orders
    BY <1>1 DEF ExclusiveInv, TypeOK, Request, Idle, UpdateStatus, Working
  <1>3. Exclusive'
    BY <1>1, <1>2 DEF ExclusiveInv, Exclusive, Working, UpdateStatus
  <1>4. \A o \in Orders : o # req[p].order => StatusKept(o)
    BY DEF UpdateStatus, StatusKept, ExclusiveInv, TypeOK
  <1>5. /\ \A q \in Procs : req[q].step \in {"update", "tx"} => Working(q) /\ req[q].order \in Orders
        /\ job.order \in Orders \cup {NoOrder} /\ \A t \in job.todo : t[1] \in Orders
    BY DEF ExclusiveInv, TypeOK, JobRun, Request, Idle, Working
  <1>6. Fresh'
    <2>1. ASSUME NEW q \in Procs, req'[q].step \in {"update", "tx"}
          PROVE  orders'[req'[q].order].status \in OpenStatuses
      <3>1. q # p /\ req'[q] = req[q]
        BY <1>1, <1>2, <2>1
      <3>2. req[q].order # req[p].order /\ req[q].order \in Orders
        BY <1>2, <1>5, <2>1, <3>1 DEF ExclusiveInv, Exclusive
      <3> QED BY <1>4, <2>1, <3>1, <3>2 DEF ExclusiveInv, Fresh, StatusKept
    <2>2. /\ \A t \in job.todo : orders'[t[1]].status \in OpenStatuses
          /\ job.order # NoOrder => orders'[job.order].status \in OpenStatuses
      BY <1>2, <1>4, <1>5 DEF ExclusiveInv, Exclusive, Fresh, StatusKept
    <2>3. UNCHANGED job
      BY DEF UpdateStatus
    <2> QED BY <2>1, <2>2, <2>3 DEF Fresh
  <1> QED BY <1>3, <1>4, <1>6

Final(o) == orders[o].status \in TerminalStatuses => StatusKept(o)

LEMMA ExclusiveStep ==
  ASSUME Overlap # "any", ExclusiveInv, [Next]_vars
  PROVE  Exclusive' /\ Fresh' /\ \A x \in Orders : Final(x)
  <1> DEFINE Goal == Exclusive' /\ Fresh' /\ \A x \in Orders : Final(x)
  <1>1. ASSUME \A o \in Orders : StatusKept(o), UNCHANGED <<req, job>>
        PROVE  Goal
    <2>1. /\ \A q \in Procs : req[q].step \in {"update", "tx"} => req[q].order \in Orders
          /\ job.order \in Orders \cup {NoOrder} /\ \A t \in job.todo : t[1] \in Orders
      BY DEF ExclusiveInv, TypeOK, JobRun, Request, Idle
    <2>2. Exclusive'
      BY <1>1 DEF ExclusiveInv, Exclusive, Working
    <2>3. Fresh'
      BY <1>1, <2>1 DEF ExclusiveInv, Fresh, StatusKept
    <2> QED BY <1>1, <2>2, <2>3 DEF Final
  <1>2. ASSUME NEW o \in Orders, NEW items \in Baskets, NEW method \in Methods,
               Checkout(o, items, method) \/ CreatePosOrder(o, items, method)
        PROVE  Goal
    <2>1. /\ MayTouch(o) /\ orders[o].status = "NONE" /\ UNCHANGED <<req, job>>
          /\ \A x \in Orders : x # o => StatusKept(x)
      BY <1>2 DEF Checkout, CreatePosOrder, StatusKept, ExclusiveInv, TypeOK
    <2>2. /\ \A q \in Procs : Working(q) => req[q].order # o
          /\ job.order # o
          /\ \A t \in job.todo : t[1] # o
      BY <2>1, TouchedAlone
    <2>3. /\ \A q \in Procs : req[q].step \in {"update", "tx"} => Working(q) /\ req[q].order \in Orders
          /\ job.order \in Orders \cup {NoOrder} /\ \A t \in job.todo : t[1] \in Orders
      BY DEF ExclusiveInv, TypeOK, JobRun, Request, Idle, Working
    <2>4. Exclusive'
      BY <2>1 DEF ExclusiveInv, Exclusive, Working
    <2>5. Fresh'
      BY <2>1, <2>2, <2>3 DEF ExclusiveInv, Fresh, StatusKept
    <2>6. "NONE" \notin TerminalStatuses
      BY DEF TerminalStatuses
    <2> QED BY <2>1, <2>4, <2>5, <2>6 DEF Final
  <1>3. ASSUME NEW v \in Variants,
               \/ \E changeQty \in ChangeQtys : AdjustStockOf(v, changeQty)
               \/ \E on \in BOOLEAN : SwitchVariant(v, on)
        PROVE  Goal
    BY <1>1, <1>3 DEF AdjustStockOf, SwitchVariant, StatusKept
  <1>4. ASSUME NEW p \in Procs, NEW o \in Orders, NEW op \in StepOps, ReadForStep(p, o, op)
        PROVE  Goal
    <2> DEFINE r == [op |-> op, step |-> "update", order |-> o, seen |-> orders[o].status]
    <2>1. orders[o].status \in OpenStatuses /\ OpenStatuses \subseteq OrderStatus
      BY <1>4, AllowedFromIsOpen DEF ReadForStep, OpenStatuses
    <2>2. r \in Request
      BY <2>1 DEF Request
    <2>3. /\ r.order = o /\ r.step # "idle" /\ req' = [req EXCEPT ![p] = r]
          /\ UNCHANGED <<orders, inventory, job>> /\ MayTouch(o)
      BY <1>4 DEF ReadForStep, MayStart
    <2>4. Exclusive' /\ Fresh'
      <3> HIDE DEF r
      <3> QED BY <2>1, <2>2, <2>3, TouchedAlone, StartKeepsExclusive
    <2> QED BY <2>3, <2>4 DEF Final, StatusKept
  <1>5. ASSUME NEW p \in Procs, NEW o \in Orders, NEW op \in TxOps, ReadForTx(p, o, op),
               MayStart(p, o) \/ (req[p].step = "read" /\ req[p].order = o)
        PROVE  Goal
    <2> DEFINE r == [op |-> op, step |-> "tx", order |-> o, seen |-> orders[o].status]
    <2>1. orders[o].status \in OpenStatuses /\ OpenStatuses \subseteq OrderStatus
      BY <1>5, AllowedFromIsOpen DEF ReadForTx, OpenStatuses
    <2>2. r \in Request
      BY <2>1 DEF Request
    <2>3. /\ r.order = o /\ r.step # "idle" /\ req' = [req EXCEPT ![p] = r]
          /\ UNCHANGED <<orders, inventory, job>>
      BY <1>5 DEF ReadForTx
    <2>4. MayTouch(o) \/ (Working(p) /\ req[p].order = o)
      BY <1>5 DEF MayStart, Working
    <2>5. Exclusive' /\ Fresh'
      <3> HIDE DEF r
      <3> QED BY <2>1, <2>2, <2>3, <2>4, TouchedAlone, StartKeepsExclusive
    <2> QED BY <2>3, <2>5 DEF Final, StatusKept
  <1>6. ASSUME NEW p \in Procs, NEW o \in Orders, CustomerCancelOrder(p, o)
        PROVE  Goal
    <2> DEFINE r == [op |-> "cancel", step |-> "read", order |-> o, seen |-> orders[o].status]
    <2>1. orders[o].status \in OpenStatuses /\ OpenStatuses \subseteq OrderStatus
      BY <1>6 DEF CustomerCancelOrder, OpenStatuses, OrderStatus, TerminalStatuses
    <2>2. r \in Request
      BY <2>1 DEF Request, TxOps
    <2>3. /\ r.order = o /\ r.step # "idle" /\ req' = [req EXCEPT ![p] = r]
          /\ UNCHANGED <<orders, inventory, job>> /\ MayTouch(o)
      BY <1>6 DEF CustomerCancelOrder, MayStart
    <2>4. Exclusive' /\ Fresh'
      <3> HIDE DEF r
      <3> QED BY <2>1, <2>2, <2>3, TouchedAlone, StartKeepsExclusive
    <2> QED BY <2>3, <2>4 DEF Final, StatusKept
  <1>7. ASSUME NEW p \in Procs, UpdateStatus(p)
        PROVE  Goal
    <2>1. orders[req[p].order].status \notin TerminalStatuses
      BY <1>7 DEF UpdateStatus, ExclusiveInv, Fresh, OpenStatuses
    <2> QED BY <1>7, <2>1, UpdateKeepsExclusive DEF Final
  <1>8. ASSUME NEW p \in Procs,
               RecordStatusChange(p) \/ RejectTx(p) \/ CancelTx(p) \/ CompleteTx(p) \/ Abort(p)
        PROVE  Goal
    <2> DEFINE o == req[p].order
    <2>1. Working(p) /\ Finish(p) /\ UNCHANGED job
      BY <1>8 DEF RecordStatusChange, RejectTx, CancelTx, CompleteTx, Abort, Working
    <2>2. \A x \in Orders : x # o => StatusKept(x)
      BY <1>8 DEF RecordStatusChange, RejectTx, CancelTx, CompleteTx, Abort, StatusKept,
                  ExclusiveInv, TypeOK
    <2>3. CASE RecordStatusChange(p) \/ Abort(p)
      <3>1. \A x \in Orders : StatusKept(x)
        BY <2>3 DEF RecordStatusChange, Abort, StatusKept, ExclusiveInv, TypeOK, OrderRow
      <3> QED BY <2>1, <2>2, <3>1, FinishKeepsExclusive DEF Final
    <2>4. CASE RejectTx(p) \/ CancelTx(p) \/ CompleteTx(p)
      <3>1. orders[o].status \notin TerminalStatuses
        BY <2>4 DEF RejectTx, CancelTx, CompleteTx, ExclusiveInv, Fresh, OpenStatuses
      <3> QED BY <2>1, <2>2, <3>1, FinishKeepsExclusive DEF Final
    <2> QED BY <1>8, <2>3, <2>4
  <1>9. ASSUME TimeoutJob
        PROVE  Goal
    <2>1. CASE JobScan
      <3>1. /\ \A t \in job'.todo : t[1] \in StaleOrders /\ t[2] = orders[t[1]].status
            /\ job'.order = NoOrder /\ UNCHANGED <<orders, req>>
        BY <2>1 DEF JobScan, NoJob
      <3>2. \A t \in job'.todo : \E o \in StaleOrders : t = <<o, orders[o].status>>
        BY <2>1 DEF JobScan, NoJob
      <3>3. \A o \in StaleOrders : \A q \in Procs : Working(q) => req[q].order # o
        BY <2>1, StaleIsOpen, TouchedAlone DEF JobScan
      <3>4. \A q \in Procs : Working(q) => req[q].order \in Orders
        BY DEF ExclusiveInv, TypeOK, Request, Idle, Working
      <3>5. Exclusive'
        BY <3>1, <3>2, <3>3, <3>4, StaleIsOpen, OrdersAssumption DEF ExclusiveInv, Exclusive, Working
      <3>6. Fresh'
        BY <3>1, StaleIsOpen DEF ExclusiveInv, Fresh
      <3> QED BY <3>1, <3>5, <3>6 DEF Final, StatusKept
    <2>2. CASE JobRead
      <3>1. PICK t \in job.todo :
              job' = [todo |-> job.todo \ {t}, order |-> t[1], seen |-> t[2],
                      reserved |-> [v \in Variants |-> inventory[v].reservedQuantity]]
        BY <2>2 DEF JobRead
      <3>2. job'.todo = job.todo \ {t} /\ job'.order = t[1] /\ UNCHANGED <<orders, req>>
        BY <2>2, <3>1 DEF JobRead
      <3>3. Exclusive' /\ Fresh'
        BY <3>2 DEF ExclusiveInv, Exclusive, Fresh, Working
      <3> QED BY <3>2, <3>3 DEF Final, StatusKept
    <2>3. CASE JobCommit
      <3> DEFINE o == job.order
      <3>1. /\ o \in Orders /\ orders[o].status \notin TerminalStatuses
            /\ job'.todo = job.todo /\ job'.order = NoOrder /\ UNCHANGED req
        BY <2>3 DEF JobCommit, ExclusiveInv, TypeOK, JobRun, Fresh, OpenStatuses, NoJob
      <3>2. \A x \in Orders : x # o => StatusKept(x)
        BY <2>3 DEF JobCommit, StatusKept, ExclusiveInv, TypeOK
      <3>3. /\ \A q \in Procs : Working(q) => req[q].order \in Orders
            /\ \A q \in Procs : req[q].step \in {"update", "tx"} => Working(q)
            /\ \A t \in job.todo : t[1] \in Orders
        BY DEF ExclusiveInv, TypeOK, JobRun, Request, Idle, Working
      <3>4. Exclusive'
        BY <3>1, <3>3, OrdersAssumption DEF ExclusiveInv, Exclusive, Working
      <3>5. Fresh'
        BY <3>1, <3>2, <3>3 DEF ExclusiveInv, Exclusive, Fresh, StatusKept
      <3> QED BY <3>1, <3>2, <3>4, <3>5 DEF Final
    <2>4. CASE JobFail
      <3>1. job'.todo = job.todo /\ job'.order = NoOrder /\ UNCHANGED <<orders, req>>
        BY <2>4 DEF JobFail, NoJob
      <3>2. /\ \A q \in Procs : Working(q) => req[q].order \in Orders
            /\ \A t \in job.todo : t[1] \in Orders
        BY DEF ExclusiveInv, TypeOK, JobRun, Request, Idle, Working
      <3>3. Exclusive' /\ Fresh'
        BY <3>1, <3>2, OrdersAssumption DEF ExclusiveInv, Exclusive, Fresh, Working
      <3> QED BY <3>1, <3>3 DEF Final, StatusKept
    <2> QED BY <1>9, <2>1, <2>2, <2>3, <2>4 DEF TimeoutJob
  <1>10. ASSUME NEW o \in Orders, Tick(o)
         PROVE  Goal
    <2>1. \A x \in Orders : StatusKept(x)
      BY <1>10 DEF Tick, StatusKept, ExclusiveInv, TypeOK, OrderRow
    <2> QED BY <1>1, <1>10, <2>1 DEF Tick
  <1>11. ASSUME UNCHANGED vars
         PROVE  Goal
    BY <1>1, <1>11 DEF vars, StatusKept
  <1> HIDE DEF Goal
  <1>12. Goal
    BY <1>2, <1>3, <1>4, <1>5, <1>6, <1>7, <1>8, <1>9, <1>10, <1>11
    DEF Next, Create, Handle, AcceptOrder, PrepareOrder, MarkReady, DispatchOrder, RejectOrder,
        CompleteOrder, CancelOrder, StepOps, TxOps
  <1> QED BY <1>12 DEF Goal

-------------------------------------------------------------------------------
(* How many units the open orders were promised *)

\* What order o holds of variant v, in a table of orders.
Holds(rows, o, v) == IF rows[o].status \in OpenStatuses THEN rows[o].items[v] ELSE 0

\* The units of some orders, one pair for each unit.
UnitsOf(rows, S, v) == UNION {{x} \X (1..rows[x].items[v]) : x \in S}
OpenIn(rows)        == {x \in Orders : rows[x].status \in OpenStatuses}

Share(o, v) == Holds(orders, o, v)

LEMMA HoldsType ==
  ASSUME NEW rows \in [Orders -> OrderRow], NEW o \in Orders, NEW v \in Variants
  PROVE  Holds(rows, o, v) \in Nat
  BY StockAssumption DEF Holds, OrderRow, Quantities

\* Finitely many orders of finitely many units each.
LEMMA UnitsAreFinite ==
  ASSUME NEW rows \in [Orders -> OrderRow], NEW v \in Variants, NEW S \in SUBSET Orders
  PROVE  IsFiniteSet(UnitsOf(rows, S, v)) /\ Cardinality(UnitsOf(rows, S, v)) \in Nat
  <1>1. IsFiniteSet(Orders \X (1..MaxQty))
    <2>1. IsFiniteSet(1..MaxQty)
      BY StockAssumption, FS_Interval
    <2> QED BY <2>1, OrdersAssumption, FS_Product
  <1>2. \A x \in S : rows[x].items[v] \in 0..MaxQty
    BY DEF OrderRow, Quantities
  <1>3. UnitsOf(rows, S, v) \subseteq Orders \X (1..MaxQty)
    BY <1>2, StockAssumption DEF UnitsOf
  <1> QED BY <1>1, <1>3, FS_Subset, FS_CardinalityType, Zenon

\* What is promised is what one order holds and what the others hold.
LEMMA PromisedOfOne ==
  ASSUME NEW rows \in [Orders -> OrderRow], NEW o \in Orders, NEW v \in Variants
  PROVE  Cardinality(UnitsOf(rows, OpenIn(rows), v))
           = Cardinality(UnitsOf(rows, OpenIn(rows) \ {o}, v)) + Holds(rows, o, v)
  <1> DEFINE own  == {o} \X (1..Holds(rows, o, v))
             rest == UnitsOf(rows, OpenIn(rows) \ {o}, v)
  <1>1. IsFiniteSet(rest) /\ Cardinality(rest) \in Nat
    BY UnitsAreFinite DEF OpenIn
  <1>2. Holds(rows, o, v) \in Nat
    BY HoldsType
  <1>3. IsFiniteSet(own) /\ Cardinality(own) = Holds(rows, o, v)
    <2> DEFINE units == 1..Holds(rows, o, v)
    <2>1. IsFiniteSet({o}) /\ Cardinality({o}) = 1
      BY FS_Singleton
    <2>2. IsFiniteSet(units) /\ Cardinality(units) = Holds(rows, o, v)
      BY <1>2, FS_Interval
    <2>3. IsFiniteSet({o} \X units) /\ Cardinality({o} \X units) = Cardinality({o}) * Cardinality(units)
      <3> HIDE DEF units
      <3> QED BY <2>1, <2>2, FS_Product, Zenon
    <2>4. Cardinality({o} \X units) = Holds(rows, o, v)
      BY <1>2, <2>1, <2>2, <2>3
    <2> QED BY <2>3, <2>4
  <1>4. UnitsOf(rows, OpenIn(rows), v) = rest \cup own
    BY DEF UnitsOf, OpenIn, Holds
  <1>5. rest \cap own = {}
    BY DEF UnitsOf
  <1>6. Cardinality(rest \cup own) = Cardinality(rest) + Cardinality(own) - Cardinality({})
    <2> HIDE DEF own, rest
    <2> QED BY <1>1, <1>3, <1>5, FS_Union
  <1> HIDE DEF own, rest
  <1>7. Cardinality(UnitsOf(rows, OpenIn(rows), v)) = Cardinality(rest) + Holds(rows, o, v)
    BY <1>1, <1>2, <1>3, <1>4, <1>6, FS_EmptySet
  <1> QED BY <1>7 DEF rest

LEMMA PromisedIs ==
  \A v \in Variants : /\ Promised(v) = Cardinality(UnitsOf(orders, OpenIn(orders), v))
                      /\ Promised(v)' = Cardinality(UnitsOf(orders', OpenIn(orders'), v))
  BY DEF Promised, UnitsPromised, OpenOrders, UnitsOf, OpenIn

\* When one order changes, what is promised changes by what that order holds.
LEMMA PromisedChanges ==
  ASSUME TypeOK, TypeOK', NEW o \in Orders, NEW v \in Variants,
         \A x \in Orders \ {o} : /\ orders'[x].status = orders[x].status
                                 /\ orders'[x].items = orders[x].items
  PROVE  /\ Promised(v) \in Nat /\ Promised(v)' \in Nat
         /\ Promised(v)' - Share(o, v)' = Promised(v) - Share(o, v)
         /\ Share(o, v) \in Nat /\ Share(o, v)' \in Nat /\ Share(o, v) <= Promised(v)
  <1> DEFINE rest == Cardinality(UnitsOf(orders, OpenIn(orders) \ {o}, v))
  <1>1. orders \in [Orders -> OrderRow] /\ orders' \in [Orders -> OrderRow]
    BY DEF TypeOK
  <1>2. UnitsOf(orders', OpenIn(orders') \ {o}, v) = UnitsOf(orders, OpenIn(orders) \ {o}, v)
    <2>1. OpenIn(orders') \ {o} = OpenIn(orders) \ {o}
      BY DEF OpenIn
    <2>2. \A x \in OpenIn(orders) \ {o} : orders'[x].items = orders[x].items
      BY DEF OpenIn
    <2> QED BY <2>1, <2>2 DEF UnitsOf
  <1>3. rest \in Nat
    BY <1>1, UnitsAreFinite DEF OpenIn
  <1>4. Promised(v) = rest + Share(o, v)
    BY <1>1, PromisedOfOne, PromisedIs DEF Share
  <1>5. Promised(v)' = rest + Share(o, v)'
    BY <1>1, <1>2, PromisedOfOne, PromisedIs DEF Share
  <1>6. Share(o, v) \in Nat /\ Share(o, v)' \in Nat
    BY <1>1, HoldsType DEF Share
  <1> HIDE DEF rest
  <1> QED BY <1>3, <1>4, <1>5, <1>6

\* What is promised depends on which orders are open and on what they ask for.
LEMMA PromisedStays ==
  ASSUME NEW v \in Variants,
         \A x \in Orders : /\ orders'[x].status \in OpenStatuses <=> orders[x].status \in OpenStatuses
                           /\ orders'[x].items = orders[x].items
  PROVE  Promised(v)' = Promised(v)
  <1>1. OpenIn(orders') = OpenIn(orders)
    BY DEF OpenIn
  <1>2. UnitsOf(orders', OpenIn(orders), v) = UnitsOf(orders, OpenIn(orders), v)
    BY DEF OpenIn, UnitsOf
  <1> QED BY <1>1, <1>2, PromisedIs

\* What an open order holds is part of what is promised.
LEMMA PromisedCovers ==
  ASSUME TypeOK, NEW o \in Orders, NEW v \in Variants, orders[o].status \in OpenStatuses
  PROVE  /\ Promised(v) \in Nat /\ orders[o].items[v] \in Nat
         /\ orders[o].items[v] <= Promised(v)
  <1>1. orders \in [Orders -> OrderRow]
    BY DEF TypeOK
  <1>2. Cardinality(UnitsOf(orders, OpenIn(orders) \ {o}, v)) \in Nat
    BY <1>1, UnitsAreFinite DEF OpenIn
  <1>3. Holds(orders, o, v) \in Nat /\ Holds(orders, o, v) = orders[o].items[v]
    BY <1>1, HoldsType DEF Holds
  <1> QED BY <1>1, <1>2, <1>3, PromisedOfOne, PromisedIs

-------------------------------------------------------------------------------
(* The steps *)

\* What a step is.
LEMMA StepCases ==
  ASSUME [Next]_vars
  PROVE  \/ \E o \in Orders, items \in Baskets, method \in Methods : Checkout(o, items, method)
         \/ \E o \in Orders, items \in Baskets, method \in Methods : CreatePosOrder(o, items, method)
         \/ \E v \in Variants, n \in ChangeQtys : AdjustStockOf(v, n)
         \/ \E v \in Variants, on \in BOOLEAN : SwitchVariant(v, on)
         \/ \E p \in Procs, o \in Orders, op \in StepOps : ReadForStep(p, o, op)
         \/ \E p \in Procs, o \in Orders, op \in TxOps :
              /\ MayStart(p, o) \/ (req[p].step = "read" /\ req[p].order = o)
              /\ ReadForTx(p, o, op)
         \/ \E p \in Procs, o \in Orders : CustomerCancelOrder(p, o)
         \/ \E p \in Procs : \/ UpdateStatus(p) \/ RecordStatusChange(p)
                             \/ RejectTx(p) \/ CancelTx(p) \/ CompleteTx(p) \/ Abort(p)
         \/ JobScan \/ JobRead \/ JobCommit \/ JobFail
         \/ \E o \in Orders : Tick(o)
         \/ UNCHANGED vars
  BY DEF Next, Create, Handle, TimeoutJob, AcceptOrder, PrepareOrder, MarkReady, DispatchOrder,
         RejectOrder, CompleteOrder, CancelOrder, StepOps, TxOps

\* What a step does to a stock row: one of the operations of InventoryService, the timeout
\* job's write of the reservation counter, or the owner's switch.
RowStep(old, new) ==
  \/ new = old
  \/ \E n \in Nat : \/ CanReserveStock(old, n) /\ new = ReserveStock(old, n)
                    \/ new = ReleaseReservedStock(old, n) \/ new = CommitReservedStock(old, n)
                    \/ new = [old EXCEPT !.reservedQuantity = n]
  \/ \E n \in Int : CanAdjustStock(old, n) /\ new = AdjustStock(old, n)
  \/ \E b \in BOOLEAN : new = [old EXCEPT !.isActive = b]

LEMMA RowSteps ==
  ASSUME TypeOK, [Next]_vars, NEW v \in Variants
  PROVE  RowStep(inventory[v], inventory'[v])
  <1>1. ASSUME NEW o \in Orders, NEW items \in Baskets, NEW method \in Methods,
               Checkout(o, items, method) \/ CreatePosOrder(o, items, method)
        PROVE  RowStep(inventory[v], inventory'[v])
    <2>1. items[v] \in Nat /\ -items[v] \in Int
      BY StockAssumption DEF Baskets, Quantities
    <2> QED BY <1>1, <2>1
      DEF Checkout, CreatePosOrder, ForItems, EveryItem, CanDecrementDirectStock,
          DecrementDirectStock, RowStep
  <1>2. ASSUME NEW w \in Variants, NEW n \in ChangeQtys, AdjustStockOf(w, n)
        PROVE  RowStep(inventory[v], inventory'[v])
    BY <1>2, StockAssumption DEF AdjustStockOf, RowStep, TypeOK
  <1>3. ASSUME NEW p \in Procs, RejectTx(p) \/ CancelTx(p) \/ CompleteTx(p)
        PROVE  RowStep(inventory[v], inventory'[v])
    <2>1. req[p].order \in Orders
      BY <1>3 DEF RejectTx, CancelTx, CompleteTx, TypeOK, Request, Idle
    <2>2. orders[req[p].order].items[v] \in Nat
      BY <2>1, ItemsType
    <2> QED BY <1>3, <2>2 DEF RejectTx, CancelTx, CompleteTx, ForItems, RowStep
  <1>4. ASSUME JobCommit
        PROVE  RowStep(inventory[v], inventory'[v])
    <2> DEFINE left == ClampAtZero(job.reserved[v] - orders[job.order].items[v])
    <2>1. left \in Nat
      <3>1. job.order \in Orders /\ job.reserved[v] \in Nat
        BY <1>4 DEF JobCommit, TypeOK, JobRun
      <3> QED BY <3>1, ItemsType DEF ClampAtZero
    <2>2. inventory'[v] = inventory[v] \/ inventory'[v] = [inventory[v] EXCEPT !.reservedQuantity = left]
      BY <1>4 DEF JobCommit
    <2> HIDE DEF left
    <2> QED BY <2>1, <2>2 DEF RowStep
  <1>5. CASE UNCHANGED inventory
    BY <1>5 DEF RowStep
  <1>6. ASSUME NEW w \in Variants, NEW on \in BOOLEAN, SwitchVariant(w, on)
        PROVE  RowStep(inventory[v], inventory'[v])
    BY <1>6, SwitchFields DEF RowStep
  <1> QED BY <1>1, <1>2, <1>3, <1>4, <1>5, <1>6, StepCases
    DEF ReadForStep, ReadForTx, CustomerCancelOrder, UpdateStatus, RecordStatusChange, Abort,
        JobScan, JobRead, JobFail, Tick, vars

-------------------------------------------------------------------------------
(* The switch of a variant follows the shelf *)

\* One row from a step to the next: what SoldOutIsHidden says of it.
Follows(old, new) ==
  LET crossed == (old.quantity > 0) # (new.quantity > 0)
      stockMoved == new # [old EXCEPT !.isActive = new.isActive]
  IN  /\ old.autoDisableAtZero /\ crossed => (new.isActive <=> new.quantity > 0)
      /\ stockMoved /\ new.isActive # old.isActive
           => old.autoDisableAtZero /\ (crossed \/ new.quantity = 0)

LEMMA SwitchFollows ==
  ASSUME NEW old \in InventoryRow, NEW new, RowStep(old, new)
  PROVE  Follows(old, new) /\ new.autoDisableAtZero = old.autoDisableAtZero
  <1>1. ASSUME NEW n \in Nat,
               \/ new = old
               \/ new = ReserveStock(old, n) \/ new = ReleaseReservedStock(old, n)
               \/ new = [old EXCEPT !.reservedQuantity = n]
        PROVE  Follows(old, new) /\ new.autoDisableAtZero = old.autoDisableAtZero
    <2>1. /\ new.autoDisableAtZero = old.autoDisableAtZero
          /\ new.isActive = old.isActive /\ new.quantity = old.quantity
      BY <1>1 DEF InventoryRow, ReserveStock, ReleaseReservedStock
    <2> QED BY <2>1 DEF Follows
  <1>2. ASSUME NEW n \in Nat, new = CommitReservedStock(old, n)
        PROVE  Follows(old, new) /\ new.autoDisableAtZero = old.autoDisableAtZero
    <2> DEFINE qty == ClampAtZero(old.quantity - n)
               active == old.isActive /\ ~(qty = 0 /\ old.autoDisableAtZero)
    <2>1. /\ new.autoDisableAtZero = old.autoDisableAtZero
          /\ new.quantity = qty /\ new.isActive = active
      BY <1>2 DEF InventoryRow, CommitReservedStock
    <2>2. (qty > 0 => old.quantity > 0) /\ (qty > 0 <=> qty # 0)
      BY DEF InventoryRow, ClampAtZero
    <2>3. old.isActive \in BOOLEAN /\ old.autoDisableAtZero \in BOOLEAN
      BY DEF InventoryRow
    <2> HIDE DEF qty
    <2>4. Follows(old, new)
      BY <2>1, <2>2, <2>3, Zenon DEF Follows
    <2> QED BY <2>1, <2>4
  <1>3. ASSUME NEW n \in Int, CanAdjustStock(old, n), new = AdjustStock(old, n)
        PROVE  Follows(old, new) /\ new.autoDisableAtZero = old.autoDisableAtZero
    <2> DEFINE qty == old.quantity + n
               active == ActiveAfterAdjustment(old, qty)
    <2>1. /\ new.autoDisableAtZero = old.autoDisableAtZero
          /\ new.quantity = qty /\ new.isActive = active
      BY <1>3 DEF InventoryRow, AdjustStock
    <2>2. (qty > 0 <=> qty # 0) /\ (old.quantity > 0 <=> old.quantity # 0)
      BY <1>3 DEF InventoryRow, CanAdjustStock
    <2>3. old.isActive \in BOOLEAN /\ old.autoDisableAtZero \in BOOLEAN
      BY DEF InventoryRow
    <2> HIDE DEF qty
    <2>4. Follows(old, new)
      BY <2>1, <2>2, <2>3, Zenon DEF Follows, ActiveAfterAdjustment
    <2> QED BY <2>1, <2>4
  <1>4. ASSUME NEW b \in BOOLEAN, new = [old EXCEPT !.isActive = b]
        PROVE  Follows(old, new) /\ new.autoDisableAtZero = old.autoDisableAtZero
    <2>1. /\ new.autoDisableAtZero = old.autoDisableAtZero /\ new.quantity = old.quantity
          /\ new.isActive = b /\ new = [old EXCEPT !.isActive = new.isActive]
      BY <1>4 DEF InventoryRow
    <2> QED BY <2>1 DEF Follows
  <1> QED BY <1>1, <1>2, <1>3, <1>4 DEF RowStep

\* The flag of a row is what its variant was configured with.
FlagInv ==
  TypeOK /\ \A v \in Variants : inventory[v].autoDisableAtZero <=> v \in AutoDisable

\* However requests, counter, corrections, the owner's switch and the timeout job overlap, and
\* whatever was in stock when the variant was made: the last unit off the shelf hides a variant
\* that switches off at zero, the first one back shows it, and no other change of the stock moves
\* the switch of any variant.
THEOREM SoldOutVariantsAreHidden == Spec => SoldOutIsHidden
  <1> DEFINE Goal(v) ==
        LET old == inventory[v]
            new == inventory'[v]
            ofItself == v \in AutoDisable
            crossed == (old.quantity > 0) # (new.quantity > 0)
            stockMoved == new # [old EXCEPT !.isActive = new.isActive]
        IN  /\ ofItself /\ crossed => (new.isActive <=> new.quantity > 0)
            /\ stockMoved /\ new.isActive # old.isActive
                 => ofItself /\ (crossed \/ new.quantity = 0)
  <1>1. Init => FlagInv
    <2> SUFFICES ASSUME Init PROVE FlagInv
      OBVIOUS
    <2>1. ASSUME NEW v \in Variants PROVE inventory[v].autoDisableAtZero = (v \in AutoDisable)
      BY DEF Init, InitInventory
    <2>2. ASSUME NEW v \in Variants PROVE inventory[v].autoDisableAtZero <=> v \in AutoDisable
      BY <2>1, Zenon
    <2> QED BY <2>2, TypeInit DEF FlagInv
  <1>2. ASSUME FlagInv, [Next]_vars, NEW v \in Variants
        PROVE  /\ Follows(inventory[v], inventory'[v])
               /\ inventory'[v].autoDisableAtZero = inventory[v].autoDisableAtZero
    <2>1. inventory[v] \in InventoryRow /\ RowStep(inventory[v], inventory'[v])
      BY <1>2, RowSteps DEF FlagInv, TypeOK
    <2> QED BY <2>1, SwitchFollows
  <1>3. FlagInv /\ [Next]_vars => FlagInv'
    <2> SUFFICES ASSUME FlagInv, [Next]_vars PROVE FlagInv'
      OBVIOUS
    <2>1. \A v \in Variants : inventory'[v].autoDisableAtZero = inventory[v].autoDisableAtZero
      BY <1>2
    <2> QED BY <2>1, TypeStep DEF FlagInv
  <1>4. FlagInv /\ [Next]_vars => [\A v \in Variants : Goal(v)]_vars
    <2> SUFFICES ASSUME FlagInv, [Next]_vars, NEW v \in Variants
                 PROVE  Goal(v)
      OBVIOUS
    <2>1. Follows(inventory[v], inventory'[v])
      BY <1>2
    <2>2. inventory[v].autoDisableAtZero <=> v \in AutoDisable
      BY DEF FlagInv
    <2> QED BY <2>1, <2>2, Zenon DEF Follows
  <1> QED BY <1>1, <1>3, <1>4, PTL DEF Spec, SoldOutIsHidden

-------------------------------------------------------------------------------
(* Requests and the job work on APP orders only *)

AppRow(row) == row.channel = "APP" /\ row.status # "NONE"

\* Counter orders are born COMPLETED and stay so: nothing ever starts on one.
KindInv ==
  /\ \A o \in Orders : orders[o].channel = "POS" => orders[o].status = "COMPLETED"
  /\ \A p \in Procs : Working(p) => AppRow(orders[req[p].order])
  /\ \A t \in job.todo : AppRow(orders[t[1]])
  /\ job.order # NoOrder => AppRow(orders[job.order])

LEMMA OpenIsOrdered == \A s \in OpenStatuses : s \in OrderStatus /\ s # "NONE" /\ s # "COMPLETED"
  BY DEF OpenStatuses, OrderStatus, TerminalStatuses

\* What is at work works on orders of the table.
LEMMA WorkedOn ==
  ASSUME TypeOK
  PROVE  /\ \A p \in Procs : Working(p) =>
              /\ req[p].order \in Orders /\ req[p].seen \in OrderStatus
              /\ req[p].op \in StepOps \cup TxOps /\ Target(req[p].op) \in OrderStatus
         /\ \A t \in job.todo : t[1] \in Orders /\ t[2] \in OrderStatus /\ t = <<t[1], t[2]>>
         /\ job.order \in Orders \cup {NoOrder} /\ NoOrder \notin Orders
  BY TargetType, OrdersAssumption DEF TypeOK, Request, Idle, Working, JobRun

\* What a new order is, as far as stock and history ask.
CounterOrder(items, method) ==
  [NewOrder("POS", items, method, "COMPLETED")
     EXCEPT !.payment = "SUCCESS", !.invoiced = TRUE, !.sales = 1]

LEMMA NewOrderFields ==
  ASSUME NEW items, NEW method
  PROVE  LET app == NewOrder("APP", items, method, "PLACED")
             pos == CounterOrder(items, method)
         IN  /\ app.status = "PLACED" /\ app.channel = "APP" /\ app.items = items
             /\ app.history = <<"NONE", "PLACED">> /\ app.sales = 0
             /\ pos.status = "COMPLETED" /\ pos.channel = "POS" /\ pos.items = items
             /\ pos.history = <<"NONE", "COMPLETED">> /\ pos.sales = 1
  BY DEF CounterOrder, NewOrder, Blank

\* The step that creates order o leaves the others alone.
LEMMA CreationSteps ==
  ASSUME TypeOK, NEW o \in Orders, NEW items \in Baskets, NEW method \in Methods,
         Checkout(o, items, method) \/ CreatePosOrder(o, items, method)
  PROVE  /\ orders[o].status = "NONE" /\ MayTouch(o) /\ UNCHANGED <<req, job>>
         /\ \A x \in Orders \ {o} : orders'[x] = orders[x]
         /\ orders'[o].items = items
         /\ orders'[o].history = <<"NONE", orders'[o].status>>
         /\ \/ /\ orders'[o].channel = "APP" /\ orders'[o].status = "PLACED" /\ orders'[o].sales = 0
               /\ Checkout(o, items, method)
            \/ /\ orders'[o].channel = "POS" /\ orders'[o].status = "COMPLETED" /\ orders'[o].sales = 1
               /\ CreatePosOrder(o, items, method)
  <1>1. CASE Checkout(o, items, method)
    <2>1. orders'[o] = NewOrder("APP", items, method, "PLACED")
      BY <1>1 DEF Checkout, TypeOK
    <2>2. \A x \in Orders \ {o} : orders'[x] = orders[x]
      BY <1>1 DEF Checkout, TypeOK
    <2>3. orders[o].status = "NONE" /\ MayTouch(o) /\ UNCHANGED <<req, job>>
      BY <1>1 DEF Checkout
    <2>4. /\ orders'[o].status = "PLACED" /\ orders'[o].channel = "APP" /\ orders'[o].items = items
          /\ orders'[o].history = <<"NONE", "PLACED">> /\ orders'[o].sales = 0
      BY <2>1, NewOrderFields
    <2> QED BY <1>1, <2>2, <2>3, <2>4
  <1>2. CASE CreatePosOrder(o, items, method)
    <2>1. orders'[o] = CounterOrder(items, method)
      BY <1>2 DEF CreatePosOrder, CounterOrder, TypeOK
    <2>2. \A x \in Orders \ {o} : orders'[x] = orders[x]
      BY <1>2 DEF CreatePosOrder, TypeOK
    <2>3. orders[o].status = "NONE" /\ MayTouch(o) /\ UNCHANGED <<req, job>>
      BY <1>2 DEF CreatePosOrder
    <2>4. /\ orders'[o].status = "COMPLETED" /\ orders'[o].channel = "POS" /\ orders'[o].items = items
          /\ orders'[o].history = <<"NONE", "COMPLETED">> /\ orders'[o].sales = 1
      BY <2>1, NewOrderFields
    <2> QED BY <1>2, <2>2, <2>3, <2>4
  <1> QED BY <1>1, <1>2

\* The steps that move order o, by a request.
LEMMA ProcSteps ==
  ASSUME TypeOK, NEW p \in Procs,
         UpdateStatus(p) \/ RecordStatusChange(p) \/ RejectTx(p) \/ CancelTx(p) \/ CompleteTx(p) \/ Abort(p)
  PROVE  /\ Working(p) /\ UNCHANGED job
         /\ \A x \in Orders \ {req[p].order} : orders'[x] = orders[x]
         /\ \A q \in Procs \ {p} : req'[q] = req[q]
         /\ orders'[req[p].order].channel = orders[req[p].order].channel
         /\ orders'[req[p].order].items = orders[req[p].order].items
         /\ \/ /\ UpdateStatus(p)
               /\ req[p].step = "update" /\ req[p].op \in StepOps
               /\ req'[p].step = "history" /\ req'[p].order = req[p].order
               /\ req'[p].seen = req[p].seen /\ req'[p].op = req[p].op
               /\ orders'[req[p].order] = [orders[req[p].order] EXCEPT !.status = Target(req[p].op)]
            \/ /\ RecordStatusChange(p) /\ req'[p] = Idle
               /\ orders'[req[p].order] = [orders[req[p].order] EXCEPT
                                             !.history = <<req[p].seen, Target(req[p].op)>>]
            \/ RejectTx(p) /\ req'[p] = Idle /\ orders'[req[p].order].status = "REJECTED"
               /\ orders'[req[p].order].sales = orders[req[p].order].sales
               /\ orders'[req[p].order].history = <<req[p].seen, "REJECTED">>
            \/ CancelTx(p) /\ req'[p] = Idle /\ orders'[req[p].order].status = "CANCELLED"
               /\ orders'[req[p].order].sales = orders[req[p].order].sales
               /\ orders'[req[p].order].history = <<req[p].seen, "CANCELLED">>
            \/ CompleteTx(p) /\ req'[p] = Idle /\ orders'[req[p].order].status = "COMPLETED"
               /\ orders'[req[p].order].history = <<req[p].seen, "COMPLETED">>
               /\ orders'[req[p].order].sales =
                    IF orders[req[p].order].channel = "APP" THEN orders[req[p].order].sales + 1
                                                            ELSE orders[req[p].order].sales
            \/ Abort(p) /\ req'[p] = Idle /\ orders'[req[p].order] = orders[req[p].order]
  <1> DEFINE o == req[p].order
  <1>1. Working(p) /\ UNCHANGED job /\ \A q \in Procs \ {p} : req'[q] = req[q]
    BY DEF UpdateStatus, RecordStatusChange, RejectTx, CancelTx, CompleteTx, Abort, Finish, Working, TypeOK
  <1>2. o \in Orders /\ orders[o] \in OrderRow
    BY <1>1, WorkedOn DEF TypeOK
  <1>3. CASE UpdateStatus(p)
    <2>1. req[p].step = "update" /\ req'[p] = [req[p] EXCEPT !.step = "history"]
      BY <1>3 DEF UpdateStatus, TypeOK
    <2>2. req[p] \in [op : StepOps, step : {"update", "history"}, order : Orders, seen : OrderStatus]
      BY <2>1 DEF TypeOK, Request, Idle
    <2>3. /\ req[p].op \in StepOps
          /\ req'[p].step = "history" /\ req'[p].order = req[p].order
          /\ req'[p].seen = req[p].seen /\ req'[p].op = req[p].op
      BY <2>1, <2>2
    <2>4. orders' = [orders EXCEPT ![o] = [orders[o] EXCEPT !.status = Target(req[p].op)]]
      BY <1>3 DEF UpdateStatus
    <2> QED BY <1>1, <1>2, <1>3, <2>1, <2>3, <2>4 DEF TypeOK, OrderRow
  <1>4. CASE RecordStatusChange(p)
    BY <1>1, <1>2, <1>4 DEF RecordStatusChange, Finish, TypeOK, OrderRow
  <1>5. CASE RejectTx(p)
    BY <1>1, <1>2, <1>5 DEF RejectTx, Finish, TypeOK, OrderRow, Ended
  <1>6. CASE CancelTx(p)
    BY <1>1, <1>2, <1>6 DEF CancelTx, Finish, TypeOK, OrderRow, Ended
  <1>7. CASE CompleteTx(p)
    BY <1>1, <1>2, <1>7 DEF CompleteTx, Finish, TypeOK, OrderRow, Completed
  <1>8. CASE Abort(p)
    BY <1>1, <1>2, <1>8 DEF Abort, Finish, TypeOK
  <1> QED BY <1>3, <1>4, <1>5, <1>6, <1>7, <1>8

\* The update of the status.
LEMMA UpdateSteps ==
  ASSUME TypeOK, NEW p \in Procs, UpdateStatus(p)
  PROVE  /\ req[p].op \in StepOps /\ req[p].order \in Orders
         /\ req'[p].step = "history" /\ req'[p].order = req[p].order
         /\ req'[p].seen = req[p].seen /\ req'[p].op = req[p].op
         /\ orders'[req[p].order] = [orders[req[p].order] EXCEPT !.status = Target(req[p].op)]
  <1>1. req[p].step = "update" /\ req'[p] = [req[p] EXCEPT !.step = "history"]
    BY DEF UpdateStatus, TypeOK
  <1>2. req[p] \in [op : StepOps, step : {"update", "history"}, order : Orders, seen : OrderStatus]
    BY <1>1 DEF TypeOK, Request, Idle
  <1>3. orders'[req[p].order] = [orders[req[p].order] EXCEPT !.status = Target(req[p].op)]
    BY <1>2 DEF UpdateStatus, TypeOK
  <1> QED BY <1>1, <1>2, <1>3

\* What the transactions that end an order write about it.
LEMMA TxRows ==
  ASSUME TypeOK, NEW p \in Procs, RejectTx(p) \/ CancelTx(p) \/ CompleteTx(p)
  PROVE  LET row == orders'[req[p].order]
         IN  /\ RejectTx(p) => row.status = "REJECTED"
             /\ CancelTx(p) => row.status = "CANCELLED"
             /\ CompleteTx(p) => row.status = "COMPLETED"
             /\ row.history = <<req[p].seen, row.status>>
             /\ row.items = orders[req[p].order].items
  <1> DEFINE old == orders[req[p].order]
             new == orders'[req[p].order]
             seen == req[p].seen
  <1>1. req[p].order \in Orders /\ old \in OrderRow
    BY ProcSteps, WorkedOn DEF TypeOK
  <1>2. /\ RejectTx(p) => new = Ended(old, seen, "REJECTED")
        /\ CancelTx(p) => new = Ended(old, seen, "CANCELLED")
        /\ CompleteTx(p) => new = Completed(old, seen)
    BY <1>1 DEF RejectTx, CancelTx, CompleteTx, TypeOK
  <1>3. ASSUME NEW target
        PROVE  /\ Ended(old, seen, target).status = target
               /\ Ended(old, seen, target).history = <<seen, target>>
               /\ Ended(old, seen, target).items = old.items
    BY <1>1 DEF Ended, OrderRow
  <1>4. /\ Completed(old, seen).status = "COMPLETED"
        /\ Completed(old, seen).history = <<seen, "COMPLETED">>
        /\ Completed(old, seen).items = old.items
    BY <1>1 DEF Completed, OrderRow
  <1> HIDE DEF old, new
  <1>5. /\ RejectTx(p) => new.status = "REJECTED"
        /\ CancelTx(p) => new.status = "CANCELLED"
        /\ CompleteTx(p) => new.status = "COMPLETED"
        /\ new.history = <<seen, new.status>> /\ new.items = old.items
    BY <1>2, <1>3, <1>4
  <1> QED BY <1>5 DEF old, new

\* The job's write.
LEMMA JobSteps ==
  ASSUME TypeOK, JobCommit
  PROVE  /\ job.order \in Orders /\ UNCHANGED req
         /\ job'.todo = job.todo /\ job'.order = NoOrder
         /\ \A x \in Orders \ {job.order} : orders'[x] = orders[x]
         /\ orders'[job.order].channel = orders[job.order].channel
         /\ orders'[job.order].items = orders[job.order].items
         /\ orders'[job.order].sales = orders[job.order].sales
         /\ orders'[job.order].status = "CANCELLED"
         /\ orders'[job.order].history = <<job.seen, "CANCELLED">>
  <1>1. job.order \in Orders
    BY WorkedOn DEF JobCommit
  <1>2. orders' = [orders EXCEPT ![job.order] =
          [orders[job.order] EXCEPT !.status = "CANCELLED", !.history = <<job.seen, "CANCELLED">>]]
    BY <1>1 DEF JobCommit, TypeOK
  <1> QED BY <1>1, <1>2 DEF JobCommit, NoJob, TypeOK, OrderRow

\* A request that starts, or goes on to its transaction, has found its order open.
LEMMA ReadSteps ==
  ASSUME TypeOK, NEW p \in Procs, NEW o \in Orders,
         \/ \E op \in StepOps : ReadForStep(p, o, op)
         \/ \E op \in TxOps : ReadForTx(p, o, op)
         \/ CustomerCancelOrder(p, o)
  PROVE  /\ UNCHANGED <<orders, inventory, job>>
         /\ orders[o].status \in OpenStatuses
         /\ \A q \in Procs \ {p} : req'[q] = req[q]
         /\ req'[p].order = o /\ req'[p].seen = orders[o].status
         /\ req'[p].step \in {"read", "update", "tx"}
         /\ req'[p].step # "read" => orders[o].status \in AllowedFrom(req'[p].op)
         /\ req'[p].step = "update" => req'[p].op \in StepOps
         /\ req'[p].step = "tx" => req'[p].op \in TxOps
  <1>1. CASE \E op \in StepOps : ReadForStep(p, o, op)
    BY <1>1, AllowedFromIsOpen DEF ReadForStep, TypeOK
  <1>2. CASE \E op \in TxOps : ReadForTx(p, o, op)
    BY <1>2, AllowedFromIsOpen DEF ReadForTx, TypeOK
  <1>3. CASE CustomerCancelOrder(p, o)
    BY <1>3 DEF CustomerCancelOrder, TypeOK, OpenStatuses, OrderStatus, TerminalStatuses
  <1> QED BY <1>1, <1>2, <1>3

\* A tick changes nothing but an age.
LEMMA TickSteps ==
  ASSUME TypeOK, NEW o \in Orders, Tick(o)
  PROVE  /\ UNCHANGED <<inventory, req, job>>
         /\ \A x \in Orders : orders'[x] = orders[x] \/ orders'[x] = [orders[x] EXCEPT !.age = @ + 1]
         /\ \A x \in Orders : /\ orders'[x].status = orders[x].status /\ orders'[x].items = orders[x].items
                              /\ orders'[x].channel = orders[x].channel /\ orders'[x].sales = orders[x].sales
                              /\ orders'[x].history = orders[x].history
  BY DEF Tick, TypeOK, OrderRow

\* An APP order stays one, and keeps what it asks for.
LEMMA OrdersStay ==
  ASSUME TypeOK, [Next]_vars, NEW x \in Orders, orders[x].status # "NONE"
  PROVE  /\ orders'[x].status # "NONE" /\ orders'[x].channel = orders[x].channel
         /\ orders'[x].items = orders[x].items
  <1>1. \A op \in StepOps : Target(op) # "NONE"
    BY DEF StepOps, Target
  <1>2. ASSUME NEW p \in Procs,
               UpdateStatus(p) \/ RecordStatusChange(p) \/ RejectTx(p) \/ CancelTx(p) \/ CompleteTx(p) \/ Abort(p)
        PROVE  /\ orders'[x].status # "NONE" /\ orders'[x].channel = orders[x].channel
               /\ orders'[x].items = orders[x].items
    <2>1. CASE x # req[p].order
      BY <1>2, <2>1, ProcSteps
    <2>2. CASE x = req[p].order
      <3>1. UpdateStatus(p) => req[p].op \in StepOps
        BY DEF UpdateStatus, TypeOK, Request, Idle
      <3> QED BY <1>1, <1>2, <2>2, <3>1, ProcSteps DEF TypeOK, OrderRow
    <2> QED BY <2>1, <2>2
  <1>3. ASSUME NEW o \in Orders, NEW items \in Baskets, NEW method \in Methods,
               Checkout(o, items, method) \/ CreatePosOrder(o, items, method)
        PROVE  orders'[x] = orders[x]
    BY <1>3, CreationSteps
  <1>4. CASE JobCommit
    BY <1>4, JobSteps
  <1>5. ASSUME NEW o \in Orders, Tick(o)
        PROVE  /\ orders'[x].status = orders[x].status /\ orders'[x].channel = orders[x].channel
               /\ orders'[x].items = orders[x].items
    BY <1>5, TickSteps
  <1>6. CASE UNCHANGED orders
    BY <1>6
  <1> QED BY <1>2, <1>3, <1>4, <1>5, <1>6, StepCases
    DEF AdjustStockOf, SwitchVariant, ReadForStep, ReadForTx, CustomerCancelOrder, JobScan, JobRead, JobFail, vars

LEMMA KindStep ==
  ASSUME TypeOK, KindInv, [Next]_vars
  PROVE  KindInv'
  <1>1. \A x \in Orders : AppRow(orders[x]) => AppRow(orders'[x])
    BY OrdersStay DEF AppRow
  <1>2. \A x \in Orders : orders[x].status \in OpenStatuses => AppRow(orders[x])
    BY OpenIsOrdered DEF KindInv, AppRow, TypeOK, OrderRow
  <1>3. \A o \in Orders : orders'[o].channel = "POS" => orders'[o].status = "COMPLETED"
    <2> SUFFICES ASSUME NEW x \in Orders, orders'[x].channel = "POS"
                 PROVE  orders'[x].status = "COMPLETED"
      OBVIOUS
    <2>1. orders[x].status # "NONE" => orders[x].channel = "POS" /\ ~AppRow(orders[x]) /\ orders[x].status = "COMPLETED"
      BY OrdersStay DEF KindInv, AppRow
    <2>2. ASSUME NEW o \in Orders, NEW items \in Baskets, NEW method \in Methods,
                 Checkout(o, items, method) \/ CreatePosOrder(o, items, method)
          PROVE  orders'[x].status = "COMPLETED"
      BY <2>1, <2>2, CreationSteps DEF KindInv
    <2>3. ASSUME NEW p \in Procs,
                 UpdateStatus(p) \/ RecordStatusChange(p) \/ RejectTx(p) \/ CancelTx(p) \/ CompleteTx(p) \/ Abort(p)
          PROVE  orders'[x].status = "COMPLETED"
      <3>1. Working(p) /\ x # req[p].order
        BY <2>1, <2>3, ProcSteps DEF KindInv, AppRow
      <3> QED BY <2>3, <3>1, ProcSteps DEF KindInv
    <2>4. CASE JobCommit
      <3>1. x # job.order
        BY <2>1, <2>4, JobSteps, WorkedOn DEF KindInv, AppRow
      <3> QED BY <2>4, <3>1, JobSteps DEF KindInv
    <2>5. ASSUME NEW o \in Orders, Tick(o) PROVE orders'[x].status = "COMPLETED"
      BY <2>5, TickSteps DEF KindInv
    <2>6. CASE UNCHANGED orders
      BY <2>6 DEF KindInv
    <2> QED BY <2>2, <2>3, <2>4, <2>5, <2>6, StepCases
      DEF AdjustStockOf, SwitchVariant, ReadForStep, ReadForTx, CustomerCancelOrder, JobScan, JobRead, JobFail, vars
  <1>4. ASSUME NEW p \in Procs, req'[p].step # "idle"
        PROVE  AppRow(orders'[req'[p].order])
    <2>1. CASE req'[p] = req[p]
      BY <1>1, <1>4, <2>1, WorkedOn DEF KindInv, Working
    <2>2. ASSUME NEW q \in Procs, NEW o \in Orders,
                 \/ \E op \in StepOps : ReadForStep(q, o, op)
                 \/ \E op \in TxOps : ReadForTx(q, o, op)
                 \/ CustomerCancelOrder(q, o)
          PROVE  AppRow(orders'[req'[p].order])
      <3>1. CASE p = q
        BY <1>2, <2>2, <3>1, ReadSteps DEF AppRow
      <3>2. CASE p # q
        BY <2>1, <2>2, <3>2, ReadSteps
      <3> QED BY <3>1, <3>2
    <2>3. ASSUME NEW q \in Procs,
                 UpdateStatus(q) \/ RecordStatusChange(q) \/ RejectTx(q) \/ CancelTx(q) \/ CompleteTx(q) \/ Abort(q)
          PROVE  AppRow(orders'[req'[p].order])
      <3>1. CASE p = q
        <4>1. req'[p].order = req[p].order /\ Working(p)
          <5>1. req'[p] # Idle
            BY <1>4 DEF Idle
          <5> QED BY <2>3, <3>1, <5>1, ProcSteps
        <4> QED BY <1>1, <4>1, WorkedOn DEF KindInv
      <3>2. CASE p # q
        BY <2>1, <2>3, <3>2, ProcSteps
      <3> QED BY <3>1, <3>2
    <2>4. CASE UNCHANGED req
      BY <2>1, <2>4
    <2> QED BY <2>2, <2>3, <2>4, StepCases
      DEF Checkout, CreatePosOrder, AdjustStockOf, SwitchVariant, JobScan, JobRead, JobCommit, JobFail, Tick, vars
  <1>5. /\ \A t \in job'.todo : AppRow(orders'[t[1]])
        /\ job'.order # NoOrder => AppRow(orders'[job'.order])
    <2>1. CASE UNCHANGED job
      <3>1. job' = job
        BY <2>1
      <3>2. \A t \in job.todo : AppRow(orders'[t[1]])
        BY <1>1, WorkedOn DEF KindInv
      <3>3. job.order # NoOrder => AppRow(orders'[job.order])
        BY <1>1, WorkedOn DEF KindInv
      <3> QED BY <3>1, <3>2, <3>3
    <2>2. CASE JobScan
      <3>1. /\ job'.order = NoOrder /\ UNCHANGED orders
            /\ \A t \in job'.todo : \E o \in StaleOrders : t = <<o, orders[o].status>>
        BY <2>2 DEF JobScan, NoJob
      <3> QED BY <1>1, <1>2, <3>1, StaleIsOpen
    <2>3. CASE JobRead
      BY <1>1, <2>3, WorkedOn DEF JobRead, KindInv
    <2>4. CASE JobCommit \/ JobFail
      <3>1. job'.todo = job.todo /\ job'.order = NoOrder
        BY <2>4 DEF JobCommit, JobFail, NoJob
      <3>2. \A t \in job.todo : AppRow(orders'[t[1]])
        BY <1>1, WorkedOn DEF KindInv
      <3> QED BY <3>1, <3>2
    <2>5. \/ UNCHANGED job
          \/ JobScan \/ JobRead \/ JobCommit \/ JobFail
      BY StepCases
      DEF Checkout, CreatePosOrder, AdjustStockOf, SwitchVariant, ReadForStep, ReadForTx, CustomerCancelOrder,
          UpdateStatus, RecordStatusChange, RejectTx, CancelTx, CompleteTx, Abort, Tick, vars
    <2> QED BY <2>1, <2>2, <2>3, <2>4, <2>5
  <1>6. \A p \in Procs : req'[p].step # "idle" => AppRow(orders'[req'[p].order])
    BY <1>4
  <1> QED BY <1>3, <1>5, <1>6 DEF KindInv, Working

LEMMA KindInit == Init => KindInv
  BY DEF Init, KindInv, Blank, Idle, Working, NoJob

-------------------------------------------------------------------------------
(* What the steps do to the counters of a row *)

\* The operations on the rows of a basket, counter by counter.
LEMMA BasketFields ==
  ASSUME TypeOK, NEW items \in [Variants -> Nat], NEW v \in Variants
  PROVE  LET row == inventory[v]
             n   == items[v]
             reserved  == ForItems(items, ReserveStock)[v]
             released  == ForItems(items, ReleaseReservedStock)[v]
             committed == ForItems(items, CommitReservedStock)[v]
             counter   == ForItems(items, DecrementDirectStock)[v]
         IN  /\ reserved.reservedQuantity = row.reservedQuantity + n
             /\ reserved.quantity = row.quantity /\ reserved.ledger = row.ledger
             /\ released.reservedQuantity = ClampAtZero(row.reservedQuantity - n)
             /\ released.quantity = row.quantity /\ released.ledger = row.ledger
             /\ committed.reservedQuantity = ClampAtZero(row.reservedQuantity - n)
             /\ committed.quantity = ClampAtZero(row.quantity - n)
             /\ committed.ledger = row.ledger - n
             /\ counter.reservedQuantity = row.reservedQuantity
             /\ counter.quantity = row.quantity - n /\ counter.ledger = row.ledger - n
  <1>1. inventory[v] \in InventoryRow /\ items[v] \in Nat
    BY DEF TypeOK
  <1>2. CASE items[v] = 0
    BY <1>1, <1>2 DEF ForItems, ClampAtZero, InventoryRow
  <1>3. CASE items[v] # 0
    BY <1>1, <1>3 DEF ForItems, InventoryRow, ReserveStock, ReleaseReservedStock,
      CommitReservedStock, DecrementDirectStock, AdjustStock
  <1> QED BY <1>2, <1>3

\* A correction moves shelf and ledger of one row alike.
\* What the owner does to the stock by hand.
OwnersStep ==
  \/ \E w \in Variants, n \in ChangeQtys : AdjustStockOf(w, n)
  \/ \E w \in Variants, on \in BOOLEAN : SwitchVariant(w, on)

LEMMA AdjustFields ==
  ASSUME TypeOK, NEW w \in Variants, NEW n \in ChangeQtys, AdjustStockOf(w, n), NEW v \in Variants
  PROVE  LET change == IF v = w THEN n ELSE 0
         IN  /\ inventory'[v].reservedQuantity = inventory[v].reservedQuantity
             /\ inventory'[v].quantity = inventory[v].quantity + change
             /\ inventory'[v].ledger = inventory[v].ledger + change
             /\ UNCHANGED <<orders, req, job>>
  <1>1. inventory[v] \in InventoryRow /\ n \in Int
    BY StockAssumption DEF TypeOK
  <1>2. inventory'[v] = IF v = w THEN AdjustStock(inventory[v], n) ELSE inventory[v]
    BY DEF AdjustStockOf, TypeOK
  <1>3. /\ AdjustStock(inventory[v], n).reservedQuantity = inventory[v].reservedQuantity
        /\ AdjustStock(inventory[v], n).quantity = inventory[v].quantity + n
        /\ AdjustStock(inventory[v], n).ledger = inventory[v].ledger + n
    BY <1>1 DEF AdjustStock, InventoryRow
  <1>4. UNCHANGED <<orders, req, job>>
    BY DEF AdjustStockOf
  <1>5. CASE v = w
    BY <1>2, <1>3, <1>4, <1>5
  <1>6. CASE v # w
    BY <1>1, <1>2, <1>4, <1>6 DEF InventoryRow
  <1> QED BY <1>5, <1>6

\* The transactions that end an order do so to the stock that its items name.
LEMMA TxFields ==
  ASSUME TypeOK, KindInv, NEW p \in Procs, RejectTx(p) \/ CancelTx(p) \/ CompleteTx(p),
         NEW v \in Variants
  PROVE  LET o == req[p].order
             n == orders[o].items[v]
         IN  /\ o \in Orders /\ n \in Nat /\ orders'[o].status \in TerminalStatuses
             /\ inventory'[v].reservedQuantity = ClampAtZero(inventory[v].reservedQuantity - n)
             /\ CompleteTx(p) => /\ inventory'[v].quantity = ClampAtZero(inventory[v].quantity - n)
                                 /\ inventory'[v].ledger = inventory[v].ledger - n
             /\ ~CompleteTx(p) => /\ inventory'[v].quantity = inventory[v].quantity
                                  /\ inventory'[v].ledger = inventory[v].ledger
  <1> DEFINE o == req[p].order
  <1>1. o \in Orders /\ orders[o].channel = "APP"
    BY ProcSteps, WorkedOn DEF KindInv, AppRow
  <1>2. orders[o].items \in [Variants -> Nat]
    BY <1>1, StockAssumption DEF TypeOK, OrderRow, Quantities
  <1>3. orders'[o].status \in TerminalStatuses
    <2>1. orders[o] \in OrderRow /\ orders \in [Orders -> OrderRow]
      BY <1>1 DEF TypeOK
    <2>2. \/ orders'[o] = Ended(orders[o], req[p].seen, "REJECTED")
          \/ orders'[o] = Ended(orders[o], req[p].seen, "CANCELLED")
          \/ orders'[o] = Completed(orders[o], req[p].seen)
      BY <1>1, <2>1 DEF RejectTx, CancelTx, CompleteTx
    <2>3. /\ Ended(orders[o], req[p].seen, "REJECTED").status = "REJECTED"
          /\ Ended(orders[o], req[p].seen, "CANCELLED").status = "CANCELLED"
          /\ Completed(orders[o], req[p].seen).status = "COMPLETED"
      BY <2>1 DEF Ended, Completed, OrderRow
    <2> QED BY <2>2, <2>3 DEF TerminalStatuses
  <1>4. CompleteTx(p) => inventory' = ForItems(orders[o].items, CommitReservedStock)
    BY <1>1 DEF CompleteTx
  <1>5. ~CompleteTx(p) => inventory' = ForItems(orders[o].items, ReleaseReservedStock)
    BY <1>1 DEF RejectTx, CancelTx
  <1> QED BY <1>1, <1>2, <1>3, <1>4, <1>5, BasketFields

\* accept, prepare, markReady and dispatch leave their order open.
LEMMA UpdateOpens ==
  ASSUME TypeOK, NEW p \in Procs, UpdateStatus(p)
  PROVE  orders'[req[p].order].status \in OpenStatuses
  <1>1. /\ req[p].op \in StepOps /\ req[p].order \in Orders /\ orders[req[p].order] \in OrderRow
        /\ orders'[req[p].order] = [orders[req[p].order] EXCEPT !.status = Target(req[p].op)]
    <2>1. req[p].step = "update"
      BY DEF UpdateStatus
    <2>2. req[p] \in [op : StepOps, step : {"update", "history"}, order : Orders, seen : OrderStatus]
      BY <2>1 DEF TypeOK, Request, Idle
    <2> QED BY <2>2 DEF UpdateStatus, TypeOK
  <1>2. \A op \in StepOps : Target(op) \in OpenStatuses
    BY DEF StepOps, Target, OpenStatuses, OrderStatus, TerminalStatuses
  <1> QED BY <1>1, <1>2 DEF OrderRow

\* What an order holds before and after a step that works on it.
LEMMA Shares ==
  ASSUME TypeOK, NEW o \in Orders, NEW v \in Variants
  PROVE  /\ orders[o].items[v] \in Nat /\ Share(o, v) \in Nat
         /\ orders[o].status \in OpenStatuses => Share(o, v) = orders[o].items[v]
         /\ orders[o].status \notin OpenStatuses => Share(o, v) = 0
         /\ orders'[o].status \in OpenStatuses => Share(o, v)' = orders'[o].items[v]
         /\ orders'[o].status \notin OpenStatuses => Share(o, v)' = 0
  BY ItemsType DEF Share, Holds

-------------------------------------------------------------------------------
(* No reservation outlives its order *)

\* Without the timeout job the reservation counter is only moved under the lock.
LeakInv == NoLeakedReservation /\ KindInv /\ job = NoJob

LEMMA NoJobStep ==
  ASSUME "timeoutJob" \notin Ops, job = NoJob, [Next]_vars
  PROVE  job' = NoJob /\ ~JobScan /\ ~JobRead /\ ~JobCommit /\ ~JobFail
  BY StepCases DEF NoJob, Checkout, CreatePosOrder, AdjustStockOf, SwitchVariant, ReadForStep, ReadForTx,
    CustomerCancelOrder, UpdateStatus, RecordStatusChange, RejectTx, CancelTx, CompleteTx, Abort,
    JobScan, JobRead, JobCommit, JobFail, Tick, vars

LEMMA LeakStep ==
  ASSUME "timeoutJob" \notin Ops, LeakInv, [Next]_vars
  PROVE  LeakInv'
  <1>1. TypeOK /\ TypeOK' /\ KindInv /\ KindInv' /\ job' = NoJob
    BY TypeStep, KindStep, NoJobStep DEF LeakInv, NoLeakedReservation
  <1> DEFINE Kept(v) == inventory'[v].reservedQuantity <= Promised(v)'
  <1> SUFFICES ASSUME NEW v \in Variants PROVE Kept(v)
    BY <1>1 DEF LeakInv, NoLeakedReservation
  <1>2. /\ inventory[v].reservedQuantity \in Nat /\ inventory'[v].reservedQuantity \in Nat
        /\ inventory[v].reservedQuantity <= Promised(v)
    BY <1>1 DEF LeakInv, NoLeakedReservation, TypeOK, InventoryRow
  <1>3. ASSUME NEW o \in Orders, NEW items \in Baskets, NEW method \in Methods,
               Checkout(o, items, method) \/ CreatePosOrder(o, items, method)
        PROVE  Kept(v)
    <2>1. items \in [Variants -> Nat]
      BY StockAssumption DEF Baskets, Quantities
    <2>2. Share(o, v) = 0
      BY <1>1, <1>3, Shares, CreationSteps DEF OpenStatuses, OrderStatus
    <2>3. /\ Promised(v) \in Nat /\ Promised(v)' \in Nat /\ Share(o, v)' \in Nat
          /\ Promised(v)' = Promised(v) + Share(o, v)'
      BY <1>1, <1>3, <2>2, CreationSteps, PromisedChanges
    <2>4. CASE Checkout(o, items, method)
      <3>1. orders'[o].status = "PLACED" /\ orders'[o].items = items
        BY <1>1, <1>3, <2>4, CreationSteps DEF Checkout, TypeOK, NewOrder, Blank
      <3>2. Share(o, v)' = items[v]
        BY <1>1, <3>1, Shares DEF OpenStatuses, OrderStatus, TerminalStatuses
      <3>3. inventory'[v].reservedQuantity = inventory[v].reservedQuantity + items[v]
        BY <1>1, <2>1, <2>4, BasketFields DEF Checkout
      <3> QED BY <1>2, <2>1, <2>3, <3>2, <3>3
    <2>5. CASE CreatePosOrder(o, items, method)
      <3>1. inventory'[v].reservedQuantity = inventory[v].reservedQuantity
        BY <1>1, <2>1, <2>5, BasketFields DEF CreatePosOrder
      <3> QED BY <1>2, <2>3, <3>1
    <2> QED BY <1>3, <2>4, <2>5
  <1>4. ASSUME NEW p \in Procs, RejectTx(p) \/ CancelTx(p) \/ CompleteTx(p),
               NEW o \in Orders, o = req[p].order
        PROVE  Kept(v)
    <2>1. /\ o \in Orders /\ orders[o].items[v] \in Nat /\ orders'[o].status \in TerminalStatuses
          /\ inventory'[v].reservedQuantity =
               ClampAtZero(inventory[v].reservedQuantity - orders[o].items[v])
      BY <1>1, <1>4, TxFields
    <2>2. Share(o, v)' = 0 /\ Share(o, v) \in {0, orders[o].items[v]}
      BY <1>1, <2>1, Shares DEF OpenStatuses
    <2>3. /\ Promised(v) \in Nat /\ Promised(v)' \in Nat /\ Share(o, v) <= Promised(v)
          /\ Promised(v)' = Promised(v) - Share(o, v)
      <3>1. \A x \in Orders \ {o} : orders'[x] = orders[x]
        BY <1>1, <1>4, ProcSteps
      <3>2. /\ Promised(v) \in Nat /\ Promised(v)' \in Nat /\ Share(o, v) <= Promised(v)
            /\ Promised(v)' - Share(o, v)' = Promised(v) - Share(o, v)
        BY <1>1, <3>1, PromisedChanges
      <3> QED BY <2>2, <3>2
    <2> QED BY <1>2, <2>1, <2>2, <2>3 DEF ClampAtZero
  <1>5. ASSUME NEW p \in Procs, UpdateStatus(p), NEW o \in Orders, o = req[p].order
        PROVE  Kept(v)
    <2>1. /\ orders'[o].items = orders[o].items
          /\ \A x \in Orders \ {o} : orders'[x] = orders[x]
      BY <1>1, <1>5, ProcSteps
    <2>2. orders'[o].status \in OpenStatuses /\ UNCHANGED inventory
      BY <1>1, <1>5, <2>1, UpdateOpens DEF UpdateStatus
    <2>3. Share(o, v)' = orders[o].items[v] /\ Share(o, v) \in {0, orders[o].items[v]}
          /\ orders[o].items[v] \in Nat
      BY <1>1, <2>1, <2>2, Shares
    <2>4. /\ Promised(v) \in Nat /\ Promised(v)' \in Nat
          /\ Promised(v)' - Share(o, v)' = Promised(v) - Share(o, v)
      BY <1>1, <2>1, PromisedChanges
    <2> QED BY <1>2, <2>2, <2>3, <2>4
  <1>6. ASSUME UNCHANGED inventory \/ OwnersStep,
               \A x \in Orders : /\ orders'[x].status = orders[x].status
                                 /\ orders'[x].items = orders[x].items
        PROVE  Kept(v)
    <2>1. inventory'[v].reservedQuantity = inventory[v].reservedQuantity
      BY <1>1, <1>6, AdjustFields, SwitchFields DEF OwnersStep
    <2>2. Promised(v)' = Promised(v)
      BY <1>6, PromisedStays
    <2> QED BY <1>2, <2>1, <2>2
  <1>7. ASSUME NEW p \in Procs, RecordStatusChange(p)
        PROVE  Kept(v)
    BY <1>1, <1>6, <1>7, WorkedOn DEF RecordStatusChange, TypeOK, OrderRow, Working
  <1>8. ASSUME NEW o \in Orders, Tick(o)
        PROVE  Kept(v)
    BY <1>1, <1>6, <1>8, TickSteps
  <1>9. CASE UNCHANGED orders /\ (UNCHANGED inventory \/ OwnersStep)
    BY <1>6, <1>9
  <1>11. \A p \in Procs : RejectTx(p) \/ CancelTx(p) \/ CompleteTx(p) \/ UpdateStatus(p)
                              => req[p].order \in Orders
    BY <1>1, ProcSteps, WorkedOn
  <1>10. ~JobScan /\ ~JobRead /\ ~JobCommit /\ ~JobFail
    BY NoJobStep DEF LeakInv
  <1> HIDE DEF Kept
  <1> QED BY <1>3, <1>4, <1>5, <1>7, <1>8, <1>9, <1>10, <1>11, StepCases
    DEF OwnersStep, AdjustStockOf, SwitchVariant, ReadForStep, ReadForTx, CustomerCancelOrder, Abort, vars

\* Wherever requests overlap, on one order or on many, and wherever they die: without the timeout
\* job the reservation column never holds units that no open order was promised, and it never
\* leaves its type.
THEOREM ReservationsNeverLeak ==
  ASSUME "timeoutJob" \notin Ops PROVE Spec => []NoLeakedReservation
  <1>1. Init => LeakInv
    <2> SUFFICES ASSUME Init PROVE LeakInv
      OBVIOUS
    <2>1. TypeOK /\ KindInv /\ job = NoJob
      BY TypeInit, KindInit DEF Init
    <2>2. ASSUME NEW v \in Variants PROVE inventory[v].reservedQuantity <= Promised(v)
      <3>1. inventory[v].reservedQuantity = 0
        BY DEF Init, InitInventory
      <3>2. Promised(v) \in Nat
        BY <2>1, UnitsAreFinite, PromisedIs DEF TypeOK, OpenIn
      <3> QED BY <3>1, <3>2
    <2> QED BY <2>1, <2>2 DEF LeakInv, NoLeakedReservation
  <1>2. LeakInv /\ [Next]_vars => LeakInv'
    BY LeakStep
  <1>3. LeakInv => NoLeakedReservation
    BY DEF LeakInv
  <1> QED BY <1>1, <1>2, <1>3, PTL DEF Spec

-------------------------------------------------------------------------------
(* The reservation counter is exact *)

\* Requests on one order do not overlap, and the timeout job, where there is one, runs by itself.
JobIsAlone ==
  \/ Overlap = "jobAlone"
  \/ Overlap = "acrossOrders" /\ "timeoutJob" \notin Ops

\* While the job runs no request is in flight, so the stock it has read without a lock stays
\* what it is until it writes.
JobReadsTruth ==
  /\ "timeoutJob" \notin Ops => job = NoJob
  /\ job # NoJob => \A p \in Procs : ~Working(p)
  /\ job.order # NoOrder => \A v \in Variants : job.reserved[v] = inventory[v].reservedQuantity

ExactInv == ExclusiveInv /\ KindInv /\ JobReadsTruth /\ ExactReservation

LEMMA JobByItself ==
  ASSUME JobIsAlone, JobReadsTruth, job # NoJob, [Next]_vars
  PROVE  /\ UNCHANGED req
         /\ \/ JobRead \/ JobCommit \/ JobFail \/ (\E o \in Orders : Tick(o)) \/ UNCHANGED vars
            \/ (\E v \in Variants, on \in BOOLEAN : SwitchVariant(v, on))
  <1>1. Overlap = "jobAlone"
    BY DEF JobIsAlone, JobReadsTruth
  <1>2. \A o \in Orders : ~MayTouch(o)
    BY <1>1 DEF MayTouch
  <1>3. \A p \in Procs : req[p].step = "idle"
    BY DEF JobReadsTruth, Working
  <1>4. \A p \in Procs : ~UpdateStatus(p) /\ ~RecordStatusChange(p) /\ ~RejectTx(p) /\ ~CancelTx(p)
                         /\ ~CompleteTx(p) /\ ~Abort(p)
    BY <1>3 DEF UpdateStatus, RecordStatusChange, RejectTx, CancelTx, CompleteTx, Abort
  <1>5. \/ JobRead \/ JobCommit \/ JobFail \/ (\E o \in Orders : Tick(o)) \/ UNCHANGED vars
        \/ (\E v \in Variants, on \in BOOLEAN : SwitchVariant(v, on))
    BY <1>1, <1>2, <1>3, <1>4, StepCases
    DEF Checkout, CreatePosOrder, AdjustStockOf, ReadForStep, MayStart, CustomerCancelOrder, JobScan
  <1> QED BY <1>5 DEF JobRead, JobCommit, JobFail, Tick, SwitchVariant, vars

\* A run of the job starts with its list.
LEMMA JobStarts ==
  ASSUME job = NoJob, [Next]_vars
  PROVE  UNCHANGED job \/ (JobScan /\ job'.order = NoOrder)
  <1>1. ~JobRead /\ ~JobCommit /\ ~JobFail
    BY DEF JobRead, JobCommit, JobFail, NoJob
  <1>2. JobScan \/ UNCHANGED job
    BY <1>1, StepCases DEF Checkout, CreatePosOrder, AdjustStockOf, SwitchVariant, ReadForStep, ReadForTx,
      CustomerCancelOrder, UpdateStatus, RecordStatusChange, RejectTx, CancelTx, CompleteTx,
      Abort, Tick, vars
  <1>3. JobScan => job'.order = NoOrder
    BY DEF JobScan, NoJob
  <1> QED BY <1>2, <1>3

LEMMA JobReadsTruthStep ==
  ASSUME JobIsAlone, TypeOK, JobReadsTruth, [Next]_vars
  PROVE  JobReadsTruth'
  <1>1. "timeoutJob" \notin Ops => job' = NoJob
    BY NoJobStep DEF JobReadsTruth
  <1>2. ASSUME job' # NoJob PROVE \A p \in Procs : req'[p].step = "idle"
    <2>1. CASE job # NoJob
      BY <2>1, JobByItself DEF JobReadsTruth, Working
    <2>2. CASE job = NoJob
      <3>3. JobScan
        BY <1>2, <2>2, JobStarts
      <3>4. \A p \in Procs : req[p].step = "idle" /\ req'[p] = req[p]
        <4>1. Overlap = "jobAlone"
          BY <3>3 DEF JobScan, JobIsAlone
        <4> QED BY <3>3, <4>1 DEF JobScan, Quiet
      <3> QED BY <3>4
    <2> QED BY <2>1, <2>2
  <1>3. ASSUME job'.order # NoOrder, NEW v \in Variants
        PROVE  job'.reserved[v] = inventory'[v].reservedQuantity
    <2>1. job # NoJob
      BY <1>3, JobStarts DEF NoJob
    <2>2. CASE JobRead
      BY <2>2 DEF JobRead
    <2>3. CASE JobCommit \/ JobFail
      BY <1>3, <2>3 DEF JobCommit, JobFail, NoJob
    <2>4. CASE UNCHANGED <<inventory, job>>
      BY <1>3, <2>4 DEF JobReadsTruth
    <2>5. ASSUME NEW w \in Variants, NEW on \in BOOLEAN, SwitchVariant(w, on)
          PROVE  job'.reserved[v] = inventory'[v].reservedQuantity
      BY <1>3, <2>5, SwitchFields DEF JobReadsTruth
    <2> QED BY <2>1, <2>2, <2>3, <2>4, <2>5, JobByItself DEF Tick, vars
  <1> QED BY <1>1, <1>2, <1>3 DEF JobReadsTruth, Working

LEMMA AloneIsExclusive == JobIsAlone => Overlap # "any"
  BY DEF JobIsAlone

\* The job's write gives back what its order holds.
LEMMA JobFields ==
  ASSUME TypeOK, JobReadsTruth, JobCommit, NEW v \in Variants
  PROVE  LET n == orders[job.order].items[v]
         IN  /\ job.order \in Orders /\ n \in Nat
             /\ inventory'[v].reservedQuantity = ClampAtZero(inventory[v].reservedQuantity - n)
             /\ inventory'[v].quantity = inventory[v].quantity
             /\ inventory'[v].ledger = inventory[v].ledger
  <1> DEFINE n == orders[job.order].items[v]
  <1>1. job.order \in Orders /\ n \in Nat /\ inventory[v] \in InventoryRow
    BY JobSteps, ItemsType DEF TypeOK
  <1>2. job.reserved[v] = inventory[v].reservedQuantity
    BY DEF JobReadsTruth, JobCommit
  <1>3. CASE n = 0
    <2>1. inventory'[v] = inventory[v]
      BY <1>3 DEF JobCommit
    <2> QED BY <1>1, <1>3, <2>1 DEF InventoryRow, ClampAtZero
  <1>4. CASE n # 0
    <2> DEFINE left == ClampAtZero(inventory[v].reservedQuantity - n)
    <2>1. inventory'[v] = [inventory[v] EXCEPT !.reservedQuantity = left]
      BY <1>2, <1>4 DEF JobCommit
    <2> HIDE DEF left
    <2>2. /\ inventory'[v].reservedQuantity = left /\ inventory'[v].quantity = inventory[v].quantity
          /\ inventory'[v].ledger = inventory[v].ledger
      BY <1>1, <2>1 DEF InventoryRow
    <2> QED BY <1>1, <2>2 DEF left
  <1> QED BY <1>3, <1>4

LEMMA ExactStep ==
  ASSUME JobIsAlone, ExactInv, [Next]_vars
  PROVE  ExactInv'
  <1>1. /\ TypeOK /\ TypeOK' /\ KindInv /\ KindInv' /\ JobReadsTruth /\ JobReadsTruth'
        /\ Exclusive /\ Fresh /\ ExclusiveInv'
    BY TypeStep, KindStep, ExclusiveStep, JobReadsTruthStep, AloneIsExclusive DEF ExactInv, ExclusiveInv
  <1> DEFINE Kept(v) == inventory'[v].reservedQuantity = Promised(v)'
  <1> SUFFICES ASSUME NEW v \in Variants PROVE Kept(v)
    BY <1>1 DEF ExactInv, ExactReservation
  <1>2. inventory[v].reservedQuantity \in Nat /\ inventory[v].reservedQuantity = Promised(v)
    BY <1>1 DEF ExactInv, ExactReservation, TypeOK, InventoryRow
  <1>3. ASSUME NEW o \in Orders, NEW items \in Baskets, NEW method \in Methods,
               Checkout(o, items, method) \/ CreatePosOrder(o, items, method)
        PROVE  Kept(v)
    <2>1. items \in [Variants -> Nat]
      BY StockAssumption DEF Baskets, Quantities
    <2>2. Share(o, v) = 0
      BY <1>1, <1>3, Shares, CreationSteps DEF OpenStatuses, OrderStatus
    <2>3. /\ Promised(v) \in Nat /\ Promised(v)' \in Nat /\ Share(o, v)' \in Nat
          /\ Promised(v)' = Promised(v) + Share(o, v)'
      BY <1>1, <1>3, <2>2, CreationSteps, PromisedChanges
    <2>4. CASE Checkout(o, items, method)
      <3>1. orders'[o].status = "PLACED" /\ orders'[o].items = items
        BY <1>1, <1>3, <2>4, CreationSteps DEF Checkout, TypeOK, NewOrder, Blank
      <3>2. Share(o, v)' = items[v]
        BY <1>1, <3>1, Shares DEF OpenStatuses, OrderStatus, TerminalStatuses
      <3>3. inventory'[v].reservedQuantity = inventory[v].reservedQuantity + items[v]
        BY <1>1, <2>1, <2>4, BasketFields DEF Checkout
      <3> QED BY <1>2, <2>1, <2>3, <3>2, <3>3
    <2>5. CASE CreatePosOrder(o, items, method)
      <3>1. inventory'[v].reservedQuantity = inventory[v].reservedQuantity
        BY <1>1, <2>1, <2>5, BasketFields DEF CreatePosOrder
      <3>2. orders'[o].status = "COMPLETED"
        BY <1>1, <2>5, NewOrderFields DEF CreatePosOrder, CounterOrder, TypeOK
      <3>3. Share(o, v)' = 0
        BY <1>1, <3>2, Shares DEF OpenStatuses, TerminalStatuses
      <3> QED BY <1>2, <2>3, <3>1, <3>3
    <2> QED BY <1>3, <2>4, <2>5
  <1>4. ASSUME NEW o \in Orders, orders[o].status \in OpenStatuses,
               orders'[o].status \in TerminalStatuses,
               \A x \in Orders \ {o} : orders'[x] = orders[x],
               inventory'[v].reservedQuantity =
                 ClampAtZero(inventory[v].reservedQuantity - orders[o].items[v])
        PROVE  Kept(v)
    <2>1. Share(o, v)' = 0 /\ Share(o, v) = orders[o].items[v] /\ orders[o].items[v] \in Nat
      BY <1>1, <1>4, Shares DEF OpenStatuses
    <2>2. /\ Promised(v) \in Nat /\ Promised(v)' \in Nat /\ Share(o, v) <= Promised(v)
          /\ Promised(v)' - Share(o, v)' = Promised(v) - Share(o, v)
      BY <1>1, <1>4, PromisedChanges
    <2> QED BY <1>2, <1>4, <2>1, <2>2 DEF ClampAtZero
  <1>5. ASSUME NEW p \in Procs, RejectTx(p) \/ CancelTx(p) \/ CompleteTx(p)
        PROVE  Kept(v)
    <2>1. req[p].order \in Orders /\ orders[req[p].order].status \in OpenStatuses
      BY <1>1, <1>5, TxFields DEF Fresh, RejectTx, CancelTx, CompleteTx
    <2>2. \A x \in Orders \ {req[p].order} : orders'[x] = orders[x]
      BY <1>1, <1>5, ProcSteps
    <2> QED BY <1>1, <1>4, <1>5, <2>1, <2>2, TxFields
  <1>6. CASE JobCommit
    <2>1. job.order \in Orders /\ orders[job.order].status \in OpenStatuses
      BY <1>1, <1>6, JobSteps DEF Fresh, JobCommit
    <2>2. orders'[job.order].status \in TerminalStatuses
          /\ \A x \in Orders \ {job.order} : orders'[x] = orders[x]
      BY <1>1, <1>6, JobSteps DEF TerminalStatuses
    <2> QED BY <1>1, <1>4, <1>6, <2>1, <2>2, JobFields
  <1>7. ASSUME UNCHANGED inventory \/ OwnersStep,
               \A x \in Orders : /\ orders'[x].status \in OpenStatuses <=> orders[x].status \in OpenStatuses
                                 /\ orders'[x].items = orders[x].items
        PROVE  Kept(v)
    <2>1. inventory'[v].reservedQuantity = inventory[v].reservedQuantity
      BY <1>1, <1>7, AdjustFields, SwitchFields DEF OwnersStep
    <2>2. Promised(v)' = Promised(v)
      BY <1>7, PromisedStays
    <2> QED BY <1>2, <2>1, <2>2
  <1>8. ASSUME NEW p \in Procs, UpdateStatus(p)
        PROVE  Kept(v)
    <2>1. /\ orders[req[p].order].status \in OpenStatuses /\ orders'[req[p].order].status \in OpenStatuses
          /\ UNCHANGED inventory
      BY <1>1, <1>8, UpdateOpens DEF Fresh, UpdateStatus
    <2> QED BY <1>1, <1>7, <1>8, <2>1, ProcSteps
  <1>9. ASSUME NEW p \in Procs, RecordStatusChange(p)
        PROVE  Kept(v)
    BY <1>1, <1>7, <1>9, WorkedOn DEF RecordStatusChange, TypeOK, OrderRow, Working
  <1>10. ASSUME NEW o \in Orders, Tick(o)
        PROVE  Kept(v)
    BY <1>1, <1>7, <1>10, TickSteps
  <1>11. CASE UNCHANGED orders /\ (UNCHANGED inventory \/ OwnersStep)
    BY <1>7, <1>11
  <1> HIDE DEF Kept
  <1> QED BY <1>3, <1>5, <1>6, <1>8, <1>9, <1>10, <1>11, StepCases
    DEF OwnersStep, AdjustStockOf, SwitchVariant, ReadForStep, ReadForTx, CustomerCancelOrder, Abort, JobScan, JobRead, JobFail, vars

LEMMA ExactInit == Init => ExactInv
  <1> SUFFICES ASSUME Init PROVE ExactInv
    OBVIOUS
  <1>1. TypeOK /\ KindInv /\ Exclusive /\ Fresh
    BY TypeInit, KindInit DEF Init, Exclusive, Fresh, Working, Idle, NoJob
  <1>2. JobReadsTruth
    BY DEF Init, JobReadsTruth, NoJob
  <1>3. ASSUME NEW v \in Variants PROVE inventory[v].reservedQuantity = Promised(v)
    <2>1. inventory[v].reservedQuantity = 0
      BY DEF Init, InitInventory
    <2>2. OpenIn(orders) = {}
      BY DEF Init, Blank, OpenIn, OpenStatuses, OrderStatus
    <2>3. UnitsOf(orders, OpenIn(orders), v) = {}
      BY <2>2 DEF UnitsOf
    <2> QED BY <2>1, <2>3, PromisedIs, FS_EmptySet
  <1> QED BY <1>1, <1>2, <1>3 DEF ExactInv, ExclusiveInv, ExactReservation

\* Where requests on one order do not overlap and the timeout job runs by itself: checkout, accept,
\* reject, complete, both cancels, the counter, corrections and the job, with requests that die at
\* any point, keep the reservation column equal to what the open orders were promised.
THEOREM ReservationIsExact ==
  ASSUME JobIsAlone PROVE Spec => []ExactReservation
  <1>1. Init => ExactInv
    BY ExactInit
  <1>2. ExactInv /\ [Next]_vars => ExactInv'
    BY ExactStep
  <1>3. ExactInv => ExactReservation
    BY DEF ExactInv
  <1> QED BY <1>1, <1>2, <1>3, PTL DEF Spec

-------------------------------------------------------------------------------
(* The shelf covers what is promised, and is explained by orders and ledger *)

\* The store has no counter and its owner only adds stock.
OnlineStore == "pos" \notin Ops /\ ChangeQtys \subseteq Nat

\* The counters of a row, after a step.
LEMMA CountersStep ==
  ASSUME OnlineStore, JobIsAlone, ExactInv, NoOverReservation, [Next]_vars, NEW v \in Variants
  PROVE  /\ inventory'[v].reservedQuantity <= inventory'[v].quantity
         /\ inventory'[v].ledger - inventory'[v].quantity = inventory[v].ledger - inventory[v].quantity
         /\ \A p \in Procs : CompleteTx(p) =>
              inventory'[v].quantity = inventory[v].quantity - orders[req[p].order].items[v]
  <1> DEFINE old == inventory[v]
             new == inventory'[v]
             Goal == /\ new.reservedQuantity <= new.quantity
                     /\ new.ledger - new.quantity = old.ledger - old.quantity
  <1>1. /\ TypeOK /\ KindInv /\ JobReadsTruth /\ Fresh
        /\ old.quantity \in Nat /\ old.reservedQuantity \in Nat /\ old.ledger \in Int
        /\ old.reservedQuantity <= old.quantity /\ old.reservedQuantity = Promised(v)
    BY DEF ExactInv, ExclusiveInv, ExactReservation, NoOverReservation, TypeOK, InventoryRow
  <1>2. ASSUME NEW o \in Orders, NEW items \in Baskets, NEW method \in Methods,
               Checkout(o, items, method)
        PROVE  Goal
    <2>1. items \in [Variants -> Nat]
      BY StockAssumption DEF Baskets, Quantities
    <2>2. /\ new.reservedQuantity = old.reservedQuantity + items[v]
          /\ new.quantity = old.quantity /\ new.ledger = old.ledger
      BY <1>1, <1>2, <2>1, BasketFields DEF Checkout
    <2>3. items[v] > 0 => old.quantity - old.reservedQuantity >= items[v]
      BY <1>2 DEF Checkout, EveryItem, CanReserveStock, Available
    <2> HIDE DEF old, new
    <2> QED BY <1>1, <2>1, <2>2, <2>3
  <1>3. ASSUME NEW w \in Variants, NEW n \in ChangeQtys, AdjustStockOf(w, n)
        PROVE  Goal
    <2>1. n \in Nat
      BY DEF OnlineStore
    <2> QED BY <1>1, <1>3, <2>1, AdjustFields
  <1>8. ASSUME NEW w \in Variants, NEW on \in BOOLEAN, SwitchVariant(w, on)
        PROVE  Goal
    <2>1. /\ new.quantity = old.quantity /\ new.reservedQuantity = old.reservedQuantity
          /\ new.ledger = old.ledger
      BY <1>1, <1>8, SwitchFields
    <2> HIDE DEF old, new
    <2> QED BY <1>1, <2>1
  <1>4. ASSUME NEW p \in Procs, RejectTx(p) \/ CancelTx(p) \/ CompleteTx(p)
        PROVE  Goal /\ (CompleteTx(p) => new.quantity = old.quantity - orders[req[p].order].items[v])
    <2> DEFINE n == orders[req[p].order].items[v]
    <2>1. /\ req[p].order \in Orders /\ n \in Nat
          /\ new.reservedQuantity = ClampAtZero(old.reservedQuantity - n)
          /\ CompleteTx(p) => new.quantity = ClampAtZero(old.quantity - n) /\ new.ledger = old.ledger - n
          /\ ~CompleteTx(p) => new.quantity = old.quantity /\ new.ledger = old.ledger
      BY <1>1, <1>4, TxFields
    <2>2. orders[req[p].order].status \in OpenStatuses
      BY <1>1, <1>4 DEF Fresh, RejectTx, CancelTx, CompleteTx
    <2>3. n <= Promised(v)
      BY <1>1, <2>1, <2>2, PromisedCovers
    <2> HIDE DEF n, old, new
    <2>4. CASE CompleteTx(p)
      BY <1>1, <2>1, <2>3, <2>4 DEF ClampAtZero, n
    <2>5. CASE ~CompleteTx(p)
      BY <1>1, <2>1, <2>3, <2>5 DEF ClampAtZero
    <2> QED BY <2>4, <2>5
  <1>5. ASSUME JobCommit
        PROVE  Goal
    <2> DEFINE n == orders[job.order].items[v]
    <2>1. /\ n \in Nat /\ new.quantity = old.quantity /\ new.ledger = old.ledger
          /\ new.reservedQuantity = ClampAtZero(old.reservedQuantity - n)
      BY <1>1, <1>5, JobFields
    <2> HIDE DEF n, old, new
    <2> QED BY <1>1, <2>1 DEF ClampAtZero
  <1>6. ASSUME UNCHANGED inventory
        PROVE  Goal
    <2>1. new = old
      BY <1>6
    <2> HIDE DEF old, new
    <2> QED BY <1>1, <2>1
  <1>7. Goal
    <2> HIDE DEF Goal
    <2> QED BY <1>2, <1>3, <1>4, <1>5, <1>6, <1>8, StepCases
      DEF OnlineStore, CreatePosOrder, ReadForStep, ReadForTx, CustomerCancelOrder, UpdateStatus,
          RecordStatusChange, Abort, JobScan, JobRead, JobFail, Tick, vars
  <1> QED BY <1>4, <1>7

ShelfInv == ExactInv /\ NoOverReservation

LEMMA ShelfStep == OnlineStore /\ JobIsAlone /\ ShelfInv /\ [Next]_vars => ShelfInv'
  BY ExactStep, CountersStep DEF ShelfInv, NoOverReservation

LEMMA ShelfInit == Init => ShelfInv
  <1>1. Init => NoOverReservation
    BY StockAssumption DEF Init, NoOverReservation, InitInventory
  <1> QED BY <1>1, ExactInit DEF ShelfInv

\* An online store whose requests on one order do not overlap, and whose timeout job runs by
\* itself: whatever is ordered, called off or delivered, and wherever requests die, the open
\* orders can all be served from the shelf.
THEOREM NothingIsOversold ==
  ASSUME OnlineStore, JobIsAlone PROVE Spec => []NoOversell
  <1>1. ShelfInv /\ [Next]_vars => ShelfInv'
    BY ShelfStep
  <1>2. ShelfInv => NoOversell
    BY DEF ShelfInv, ExactInv, ExactReservation, NoOverReservation, NoOversell
  <1> QED BY ShelfInit, <1>1, <1>2, PTL DEF Spec

\* What is done with the goods of an order.
LEMMA SoldOnceStep ==
  ASSUME Overlap # "any", ExclusiveInv, KindInv, SoldOnce, [Next]_vars
  PROVE  SoldOnce'
  <1> DEFINE Sold(row) == row.sales = IF row.status = "COMPLETED" THEN 1 ELSE 0
  <1> SUFFICES ASSUME NEW x \in Orders PROVE Sold(orders'[x])
    BY DEF SoldOnce
  <1>1. TypeOK /\ Fresh /\ Sold(orders[x])
    BY DEF ExclusiveInv, SoldOnce
  <1>2. \A s \in OpenStatuses : s # "COMPLETED"
    BY OpenIsOrdered
  <1>3. ASSUME NEW o \in Orders, NEW items \in Baskets, NEW method \in Methods,
               Checkout(o, items, method) \/ CreatePosOrder(o, items, method)
        PROVE  Sold(orders'[x])
    <2>1. CASE x = o
      BY <1>1, <1>3, <2>1, CreationSteps
    <2>2. CASE x # o
      BY <1>1, <1>3, <2>2, CreationSteps
    <2> QED BY <2>1, <2>2
  <1>4. ASSUME NEW p \in Procs, UpdateStatus(p)
        PROVE  Sold(orders'[x])
    <2>1. orders[req[p].order].status \in OpenStatuses /\ orders'[req[p].order].status \in OpenStatuses
      BY <1>1, <1>4, UpdateOpens DEF Fresh, UpdateStatus
    <2>2. orders'[x].sales = orders[x].sales
      BY <1>1, <1>4 DEF UpdateStatus, TypeOK, OrderRow
    <2>3. x # req[p].order => orders'[x] = orders[x]
      BY <1>1, <1>4, ProcSteps
    <2> QED BY <1>1, <1>2, <2>1, <2>2, <2>3
  <1>5. ASSUME NEW p \in Procs, RejectTx(p) \/ CancelTx(p) \/ CompleteTx(p)
        PROVE  Sold(orders'[x])
    <2>1. CASE x # req[p].order
      BY <1>1, <1>5, <2>1, ProcSteps
    <2>2. CASE x = req[p].order
      <3>1. orders[x].status \in OpenStatuses /\ orders[x].channel = "APP" /\ orders[x].sales = 0
        BY <1>1, <1>2, <1>5, <2>2 DEF Fresh, RejectTx, CancelTx, CompleteTx, KindInv, AppRow, Working
      <3>2. \/ orders'[x] = Ended(orders[x], req[p].seen, "REJECTED")
            \/ orders'[x] = Ended(orders[x], req[p].seen, "CANCELLED")
            \/ orders'[x] = Completed(orders[x], req[p].seen)
        BY <1>1, <1>5, <2>2 DEF RejectTx, CancelTx, CompleteTx, TypeOK
      <3>3. orders[x] \in OrderRow
        BY <1>1 DEF TypeOK
      <3>4. /\ Ended(orders[x], req[p].seen, "REJECTED").status = "REJECTED"
            /\ Ended(orders[x], req[p].seen, "REJECTED").sales = 0
            /\ Ended(orders[x], req[p].seen, "CANCELLED").status = "CANCELLED"
            /\ Ended(orders[x], req[p].seen, "CANCELLED").sales = 0
        BY <3>1, <3>3 DEF Ended, OrderRow
      <3>5. /\ Completed(orders[x], req[p].seen).status = "COMPLETED"
            /\ Completed(orders[x], req[p].seen).sales = 1
        BY <3>1, <3>3 DEF Completed, OrderRow
      <3> QED BY <3>2, <3>4, <3>5
    <2> QED BY <2>1, <2>2
  <1>6. CASE JobCommit
    <2>1. orders[job.order].status \in OpenStatuses
      BY <1>1, <1>6 DEF Fresh, JobCommit
    <2> QED BY <1>1, <1>2, <1>6, <2>1, JobSteps
  <1>7. ASSUME NEW p \in Procs, RecordStatusChange(p)
        PROVE  Sold(orders'[x])
    BY <1>1, <1>7 DEF RecordStatusChange, TypeOK, OrderRow
  <1>8. ASSUME NEW o \in Orders, Tick(o)
        PROVE  Sold(orders'[x])
    BY <1>1, <1>8, TickSteps
  <1>9. CASE UNCHANGED orders
    BY <1>1, <1>9
  <1> HIDE DEF Sold
  <1> QED BY <1>3, <1>4, <1>5, <1>6, <1>7, <1>8, <1>9, StepCases
    DEF AdjustStockOf, SwitchVariant, ReadForStep, ReadForTx, CustomerCancelOrder, Abort, JobScan, JobRead, JobFail, vars

\* In the same store: the goods of an order leave the shelf exactly once, when it is completed,
\* and the adjustment rows of a variant add up to what is on the shelf.  No commit is clamped,
\* because what an order takes was reserved and what is reserved is there.
THEOREM GoodsAreTraced ==
  ASSUME OnlineStore, JobIsAlone PROVE Spec => []GoodsTraced
  <1> DEFINE TraceInv == ShelfInv /\ GoodsTraced
  <1>1. Init => TraceInv
    <2>1. Init => SoldOnce
      BY DEF Init, SoldOnce, Blank
    <2>2. Init => LedgerExact
      BY DEF Init, LedgerExact, InitInventory
    <2> QED BY <2>1, <2>2, ShelfInit DEF GoodsTraced
  <1>2. TraceInv /\ [Next]_vars => TraceInv'
    <2> SUFFICES ASSUME TraceInv, [Next]_vars PROVE TraceInv'
      OBVIOUS
    <2>1. ShelfInv'
      BY ShelfStep
    <2>2. SoldOnce'
      BY SoldOnceStep, AloneIsExclusive DEF ShelfInv, ExactInv, GoodsTraced
    <2>3. ASSUME NEW v \in Variants PROVE inventory'[v].ledger = inventory'[v].quantity
      <3>1. inventory'[v] \in InventoryRow /\ inventory[v] \in InventoryRow
        BY <2>1 DEF ShelfInv, ExactInv, ExclusiveInv, TypeOK
      <3>2. inventory'[v].ledger - inventory'[v].quantity = inventory[v].ledger - inventory[v].quantity
        BY CountersStep DEF ShelfInv
      <3>3. inventory[v].ledger = inventory[v].quantity
        BY DEF GoodsTraced, LedgerExact
      <3> QED BY <3>1, <3>2, <3>3 DEF InventoryRow
    <2> QED BY <2>1, <2>2, <2>3 DEF GoodsTraced, LedgerExact
  <1>3. TraceInv => GoodsTraced
    OBVIOUS
  <1> HIDE DEF TraceInv
  <1> QED BY <1>1, <1>2, <1>3, PTL DEF Spec

-------------------------------------------------------------------------------
(* Who changes what *)

\* The row of an order changes by its creation, by a request or the job at work on it, or ages.
LEMMA WhoChangesOrder ==
  ASSUME TypeOK, [Next]_vars, NEW x \in Orders
  PROVE  \/ orders'[x] = orders[x]
         \/ orders'[x] = [orders[x] EXCEPT !.age = @ + 1] /\ UNCHANGED <<req, job>>
         \/ \E items \in Baskets, method \in Methods :
              Checkout(x, items, method) \/ CreatePosOrder(x, items, method)
         \/ \E p \in Procs : /\ req[p].order = x
                             /\ \/ UpdateStatus(p) \/ RecordStatusChange(p)
                                \/ RejectTx(p) \/ CancelTx(p) \/ CompleteTx(p)
         \/ JobCommit /\ job.order = x
  <1>1. ASSUME NEW o \in Orders, NEW items \in Baskets, NEW method \in Methods,
               Checkout(o, items, method) \/ CreatePosOrder(o, items, method), o # x
        PROVE  orders'[x] = orders[x]
    BY <1>1, CreationSteps
  <1>2. ASSUME NEW p \in Procs, req[p].order # x,
               UpdateStatus(p) \/ RecordStatusChange(p) \/ RejectTx(p) \/ CancelTx(p) \/ CompleteTx(p)
        PROVE  orders'[x] = orders[x]
    BY <1>2, ProcSteps
  <1>3. JobCommit /\ job.order # x => orders'[x] = orders[x]
    BY JobSteps
  <1>4. ASSUME NEW o \in Orders, Tick(o)
        PROVE  /\ orders'[x] = orders[x] \/ orders'[x] = [orders[x] EXCEPT !.age = @ + 1]
               /\ UNCHANGED <<req, job>>
    BY <1>4, TickSteps
  <1>5. CASE UNCHANGED orders
    BY <1>5
  <1> QED BY <1>1, <1>2, <1>3, <1>4, <1>5, StepCases
    DEF AdjustStockOf, SwitchVariant, ReadForStep, ReadForTx, CustomerCancelOrder, Abort, JobScan, JobRead, JobFail, vars

\* A request changes by reading an order, by its update, or ends.
LEMMA WhoChangesRequest ==
  ASSUME TypeOK, [Next]_vars, NEW q \in Procs
  PROVE  \/ req'[q] = req[q]
         \/ \E o \in Orders :
              /\ MayStart(q, o) \/ (req[q].step = "read" /\ req[q].order = o)
              /\ UNCHANGED <<orders, inventory, job>>
              /\ orders[o].status \in OpenStatuses
              /\ req'[q].order = o /\ req'[q].seen = orders[o].status
              /\ req'[q].step \in {"read", "update", "tx"}
              /\ req'[q].step # "read" => orders[o].status \in AllowedFrom(req'[q].op)
              /\ req'[q].step = "update" => req'[q].op \in StepOps
              /\ req'[q].step = "tx" => req'[q].op \in TxOps
         \/ UpdateStatus(q)
         \/ /\ RecordStatusChange(q) \/ RejectTx(q) \/ CancelTx(q) \/ CompleteTx(q) \/ Abort(q)
            /\ req'[q] = Idle
  <1>1. ASSUME NEW p \in Procs, NEW o \in Orders,
               \/ \E op \in StepOps : ReadForStep(p, o, op)
               \/ \E op \in TxOps : ReadForTx(p, o, op)
               \/ CustomerCancelOrder(p, o)
        PROVE  /\ UNCHANGED <<orders, inventory, job>>
               /\ orders[o].status \in OpenStatuses
               /\ q # p => req'[q] = req[q]
               /\ req'[p].order = o /\ req'[p].seen = orders[o].status
               /\ req'[p].step \in {"read", "update", "tx"}
               /\ req'[p].step # "read" => orders[o].status \in AllowedFrom(req'[p].op)
               /\ req'[p].step = "update" => req'[p].op \in StepOps
               /\ req'[p].step = "tx" => req'[p].op \in TxOps
    BY <1>1, ReadSteps
  <1>2. ASSUME NEW p \in Procs, q # p,
               UpdateStatus(p) \/ RecordStatusChange(p) \/ RejectTx(p) \/ CancelTx(p) \/ CompleteTx(p) \/ Abort(p)
        PROVE  req'[q] = req[q]
    BY <1>2, ProcSteps
  <1>3. ASSUME RecordStatusChange(q) \/ RejectTx(q) \/ CancelTx(q) \/ CompleteTx(q) \/ Abort(q)
        PROVE  req'[q] = Idle
    BY <1>3 DEF RecordStatusChange, RejectTx, CancelTx, CompleteTx, Abort, Finish, TypeOK
  <1>4. CASE UNCHANGED req
    BY <1>4
  <1>5. \A o \in Orders : (\E op \in StepOps : ReadForStep(q, o, op)) \/ CustomerCancelOrder(q, o) => MayStart(q, o)
    BY DEF ReadForStep, CustomerCancelOrder
  <1> DEFINE Started == \E o \in Orders :
                          /\ MayStart(q, o) \/ (req[q].step = "read" /\ req[q].order = o)
                          /\ UNCHANGED <<orders, inventory, job>>
                          /\ orders[o].status \in OpenStatuses
                          /\ req'[q].order = o /\ req'[q].seen = orders[o].status
                          /\ req'[q].step \in {"read", "update", "tx"}
                          /\ req'[q].step # "read" => orders[o].status \in AllowedFrom(req'[q].op)
                          /\ req'[q].step = "update" => req'[q].op \in StepOps
                          /\ req'[q].step = "tx" => req'[q].op \in TxOps
  <1>6. ASSUME NEW p \in Procs, NEW o \in Orders,
               \/ \E op \in StepOps : ReadForStep(p, o, op)
               \/ (MayStart(p, o) \/ (req[p].step = "read" /\ req[p].order = o))
                    /\ \E op \in TxOps : ReadForTx(p, o, op)
               \/ CustomerCancelOrder(p, o)
        PROVE  req'[q] = req[q] \/ Started
    <2>1. CASE q # p
      BY <1>1, <1>6, <2>1
    <2>2. CASE q = p
      <3>1. MayStart(q, o) \/ (req[q].step = "read" /\ req[q].order = o)
        BY <1>5, <1>6, <2>2
      <3> QED BY <1>1, <1>6, <2>2, <3>1
    <2> QED BY <2>1, <2>2
  <1>7. ASSUME NEW p \in Procs,
               UpdateStatus(p) \/ RecordStatusChange(p) \/ RejectTx(p) \/ CancelTx(p) \/ CompleteTx(p) \/ Abort(p)
        PROVE  \/ req'[q] = req[q]
               \/ UpdateStatus(q)
               \/ /\ RecordStatusChange(q) \/ RejectTx(q) \/ CancelTx(q) \/ CompleteTx(q) \/ Abort(q)
                  /\ req'[q] = Idle
    BY <1>2, <1>3, <1>7
  <1> HIDE DEF Started
  <1>8. \/ req'[q] = req[q] \/ Started \/ UpdateStatus(q)
        \/ /\ RecordStatusChange(q) \/ RejectTx(q) \/ CancelTx(q) \/ CompleteTx(q) \/ Abort(q)
           /\ req'[q] = Idle
    BY <1>4, <1>6, <1>7, StepCases
    DEF Checkout, CreatePosOrder, AdjustStockOf, SwitchVariant, JobScan, JobRead, JobCommit, JobFail, Tick, vars
  <1> QED BY <1>8 DEF Started

\* The job lists stale orders, takes the next one, or is done with one.
LEMMA WhoChangesJob ==
  ASSUME [Next]_vars
  PROVE  \/ UNCHANGED job
         \/ /\ \A t \in job'.todo : \E o \in StaleOrders : t = <<o, orders[o].status>>
            /\ job'.order = NoOrder /\ UNCHANGED <<orders, req>>
         \/ /\ \E t \in job.todo : job'.todo = job.todo \ {t} /\ job'.order = t[1] /\ job'.seen = t[2]
            /\ job.order = NoOrder /\ UNCHANGED <<orders, req>>
         \/ (JobCommit \/ JobFail) /\ job'.todo = job.todo /\ job'.order = NoOrder
  <1>1. JobScan => /\ \A t \in job'.todo : \E o \in StaleOrders : t = <<o, orders[o].status>>
                   /\ job'.order = NoOrder /\ UNCHANGED <<orders, req>>
    BY DEF JobScan, NoJob
  <1>2. JobRead => /\ \E t \in job.todo : job'.todo = job.todo \ {t} /\ job'.order = t[1] /\ job'.seen = t[2]
                   /\ job.order = NoOrder /\ UNCHANGED <<orders, req>>
    BY DEF JobRead
  <1>3. JobCommit \/ JobFail => job'.todo = job.todo /\ job'.order = NoOrder
    BY DEF JobCommit, JobFail, NoJob
  <1>4. UNCHANGED job \/ JobScan \/ JobRead \/ JobCommit \/ JobFail
    BY StepCases DEF Checkout, CreatePosOrder, AdjustStockOf, SwitchVariant, ReadForStep, ReadForTx,
      CustomerCancelOrder, UpdateStatus, RecordStatusChange, RejectTx, CancelTx, CompleteTx, Abort, Tick, vars
  <1> QED BY <1>1, <1>2, <1>3, <1>4

\* Where requests on one order do not overlap, the status of an order stays while another
\* request, or the job, is at work on it and does not move.
LEMMA KeptWhileBusy ==
  ASSUME Overlap # "any", ExclusiveInv, [Next]_vars, NEW x \in Orders
  PROVE  /\ \A q \in Procs : Working(q) /\ req[q].order = x /\ req'[q] = req[q] =>
              /\ orders'[x].status = orders[x].status /\ orders'[x].history = orders[x].history
         /\ (\E t \in job.todo : t[1] = x) \/ (job.order = x /\ ~JobCommit) =>
              \/ orders'[x] = orders[x]
              \/ orders'[x] = [orders[x] EXCEPT !.age = @ + 1]
  <1>1. TypeOK /\ Exclusive /\ orders[x] \in OrderRow
    BY DEF ExclusiveInv, TypeOK
  <1>2. ASSUME NEW items \in Baskets, NEW method \in Methods,
               Checkout(x, items, method) \/ CreatePosOrder(x, items, method)
        PROVE  (\A q \in Procs : Working(q) => req[q].order # x) /\ job.order # x /\ \A t \in job.todo : t[1] # x
    BY <1>1, <1>2, CreationSteps, TouchedAlone
  <1>3. ASSUME NEW p \in Procs, req[p].order = x,
               UpdateStatus(p) \/ RecordStatusChange(p) \/ RejectTx(p) \/ CancelTx(p) \/ CompleteTx(p)
        PROVE  /\ \A q \in Procs : Working(q) /\ req[q].order = x => q = p
               /\ job.order # x /\ \A t \in job.todo : t[1] # x
               /\ req'[p] # req[p]
    <2>1. Working(p) /\ req'[p].step \in {"history", "idle"} /\ req'[p].step # req[p].step
      <3>1. CASE UpdateStatus(p)
        <4>1. req[p].step = "update"
          BY <3>1 DEF UpdateStatus
        <4>2. req'[p].step = "history" \/ req'[p] = Idle
          BY <1>1, <3>1, ProcSteps
        <4> QED BY <4>1, <4>2 DEF Working, Idle
      <3>2. CASE ~UpdateStatus(p)
        BY <1>1, <1>3, <3>2, ProcSteps DEF Working, Idle, RecordStatusChange, RejectTx, CancelTx, CompleteTx, Finish, TypeOK
      <3> QED BY <3>1, <3>2
    <2> QED BY <1>1, <1>3, <2>1 DEF Exclusive
  <1>4. JobCommit /\ job.order = x =>
          /\ \A q \in Procs : Working(q) => req[q].order # x
          /\ \A t \in job.todo : t[1] # x
    BY <1>1 DEF Exclusive
  <1>5. ASSUME orders'[x] = orders[x] \/ orders'[x] = [orders[x] EXCEPT !.age = @ + 1]
        PROVE  orders'[x].status = orders[x].status /\ orders'[x].history = orders[x].history
    BY <1>1, <1>5 DEF OrderRow
  <1> QED BY <1>1, <1>2, <1>3, <1>4, <1>5, WhoChangesOrder

-------------------------------------------------------------------------------
(* An ended order is touched by what read it before only *)

\* The timeout job has an order once: on its list, or in hand.
JobOnce ==
  \A t \in job.todo : /\ t[1] # job.order
                      /\ \A u \in job.todo : u[1] = t[1] => u = t

LEMMA JobOnceStep ==
  ASSUME TypeOK, JobOnce, [Next]_vars
  PROVE  JobOnce'
  <1>1. \A t \in job.todo : t[1] \in Orders
    BY DEF TypeOK, JobRun
  <1>2. CASE UNCHANGED job
    BY <1>2 DEF JobOnce
  <1>3. CASE /\ \A t \in job'.todo : \E o \in StaleOrders : t = <<o, orders[o].status>>
             /\ job'.order = NoOrder /\ UNCHANGED <<orders, req>>
    BY <1>3, StaleIsOpen, OrdersAssumption DEF JobOnce
  <1>4. CASE /\ \E t \in job.todo : job'.todo = job.todo \ {t} /\ job'.order = t[1] /\ job'.seen = t[2]
             /\ job.order = NoOrder /\ UNCHANGED <<orders, req>>
    BY <1>4 DEF JobOnce
  <1>5. CASE (JobCommit \/ JobFail) /\ job'.todo = job.todo /\ job'.order = NoOrder
    BY <1>1, <1>5, OrdersAssumption DEF JobOnce
  <1> QED BY <1>2, <1>3, <1>4, <1>5, WhoChangesJob

\* Nothing starts on an ended order.
LEMMA NothingStarts ==
  ASSUME TypeOK, [Next]_vars, NEW o \in Orders, orders[o].status \in TerminalStatuses
  PROVE  LateHandlers(o)' \subseteq LateHandlers(o) /\ (LateJob(o)' => LateJob(o))
  <1>1. orders[o].status \notin OpenStatuses
    BY DEF OpenStatuses
  <1>2. ASSUME NEW q \in Procs, req'[q].order = o, req'[q].step \in {"update", "tx"}
        PROVE  req[q].order = o /\ req[q].step \in {"update", "tx"}
    <2>1. CASE UpdateStatus(q)
      BY <1>2, <2>1 DEF UpdateStatus, TypeOK
    <2>2. Idle.step \notin {"update", "tx"}
      BY DEF Idle
    <2> QED BY <1>1, <1>2, <2>1, <2>2, WhoChangesRequest
  <1>3. LateHandlers(o)' \subseteq LateHandlers(o)
    BY <1>2 DEF LateHandlers
  <1>4. ASSUME LateJob(o)' PROVE LateJob(o)
    <2>1. \A x \in StaleOrders : x # o
      BY <1>1, StaleIsOpen
    <2> QED BY <1>4, <2>1, WhoChangesJob, OrdersAssumption DEF LateJob
  <1> QED BY <1>3, <1>4

\* What writes the status of an ended order has done so.
LEMMA WritersAreDone ==
  ASSUME TypeOK, JobOnce, [Next]_vars, NEW o \in Orders, orders[o].status \in TerminalStatuses,
         orders'[o].status # orders[o].status
  PROVE  LateHandlers(o)' # LateHandlers(o) \/ LateJob(o)' # LateJob(o)
  <1>1. orders[o] \in OrderRow /\ orders[o].status # "NONE"
    BY DEF TypeOK, TerminalStatuses
  <1>2. orders'[o] # orders[o] /\ orders'[o] # [orders[o] EXCEPT !.age = @ + 1]
    BY <1>1 DEF OrderRow
  <1>3. ASSUME NEW items \in Baskets, NEW method \in Methods,
               Checkout(o, items, method) \/ CreatePosOrder(o, items, method)
        PROVE  FALSE
    BY <1>1, <1>3 DEF Checkout, CreatePosOrder
  <1>4. ASSUME NEW p \in Procs, req[p].order = o,
               UpdateStatus(p) \/ RejectTx(p) \/ CancelTx(p) \/ CompleteTx(p)
        PROVE  LateHandlers(o)' # LateHandlers(o)
    <2>1. p \in LateHandlers(o)
      BY <1>4 DEF LateHandlers, UpdateStatus, RejectTx, CancelTx, CompleteTx
    <2>2. req'[p].step \notin {"update", "tx"}
      <3>1. CASE UpdateStatus(p)
        BY <3>1 DEF UpdateStatus, TypeOK
      <3>2. CASE ~UpdateStatus(p)
        <4>1. Finish(p)
          BY <1>4, <3>2 DEF RejectTx, CancelTx, CompleteTx
        <4> QED BY <4>1 DEF Finish, Idle, TypeOK
      <3> QED BY <3>1, <3>2
    <2> QED BY <2>1, <2>2 DEF LateHandlers
  <1>5. ASSUME NEW p \in Procs, req[p].order = o, RecordStatusChange(p)
        PROVE  FALSE
    BY <1>1, <1>5 DEF RecordStatusChange, TypeOK, OrderRow
  <1>6. ASSUME JobCommit, job.order = o
        PROVE  LateJob(o) /\ ~LateJob(o)'
    <2>1. job'.todo = job.todo /\ job'.order = NoOrder
      BY <1>6 DEF JobCommit, NoJob
    <2>2. \A t \in job.todo : t[1] # o
      BY <1>6 DEF JobOnce
    <2> QED BY <1>6, <2>1, <2>2, OrdersAssumption DEF LateJob
  <1> QED BY <1>2, <1>3, <1>4, <1>5, <1>6, WhoChangesOrder

\* The exclusion of requests on one order, where the environment keeps it.
EndedInv == TypeOK /\ JobOnce /\ (Overlap # "any" => Exclusive /\ Fresh)

\* However requests and the timeout job overlap, on one order too, and wherever they die: a
\* COMPLETED, CANCELLED or REJECTED order is written by what had read it before it ended, once
\* each, and by nothing else; where requests on one order do not overlap, by nothing at all.
THEOREM TerminalStatusesAreFinal == Spec => TerminalIsFinal
  <1>1. Init => EndedInv
    <2> SUFFICES ASSUME Init PROVE EndedInv
      OBVIOUS
    <2>1. Exclusive /\ Fresh /\ JobOnce
      BY DEF Init, Exclusive, Fresh, JobOnce, Working, Idle, NoJob
    <2> QED BY <2>1, TypeInit DEF EndedInv
  <1>2. EndedInv /\ [Next]_vars => EndedInv'
    BY ExclusiveStep, TypeStep, JobOnceStep DEF EndedInv, ExclusiveInv
  <1>3. EndedInv /\ [Next]_vars =>
          [\A o \in Orders : orders[o].status \in TerminalStatuses =>
             /\ LateHandlers(o)' \subseteq LateHandlers(o)
             /\ LateJob(o)' => LateJob(o)
             /\ orders'[o].status # orders[o].status =>
                  /\ Overlap = "any"
                  /\ <<LateHandlers(o), LateJob(o)>>' # <<LateHandlers(o), LateJob(o)>>]_vars
    <2> SUFFICES ASSUME EndedInv, [Next]_vars, NEW o \in Orders,
                        orders[o].status \in TerminalStatuses
                 PROVE  /\ LateHandlers(o)' \subseteq LateHandlers(o)
                        /\ LateJob(o)' => LateJob(o)
                        /\ orders'[o].status # orders[o].status =>
                             /\ Overlap = "any"
                             /\ <<LateHandlers(o), LateJob(o)>>' # <<LateHandlers(o), LateJob(o)>>
      OBVIOUS
    <2>1. TypeOK /\ JobOnce
      BY DEF EndedInv
    <2>2. Overlap # "any" => orders'[o].status = orders[o].status
      BY ExclusiveStep DEF EndedInv, ExclusiveInv, Final, StatusKept
    <2>3. orders'[o].status # orders[o].status =>
            LateHandlers(o)' # LateHandlers(o) \/ LateJob(o)' # LateJob(o)
      BY <2>1, WritersAreDone
    <2> QED BY <2>1, <2>2, <2>3, NothingStarts
  <1> QED BY <1>1, <1>2, <1>3, PTL DEF Spec, TerminalIsFinal

-------------------------------------------------------------------------------
(* What a request has read *)

\* What has been read is still the status when it is written, and the handler accepts it.
ReadsAreCurrent ==
  /\ \A p \in Procs : req[p].step \in {"update", "tx"} =>
       /\ orders[req[p].order].status = req[p].seen
       /\ req[p].seen \in AllowedFrom(req[p].op)
  /\ \A t \in job.todo : orders[t[1]].status = t[2]
  /\ job.order # NoOrder => orders[job.order].status = job.seen

LEMMA CurrentStep ==
  ASSUME Overlap # "any", ExclusiveInv, ReadsAreCurrent, [Next]_vars
  PROVE  ReadsAreCurrent'
  <1>1. TypeOK
    BY DEF ExclusiveInv
  <1>2. ASSUME NEW p \in Procs, req'[p].step \in {"update", "tx"}
        PROVE  /\ orders'[req'[p].order].status = req'[p].seen
               /\ req'[p].seen \in AllowedFrom(req'[p].op)
    <2>1. CASE req'[p] = req[p]
      <3>1. Working(p) /\ req[p].order \in Orders
        BY <1>1, <1>2, <2>1, WorkedOn DEF Working
      <3>2. orders'[req[p].order].status = orders[req[p].order].status
        BY <2>1, <3>1, KeptWhileBusy
      <3> QED BY <1>2, <2>1, <3>2 DEF ReadsAreCurrent
    <2>2. CASE \E o \in Orders :
                 /\ UNCHANGED <<orders, inventory, job>>
                 /\ req'[p].order = o /\ req'[p].seen = orders[o].status
                 /\ req'[p].step # "read" => orders[o].status \in AllowedFrom(req'[p].op)
      BY <1>2, <2>2
    <2>3. ~UpdateStatus(p)
      BY <1>1, <1>2, UpdateSteps
    <2>4. req'[p] # Idle
      BY <1>2 DEF Idle
    <2> QED BY <1>1, <2>1, <2>2, <2>3, <2>4, WhoChangesRequest
  <1>3. \A x \in Orders : (\E t \in job.todo : t[1] = x) \/ (job.order = x /\ ~JobCommit) =>
          orders'[x].status = orders[x].status
    <2> SUFFICES ASSUME NEW x \in Orders, (\E t \in job.todo : t[1] = x) \/ (job.order = x /\ ~JobCommit)
                 PROVE  orders'[x].status = orders[x].status
      OBVIOUS
    <2>1. orders[x] \in OrderRow
      BY <1>1 DEF TypeOK
    <2>2. orders'[x] = orders[x] \/ orders'[x] = [orders[x] EXCEPT !.age = @ + 1]
      BY KeptWhileBusy
    <2> QED BY <2>1, <2>2 DEF OrderRow
  <1>4. job.order \in Orders \cup {NoOrder} /\ \A t \in job.todo : t[1] \in Orders
    BY <1>1, WorkedOn
  <1>5. /\ \A t \in job'.todo : orders'[t[1]].status = t[2]
        /\ job'.order # NoOrder => orders'[job'.order].status = job'.seen
    <2>1. CASE UNCHANGED job
      <3>1. job.order # NoOrder => ~JobCommit
        BY <2>1 DEF JobCommit, NoJob
      <3> QED BY <1>3, <1>4, <2>1, <3>1 DEF ReadsAreCurrent
    <2>2. CASE /\ \A t \in job'.todo : \E o \in StaleOrders : t = <<o, orders[o].status>>
               /\ job'.order = NoOrder /\ UNCHANGED <<orders, req>>
      BY <2>2
    <2>3. CASE /\ \E t \in job.todo : job'.todo = job.todo \ {t} /\ job'.order = t[1] /\ job'.seen = t[2]
               /\ UNCHANGED <<orders, req>>
      BY <2>3 DEF ReadsAreCurrent
    <2>4. CASE job'.todo = job.todo /\ job'.order = NoOrder
      BY <1>3, <1>4, <2>4 DEF ReadsAreCurrent
    <2> QED BY <2>1, <2>2, <2>3, <2>4, WhoChangesJob
  <1> QED BY <1>2, <1>5 DEF ReadsAreCurrent

-------------------------------------------------------------------------------
(* The database behaves like the order book *)

\* What the order book sees of the tables.
BookInv == ShelfInv /\ ReadsAreCurrent

LEMMA OpenIsOpen == Book!Open = OpenStatuses
  BY DEF Book!Open, OpenStatuses, OrderStatus, TerminalStatuses

LEMMA BookPromisesTheSame == \A v \in Variants : Book!Promised(v) = Promised(v)
  <1> SUFFICES ASSUME NEW v \in Variants PROVE Book!Promised(v) = Promised(v)
    OBVIOUS
  <1> DEFINE st == [o \in Orders |-> orders[o].status]
             it == [o \in Orders |-> orders[o].items]
             units == UNION {{o} \X (1..it[o][v]) : o \in {x \in Orders : st[x] \in Book!Open}}
  <1>1. Book!Promised(v) = Cardinality(units)
    BY DEF Book!Promised, Cardinality, Book!Cardinality
  <1>2. {x \in Orders : st[x] \in Book!Open} = OpenOrders
    BY OpenIsOpen DEF OpenOrders
  <1>3. units = UnitsPromised(v)
    BY <1>2 DEF UnitsPromised, OpenOrders
  <1> QED BY <1>1, <1>3 DEF Promised

\* How the book sees a step on one order, and a step that moves no order.
LEMMA OneStatusMoves ==
  ASSUME NEW o \in Orders,
         \A x \in Orders : /\ x # o => orders'[x].status = orders[x].status
                           /\ orders'[x].items = orders[x].items
  PROVE  /\ [x \in Orders |-> orders'[x].status]
              = [[x \in Orders |-> orders[x].status] EXCEPT ![o] = orders'[o].status]
         /\ [x \in Orders |-> orders'[x].items] = [x \in Orders |-> orders[x].items]
  OBVIOUS

LEMMA BookStutters ==
  ASSUME \A x \in Orders : orders'[x].status = orders[x].status /\ orders'[x].items = orders[x].items,
         \A v \in Variants : inventory'[v].quantity = inventory[v].quantity
  PROVE  UNCHANGED Book!vars
  BY DEF Book!vars

LEMMA BookInit == Init => Book!Init
  <1> SUFFICES ASSUME Init PROVE Book!Init
    OBVIOUS
  <1>1. [o \in Orders |-> orders[o].status] = [o \in Orders |-> "NONE"]
    BY DEF Init, Blank
  <1>2. \A o \in Orders : orders[o].items = [v \in Variants |-> 0]
    BY DEF Init, Blank, NoItems
  <1>3. \A v \in Variants : inventory[v].quantity \in Nat
    BY StockAssumption DEF Init, InitInventory
  <1> QED BY <1>1, <1>2, <1>3 DEF Book!Init

LEMMA CheckoutPlaces ==
  ASSUME BookInv, NEW o \in Orders, NEW items \in Baskets, NEW method \in Methods,
         Checkout(o, items, method)
  PROVE  Book!Place(o)
  <1>1. TypeOK /\ \A v \in Variants : inventory[v].reservedQuantity = Promised(v)
    BY DEF BookInv, ShelfInv, ExactInv, ExclusiveInv, ExactReservation
  <1>2. items \in [Variants -> Nat]
    BY StockAssumption DEF Baskets, Quantities
  <1>3. orders[o].status = "NONE" /\ \A x \in Orders \ {o} : orders'[x] = orders[x]
    BY <1>1, CreationSteps
  <1>4. orders'[o].status = "PLACED" /\ orders'[o].items = items
    BY <1>1, NewOrderFields DEF Checkout, TypeOK
  <1>5. \A v \in Variants : inventory'[v].quantity = inventory[v].quantity
    BY <1>1, <1>2, BasketFields DEF Checkout
  <1>6. \A v \in Variants : items[v] <= inventory[v].quantity - Promised(v)
    <2> SUFFICES ASSUME NEW v \in Variants PROVE items[v] <= inventory[v].quantity - Promised(v)
      OBVIOUS
    <2>1. /\ inventory[v].quantity \in Nat /\ inventory[v].reservedQuantity \in Nat /\ items[v] \in Nat
          /\ inventory[v].reservedQuantity <= inventory[v].quantity
      BY <1>1, <1>2 DEF BookInv, ShelfInv, NoOverReservation, TypeOK, InventoryRow
    <2>2. items[v] > 0 => inventory[v].quantity - inventory[v].reservedQuantity >= items[v]
      BY DEF Checkout, EveryItem, CanReserveStock, Available
    <2> QED BY <1>1, <2>1, <2>2
  <1>7. [x \in Orders |-> orders'[x].status]
          = [[x \in Orders |-> orders[x].status] EXCEPT ![o] = "PLACED"]
    BY <1>3, <1>4
  <1> QED BY <1>3, <1>4, <1>5, <1>6, <1>7, BookPromisesTheSame DEF Book!Place

LEMMA UpdateAdvances ==
  ASSUME BookInv, NEW p \in Procs, UpdateStatus(p)
  PROVE  \E o \in Orders : Book!Advance(o)
  <1>1. TypeOK /\ ReadsAreCurrent
    BY DEF BookInv, ShelfInv, ExactInv, ExclusiveInv
  <1>2. PICK o \in Orders : o = req[p].order
    BY <1>1, UpdateSteps
  <1> DEFINE next == orders'[o].status
  <1>3. /\ \A x \in Orders : x # o => orders'[x].status = orders[x].status
        /\ \A x \in Orders : orders'[x].items = orders[x].items
        /\ next = Target(req[p].op) /\ UNCHANGED inventory
    BY <1>1, <1>2, ProcSteps, UpdateSteps DEF UpdateStatus, TypeOK, OrderRow
  <1>4. orders[o].status \in AllowedFrom(req[p].op) /\ req[p].op \in StepOps
    BY <1>1, <1>2, UpdateSteps DEF UpdateStatus, ReadsAreCurrent
  <1>5. <<orders[o].status, next>> \in Book!Progress
    BY <1>3, <1>4 DEF StepOps, AllowedFrom, Target, Book!Progress
  <1>6. next \in Book!Open
    BY <1>1, <1>2, UpdateOpens, OpenIsOpen
  <1>7. /\ [x \in Orders |-> orders'[x].status]
             = [[x \in Orders |-> orders[x].status] EXCEPT ![o] = next]
        /\ [x \in Orders |-> orders'[x].items] = [x \in Orders |-> orders[x].items]
    BY <1>3, OneStatusMoves
  <1>8. Book!Advance(o)
    <2> HIDE DEF next
    <2> QED BY <1>3, <1>5, <1>6, <1>7 DEF Book!Advance
  <1> QED BY <1>8

LEMMA EndsCallOffOrDeliver ==
  ASSUME OnlineStore, JobIsAlone, BookInv, [Next]_vars, NEW p \in Procs,
         RejectTx(p) \/ CancelTx(p) \/ CompleteTx(p)
  PROVE  \E o \in Orders : Book!CallOff(o) \/ Book!Deliver(o)
  <1>1. TypeOK /\ ReadsAreCurrent /\ KindInv
    BY DEF BookInv, ShelfInv, ExactInv, ExclusiveInv
  <1>2. PICK o \in Orders : o = req[p].order
    BY <1>1, ProcSteps, WorkedOn
  <1>3. /\ \A x \in Orders : x # o => orders'[x].status = orders[x].status
        /\ \A x \in Orders : orders'[x].items = orders[x].items
    BY <1>1, <1>2, ProcSteps
  <1>4. /\ [x \in Orders |-> orders'[x].status]
             = [[x \in Orders |-> orders[x].status] EXCEPT ![o] = orders'[o].status]
        /\ [x \in Orders |-> orders'[x].items] = [x \in Orders |-> orders[x].items]
    BY <1>3, OneStatusMoves
  <1>5. orders[o].status \in AllowedFrom(req[p].op)
    BY <1>1, <1>2 DEF ReadsAreCurrent, RejectTx, CancelTx, CompleteTx
  <1>6. CASE RejectTx(p) \/ CancelTx(p)
    <2>1. \A v \in Variants : inventory'[v].quantity = inventory[v].quantity
      <3>1. ~CompleteTx(p)
        BY <1>6 DEF RejectTx, CancelTx, CompleteTx
      <3> QED BY <1>1, <1>6, <3>1, TxFields
    <2>2. \/ orders[o].status \in {"PLACED", "ACCEPTED"} /\ orders'[o].status = "REJECTED"
          \/ orders[o].status \in Book!Open /\ orders'[o].status = "CANCELLED"
      BY <1>1, <1>2, <1>5, <1>6, TxRows, OpenIsOpen DEF RejectTx, CancelTx, AllowedFrom
    <2>3. Book!CallOff(o)
      BY <1>4, <2>1, <2>2 DEF Book!CallOff
    <2> QED BY <2>3
  <1>7. CASE CompleteTx(p)
    <2>1. orders[o].status \in {"READY_FOR_PICKUP", "OUT_FOR_DELIVERY"} /\ orders'[o].status = "COMPLETED"
      BY <1>1, <1>2, <1>5, <1>7, TxRows DEF CompleteTx, AllowedFrom
    <2>2. \A v \in Variants : inventory'[v].quantity = inventory[v].quantity - orders[o].items[v]
      BY <1>2, <1>7, CountersStep DEF BookInv, ShelfInv
    <2>3. [v \in Variants |-> inventory'[v].quantity]
            = [v \in Variants |-> [w \in Variants |-> inventory[w].quantity][v]
                                    - [x \in Orders |-> orders[x].items][o][v]]
      BY <2>2
    <2>4. Book!Deliver(o)
      BY <1>4, <2>1, <2>3 DEF Book!Deliver
    <2> QED BY <2>4
  <1> QED BY <1>6, <1>7

LEMMA JobCallsOff ==
  ASSUME BookInv, JobCommit
  PROVE  \E o \in Orders : Book!CallOff(o)
  <1>1. TypeOK /\ Fresh /\ JobReadsTruth
    BY DEF BookInv, ShelfInv, ExactInv, ExclusiveInv
  <1>2. PICK o \in Orders : o = job.order
    BY <1>1, JobSteps
  <1>3. /\ \A x \in Orders : x # o => orders'[x].status = orders[x].status
        /\ \A x \in Orders : orders'[x].items = orders[x].items
        /\ orders'[o].status = "CANCELLED"
    BY <1>1, <1>2, JobSteps
  <1>4. /\ [x \in Orders |-> orders'[x].status]
             = [[x \in Orders |-> orders[x].status] EXCEPT ![o] = "CANCELLED"]
        /\ [x \in Orders |-> orders'[x].items] = [x \in Orders |-> orders[x].items]
    BY <1>3, OneStatusMoves
  <1>5. orders[o].status \in Book!Open
    BY <1>1, <1>2, OpenIsOpen DEF Fresh, JobCommit
  <1>6. \A v \in Variants : inventory'[v].quantity = inventory[v].quantity
    BY <1>1, JobFields
  <1>7. Book!CallOff(o)
    BY <1>4, <1>5, <1>6 DEF Book!CallOff
  <1> QED BY <1>7

LEMMA AdjustRestocks ==
  ASSUME OnlineStore, BookInv, NEW w \in Variants, NEW n \in ChangeQtys, AdjustStockOf(w, n)
  PROVE  Book!Restock(w) \/ UNCHANGED Book!vars
  <1>1. TypeOK
    BY DEF BookInv, ShelfInv, ExactInv, ExclusiveInv
  <1>2. n \in Nat /\ UNCHANGED orders
    BY DEF OnlineStore, AdjustStockOf
  <1>3. \A v \in Variants : /\ inventory[v].quantity \in Nat
                            /\ inventory'[v].quantity = inventory[v].quantity + IF v = w THEN n ELSE 0
    BY <1>1, AdjustFields DEF TypeOK, InventoryRow
  <1>4. CASE n = 0
    BY <1>2, <1>3, <1>4, BookStutters
  <1>5. CASE n > 0
    <2>1. n \in 1..inventory'[w].quantity
      BY <1>2, <1>3, <1>5
    <2>2. [v \in Variants |-> inventory'[v].quantity]
            = [[v \in Variants |-> inventory[v].quantity] EXCEPT ![w] = inventory[w].quantity + n]
      <3>1. \A v \in Variants :
              inventory'[v].quantity = IF v = w THEN inventory[w].quantity + n ELSE inventory[v].quantity
        BY <1>2, <1>3
      <3> QED BY <3>1
    <2>3. n \in 1..([v \in Variants |-> inventory'[v].quantity][w])
      BY <2>1
    <2>4. /\ [o \in Orders |-> orders'[o].status] = [o \in Orders |-> orders[o].status]
          /\ [o \in Orders |-> orders'[o].items] = [o \in Orders |-> orders[o].items]
      BY <1>2
    <2> QED BY <2>2, <2>3, <2>4 DEF Book!Restock
  <1> QED BY <1>2, <1>4, <1>5

LEMMA StepImplementsBook ==
  ASSUME OnlineStore, JobIsAlone, BookInv, [Next]_vars
  PROVE  [Book!Next]_(Book!vars)
  <1>1. TypeOK
    BY DEF BookInv, ShelfInv, ExactInv, ExclusiveInv
  <1>2. ASSUME NEW o \in Orders, NEW items \in Baskets, NEW method \in Methods,
               Checkout(o, items, method)
        PROVE  Book!Next
    BY <1>2, CheckoutPlaces DEF Book!Next
  <1>3. ASSUME NEW w \in Variants, NEW n \in ChangeQtys, AdjustStockOf(w, n)
        PROVE  Book!Next \/ UNCHANGED Book!vars
    BY <1>3, AdjustRestocks DEF Book!Next
  <1>10. ASSUME NEW w \in Variants, NEW on \in BOOLEAN, SwitchVariant(w, on)
         PROVE  UNCHANGED Book!vars
    <2>1. [v \in Variants |-> inventory'[v].quantity] = [v \in Variants |-> inventory[v].quantity]
      BY <1>1, <1>10, SwitchFields
    <2> QED BY <1>10, <2>1 DEF SwitchVariant, Book!vars
  <1>4. ASSUME NEW p \in Procs, UpdateStatus(p)
        PROVE  Book!Next
    BY <1>4, UpdateAdvances DEF Book!Next
  <1>5. ASSUME NEW p \in Procs, RejectTx(p) \/ CancelTx(p) \/ CompleteTx(p)
        PROVE  Book!Next
    BY <1>5, EndsCallOffOrDeliver DEF Book!Next
  <1>6. ASSUME JobCommit
        PROVE  Book!Next
    BY <1>6, JobCallsOff DEF Book!Next
  <1>7. ASSUME NEW p \in Procs, RecordStatusChange(p)
        PROVE  UNCHANGED Book!vars
    <2>1. UNCHANGED inventory
      BY <1>7 DEF RecordStatusChange
    <2>2. \A x \in Orders : orders'[x].status = orders[x].status /\ orders'[x].items = orders[x].items
      BY <1>1, <1>7, WorkedOn DEF RecordStatusChange, TypeOK, OrderRow, Working
    <2> QED BY <2>1, <2>2, BookStutters
  <1>8. ASSUME NEW o \in Orders, Tick(o)
        PROVE  UNCHANGED Book!vars
    BY <1>1, <1>8, TickSteps, BookStutters
  <1>9. ASSUME UNCHANGED <<orders, inventory>>
        PROVE  UNCHANGED Book!vars
    BY <1>9, BookStutters
  <1> QED BY <1>2, <1>3, <1>4, <1>5, <1>6, <1>7, <1>8, <1>9, <1>10, StepCases
    DEF OnlineStore, CreatePosOrder, ReadForStep, ReadForTx, CustomerCancelOrder, Abort, JobScan,
        JobRead, JobFail, vars

\* An online store whose requests on one order do not overlap, and whose timeout job runs by
\* itself, behaves like the order book: orders move along the book's moves only, an order is
\* placed only against what nobody else was promised, a delivered order takes exactly its items,
\* and neither the reservation column nor a dying request ever shows.
THEOREM OrdersImplementOrderBook ==
  ASSUME OnlineStore, JobIsAlone PROVE Spec => ImplementsOrderBook
  <1>1. Init => BookInv
    <2>1. Init => ReadsAreCurrent
      BY DEF Init, ReadsAreCurrent, Idle, NoJob
    <2> QED BY <2>1, ShelfInit DEF BookInv
  <1>2. BookInv /\ [Next]_vars => BookInv'
    BY ShelfStep, CurrentStep, AloneIsExclusive DEF BookInv, ShelfInv, ExactInv
  <1>3. BookInv /\ [Next]_vars => [Book!Next]_(Book!vars)
    BY StepImplementsBook
  <1> QED BY <1>1, <1>2, <1>3, BookInit, PTL DEF Spec, ImplementsOrderBook, Book!Spec
===============================================================================
