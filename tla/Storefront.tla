------------------------------ MODULE Storefront ------------------------------
(***************************************************************************)
(* What a checkout charges, and when it is accepted: the opening hours and *)
(* their exceptions, the pause switch, the offers a store runs and the     *)
(* totals that checkout and createPosOrder write.  OrderService has the    *)
(* same transaction's effect on stock and status.                          *)
(*                                                                         *)
(* The store, its hours and its offers are read before the transaction, so *)
(* the owner may change them before the order is written.  Prices are in   *)
(* paise; what is computed in between is in hundredths of a paisa, and     *)
(* becomes paise when it is written to a column with two decimals.         *)
(***************************************************************************)
EXTENDS Integers, FiniteSets, Functions

CONSTANTS
  Variants, ProductOf, CategoryOf, Price,
  Fee,           \* the store's delivery fee
  OfferBook,     \* the offers the owner may run
  Dates,         \* dates in India, in their order
  Weekdays, WeekdayOf,
  Slots, Dawn,   \* times of day; those before Dawn are before 05:30, when UTC has yesterday's date
  Hours,         \* what may be entered for a weekday or an exception
  Topics,        \* what the owner changes in a behaviour: "hours" or "offers"
  MaxQty,        \* bound: units of a variant in the basket
  MaxChanges     \* bound: changes the owner makes

VARIABLES
  now, midnight,               \* date and slot in India; how the runtime prints slot 0
  schedule, exception, paused, \* the store's hours
  running,                     \* the offers that are running
  basket, checkout, order,     \* what the customer takes, the request under way, the order
  topic, changes

store == <<schedule, exception, paused, running>>
owner == <<topic, changes>>
vars  == <<now, midnight, store, basket, checkout, order, owner>>

-------------------------------------------------------------------------------
None   == [kind |-> "none", open |-> 0, close |-> 0]
NoOne  == "none"
Entry  == [kind : {"none", "closed", "window", "always"}, open : Slots, close : Slots]
Basket == [Variants -> 0..MaxQty]
Empty  == [v \in Variants |-> 0]

\* value and cap are paise, value a percentage where that is the reward; nobody stops an owner
\* from entering negative ones.  quantity is 0 unless the offer is BUY_X_GET_Y_FREE: no other
\* type looks at it.
Offer == [reward : {"PERCENT_OFF", "FLAT_OFF", "FREE_ITEM", "FREE_SHIPPING"}, value : Int,
          capped : BOOLEAN, cap : Int, free : Int, entireStore : BOOLEAN, minimum : Nat,
          products : SUBSET Range(ProductOf), categories : SUBSET Range(CategoryOf), quantity : Int,
          coupon : BOOLEAN, channels : SUBSET {"APP", "POS"}]

\* Prices may be zero, hours may close before they open, an offer may be for anything.
ASSUME StorefrontAssumption ==
  /\ IsFiniteSet(Variants) /\ Variants # {} /\ Price \in [Variants -> Nat] /\ Fee \in Nat
  /\ IsFiniteSet(OfferBook) /\ OfferBook \subseteq Offer
  /\ Hours \subseteq {e \in Entry : e.kind # "none"}
  /\ WeekdayOf \in [Dates -> Weekdays]
  /\ Dates \subseteq Int /\ \E d \in Dates : d - 1 \in Dates /\ \A x \in Dates : d <= x + 1
  /\ IsFiniteSet(Slots) /\ Slots \subseteq Nat /\ 0 \in Slots /\ Dawn \in Nat \ {0}
  /\ MaxQty \in Nat \ {0} /\ MaxChanges \in Nat

-------------------------------------------------------------------------------
(* Opening hours *)

\* toISOString has the date of London.
UtcDate == IF now.slot < Dawn THEN now.date - 1 ELSE now.date

\* toLocaleTimeString without hour12 prints the hour after midnight as 00 or as 24.
Clock == IF now.slot = 0 THEN midnight ELSE now.slot

\* Mutant: the time the store closes at is past it.
WithinOpen(e) == Clock >= e.open /\ Clock < e.close

Within(e) == Clock >= e.open /\ Clock <= e.close

\* computeIsOpenStatus: what the menu shows.
MenuOpen ==
  /\ ~paused
  /\ LET e == IF exception[UtcDate] # None THEN exception[UtcDate]
              ELSE schedule[WeekdayOf[now.date]] IN
     e.kind = "always" \/ (e.kind = "window" /\ Within(e))

\* What checkout requires.
StoreClosed ==
  LET e == exception[UtcDate]
      d == schedule[WeekdayOf[now.date]]
      outside(x) == x.kind = "window" /\ (Clock < x.open \/ Clock > x.close) IN
  \/ e # None /\ (e.kind = "closed" \/ outside(e))
  \/ e = None /\ (d.kind \in {"none", "closed"} \/ outside(d))

-------------------------------------------------------------------------------
(* Offers, in hundredths of a paisa *)

SmallerOf(a, b) == IF a < b THEN a ELSE b
In(b)           == {v \in Variants : b[v] > 0}
LineTotal(b, v) == Price[v] * b[v]
Sum(f, S)       == FoldFunctionOnSet(+, 0, f, S)
Subtotal(b, S)  == Sum([v \in Variants |-> LineTotal(b, v)], S)

\* Mutant: every product of the basket has to be one of the offer's.
CheckEveryTrigger(o, b) ==
  \/ o.entireStore
  \/ /\ Subtotal(b, In(b)) >= o.minimum
     /\ o.products # {} => \A v \in In(b) : ProductOf[v] \in o.products
     /\ o.categories # {} => \E v \in In(b) : CategoryOf[ProductOf[v]] \in o.categories

CheckTrigger(o, b) ==
  LET qualifying == {v \in In(b) : o.products = {} \/ ProductOf[v] \in o.products} IN
  \/ o.entireStore
  \/ /\ Subtotal(b, In(b)) >= o.minimum
     /\ o.products # {} => qualifying # {}
     /\ o.categories # {} => \E v \in In(b) : CategoryOf[ProductOf[v]] \in o.categories
     /\ Sum(b, qualifying) >= o.quantity

\* Mutant: a flat amount is taken off whatever the basket is worth.
CalculateAnyDiscount(o, b) ==
  CASE o.reward = "PERCENT_OFF" -> Subtotal(b, In(b)) * o.value
    [] o.reward = "FLAT_OFF"    -> 100 * o.value
    [] o.reward = "FREE_ITEM"   -> 100 * o.value * o.free
    [] OTHER                    -> 0

CalculateDiscount(o, b) ==
  LET subtotal == Subtotal(b, In(b))
      percent  == subtotal * o.value
      raw      == CASE o.reward = "PERCENT_OFF" -> IF o.capped THEN SmallerOf(percent, 100 * o.cap) ELSE percent
                    [] o.reward = "FLAT_OFF"    -> 100 * SmallerOf(o.value, subtotal)
                    [] o.reward = "FREE_ITEM"   -> 100 * o.value * o.free
                    [] OTHER                    -> 0 IN
  IF raw > 0 THEN raw ELSE 0

Candidates(offers, channel, b) ==
  {o \in offers : /\ channel \in o.channels /\ ~o.coupon
                  /\ CheckTrigger(o, b) /\ CalculateDiscount(o, b) > 0}

\* The candidates are sorted by their discount; of equal ones either comes first.  No
\* caller gives evaluateOffersForCart a coupon code.
Winners(offers, channel, b) ==
  LET all == Candidates(offers, channel, b) IN
  {o \in all : \A x \in all : CalculateDiscount(x, b) <= CalculateDiscount(o, b)}

\* The lines an offer is for, whatever else it looks at to be given.
Eligible(o, b) == {v \in In(b) : o.entireStore \/ o.products = {} \/ ProductOf[v] \in o.products}

\* The discount on the line of v, in paise: lines that cost nothing together get none.
LineDiscount(o, b, v) ==
  LET worth == Subtotal(b, Eligible(o, b)) IN
  IF v \notin Eligible(o, b) \/ worth = 0 THEN 0
  ELSE (2 * CalculateDiscount(o, b) * LineTotal(b, v) + 100 * worth) \div (200 * worth)

\* As a column of two decimals keeps it.
Paise(x) == IF x >= 0 THEN (x + 50) \div 100 ELSE -((50 - x) \div 100)

-------------------------------------------------------------------------------
(* The owner *)

Changes(what) == topic = what /\ changes < MaxChanges /\ changes' = changes + 1 /\ UNCHANGED topic
OwnerOnly     == UNCHANGED <<now, midnight, basket, checkout, order>>

\* upsertOperatingHours writes the days it is sent in one transaction.
SetHours(w, e) ==
  /\ Changes("hours") /\ e # schedule[w]
  /\ schedule' = [schedule EXCEPT ![w] = e]
  /\ OwnerOnly /\ UNCHANGED <<exception, paused, running>>

\* createHourException and deleteHourException (None).
SetException(d, e) ==
  /\ Changes("hours") /\ e # exception[d]
  /\ exception' = [exception EXCEPT ![d] = e]
  /\ OwnerOnly /\ UNCHANGED <<schedule, paused, running>>

TogglePause ==
  /\ Changes("hours") /\ paused' = ~paused
  /\ OwnerOnly /\ UNCHANGED <<schedule, exception, running>>

\* An offer is created or switched on, or switched off, deleted, or over.
ToggleOffer(o) ==
  /\ Changes("offers")
  /\ running' = IF o \in running THEN running \ {o} ELSE running \cup {o}
  /\ OwnerOnly /\ UNCHANGED <<schedule, exception, paused>>

TimePasses ==
  /\ topic = "hours"
  /\ now' = IF now.slot + 1 \in Slots THEN [now EXCEPT !.slot = @ + 1]
            ELSE [date |-> now.date + 1, slot |-> 0]
  /\ now'.date \in Dates
  /\ UNCHANGED <<midnight, store, basket, checkout, order, owner>>

-------------------------------------------------------------------------------
(* Checkout and the counter *)

Idle    == [at |-> "idle", channel |-> "APP", fee |-> 0, offers |-> {}, winner |-> {}]
NoOrder == [placed |-> FALSE, subtotal |-> 0, fee |-> 0, discount |-> 0, total |-> 0,
            lines |-> Empty, reward |-> NoOne]

\* What a customer comes with: where the hours matter, one item is enough.
FirstBasket == IF topic = "offers" THEN Empty ELSE [Empty EXCEPT ![CHOOSE v \in Variants : TRUE] = 1]

AddItem(v) ==
  /\ topic = "offers" /\ checkout = Idle /\ ~order.placed /\ basket[v] < MaxQty
  /\ basket' = [basket EXCEPT ![v] = @ + 1]
  /\ UNCHANGED <<now, midnight, store, checkout, order, owner>>

\* checkout reads the store; the counter sells at any time.
ReadStore(channel) ==
  /\ checkout = Idle /\ ~order.placed /\ basket # Empty
  /\ channel = "APP" => ~paused /\ ~StoreClosed
  /\ \E fee \in {0, IF channel = "APP" THEN Fee ELSE 0} :
       checkout' = [Idle EXCEPT !.at = "admitted", !.channel = channel, !.fee = fee]
  /\ UNCHANGED <<now, midnight, store, basket, order, owner>>

EvaluateOffersForCart ==
  LET best == Winners(running, checkout.channel, basket) IN
  /\ checkout.at = "admitted"
  /\ \E w \in {{o} : o \in best} \cup (IF best = {} THEN {{}} ELSE {}) :
       checkout' = [checkout EXCEPT !.at = "evaluated", !.offers = running, !.winner = w]
  /\ UNCHANGED <<now, midnight, store, basket, order, owner>>

\* Discount and total are computed from the exact amounts and rounded each by itself.
CreateOrder ==
  LET w        == checkout.winner
      discount == Sum([o \in w |-> CalculateDiscount(o, basket)], w)
      subtotal == Subtotal(basket, In(basket)) IN
  /\ checkout.at = "evaluated"
  /\ order' = [placed   |-> TRUE, subtotal |-> subtotal, fee |-> checkout.fee,
               discount |-> Paise(discount),
               total    |-> Paise(100 * (subtotal + checkout.fee) - discount),
               lines    |-> [v \in Variants |-> Sum([o \in w |-> LineDiscount(o, basket, v)], w)],
               reward   |-> IF w = {} THEN NoOne ELSE (CHOOSE o \in w : TRUE).reward]
  /\ checkout' = [checkout EXCEPT !.at = "committed"]
  /\ UNCHANGED <<now, midnight, store, basket, owner>>

\* The next customer comes.
NextCustomer ==
  /\ checkout.at = "committed"
  /\ basket' = FirstBasket /\ checkout' = Idle /\ order' = NoOrder
  /\ UNCHANGED <<now, midnight, store, owner>>

\* The request dies, or its transaction fails.
Abort ==
  /\ checkout.at \in {"admitted", "evaluated"} /\ checkout' = Idle
  /\ UNCHANGED <<now, midnight, store, basket, order, owner>>

-------------------------------------------------------------------------------
FirstDate == CHOOSE d \in Dates : d - 1 \in Dates /\ \A x \in Dates : d <= x + 1

Init ==
  /\ topic \in Topics /\ changes = 0 /\ paused = FALSE
  /\ now = [date |-> FirstDate, slot |-> 0]
  /\ midnight \in {0, Cardinality(Slots)}
  /\ exception = [d \in Dates |-> None]
  /\ schedule \in {[w \in Weekdays |-> e] : e \in Hours \cup {None}}
  /\ topic = "offers" => \A w \in Weekdays : schedule[w].kind = "always"
  /\ running \in {{}} \cup (IF topic = "offers" THEN {{o} : o \in OfferBook} ELSE {})
  /\ basket = FirstBasket /\ checkout = Idle /\ order = NoOrder

Next ==
  \/ \E e \in Hours : (\E w \in Weekdays : SetHours(w, e)) \/ (\E d \in Dates : SetException(d, e))
  \/ \E d \in Dates : SetException(d, None)
  \/ TogglePause \/ (\E o \in OfferBook : ToggleOffer(o)) \/ TimePasses
  \/ (\E v \in Variants : AddItem(v)) \/ (\E c \in {"APP", "POS"} : ReadStore(c))
  \/ EvaluateOffersForCart \/ CreateOrder \/ NextCustomer \/ Abort

Spec == Init /\ [][Next]_vars

-------------------------------------------------------------------------------
(* Properties *)

TypeOK ==
  /\ topic \in Topics /\ changes \in 0..MaxChanges /\ paused \in BOOLEAN
  /\ now \in [date : Dates, slot : Slots] /\ midnight \in Nat
  /\ schedule \in [Weekdays -> Entry] /\ exception \in [Dates -> Entry]
  /\ running \in SUBSET OfferBook /\ basket \in Basket
  /\ checkout \in [at : {"idle", "admitted", "evaluated", "committed"}, channel : {"APP", "POS"},
                   fee : {0, Fee}, offers : SUBSET OfferBook, winner : SUBSET OfferBook]
  /\ order \in [placed : BOOLEAN, subtotal : Nat, fee : {0, Fee}, discount : Nat, total : Int,
                lines : [Variants -> Nat], reward : {o.reward : o \in OfferBook} \cup {NoOne}]

\* The hours as the owner means them: the exception of today in India, if there is one,
\* otherwise the weekday's hours, at the time of day.
OpenByCalendar ==
  LET e == IF exception[now.date] # None THEN exception[now.date] ELSE schedule[WeekdayOf[now.date]] IN
  e.kind = "always" \/ (e.kind = "window" /\ now.slot \in e.open..e.close)

\* From 05:30 on, checkout is accepted exactly when the store is open by its calendar, and
\* at any time of the day the menu says the same as checkout.
OpenAsPlanned ==
  /\ MenuOpen <=> ~paused /\ ~StoreClosed
  /\ now.slot >= Dawn => (MenuOpen <=> ~paused /\ OpenByCalendar)

\* Types are kept, and what is written adds up but for rounding: the columns of the order to
\* one paisa, the lines' discounts to half a paisa each and half a one for the order's, unless
\* the offer is for goods that are free.  Nobody is paid for ordering, unless by a FREE_ITEM,
\* which nothing caps, or by more than a hundred percent.
MoneyAddsUp ==
  LET parts == Sum(order.lines, Variants)
      lines == Cardinality(In(basket)) IN
  /\ TypeOK
  /\ order.placed =>
    /\ order.subtotal + order.fee - order.discount - order.total \in -1..1
    /\ \/ 2 * (parts - order.discount) \in -(lines + 1)..(lines + 1)
       \/ parts = 0 /\ \E o \in checkout.winner : Subtotal(basket, Eligible(o, basket)) = 0
    /\ \/ order.total >= order.fee
       \/ order.reward = "FREE_ITEM"
       \/ order.reward = "PERCENT_OFF" /\ \E o \in checkout.winner : o.value > 100

Discount(offers, b) ==
  LET best == Winners(offers, "APP", b) IN
  IF best = {} THEN 0 ELSE CalculateDiscount(CHOOSE o \in best : TRUE, b)

\* Neither one item more in the basket nor one offer more that is running ever makes the discount
\* smaller, whatever triggers, caps, coupons and ties there are.
MoreNeverDiscountsLess ==
  [][(running \subseteq running' /\ \A v \in Variants : basket'[v] >= basket[v])
       => Discount(running', basket') >= Discount(running, basket)]_vars
===============================================================================
