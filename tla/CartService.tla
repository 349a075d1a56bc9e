------------------------------ MODULE CartService ------------------------------
(***************************************************************************)
(* The server-side carts of one customer, and the checkout that turns a    *)
(* cart into an order: CartService, the two checkout routes and the        *)
(* idempotency keys.                                                       *)
(*                                                                         *)
(* The customer uses several tabs and devices, and clients retry.  Nothing *)
(* in CartService is a transaction but mergeCart, so other requests run    *)
(* between any two statements.  mergeCart's deleteMany is not part of its  *)
(* transaction either: the soft-delete extension rewrites it into an       *)
(* update through the base client, which takes effect at once.             *)
(* Of checkout only what carts and keys see is kept; OrderService models   *)
(* its stock.                                                              *)
(***************************************************************************)
EXTENDS Integers, Sequences, FiniteSets, Functions

CONSTANTS
  Stores, Variants, StoreOf,   \* StoreOf[v]: the store that sells v
  Procs,                       \* requests that can be in flight at the same time
  Keys,                        \* idempotency keys clients generate
  Available,                   \* Available[v]: units of v that are not reserved
  Ops,                         \* what clients and the environment do, see AllOps
  Overlapping,                 \* may requests overlap?
  MaxCarts, MaxLines, MaxOrders \* bounds on the rows ever created

AllOps == {"add", "confirm", "update", "remove", "clear", "merge", "cartCheckout",
           "checkout", "withdraw", "crash", "expire"}

ASSUME CartAssumption ==
  /\ Stores # {} /\ IsFiniteSet(Variants) /\ IsFiniteSet(Procs)
  /\ StoreOf \in [Variants -> Stores]
  /\ Available \in [Variants -> Nat]
  /\ Ops \subseteq AllOps /\ Overlapping \in BOOLEAN
  /\ MaxCarts \in Nat /\ MaxLines \in Nat /\ MaxOrders \in Nat

VARIABLES
  carts,    \* the carts rows in the order of their creation
  lines,    \* the cart_items rows
  placed,   \* the orders that were placed
  keys,     \* keys[k]: the order idempotency_keys has for k
  forSale,  \* variants that are active
  req       \* req[p]: what request p does next and what it has read

vars == <<carts, lines, placed, keys, forSale, req>>

-------------------------------------------------------------------------------
NoRow == 0    \* no cart, line or order
NoKey == "none"

\* What is asked for, or ordered, of every variant.
Basket == [Variants -> Nat]
Nothing == [v \in Variants |-> 0]

Cart  == [store : Stores, status : {"ACTIVE", "ABANDONED"}]
Line  == [cart : Nat, variant : Variants, quantity : Nat \ {0}, deleted : BOOLEAN]
Order == [store : Stores, items : Basket, cart : Nat, key : Keys]
Key   == [order : Nat, expired : BOOLEAN]

Step == {"idle", "abandon", "cart", "item", "write", "delete", "clear", "mergeClear",
         "mergeCommit", "key", "tx", "setKey"}

\* `cart` is the cart a request has read, `row` the line (a merge: how many lines; a
\* checkout: its order), `items` what it adds or orders.
Request == [step : Step, store : Stores, cart : Nat, row : Nat, items : Basket, key : Keys \cup {NoKey}]

Idle == [step |-> "idle", store |-> CHOOSE s \in Stores : TRUE, cart |-> NoRow,
         row |-> NoRow, items |-> Nothing, key |-> NoKey]

Init ==
  /\ carts = << >> /\ lines = << >> /\ placed = << >>
  /\ keys = [k \in Keys |-> [order |-> NoRow, expired |-> FALSE]]
  /\ forSale = Variants
  /\ req = [p \in Procs |-> Idle]

ActiveCarts    == {c \in DOMAIN carts : carts[c].status = "ACTIVE"}
ActiveCartsOf(s) == {c \in ActiveCarts : carts[c].store = s}
LiveLines(c)   == {l \in DOMAIN lines : lines[l].cart = c /\ ~lines[l].deleted}
LinesFor(c, v) == {l \in LiveLines(c) : lines[l].variant = v}

\* findFirst without an order: any of the matching rows, NoRow when there is none.
FindFirst(rows) == IF rows = {} THEN {NoRow} ELSE rows

\* What the lines of a cart ask for; a variant on two lines is counted once, see
\* CartCheckout.
Content(c) ==
  [v \in Variants |-> IF LinesFor(c, v) = {} THEN 0
                      ELSE lines[CHOOSE l \in LinesFor(c, v) : TRUE].quantity]

\* What a client sends for store s.  mergeCart relies on the client for that: the guest
\* cart of store-web is of one store, and mergeCart does not look.
Baskets(s) == {b \in [Variants -> 0..1] : b # Nothing /\ \A v \in Variants : b[v] > 0 => StoreOf[v] = s}

MayStart(p) == /\ req[p].step = "idle"
               /\ Overlapping \/ \A q \in Procs : req[q].step = "idle"

Start(p, r)   == MayStart(p) /\ req' = [req EXCEPT ![p] = r]
Continue(p, r) == req' = [req EXCEPT ![p] = r]
Finish(p)     == req' = [req EXCEPT ![p] = Idle]

-------------------------------------------------------------------------------
(* addItem *)

Asked(s, v) == [Idle EXCEPT !.store = s, !.items[v] = 1]
VariantOf(r) == CHOOSE v \in Variants : r.items[v] > 0

\* Mutant: the cart that was found is used whichever store it is of.
AddToAnyCart(p, v, confirm) ==
  /\ "add" \in Ops /\ (confirm => "confirm" \in Ops)
  /\ \E c \in FindFirst(ActiveCarts) :
       Start(p, [Asked(StoreOf[v], v) EXCEPT !.step = "cart", !.cart = c])
  /\ UNCHANGED <<carts, lines, placed, keys, forSale>>

\* 1. Any active cart of the customer.  One of another store is refused, or, when
\* the customer confirmed, abandoned before anything else is checked.
AddItem(p, v, confirm) ==
  /\ "add" \in Ops /\ (confirm => "confirm" \in Ops)
  /\ \E c \in FindFirst(ActiveCarts) :
       \/ /\ c # NoRow /\ carts[c].store # StoreOf[v]
          /\ confirm
          /\ Start(p, [Asked(StoreOf[v], v) EXCEPT !.step = "abandon", !.cart = c])
       \/ /\ c # NoRow => carts[c].store = StoreOf[v]
          /\ Start(p, [Asked(StoreOf[v], v) EXCEPT !.step = "cart", !.cart = c])
  /\ UNCHANGED <<carts, lines, placed, keys, forSale>>

AbandonOtherCart(p) ==
  /\ req[p].step = "abandon"
  /\ carts' = [carts EXCEPT ![req[p].cart].status = "ABANDONED"]
  /\ Continue(p, [req[p] EXCEPT !.step = "cart", !.cart = NoRow])
  /\ UNCHANGED <<lines, placed, keys, forSale>>

\* 2.-4. The variant must be for sale; the cart that was found is used, otherwise one
\* is created.
FindOrCreateCart(p) ==
  /\ req[p].step = "cart"
  /\ IF VariantOf(req[p]) \notin forSale THEN Finish(p) /\ UNCHANGED carts
     ELSE IF req[p].cart # NoRow
     THEN Continue(p, [req[p] EXCEPT !.step = "item"]) /\ UNCHANGED carts
     ELSE /\ Len(carts) < MaxCarts
          /\ carts' = Append(carts, [store |-> req[p].store, status |-> "ACTIVE"])
          /\ Continue(p, [req[p] EXCEPT !.step = "item", !.cart = Len(carts) + 1])
  /\ UNCHANGED <<lines, placed, keys, forSale>>

TargetQuantity(l, n) == IF l = NoRow THEN n ELSE lines[l].quantity + n

\* 5. The line of this variant, if there is one.
FindItem(p) ==
  LET v == VariantOf(req[p]) IN
  /\ req[p].step = "item"
  /\ \E l \in FindFirst(LinesFor(req[p].cart, v)) :
       LET target == TargetQuantity(l, req[p].items[v]) IN
       IF target > Available[v] THEN Finish(p)
       ELSE Continue(p, [req[p] EXCEPT !.step = "write", !.row = l, !.items[v] = target])
  /\ UNCHANGED <<carts, lines, placed, keys, forSale>>

NewLine(c, v, n) == [cart |-> c, variant |-> v, quantity |-> n, deleted |-> FALSE]

\* 6. Its new quantity, or a new line.  The update of a line that was deleted in the
\* meantime fails.
WriteItem(p) ==
  LET r == req[p]
      v == VariantOf(r) IN
  /\ r.step = "write"
  /\ \/ r.row = NoRow /\ Len(lines) < MaxLines
        /\ lines' = Append(lines, NewLine(r.cart, v, r.items[v]))
     \/ r.row # NoRow /\ ~lines[r.row].deleted
        /\ lines' = [lines EXCEPT ![r.row].quantity = r.items[v]]
     \/ r.row # NoRow /\ lines[r.row].deleted /\ UNCHANGED lines
  /\ Finish(p)
  /\ UNCHANGED <<carts, placed, keys, forSale>>

-------------------------------------------------------------------------------
(* updateItem, removeItem, clearCart *)

\* A line a request may change: not deleted, of a cart that is active.
IsEditable(l) == ~lines[l].deleted /\ lines[l].cart \in ActiveCarts

UpdateItem(p, l, quantity) ==
  LET v == lines[l].variant IN
  /\ "update" \in Ops /\ IsEditable(l)
  /\ quantity <= Available[v]
  /\ Start(p, [Asked(StoreOf[v], v) EXCEPT !.step = "write", !.cart = lines[l].cart,
                                           !.row = l, !.items[v] = quantity])
  /\ UNCHANGED <<carts, lines, placed, keys, forSale>>

RemoveItem(p, l) ==
  /\ "remove" \in Ops /\ IsEditable(l)
  /\ Start(p, [Idle EXCEPT !.step = "delete", !.row = l])
  /\ UNCHANGED <<carts, lines, placed, keys, forSale>>

DeleteItem(p) ==
  /\ req[p].step = "delete"
  /\ lines' = [lines EXCEPT ![req[p].row].deleted = TRUE]
  /\ Finish(p)
  /\ UNCHANGED <<carts, placed, keys, forSale>>

\* clearCart of one store, the only form the store-web client uses with a cart.
ClearCart(p, s) ==
  /\ "clear" \in Ops
  /\ \E c \in ActiveCartsOf(s) : Start(p, [Idle EXCEPT !.step = "clear", !.cart = c])
  /\ UNCHANGED <<carts, lines, placed, keys, forSale>>

AbandonCart(p) ==
  /\ req[p].step = "clear"
  /\ carts' = [carts EXCEPT ![req[p].cart].status = "ABANDONED"]
  /\ Finish(p)
  /\ UNCHANGED <<lines, placed, keys, forSale>>

-------------------------------------------------------------------------------
(* mergeCart *)

\* The transaction reads the active cart of the guest cart's store.
MergeCart(p, s, items) ==
  /\ "merge" \in Ops
  /\ \E c \in FindFirst(ActiveCartsOf(s)) :
       Start(p, [Idle EXCEPT !.store = s, !.cart = c, !.items = items,
                   !.row = Cardinality(LiveLines(c)),
                   !.step = IF c # NoRow /\ LiveLines(c) # {} THEN "mergeClear" ELSE "mergeCommit"])
  /\ UNCHANGED <<carts, lines, placed, keys, forSale>>

\* Mutant: the old lines stay.
ClearNothing(p) ==
  /\ req[p].step = "mergeClear"
  /\ Continue(p, [req[p] EXCEPT !.step = "mergeCommit"])
  /\ UNCHANGED <<carts, lines, placed, keys, forSale>>

\* deleteMany on the lines of that cart, outside the transaction.
ClearStaleItems(p) ==
  /\ req[p].step = "mergeClear"
  /\ lines' = [l \in DOMAIN lines |->
                 [lines[l] EXCEPT !.deleted = @ \/ lines[l].cart = req[p].cart]]
  /\ Continue(p, [req[p] EXCEPT !.step = "mergeCommit"])
  /\ UNCHANGED <<carts, placed, keys, forSale>>

\* The rest of the transaction commits: the cart if there was none, and a line for
\* every guest item that is still for sale, in the order of the guest cart.
MergeCommit(p) ==
  LET r     == req[p]
      c     == IF r.cart # NoRow THEN r.cart ELSE Len(carts) + 1
      kept  == {v \in Variants : r.items[v] > 0 /\ v \in forSale} IN
  /\ r.step = "mergeCommit"
  /\ c <= MaxCarts /\ Len(lines) + Cardinality(kept) <= MaxLines
  /\ carts' = IF r.cart # NoRow THEN carts
              ELSE Append(carts, [store |-> r.store, status |-> "ACTIVE"])
  /\ \E new \in Bijection(1..Cardinality(kept), kept) :
       lines' = lines \o [i \in DOMAIN new |-> NewLine(c, new[i], r.items[new[i]])]
  /\ Finish(p)
  /\ UNCHANGED <<placed, keys, forSale>>

-------------------------------------------------------------------------------
(* The checkout routes *)

\* POST /cart/checkout reads the newest active cart of the store.  A variant on two
\* lines makes checkout refuse the basket.
CartCheckout(p, s, k) ==
  /\ "cartCheckout" \in Ops
  /\ ActiveCartsOf(s) # {}
  /\ LET c == CHOOSE x \in ActiveCartsOf(s) : \A y \in ActiveCartsOf(s) : y <= x IN
       /\ LiveLines(c) # {}
       /\ \A v \in Variants : Cardinality(LinesFor(c, v)) <= 1
       /\ Start(p, [Idle EXCEPT !.step = "key", !.store = s, !.cart = c,
                                !.items = Content(c), !.key = k])
  /\ UNCHANGED <<carts, lines, placed, keys, forSale>>

\* POST /orders/checkout has the items in its body.
Checkout(p, s, items, k) ==
  /\ "checkout" \in Ops
  /\ Start(p, [Idle EXCEPT !.step = "key", !.store = s, !.items = items, !.key = k])
  /\ UNCHANGED <<carts, lines, placed, keys, forSale>>

\* checkIdempotencyKey: a key with an answer that has not expired ends the request
\* with that answer.  A variant that is not for sale ends it too.
CheckIdempotencyKey(p) ==
  /\ req[p].step = "key"
  /\ IF \/ keys[req[p].key].order # NoRow /\ ~keys[req[p].key].expired
        \/ \E v \in Variants : req[p].items[v] > 0 /\ v \notin forSale
       THEN Finish(p)
       ELSE Continue(p, [req[p] EXCEPT !.step = "tx"])
  /\ UNCHANGED <<carts, lines, placed, keys, forSale>>

\* Mutant: the cart stays active.
OrderKeepsCart(p) ==
  LET r == req[p] IN
  /\ r.step = "tx" /\ Len(placed) < MaxOrders
  /\ placed' = Append(placed, [store |-> r.store, items |-> r.items, cart |-> r.cart, key |-> r.key])
  /\ Continue(p, [r EXCEPT !.step = "setKey", !.row = Len(placed) + 1])
  /\ UNCHANGED <<carts, lines, keys, forSale>>

\* The transaction of OrderService.checkout: the order, and every active cart of the
\* store abandoned.
PlaceOrder(p) ==
  LET r == req[p] IN
  /\ r.step = "tx" /\ Len(placed) < MaxOrders
  /\ placed' = Append(placed, [store |-> r.store, items |-> r.items, cart |-> r.cart, key |-> r.key])
  /\ carts' = [c \in DOMAIN carts |->
                 IF c \in ActiveCartsOf(r.store) THEN [carts[c] EXCEPT !.status = "ABANDONED"]
                                                 ELSE carts[c]]
  /\ Continue(p, [r EXCEPT !.step = "setKey", !.row = Len(placed) + 1])
  /\ UNCHANGED <<lines, keys, forSale>>

\* The stock is short: the checkout is refused and its transaction rolled back.
RefuseOrder(p) ==
  /\ req[p].step = "tx"
  /\ Finish(p)
  /\ UNCHANGED <<carts, lines, placed, keys, forSale>>

\* Mutant: the newest order is taken for the request's own.
SetKeyToNewest(p) ==
  /\ req[p].step = "setKey"
  /\ keys' = [keys EXCEPT ![req[p].key] = [order |-> Len(placed), expired |-> FALSE]]
  /\ Finish(p)
  /\ UNCHANGED <<carts, lines, placed, forSale>>

\* setIdempotencyKey, after the commit.  The answer may never reach the client, who
\* then sends the request again.
SetIdempotencyKey(p) ==
  /\ req[p].step = "setKey"
  /\ keys' = [keys EXCEPT ![req[p].key] = [order |-> req[p].row, expired |-> FALSE]]
  /\ Finish(p)
  /\ UNCHANGED <<carts, lines, placed, forSale>>

-------------------------------------------------------------------------------
(* The environment *)

\* The server dies, or a statement fails: an open transaction is rolled back.
Crash(p) ==
  /\ "crash" \in Ops /\ req[p].step # "idle"
  /\ Finish(p)
  /\ UNCHANGED <<carts, lines, placed, keys, forSale>>

\* 24 hours pass; the cleanup job may then delete the row, which changes nothing more.
Expire(k) ==
  /\ "expire" \in Ops
  /\ keys[k].order # NoRow /\ ~keys[k].expired
  /\ keys' = [keys EXCEPT ![k].expired = TRUE]
  /\ UNCHANGED <<carts, lines, placed, forSale, req>>

\* The store takes a variant off sale, or puts it back.
Toggle(v) ==
  /\ "withdraw" \in Ops
  /\ forSale' = IF v \in forSale THEN forSale \ {v} ELSE forSale \cup {v}
  /\ UNCHANGED <<carts, lines, placed, keys, req>>

Handle(p) ==
  \/ \E v \in Variants, confirm \in BOOLEAN : AddItem(p, v, confirm)
  \/ \E l \in DOMAIN lines : RemoveItem(p, l) \/ \E n \in 1..2 : UpdateItem(p, l, n)
  \/ \E s \in Stores :
       \/ ClearCart(p, s)
       \/ \E items \in Baskets(s) : MergeCart(p, s, items)
       \/ \E k \in Keys :
            \/ CartCheckout(p, s, k)
            \/ \E items \in Baskets(s) : Checkout(p, s, items, k)
  \/ AbandonOtherCart(p) \/ FindOrCreateCart(p) \/ FindItem(p) \/ WriteItem(p)
  \/ DeleteItem(p) \/ AbandonCart(p) \/ ClearStaleItems(p) \/ MergeCommit(p)
  \/ CheckIdempotencyKey(p) \/ PlaceOrder(p) \/ RefuseOrder(p) \/ SetIdempotencyKey(p)
  \/ Crash(p)

Next ==
  \/ \E p \in Procs : Handle(p)
  \/ \E k \in Keys : Expire(k)
  \/ \E v \in Variants : Toggle(v)

Spec == Init /\ [][Next]_vars

-------------------------------------------------------------------------------
(* Properties *)

\* Rows and requests have their types.
TypeOK ==
  /\ carts \in Seq(Cart) /\ lines \in Seq(Line) /\ placed \in Seq(Order)
  /\ keys \in [Keys -> Key] /\ forSale \subseteq Variants
  /\ req \in [Procs -> Request]

\* addItem's cross-store check keeps carts of one store each, however requests overlap;
\* mergeCart adds no other store's goods to one, its guest cart being of one store.
CartsOfOneStore ==
  \A l \in DOMAIN lines : StoreOf[lines[l].variant] = carts[lines[l].cart].store

\* A variant is on one line of a cart at most (checkout refuses the cart otherwise), and
\* every line keeps a quantity.  Adds and merges that overlap may each leave a line of their
\* own, but never more of them than there are requests at a time, however long the customer
\* goes on: whoever finds a line changes it, and a merge deletes all there are.
FewLinesPerVariant ==
  /\ TypeOK
  /\ \A c \in ActiveCarts, v \in Variants :
       Cardinality(LinesFor(c, v)) <= IF Overlapping THEN Cardinality(Procs) ELSE 1

\* No cart is ordered twice through /cart/checkout, retries after crashes, lost answers and
\* expired keys included, and nothing the customer put into it is left behind.
CartOrderedOnce ==
  \A i, j \in DOMAIN placed : placed[i].cart # NoRow =>
    /\ placed[i].cart = placed[j].cart => i = j
    /\ Content(placed[i].cart) = placed[i].items

\* A key is good for one order, as checkout.controller says.  The code does not have this:
\* checkout writes the key after the commit, and a retry that comes in between orders again.
\* No run checks it; as an INVARIANT of carts_concurrent.cfg, TLC shows the second order.
OneOrderPerKey ==
  \A i, j \in DOMAIN placed : placed[i].key = placed[j].key => i = j

\* The answer kept for a key is about an order that was placed with it.
KeyNamesItsOrder ==
  \A k \in Keys : keys[k].order # NoRow => placed[keys[k].order].key = k
===============================================================================
