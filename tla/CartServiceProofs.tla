--------------------------- MODULE CartServiceProofs ---------------------------
(***************************************************************************)
(* Proofs about CartService, for any number of stores, variants, requests  *)
(* and keys.                                                               *)
(***************************************************************************)
EXTENDS CartService, SequenceTheorems, FiniteSetTheorems, TLAPS

-------------------------------------------------------------------------------
(* Tables *)

\* A table gets a row.
LEMMA RowAdded ==
  ASSUME NEW S, NEW s \in Seq(S), NEW x \in S
  PROVE  /\ Append(s, x) \in Seq(S)
         /\ Len(s) \in Nat /\ DOMAIN s = 1..Len(s)
         /\ DOMAIN Append(s, x) = 1..(Len(s) + 1)
         /\ \A i \in DOMAIN s : Append(s, x)[i] = s[i]
         /\ Append(s, x)[Len(s) + 1] = x
<1>1. /\ Append(s, x) \in Seq(S) /\ Len(Append(s, x)) = Len(s) + 1
      /\ \A i \in 1..Len(s) : Append(s, x)[i] = s[i]
      /\ Append(s, x)[Len(s) + 1] = x
  BY AppendProperties
<1>2. Len(s) \in Nat /\ DOMAIN s = 1..Len(s)
  BY LenProperties
<1>3. DOMAIN Append(s, x) = 1..(Len(s) + 1)
  BY <1>1, LenProperties
<1> QED BY <1>1, <1>2, <1>3

\* A row is edited.
LEMMA RowEdited ==
  ASSUME NEW S, NEW s \in Seq(S), NEW i \in DOMAIN s, NEW x \in S
  PROVE  /\ [s EXCEPT ![i] = x] \in Seq(S)
         /\ DOMAIN [s EXCEPT ![i] = x] = DOMAIN s
         /\ \A j \in DOMAIN s : [s EXCEPT ![i] = x][j] = IF j = i THEN x ELSE s[j]
<1>1. Len(s) \in Nat /\ DOMAIN s = 1..Len(s)
  BY LenProperties
<1> QED BY <1>1, ExceptSeq

\* Rows of a table are rewritten.
LEMMA RowsRewritten ==
  ASSUME NEW S, NEW s \in Seq(S), NEW t \in [DOMAIN s -> S]
  PROVE  t \in Seq(S)
<1>1. Len(s) \in Nat /\ DOMAIN s = 1..Len(s)
  BY LenProperties
<1> QED BY <1>1, SeqDef

\* Rows are never lost: a cart keeps its store and stays abandoned, a line its cart and
\* its variant and stays deleted, an order does not change.
Grown ==
  /\ DOMAIN carts \subseteq DOMAIN carts'
  /\ \A c \in DOMAIN carts : /\ carts'[c].store = carts[c].store
                             /\ carts'[c].status = "ACTIVE" => carts[c].status = "ACTIVE"
  /\ DOMAIN lines \subseteq DOMAIN lines'
  /\ \A l \in DOMAIN lines : /\ lines'[l].cart = lines[l].cart
                             /\ lines'[l].variant = lines[l].variant
                             /\ lines[l].deleted => lines'[l].deleted
  /\ DOMAIN placed \subseteq DOMAIN placed'
  /\ \A i \in DOMAIN placed : placed'[i] = placed[i]

-------------------------------------------------------------------------------
(* The invariant, however requests overlap *)

\* Every line is in a cart, and its store sells the line's variant.
LinesInv ==
  /\ \A l \in DOMAIN lines : lines[l].cart \in DOMAIN carts
  /\ CartsOfOneStore

KeysInv ==
  \A k \in Keys : keys[k].order # NoRow =>
    keys[k].order \in DOMAIN placed /\ placed[keys[k].order].key = k

HasCart(r) == r.cart \in DOMAIN carts /\ carts[r.cart].store = r.store
OfStore(r) == \A v \in Variants : r.items[v] > 0 => StoreOf[v] = r.store
AddsOne(r) == \E v \in Variants : r.items[v] > 0 /\ \A w \in Variants : r.items[w] > 0 => w = v

\* What a request has read: the rows exist, and the cart is of the store it adds goods of.
Sound(r) ==
  /\ r.step \in {"abandon", "cart", "item", "write", "mergeClear", "mergeCommit"} => OfStore(r)
  /\ r.step \in {"abandon", "cart", "item", "write"} => AddsOne(r)
  /\ r.step \in {"abandon", "clear"} => r.cart \in DOMAIN carts
  /\ r.step \in {"item", "write"} => HasCart(r)
  /\ r.step \in {"cart", "mergeClear", "mergeCommit"} /\ r.cart # NoRow => HasCart(r)
  /\ r.step = "write" /\ r.row # NoRow => r.row \in DOMAIN lines
  /\ r.step = "delete" => r.row \in DOMAIN lines
  /\ r.step \in {"key", "tx", "setKey"} => r.key \in Keys
  /\ r.step = "setKey" => r.row \in DOMAIN placed /\ placed[r.row].key = r.key

RequestsInv == \A p \in Procs : Sound(req[p])

CartInv == TypeOK /\ LinesInv /\ KeysInv /\ RequestsInv

LEMMA SoundKept ==
  ASSUME Grown, NEW r, Sound(r)
  PROVE  Sound(r)'
  BY DEF Grown, Sound, HasCart, OfStore, AddsOne

\* One request moves on.
LEMMA MoveKeepsRequests ==
  ASSUME TypeOK, RequestsInv, Grown, NEW p \in Procs, NEW r \in Request,
         req' = [req EXCEPT ![p] = r], Sound(r)'
  PROVE  req' \in [Procs -> Request] /\ RequestsInv'
<1>1. req' \in [Procs -> Request] /\ req'[p] = r /\ \A q \in Procs : q # p => req'[q] = req[q]
  BY DEF TypeOK
<1>2. ASSUME NEW q \in Procs
      PROVE  Sound(req[q])'
  <2>1. CASE q = p
    BY <1>1, <2>1 DEF Sound, HasCart, OfStore, AddsOne
  <2>2. CASE q # p
    <3>1. ASSUME NEW x, x = req[q]
          PROVE  Sound(req[q])'
      <4>1. Sound(x)'
        BY <3>1, SoundKept DEF RequestsInv, Sound, HasCart, OfStore, AddsOne
      <4>2. req'[q] = x
        BY <1>1, <2>2, <3>1
      <4> QED BY <4>1, <4>2 DEF Sound, HasCart, OfStore, AddsOne
    <3> QED BY <3>1
  <2> QED BY <2>1, <2>2
<1> QED BY <1>1, <1>2 DEF RequestsInv

LEMMA IdleIsRequest == Idle \in Request /\ Idle.step = "idle"
<1>1. (CHOOSE s \in Stores : TRUE) \in Stores
  BY CartAssumption
<1> QED BY <1>1 DEF Idle, Request, Step, NoRow, Nothing, Basket

LEMMA FinishKeepsRequests ==
  ASSUME TypeOK, RequestsInv, Grown, NEW p \in Procs, Finish(p)
  PROVE  req' \in [Procs -> Request] /\ RequestsInv'
<1>1. Sound(Idle)'
  BY IdleIsRequest DEF Sound
<1> QED BY <1>1, IdleIsRequest, MoveKeepsRequests DEF Finish

-------------------------------------------------------------------------------
(* Every step keeps it *)

\* What every step does.
Kept == CartInv' /\ Grown

LEMMA NothingMoves ==
  ASSUME UNCHANGED <<carts, lines, placed>>
  PROVE  Grown /\ (LinesInv => LinesInv')
  BY DEF Grown, LinesInv, CartsOfOneStore

LEMMA QuietStep ==
  ASSUME CartInv, UNCHANGED <<carts, lines, placed, keys, forSale>>,
         NEW p \in Procs, NEW r \in Request, req' = [req EXCEPT ![p] = r], Sound(r)
  PROVE  Kept
<1>1. Grown /\ LinesInv'
  BY NothingMoves DEF CartInv
<1>2. req' \in [Procs -> Request] /\ RequestsInv'
  BY <1>1, SoundKept, MoveKeepsRequests DEF CartInv
<1> QED BY <1>1, <1>2 DEF CartInv, Kept, TypeOK, KeysInv

LEMMA QuietFinish ==
  ASSUME CartInv, UNCHANGED <<carts, lines, placed, keys, forSale>>,
         NEW p \in Procs, Finish(p)
  PROVE  Kept
  BY QuietStep, IdleIsRequest DEF Finish, Sound

LEMMA VariantOfIs ==
  ASSUME NEW r, AddsOne(r)
  PROVE  /\ VariantOf(r) \in Variants /\ r.items[VariantOf(r)] > 0
         /\ \A w \in Variants : r.items[w] > 0 => w = VariantOf(r)
<1>1. PICK v \in Variants : r.items[v] > 0 /\ \A w \in Variants : r.items[w] > 0 => w = v
  BY DEF AddsOne
<1>2. VariantOf(r) \in Variants /\ r.items[VariantOf(r)] > 0
  BY <1>1 DEF VariantOf
<1> QED BY <1>1, <1>2

LEMMA AskedIs ==
  ASSUME NEW v \in Variants
  PROVE  /\ Asked(StoreOf[v], v) \in Request /\ Asked(StoreOf[v], v).store = StoreOf[v]
         /\ Asked(StoreOf[v], v).items = [w \in Variants |-> IF w = v THEN 1 ELSE 0]
         /\ Asked(StoreOf[v], v).row = NoRow
         /\ OfStore(Asked(StoreOf[v], v)) /\ AddsOne(Asked(StoreOf[v], v))
<1> DEFINE a == Asked(StoreOf[v], v)
<1>1. StoreOf[v] \in Stores
  BY CartAssumption
<1>2. /\ a.store = StoreOf[v] /\ a.row = NoRow
      /\ a.items = [w \in Variants |-> IF w = v THEN 1 ELSE 0]
  BY DEF Asked, Idle, Nothing
<1>3. a \in Request
  <2>1. a = [Idle EXCEPT !.store = StoreOf[v], !.items = [w \in Variants |-> IF w = v THEN 1 ELSE 0]]
    BY DEF Asked, Idle, Nothing
  <2>2. [w \in Variants |-> IF w = v THEN 1 ELSE 0] \in Basket
    BY DEF Basket
  <2> QED BY <1>1, <2>1, <2>2, IdleIsRequest DEF Request
<1> HIDE DEF a
<1>4. OfStore(a) /\ AddsOne(a)
  BY <1>2 DEF OfStore, AddsOne
<1> QED BY <1>2, <1>3, <1>4 DEF a

\* A row that a query has found.
LEMMA FoundCart ==
  ASSUME TypeOK, NEW s, NEW c \in FindFirst(ActiveCarts) \cup FindFirst(ActiveCartsOf(s))
  PROVE  c \in Nat /\ (c # NoRow => c \in DOMAIN carts)
<1>1. ActiveCartsOf(s) \subseteq ActiveCarts /\ ActiveCarts \subseteq DOMAIN carts
  BY DEF ActiveCarts, ActiveCartsOf
<1>2. DOMAIN carts = 1..Len(carts) /\ Len(carts) \in Nat
  BY LenProperties DEF TypeOK
<1> QED BY <1>1, <1>2 DEF FindFirst, NoRow

LEMMA AddItemStep ==
  ASSUME CartInv, NEW p \in Procs, NEW v \in Variants, NEW confirm, AddItem(p, v, confirm)
  PROVE  /\ Kept
         /\ \E r : /\ req' = [req EXCEPT ![p] = r] /\ r.step \in {"abandon", "cart"}
                   /\ r.cart \in FindFirst(ActiveCarts)
<1>1. PICK c \in FindFirst(ActiveCarts), step \in {"abandon", "cart"} :
        /\ req' = [req EXCEPT ![p] = [Asked(StoreOf[v], v) EXCEPT !.step = step, !.cart = c]]
        /\ step = "abandon" => c # NoRow
        /\ step = "cart" /\ c # NoRow => carts[c].store = StoreOf[v]
  BY DEF AddItem, Start
<1>2. c \in Nat /\ (c # NoRow => c \in DOMAIN carts)
  BY FoundCart DEF CartInv
<1> DEFINE a == Asked(StoreOf[v], v)
           r == [a EXCEPT !.step = step, !.cart = c]
<1>3. a \in Request /\ a.store = StoreOf[v] /\ OfStore(a) /\ AddsOne(a)
  BY AskedIs
<1> HIDE DEF a
<1>4. /\ r.step = step /\ r.cart = c /\ r.store = StoreOf[v] /\ r.items = a.items
      /\ r \in Request
  BY <1>2, <1>3 DEF Request, Step
<1> HIDE DEF r
<1>5. Sound(r)
  BY <1>1, <1>2, <1>3, <1>4 DEF Sound, HasCart, OfStore, AddsOne
<1>6. req' = [req EXCEPT ![p] = r]
  BY <1>1 DEF a, r
<1>7. Kept
  BY <1>4, <1>5, <1>6, QuietStep DEF AddItem
<1> QED BY <1>4, <1>6, <1>7

\* A cart is abandoned, or created.
CartsMove ==
  /\ carts' \in Seq(Cart) /\ DOMAIN carts \subseteq DOMAIN carts'
  /\ \A c \in DOMAIN carts : /\ carts'[c].store = carts[c].store
                             /\ carts'[c].status = "ACTIVE" => carts[c].status = "ACTIVE"

LEMMA CartsMoveKept ==
  ASSUME CartInv, CartsMove, UNCHANGED <<lines, placed, keys, forSale>>,
         NEW p \in Procs, NEW r \in Request, req' = [req EXCEPT ![p] = r], Sound(r)'
  PROVE  Kept
<1>1. Grown
  BY DEF CartsMove, Grown
<1>2. LinesInv'
  BY DEF CartInv, LinesInv, CartsOfOneStore, CartsMove
<1>3. req' \in [Procs -> Request] /\ RequestsInv'
  BY <1>1, MoveKeepsRequests DEF CartInv
<1> QED BY <1>1, <1>2, <1>3 DEF CartInv, Kept, TypeOK, KeysInv, CartsMove

LEMMA AbandonIsMove ==
  ASSUME TypeOK, NEW c \in DOMAIN carts,
         carts' = [carts EXCEPT ![c].status = "ABANDONED"]
  PROVE  CartsMove
<1>1. carts[c] \in Cart /\ c \in 1..Len(carts)
  BY LenProperties DEF TypeOK
<1> DEFINE x == [carts[c] EXCEPT !.status = "ABANDONED"]
<1>2. x \in Cart /\ x.store = carts[c].store /\ x.status = "ABANDONED"
  BY <1>1 DEF Cart
<1>3. carts' = [carts EXCEPT ![c] = x]
  OBVIOUS
<1> HIDE DEF x
<1>4. /\ [carts EXCEPT ![c] = x] \in Seq(Cart) /\ DOMAIN [carts EXCEPT ![c] = x] = DOMAIN carts
      /\ \A d \in DOMAIN carts : [carts EXCEPT ![c] = x][d] = IF d = c THEN x ELSE carts[d]
  <2>1. carts \in Seq(Cart)
    BY DEF TypeOK
  <2> QED BY <1>2, <2>1, RowEdited
<1> QED BY <1>2, <1>3, <1>4 DEF CartsMove

LEMMA CreateIsMove ==
  ASSUME TypeOK, NEW s \in Stores,
         carts' = Append(carts, [store |-> s, status |-> "ACTIVE"])
  PROVE  /\ CartsMove /\ Len(carts) \in Nat /\ Len(carts) + 1 \notin DOMAIN carts
         /\ DOMAIN carts' = DOMAIN carts \cup {Len(carts) + 1}
         /\ \A c \in DOMAIN carts : carts'[c] = carts[c]
         /\ carts'[Len(carts) + 1] = [store |-> s, status |-> "ACTIVE"]
<1> DEFINE x == [store |-> s, status |-> "ACTIVE"]
<1>1. x \in Cart
  BY DEF Cart
<1> HIDE DEF x
<1>2. /\ carts' \in Seq(Cart) /\ Len(carts) \in Nat /\ DOMAIN carts = 1..Len(carts)
      /\ DOMAIN carts' = 1..(Len(carts) + 1)
      /\ \A i \in DOMAIN carts : carts'[i] = carts[i]
      /\ carts'[Len(carts) + 1] = x
  BY <1>1, RowAdded DEF TypeOK, x
<1> QED BY <1>2 DEF CartsMove, x

LEMMA AbandonOtherStep ==
  ASSUME CartInv, NEW p \in Procs, AbandonOtherCart(p)
  PROVE  /\ Kept
         /\ \E r : req' = [req EXCEPT ![p] = r] /\ r.step = "cart" /\ r.cart = NoRow
<1>1. CartsMove
  BY AbandonIsMove DEF CartInv, RequestsInv, Sound, AbandonOtherCart
<1>2. PICK old \in Request : old = req[p] /\ OfStore(old) /\ AddsOne(old)
  BY DEF CartInv, TypeOK, RequestsInv, Sound, AbandonOtherCart
<1>3. PICK r : r = [old EXCEPT !.step = "cart", !.cart = NoRow]
  OBVIOUS
<1>4. r \in Request /\ r.step = "cart" /\ r.cart = NoRow /\ r.store = old.store /\ r.items = old.items
  BY <1>3 DEF Request, Step, NoRow
<1>5. Sound(r)'
  BY <1>2, <1>4 DEF Sound, OfStore, AddsOne
<1>6. req' = [req EXCEPT ![p] = r]
  BY <1>2, <1>3 DEF AbandonOtherCart, Continue
<1>7. Kept
  BY <1>1, <1>4, <1>5, <1>6, CartsMoveKept DEF AbandonOtherCart
<1> QED BY <1>4, <1>6, <1>7

\* The cart that was found, or a new one that is active.
CartReady(p) ==
  \E r : /\ req' = [req EXCEPT ![p] = r] /\ r.step = "item"
         /\ \A d \in DOMAIN carts : carts'[d] = carts[d]
         /\ \/ r.cart = req[p].cart /\ req[p].cart # NoRow
            \/ carts'[r.cart].status = "ACTIVE"
         /\ r.cart \in DOMAIN carts'

LEMMA FindOrCreateStep ==
  ASSUME CartInv, NEW p \in Procs, FindOrCreateCart(p)
  PROVE  Kept /\ ((Finish(p) /\ UNCHANGED carts) \/ CartReady(p))
<1>1. PICK old \in Request : /\ old = req[p] /\ OfStore(old) /\ AddsOne(old)
                             /\ old.cart # NoRow => HasCart(old)
  BY DEF CartInv, TypeOK, RequestsInv, Sound, FindOrCreateCart
<1>2. CASE Finish(p) /\ UNCHANGED carts
  BY <1>2, QuietFinish DEF FindOrCreateCart
<1>3. CASE old.cart # NoRow /\ Continue(p, [old EXCEPT !.step = "item"]) /\ UNCHANGED carts
  <2>1. PICK r : r = [old EXCEPT !.step = "item"]
    OBVIOUS
  <2>2. /\ r \in Request /\ r.step = "item" /\ r.cart = old.cart /\ r.store = old.store
        /\ r.items = old.items
    BY <1>1, <2>1 DEF Request, Step
  <2>3. Sound(r)
    BY <1>1, <1>3, <2>2 DEF Sound, OfStore, AddsOne, HasCart
  <2>4. req' = [req EXCEPT ![p] = r]
    BY <1>3, <2>1 DEF Continue
  <2>5. Kept
    BY <1>3, <2>2, <2>3, <2>4, QuietStep DEF FindOrCreateCart
  <2>6. CartReady(p)
    BY <1>1, <1>3, <2>2, <2>4 DEF CartReady, HasCart
  <2> QED BY <2>5, <2>6
<1>4. CASE /\ carts' = Append(carts, [store |-> old.store, status |-> "ACTIVE"])
           /\ Continue(p, [old EXCEPT !.step = "item", !.cart = Len(carts) + 1])
  <2>1. old.store \in Stores
    BY <1>1 DEF Request
  <2>2. PICK n : n = Len(carts) + 1
    OBVIOUS
  <2>3. /\ CartsMove /\ n \in Nat /\ n \in DOMAIN carts' /\ carts'[n].store = old.store
        /\ carts'[n].status = "ACTIVE" /\ \A d \in DOMAIN carts : carts'[d] = carts[d]
    BY <1>4, <2>1, <2>2, CreateIsMove DEF CartInv
  <2>4. PICK r : r = [old EXCEPT !.step = "item", !.cart = n]
    OBVIOUS
  <2>5. /\ r \in Request /\ r.step = "item" /\ r.cart = n /\ r.store = old.store
        /\ r.items = old.items
    BY <1>1, <2>3, <2>4 DEF Request, Step
  <2>6. Sound(r)'
    BY <1>1, <2>3, <2>5 DEF Sound, OfStore, AddsOne, HasCart
  <2>7. req' = [req EXCEPT ![p] = r]
    BY <1>4, <2>2, <2>4 DEF Continue
  <2>8. Kept
    BY <2>3, <2>5, <2>6, <2>7, CartsMoveKept DEF FindOrCreateCart
  <2>9. CartReady(p)
    BY <2>3, <2>5, <2>7 DEF CartReady
  <2> QED BY <2>8, <2>9
<1> QED BY <1>1, <1>2, <1>3, <1>4 DEF FindOrCreateCart

\* Lines are added to a cart of their store, or edited, or deleted.
LinesMove ==
  /\ lines' \in Seq(Line) /\ DOMAIN lines \subseteq DOMAIN lines'
  /\ \A l \in DOMAIN lines : /\ lines'[l].cart = lines[l].cart
                             /\ lines'[l].variant = lines[l].variant
                             /\ lines[l].deleted => lines'[l].deleted
  /\ \A l \in DOMAIN lines' \ DOMAIN lines :
       /\ lines'[l].cart \in DOMAIN carts'
       /\ StoreOf[lines'[l].variant] = carts'[lines'[l].cart].store

LEMMA SameCarts == TypeOK /\ UNCHANGED carts => CartsMove
  BY DEF TypeOK, CartsMove

LEMMA SameLines == TypeOK /\ UNCHANGED lines => LinesMove
  BY DEF TypeOK, LinesMove

LEMMA LinesMoveKept ==
  ASSUME CartInv, CartsMove, LinesMove, UNCHANGED <<placed, keys, forSale>>,
         NEW p \in Procs, NEW r \in Request, req' = [req EXCEPT ![p] = r], Sound(r)'
  PROVE  Kept
<1>1. Grown
  BY DEF CartsMove, LinesMove, Grown
<1>2. LinesInv'
  <2>1. ASSUME NEW l \in DOMAIN lines'
        PROVE  /\ lines'[l].cart \in DOMAIN carts'
               /\ StoreOf[lines'[l].variant] = carts'[lines'[l].cart].store
    <3>1. CASE l \in DOMAIN lines
      BY <3>1 DEF CartInv, LinesInv, CartsOfOneStore, CartsMove, LinesMove
    <3>2. CASE l \notin DOMAIN lines
      BY <2>1, <3>2 DEF LinesMove
    <3> QED BY <3>1, <3>2
  <2> QED BY <2>1 DEF LinesInv, CartsOfOneStore
<1>3. req' \in [Procs -> Request] /\ RequestsInv'
  BY <1>1, MoveKeepsRequests DEF CartInv
<1> QED BY <1>1, <1>2, <1>3 DEF CartInv, Kept, TypeOK, KeysInv, CartsMove, LinesMove

LEMMA LinesMoveFinished ==
  ASSUME CartInv, CartsMove, LinesMove, UNCHANGED <<placed, keys, forSale>>,
         NEW p \in Procs, Finish(p)
  PROVE  Kept
<1>1. Sound(Idle)'
  BY IdleIsRequest DEF Sound
<1> QED BY <1>1, LinesMoveKept, IdleIsRequest DEF Finish

LEMMA EditIsMove ==
  ASSUME TypeOK, NEW l \in DOMAIN lines, NEW x \in Line,
         x.cart = lines[l].cart, x.variant = lines[l].variant, lines[l].deleted => x.deleted,
         lines' = [lines EXCEPT ![l] = x]
  PROVE  LinesMove
<1>1. /\ [lines EXCEPT ![l] = x] \in Seq(Line) /\ DOMAIN [lines EXCEPT ![l] = x] = DOMAIN lines
      /\ \A m \in DOMAIN lines : [lines EXCEPT ![l] = x][m] = IF m = l THEN x ELSE lines[m]
  <2>1. lines \in Seq(Line)
    BY DEF TypeOK
  <2> QED BY <2>1, RowEdited
<1> QED BY <1>1 DEF LinesMove

LEMMA LineHasType ==
  ASSUME TypeOK, NEW l \in DOMAIN lines
  PROVE  lines[l] \in Line
<1>1. DOMAIN lines = 1..Len(lines)
  BY LenProperties DEF TypeOK
<1> QED BY <1>1, ElementOfSeq DEF TypeOK

LEMMA FindItemStep ==
  ASSUME CartInv, NEW p \in Procs, FindItem(p)
  PROVE  /\ Kept
         /\ \/ Finish(p)
            \/ \E r : /\ req' = [req EXCEPT ![p] = r] /\ r.step = "write" /\ r.cart = req[p].cart
                      /\ AddsOne(r) /\ r.row \in FindFirst(LinesFor(r.cart, VariantOf(r)))
<1>1. PICK old \in Request : /\ old = req[p] /\ OfStore(old) /\ AddsOne(old) /\ HasCart(old)
                             /\ old.items \in Basket
  <2>1. req[p] \in Request
    BY DEF CartInv, TypeOK
  <2>2. req[p].items \in Basket
    BY <2>1 DEF Request
  <2> QED BY <2>1, <2>2 DEF CartInv, RequestsInv, Sound, FindItem
<1>2. PICK v \in Variants : /\ v = VariantOf(old) /\ old.items[v] > 0
                            /\ \A w \in Variants : old.items[w] > 0 => w = v
  BY <1>1, VariantOfIs
<1>0. PICK l \in FindFirst(LinesFor(old.cart, v)) :
        LET target == TargetQuantity(l, old.items[v]) IN
        IF target > Available[v] THEN Finish(p)
        ELSE Continue(p, [old EXCEPT !.step = "write", !.row = l, !.items[v] = target])
  BY <1>1, <1>2 DEF FindItem
<1>3. PICK target :
        /\ target = TargetQuantity(l, old.items[v])
        /\ IF target > Available[v] THEN Finish(p)
           ELSE Continue(p, [old EXCEPT !.step = "write", !.row = l, !.items[v] = target])
  BY <1>0
<1>4. l \in Nat /\ (l # NoRow => l \in DOMAIN lines)
  <2>1. DOMAIN lines = 1..Len(lines) /\ Len(lines) \in Nat
    BY LenProperties DEF CartInv, TypeOK
  <2> QED BY <2>1 DEF FindFirst, LinesFor, LiveLines, NoRow
<1>5. old.items[v] \in Nat
  BY <1>1 DEF Basket
<1>6. target \in Nat /\ target > 0
  <2>1. l # NoRow => lines[l].quantity \in Nat
    BY <1>4, LineHasType DEF Line, CartInv
  <2> QED BY <1>2, <1>3, <1>5, <2>1 DEF TargetQuantity
<1>7. CASE Finish(p)
  BY <1>7, QuietFinish DEF FindItem
<1>8. CASE Continue(p, [old EXCEPT !.step = "write", !.row = l, !.items[v] = target])
  <2>1. PICK items : items = [old.items EXCEPT ![v] = target]
    OBVIOUS
  <2>2. items \in Basket /\ items[v] = target /\ \A w \in Variants : w # v => items[w] = old.items[w]
    BY <1>1, <1>6, <2>1 DEF Basket
  <2>3. PICK r : r = [old EXCEPT !.step = "write", !.row = l, !.items = items]
    OBVIOUS
  <2>4. /\ r \in Request /\ r.step = "write" /\ r.row = l /\ r.cart = old.cart
        /\ r.store = old.store /\ r.items = items
    BY <1>4, <2>2, <2>3 DEF Request, Step
  <2>5. req' = [req EXCEPT ![p] = r]
    BY <1>8, <2>1, <2>3 DEF Continue
  <2>6. OfStore(r) /\ AddsOne(r) /\ HasCart(r)
    BY <1>1, <1>2, <1>6, <2>2, <2>4 DEF OfStore, AddsOne, HasCart
  <2>7. Sound(r)
    BY <1>4, <2>4, <2>6 DEF Sound
  <2>8. Kept
    BY <2>4, <2>5, <2>7, QuietStep DEF FindItem
  <2>9. VariantOf(r) = v
    BY <1>2, <2>2, <2>4, <2>6, VariantOfIs
  <2> QED BY <1>1, <1>3, <2>4, <2>5, <2>6, <2>8, <2>9
<1> QED BY <1>3, <1>7, <1>8

\* A new line is of the cart's store.
LEMMA AddIsMove ==
  ASSUME CartInv, UNCHANGED carts, NEW c \in DOMAIN carts, NEW v \in Variants,
         StoreOf[v] = carts[c].store, NEW n \in Nat \ {0},
         lines' = Append(lines, NewLine(c, v, n))
  PROVE  LinesMove
<1>1. PICK x : x = NewLine(c, v, n)
  OBVIOUS
<1>2. c \in Nat
  <2>1. DOMAIN carts = 1..Len(carts) /\ Len(carts) \in Nat
    BY LenProperties DEF CartInv, TypeOK
  <2> QED BY <2>1
<1>3. x \in Line /\ x.cart = c /\ x.variant = v
  BY <1>1, <1>2 DEF NewLine, Line
<1>4. /\ lines' \in Seq(Line) /\ Len(lines) \in Nat /\ DOMAIN lines = 1..Len(lines)
      /\ DOMAIN lines' = 1..(Len(lines) + 1)
      /\ \A i \in DOMAIN lines : lines'[i] = lines[i]
      /\ lines'[Len(lines) + 1] = x
  <2>1. lines \in Seq(Line) /\ lines' = Append(lines, x)
    BY <1>1 DEF CartInv, TypeOK
  <2> QED BY <1>3, <2>1, RowAdded
<1>5. \A l \in DOMAIN lines' \ DOMAIN lines : l = Len(lines) + 1
  BY <1>4
<1> QED BY <1>3, <1>4, <1>5 DEF LinesMove

LEMMA WriteItemStep ==
  ASSUME CartInv, NEW p \in Procs, WriteItem(p)
  PROVE  Kept
<1>1. PICK r \in Request : /\ r = req[p] /\ OfStore(r) /\ AddsOne(r) /\ HasCart(r)
                           /\ r.row # NoRow => r.row \in DOMAIN lines
                           /\ r.items \in Basket
  <2>1. req[p] \in Request
    BY DEF CartInv, TypeOK
  <2>2. req[p].items \in Basket
    BY <2>1 DEF Request
  <2> QED BY <2>1, <2>2 DEF CartInv, RequestsInv, Sound, WriteItem
<1>2. PICK v \in Variants : v = VariantOf(r) /\ r.items[v] > 0
  BY <1>1, VariantOfIs
<1>3. PICK n \in Nat \ {0} : n = r.items[v]
  BY <1>1, <1>2 DEF Basket
<1>4. LinesMove
  <2>1. CASE r.row = NoRow /\ lines' = Append(lines, NewLine(r.cart, v, n))
    <3>1. r.cart \in DOMAIN carts /\ StoreOf[v] = carts[r.cart].store
      BY <1>1, <1>2 DEF HasCart, OfStore
    <3> QED BY <2>1, <3>1, AddIsMove DEF WriteItem
  <2>2. CASE r.row # NoRow /\ lines' = [lines EXCEPT ![r.row].quantity = n]
    <3>1. lines[r.row] \in Line
      BY <1>1, <2>2, LineHasType DEF CartInv
    <3>2. PICK x : x = [lines[r.row] EXCEPT !.quantity = n]
      OBVIOUS
    <3>3. /\ x \in Line /\ x.cart = lines[r.row].cart /\ x.variant = lines[r.row].variant
          /\ lines[r.row].deleted => x.deleted
      BY <3>1, <3>2 DEF Line
    <3>4. lines' = [lines EXCEPT ![r.row] = x]
      BY <2>2, <3>2
    <3> QED BY <1>1, <2>2, <3>3, <3>4, EditIsMove DEF CartInv
  <2>3. CASE UNCHANGED lines
    BY <2>3, SameLines DEF CartInv
  <2> QED BY <1>1, <1>2, <1>3, <2>1, <2>2, <2>3 DEF WriteItem
<1> QED BY <1>4, SameCarts, LinesMoveFinished DEF WriteItem, CartInv

LEMMA UpdateItemStep ==
  ASSUME CartInv, NEW p \in Procs, NEW l \in DOMAIN lines, NEW n \in 1..2, UpdateItem(p, l, n)
  PROVE  /\ Kept
         /\ \E r : /\ req' = [req EXCEPT ![p] = r] /\ r.step = "write"
                   /\ r.row = l /\ r.cart = lines[l].cart
<1>1. /\ lines[l] \in Line /\ lines[l].cart \in DOMAIN carts
      /\ StoreOf[lines[l].variant] = carts[lines[l].cart].store
  BY LineHasType DEF CartInv, LinesInv, CartsOfOneStore
<1>2. PICK v \in Variants, c \in Nat : v = lines[l].variant /\ c = lines[l].cart
  BY <1>1 DEF Line
<1>3. PICK a \in Request : /\ a = Asked(StoreOf[v], v) /\ a.store = StoreOf[v]
                           /\ a.items = [w \in Variants |-> IF w = v THEN 1 ELSE 0]
  BY AskedIs
<1>4. PICK items : items = [w \in Variants |-> IF w = v THEN n ELSE 0]
  OBVIOUS
<1>5. items \in Basket
  BY <1>4 DEF Basket
<1>6. PICK r : r = [a EXCEPT !.step = "write", !.cart = c, !.row = l, !.items = items]
  OBVIOUS
<1>7. l \in Nat
  <2>1. DOMAIN lines = 1..Len(lines) /\ Len(lines) \in Nat
    BY LenProperties DEF CartInv, TypeOK
  <2> QED BY <2>1
<1>8. /\ r \in Request /\ r.step = "write" /\ r.row = l /\ r.cart = c
      /\ r.store = StoreOf[v] /\ r.items = items
  BY <1>3, <1>5, <1>6, <1>7 DEF Request, Step
<1>9. req' = [req EXCEPT ![p] = r]
  <2>1. [a.items EXCEPT ![v] = n] = items
    BY <1>3, <1>4
  <2> QED BY <1>2, <1>3, <1>6, <2>1 DEF UpdateItem, Start
<1>10. OfStore(r) /\ AddsOne(r) /\ HasCart(r)
  <2>1. \A w \in Variants : items[w] = IF w = v THEN n ELSE 0
    BY <1>4
  <2> QED BY <1>1, <1>2, <1>8, <2>1 DEF OfStore, AddsOne, HasCart
<1>11. Sound(r)
  BY <1>8, <1>10 DEF Sound
<1>12. Kept
  BY <1>8, <1>9, <1>11, QuietStep DEF UpdateItem
<1> QED BY <1>2, <1>8, <1>9, <1>12

LEMMA RemoveItemStep ==
  ASSUME CartInv, NEW p \in Procs, NEW l \in DOMAIN lines, RemoveItem(p, l)
  PROVE  Kept /\ \E r : req' = [req EXCEPT ![p] = r] /\ r.step = "delete" /\ r.row = l
<1>1. l \in Nat
  <2>1. DOMAIN lines = 1..Len(lines) /\ Len(lines) \in Nat
    BY LenProperties DEF CartInv, TypeOK
  <2> QED BY <2>1
<1>2. PICK r : r = [Idle EXCEPT !.step = "delete", !.row = l]
  OBVIOUS
<1>3. r \in Request /\ r.step = "delete" /\ r.row = l
  BY <1>1, <1>2, IdleIsRequest DEF Request, Step
<1>4. Sound(r)
  BY <1>3 DEF Sound
<1>5. req' = [req EXCEPT ![p] = r]
  BY <1>2 DEF RemoveItem, Start
<1> QED BY <1>3, <1>4, <1>5, QuietStep DEF RemoveItem

LEMMA DeleteItemStep ==
  ASSUME CartInv, NEW p \in Procs, DeleteItem(p)
  PROVE  Kept
<1>1. PICK l \in DOMAIN lines : l = req[p].row
  BY DEF CartInv, RequestsInv, Sound, DeleteItem
<1>2. lines[l] \in Line
  BY LineHasType DEF CartInv
<1>3. PICK x : x = [lines[l] EXCEPT !.deleted = TRUE]
  OBVIOUS
<1>4. x \in Line /\ x.cart = lines[l].cart /\ x.variant = lines[l].variant /\ x.deleted
  BY <1>2, <1>3 DEF Line
<1>5. lines' = [lines EXCEPT ![l] = x]
  BY <1>1, <1>3 DEF DeleteItem
<1>6. LinesMove
  BY <1>4, <1>5, EditIsMove DEF CartInv
<1> QED BY <1>6, SameCarts, LinesMoveFinished DEF DeleteItem, CartInv

LEMMA ClearCartStep ==
  ASSUME CartInv, NEW p \in Procs, NEW s \in Stores, ClearCart(p, s)
  PROVE  Kept /\ \E r : req' = [req EXCEPT ![p] = r] /\ r.step = "clear"
<1>1. PICK c \in ActiveCartsOf(s) : req' = [req EXCEPT ![p] = [Idle EXCEPT !.step = "clear", !.cart = c]]
  BY DEF ClearCart, Start
<1>2. c \in Nat /\ c \in DOMAIN carts
  <2>1. c \in FindFirst(ActiveCartsOf(s)) /\ c \in DOMAIN carts
    BY <1>1 DEF FindFirst, ActiveCartsOf, ActiveCarts
  <2> QED BY <2>1, FoundCart DEF CartInv
<1>3. PICK r : r = [Idle EXCEPT !.step = "clear", !.cart = c]
  OBVIOUS
<1>4. r \in Request /\ r.step = "clear" /\ r.cart = c
  BY <1>2, <1>3, IdleIsRequest DEF Request, Step
<1>5. Sound(r)
  BY <1>2, <1>4 DEF Sound
<1>6. req' = [req EXCEPT ![p] = r]
  BY <1>1, <1>3
<1> QED BY <1>4, <1>5, <1>6, QuietStep DEF ClearCart

LEMMA AbandonCartStep ==
  ASSUME CartInv, NEW p \in Procs, AbandonCart(p)
  PROVE  Kept
<1>1. PICK c \in DOMAIN carts : c = req[p].cart
  BY DEF CartInv, RequestsInv, Sound, AbandonCart
<1>2. CartsMove
  BY <1>1, AbandonIsMove DEF AbandonCart, CartInv
<1> QED BY <1>2, SameLines, LinesMoveFinished DEF AbandonCart, CartInv

LEMMA LiveLinesFinite ==
  ASSUME TypeOK, NEW c
  PROVE  IsFiniteSet(LiveLines(c)) /\ Cardinality(LiveLines(c)) \in Nat
<1>1. DOMAIN lines = 1..Len(lines) /\ Len(lines) \in Nat
  BY LenProperties DEF TypeOK
<1>2. IsFiniteSet(1..Len(lines))
  BY <1>1, FS_Interval
<1>3. LiveLines(c) \subseteq 1..Len(lines)
  BY <1>1 DEF LiveLines
<1>4. IsFiniteSet(LiveLines(c))
  BY <1>2, <1>3, FS_Subset
<1> QED BY <1>4, FS_CardinalityType

LEMMA MergeCartStep ==
  ASSUME CartInv, NEW p \in Procs, NEW s \in Stores, NEW items \in Baskets(s), MergeCart(p, s, items)
  PROVE  /\ Kept
         /\ \E r : /\ req' = [req EXCEPT ![p] = r] /\ r.cart \in FindFirst(ActiveCartsOf(s))
                   /\ r.step = IF r.cart # NoRow /\ LiveLines(r.cart) # {} THEN "mergeClear"
                                                                         ELSE "mergeCommit"
<1>0. PICK c \in FindFirst(ActiveCartsOf(s)) :
        Start(p, [Idle EXCEPT !.store = s, !.cart = c, !.items = items,
                    !.row = Cardinality(LiveLines(c)),
                    !.step = IF c # NoRow /\ LiveLines(c) # {} THEN "mergeClear" ELSE "mergeCommit"])
  BY DEF MergeCart
<1>1. PICK n, step :
        /\ n = Cardinality(LiveLines(c))
        /\ step = IF c # NoRow /\ LiveLines(c) # {} THEN "mergeClear" ELSE "mergeCommit"
  OBVIOUS
<1>2. c \in Nat /\ n \in Nat /\ (c # NoRow => c \in DOMAIN carts /\ carts[c].store = s)
  BY <1>1, FoundCart, LiveLinesFinite DEF CartInv, FindFirst, ActiveCartsOf
<1>3. items \in Basket /\ \A v \in Variants : items[v] > 0 => StoreOf[v] = s
  BY DEF Baskets, Basket
<1>4. PICK r : r = [Idle EXCEPT !.store = s, !.cart = c, !.items = items, !.row = n, !.step = step]
  OBVIOUS
<1>5. r \in Request /\ r.step = step /\ r.cart = c /\ r.store = s /\ r.items = items
  <2>1. step \in {"mergeClear", "mergeCommit"}
    BY <1>1
  <2> QED BY <1>2, <1>3, <1>4, <2>1, IdleIsRequest DEF Request, Step
<1>6. OfStore(r) /\ (r.cart # NoRow => HasCart(r))
  BY <1>2, <1>3, <1>5 DEF OfStore, HasCart
<1>7. Sound(r)
  BY <1>1, <1>5, <1>6 DEF Sound
<1>8. req' = [req EXCEPT ![p] = r]
  BY <1>0, <1>1, <1>4 DEF Start
<1>9. Kept
  BY <1>5, <1>7, <1>8, QuietStep DEF MergeCart
<1> QED BY <1>1, <1>5, <1>8, <1>9

LEMMA ClearStaleStep ==
  ASSUME CartInv, NEW p \in Procs, ClearStaleItems(p)
  PROVE  /\ Kept
         /\ DOMAIN lines' = DOMAIN lines
         /\ \A l \in DOMAIN lines :
              IF lines[l].cart = req[p].cart THEN lines'[l].deleted ELSE lines'[l] = lines[l]
         /\ \E r : /\ req' = [req EXCEPT ![p] = r] /\ r.step = "mergeCommit"
                   /\ r.cart = req[p].cart
<1>1. PICK old \in Request : /\ old = req[p] /\ OfStore(old)
                             /\ old.cart # NoRow => HasCart(old)
  BY DEF CartInv, TypeOK, RequestsInv, Sound, ClearStaleItems
<1>2. PICK t : t = [l \in DOMAIN lines |-> [lines[l] EXCEPT !.deleted = @ \/ lines[l].cart = old.cart]]
  OBVIOUS
<1>3. \A l \in DOMAIN lines :
        /\ t[l] \in Line /\ t[l].cart = lines[l].cart /\ t[l].variant = lines[l].variant
        /\ lines[l].deleted => t[l].deleted
        /\ IF lines[l].cart = old.cart THEN t[l].deleted ELSE t[l] = lines[l]
  <2>1. ASSUME NEW l \in DOMAIN lines
        PROVE  /\ t[l] \in Line /\ t[l].cart = lines[l].cart /\ t[l].variant = lines[l].variant
               /\ lines[l].deleted => t[l].deleted
               /\ IF lines[l].cart = old.cart THEN t[l].deleted ELSE t[l] = lines[l]
    <3>1. lines[l] \in Line
      BY LineHasType DEF CartInv
    <3>2. t[l] = [lines[l] EXCEPT !.deleted = lines[l].deleted \/ lines[l].cart = old.cart]
      BY <1>2
    <3>3. CASE lines[l].cart = old.cart
      BY <3>1, <3>2, <3>3 DEF Line
    <3>4. CASE lines[l].cart # old.cart
      <4>1. t[l] = [lines[l] EXCEPT !.deleted = lines[l].deleted]
        BY <3>1, <3>2, <3>4 DEF Line
      <4>2. t[l] = lines[l]
        BY <3>1, <4>1 DEF Line
      <4> QED BY <3>1, <3>4, <4>2 DEF Line
    <3> QED BY <3>3, <3>4
  <2> QED BY <2>1
<1>4. t \in Seq(Line) /\ DOMAIN t = DOMAIN lines
  <2>1. t \in [DOMAIN lines -> Line]
    BY <1>2, <1>3
  <2>2. lines \in Seq(Line)
    BY DEF CartInv, TypeOK
  <2> QED BY <2>1, <2>2, RowsRewritten
<1>5. lines' = t
  BY <1>1, <1>2 DEF ClearStaleItems
<1>6. LinesMove
  BY <1>3, <1>4, <1>5 DEF LinesMove
<1>7. PICK r : r = [old EXCEPT !.step = "mergeCommit"]
  OBVIOUS
<1>8. /\ r \in Request /\ r.step = "mergeCommit" /\ r.cart = old.cart /\ r.store = old.store
      /\ r.items = old.items
  BY <1>7 DEF Request, Step
<1>9. Sound(r)'
  BY <1>1, <1>8 DEF Sound, OfStore, HasCart, ClearStaleItems
<1>10. req' = [req EXCEPT ![p] = r]
  BY <1>1, <1>7 DEF ClearStaleItems, Continue
<1>11. Kept
  BY <1>6, <1>8, <1>9, <1>10, SameCarts, LinesMoveKept DEF ClearStaleItems, CartInv
<1> QED BY <1>1, <1>3, <1>4, <1>5, <1>8, <1>10, <1>11

\* Line i of t is for variant new[i], which the store of cart c sells.
LinesOf(t, c, n, new) ==
  \A i \in 1..n : /\ t[i].cart = c /\ t[i].variant = new[i]
                  /\ StoreOf[new[i]] = carts'[c].store

\* n lines were added to cart c, for the variants new.
LinesAdded(c, n, new) ==
  /\ Len(lines) \in Nat
  /\ DOMAIN lines = 1..Len(lines) /\ DOMAIN lines' = 1..(Len(lines) + n)
  /\ \A l \in DOMAIN lines : lines'[l] = lines[l]
  /\ \A i \in 1..n : /\ lines'[Len(lines) + i].cart = c
                     /\ lines'[Len(lines) + i].variant = new[i]

\* The goods of a guest cart become lines of one cart of their store.
LEMMA MergeIsMove ==
  ASSUME TypeOK, NEW c \in DOMAIN carts', NEW n \in Nat, NEW new, NEW t \in [1..n -> Line],
         LinesOf(t, c, n, new), lines' = lines \o t
  PROVE  LinesMove /\ LinesAdded(c, n, new)
<1>3. t \in Seq(Line) /\ Len(t) = n
  BY SeqDef
<1>4. PICK k \in Nat : k = Len(lines) /\ lines \in Seq(Line) /\ DOMAIN lines = 1..k
  BY LenProperties DEF TypeOK
<1>5. /\ lines' \in Seq(Line) /\ Len(lines') = k + n
      /\ \A l \in 1..k + n : lines'[l] = IF l <= k THEN lines[l] ELSE t[l - k]
  BY <1>3, <1>4, ConcatProperties
<1>6. DOMAIN lines' = 1..(k + n)
  BY <1>5, LenProperties
<1>7. \A l \in DOMAIN lines : lines'[l] = lines[l]
  BY <1>4, <1>5
<1>8. \A i \in 1..n : k + i \in DOMAIN lines' /\ lines'[k + i] = t[i]
  <2>1. ASSUME NEW i \in 1..n
        PROVE  k + i \in 1..k + n /\ ~(k + i <= k) /\ (k + i) - k = i
    OBVIOUS
  <2> QED BY <1>5, <1>6, <2>1
<1>9. \A l \in DOMAIN lines' \ DOMAIN lines : \E i \in 1..n : l = k + i
  <2>1. ASSUME NEW l \in 1..(k + n), l \notin 1..k
        PROVE  l - k \in 1..n /\ l = k + (l - k)
    BY <2>1
  <2> QED BY <1>4, <1>6, <2>1
<1>10. LinesMove
  <2>1. ASSUME NEW l \in DOMAIN lines' \ DOMAIN lines
        PROVE  lines'[l].cart = c /\ StoreOf[lines'[l].variant] = carts'[c].store
    <3>1. PICK i \in 1..n : l = k + i
      BY <1>9, <2>1
    <3>2. lines'[l] = t[i]
      BY <1>8, <3>1
    <3>3. t[i].cart = c /\ t[i].variant = new[i] /\ StoreOf[new[i]] = carts'[c].store
      BY <3>1 DEF LinesOf
    <3> QED BY <3>2, <3>3
  <2>2. DOMAIN lines \subseteq DOMAIN lines'
    BY <1>4, <1>6
  <2> QED BY <1>5, <1>7, <2>1, <2>2 DEF LinesMove
<1> QED BY <1>4, <1>6, <1>7, <1>8, <1>10 DEF LinesAdded, LinesOf

\* The cart a merge goes to, the goods that are still for sale and their order.
LEMMA MergeCommitIs ==
  ASSUME CartInv, NEW p \in Procs, MergeCommit(p)
  PROVE  \E c, n \in Nat, kept \in SUBSET Variants : \E new \in [1..n -> kept] :
           /\ CartsMove /\ c \in DOMAIN carts'
           /\ IF req[p].cart # NoRow
                THEN c = req[p].cart /\ UNCHANGED carts
                ELSE c \notin DOMAIN carts /\ DOMAIN carts' = DOMAIN carts \cup {c}
                     /\ \A d \in DOMAIN carts : carts'[d] = carts[d]
           /\ IsInjective(new) /\ LinesMove /\ LinesAdded(c, n, new)
           /\ \A i \in 1..n : req[p].items[new[i]] > 0
<1>1. PICK r \in Request : /\ r = req[p] /\ OfStore(r) /\ r.items \in Basket /\ r.store \in Stores
                           /\ r.cart # NoRow => HasCart(r)
  <2>1. req[p] \in Request
    BY DEF CartInv, TypeOK
  <2>2. req[p].items \in Basket /\ req[p].store \in Stores
    BY <2>1 DEF Request
  <2> QED BY <2>1, <2>2 DEF CartInv, RequestsInv, Sound, MergeCommit
<1>2. PICK kept \in SUBSET Variants : kept = {v \in Variants : r.items[v] > 0 /\ v \in forSale}
  OBVIOUS
<1>3. PICK c : c = IF r.cart # NoRow THEN r.cart ELSE Len(carts) + 1
  OBVIOUS
<1>4. PICK n : n = Cardinality(kept)
  OBVIOUS
<1>5. n \in Nat
  BY <1>2, <1>4, CartAssumption, FS_Subset, FS_CardinalityType
<1>0. PICK items \in Basket : items = r.items
  BY <1>1
<1>6. PICK new \in Bijection(1..n, kept) :
        lines' = lines \o [i \in DOMAIN new |-> NewLine(c, new[i], items[new[i]])]
  BY <1>0, <1>1, <1>2, <1>3, <1>4 DEF MergeCommit
<1>7. new \in [1..n -> kept] /\ IsInjective(new)
  BY <1>6 DEF Bijection, Injection
<1>8. /\ CartsMove /\ c \in DOMAIN carts' /\ c \in Nat /\ carts'[c].store = r.store
      /\ IF r.cart # NoRow THEN c = r.cart /\ UNCHANGED carts
         ELSE c \notin DOMAIN carts /\ DOMAIN carts' = DOMAIN carts \cup {c}
              /\ \A d \in DOMAIN carts : carts'[d] = carts[d]
  <2>1. CASE r.cart # NoRow
    <3>1. UNCHANGED carts /\ c = r.cart
      BY <1>1, <1>3, <2>1 DEF MergeCommit
    <3>2. c \in Nat
      BY <1>3, <2>1 DEF Request
    <3> QED BY <1>1, <2>1, <3>1, <3>2, SameCarts DEF CartInv, HasCart
  <2>2. CASE r.cart = NoRow
    <3>1. carts' = Append(carts, [store |-> r.store, status |-> "ACTIVE"]) /\ c = Len(carts) + 1
      BY <1>1, <1>3, <2>2 DEF MergeCommit
    <3> QED BY <1>1, <2>2, <3>1, CreateIsMove DEF CartInv
  <2> QED BY <2>1, <2>2
<1>9. \A v \in kept : items[v] > 0 /\ StoreOf[v] = carts'[c].store
  BY <1>0, <1>1, <1>2, <1>8 DEF OfStore
<1>10. TypeOK
  BY DEF CartInv
<1>11. LinesMove /\ LinesAdded(c, n, new)
  <2>1. PICK t : t = [i \in DOMAIN new |-> NewLine(c, new[i], items[new[i]])]
    OBVIOUS
  <2>2. ASSUME NEW i \in 1..n
        PROVE  /\ t[i] \in Line /\ t[i].cart = c /\ t[i].variant = new[i]
               /\ StoreOf[new[i]] = carts'[c].store
    <3>1. new[i] \in kept /\ new[i] \in Variants /\ t[i] = NewLine(c, new[i], items[new[i]])
      BY <1>7, <2>1
    <3>2. items[new[i]] \in Nat \ {0}
      BY <1>9, <3>1 DEF Basket
    <3> QED BY <1>8, <1>9, <3>1, <3>2 DEF NewLine, Line
  <2>3. t \in [1..n -> Line]
    BY <1>7, <2>1, <2>2
  <2>4. lines' = lines \o t
    BY <1>6, <2>1
  <2>5. c \in DOMAIN carts'
    BY <1>8
  <2>6. LinesOf(t, c, n, new)
    BY <2>2 DEF LinesOf
  <2> QED BY <1>5, <1>10, <2>3, <2>4, <2>5, <2>6, MergeIsMove
<1>12. \A i \in 1..n : r.items[new[i]] > 0
  BY <1>0, <1>7, <1>9
<1> QED BY <1>1, <1>5, <1>7, <1>8, <1>11, <1>12

LEMMA MergeCommitStep ==
  ASSUME CartInv, NEW p \in Procs, MergeCommit(p)
  PROVE  Kept
<1>1. CartsMove /\ LinesMove
  BY MergeCommitIs
<1> QED BY <1>1, LinesMoveFinished DEF MergeCommit

-------------------------------------------------------------------------------
(* The checkout routes *)

\* A set of numbers has a smallest member.
LEMMA SmallestOfSome ==
  ASSUME NEW S \in SUBSET Nat, S # {}
  PROVE  \E x \in S : \A y \in S : x <= y
<1>1. PICK x \in S : \A y \in S : <<y, x>> \notin OpToRel(<, Nat)
  BY NatLessThanWellFounded, WFMin
<1>2. \A y \in S : ~(y < x)
  BY <1>1 DEF OpToRel
<1> QED BY <1>2

LEMMA ContentIsBasket ==
  ASSUME TypeOK, NEW c
  PROVE  Content(c) \in Basket
<1>1. ASSUME NEW v \in Variants, LinesFor(c, v) # {}
      PROVE  lines[CHOOSE l \in LinesFor(c, v) : TRUE].quantity \in Nat
  <2>1. PICK l : l = CHOOSE m \in LinesFor(c, v) : TRUE
    OBVIOUS
  <2>2. l \in DOMAIN lines
    BY <1>1, <2>1 DEF LinesFor, LiveLines
  <2>3. lines[l].quantity \in Nat
    BY <2>2, LineHasType DEF Line
  <2> QED BY <2>1, <2>3
<1> QED BY <1>1 DEF Content, Basket

LEMMA CartCheckoutStep ==
  ASSUME CartInv, NEW p \in Procs, NEW s \in Stores, NEW k \in Keys, CartCheckout(p, s, k)
  PROVE  \E c \in ActiveCartsOf(s), r \in Request :
           /\ r.step = "key" /\ r.store = s /\ r.cart = c /\ r.items = Content(c) /\ r.key = k
           /\ Sound(r) /\ req' = [req EXCEPT ![p] = r] /\ Kept
<1>1. TypeOK
  BY DEF CartInv
<1>2. PICK c : c = CHOOSE x \in ActiveCartsOf(s) : \A y \in ActiveCartsOf(s) : y <= x
  OBVIOUS
<1>3. c \in ActiveCartsOf(s)
  <2>1. \E x \in ActiveCartsOf(s) : \A y \in ActiveCartsOf(s) : y <= x
    <3>1. PICK n \in Nat : n = Len(carts) /\ DOMAIN carts = 1..n
      BY <1>1, LenProperties DEF TypeOK
    <3>2. ActiveCartsOf(s) \subseteq 1..n
      BY <3>1 DEF ActiveCartsOf, ActiveCarts
    <3> DEFINE S == {y \in Nat : \A x \in ActiveCartsOf(s) : x <= y}
    <3>3. n \in S
      BY <3>2
    <3>4. PICK m \in S : \A y \in S : m <= y
      BY <3>3, SmallestOfSome
    <3>5. m \in ActiveCartsOf(s)
      <4>1. SUFFICES ASSUME m \notin ActiveCartsOf(s) PROVE FALSE
        OBVIOUS
      <4>2. PICK y \in ActiveCartsOf(s) : TRUE
        BY DEF CartCheckout
      <4>3. \A x \in ActiveCartsOf(s) : x \in Nat /\ x >= 1 /\ x <= m /\ x # m
        BY <3>2, <3>4, <4>1
      <4>4. m - 1 \in Nat /\ \A x \in ActiveCartsOf(s) : x <= m - 1
        BY <3>4, <4>2, <4>3
      <4> QED BY <3>4, <4>4
    <3> QED BY <3>4, <3>5
  <2> QED BY <1>2, <2>1, Zenon
<1>4. c \in Nat /\ c \in DOMAIN carts
  <2>1. c \in FindFirst(ActiveCartsOf(s)) /\ c \in DOMAIN carts
    BY <1>3 DEF FindFirst, ActiveCartsOf, ActiveCarts
  <2> QED BY <1>1, <2>1, FoundCart
<1>5. PICK items \in Basket : items = Content(c)
  BY <1>1, ContentIsBasket
<1>6. PICK r : r = [Idle EXCEPT !.step = "key", !.store = s, !.cart = c, !.items = items, !.key = k]
  OBVIOUS
<1>7. /\ r \in Request /\ r.step = "key" /\ r.store = s /\ r.cart = c /\ r.items = items
      /\ r.key = k /\ Sound(r)
  <2>1. /\ r \in Request /\ r.step = "key" /\ r.store = s /\ r.cart = c /\ r.items = items
        /\ r.key = k
    BY <1>4, <1>6, IdleIsRequest DEF Request, Step
  <2> QED BY <2>1 DEF Sound
<1>8. req' = [req EXCEPT ![p] = r]
  BY <1>2, <1>5, <1>6 DEF CartCheckout, Start
<1>9. Kept
  BY <1>7, <1>8, QuietStep DEF CartCheckout
<1> QED BY <1>3, <1>5, <1>7, <1>8, <1>9

LEMMA CheckoutStep ==
  ASSUME CartInv, NEW p \in Procs, NEW s \in Stores, NEW items \in Baskets(s), NEW k \in Keys,
         Checkout(p, s, items, k)
  PROVE  \E r \in Request : /\ r.step = "key" /\ r.cart = NoRow
                            /\ req' = [req EXCEPT ![p] = r] /\ Kept
<1>1. items \in Basket /\ NoRow \in Nat
  BY DEF Baskets, Basket, NoRow
<1>2. PICK r : r = [Idle EXCEPT !.step = "key", !.store = s, !.items = items, !.key = k]
  OBVIOUS
<1>3. r \in Request /\ r.step = "key" /\ r.cart = NoRow /\ Sound(r)
  <2>1. r \in Request /\ r.step = "key" /\ r.key = k
    BY <1>1, <1>2, IdleIsRequest DEF Request, Step
  <2>2. r.cart = NoRow
    BY <1>2 DEF Idle
  <2> QED BY <2>1, <2>2 DEF Sound
<1>4. req' = [req EXCEPT ![p] = r]
  BY <1>2 DEF Checkout, Start
<1>5. Kept
  BY <1>3, <1>4, QuietStep DEF Checkout
<1> QED BY <1>3, <1>4, <1>5

LEMMA CheckKeyStep ==
  ASSUME CartInv, NEW p \in Procs, CheckIdempotencyKey(p)
  PROVE  /\ Kept
         /\ Finish(p) \/ \E r \in Request : /\ req' = [req EXCEPT ![p] = r] /\ r.step = "tx"
                                            /\ r.store = req[p].store /\ r.cart = req[p].cart
                                            /\ r.items = req[p].items
<1>1. PICK old \in Request : old = req[p] /\ old.key \in Keys
  BY DEF CartInv, TypeOK, RequestsInv, Sound, CheckIdempotencyKey
<1>2. CASE Finish(p)
  BY <1>2, QuietFinish DEF CheckIdempotencyKey
<1>3. CASE Continue(p, [old EXCEPT !.step = "tx"])
  <2>1. PICK r : r = [old EXCEPT !.step = "tx"]
    OBVIOUS
  <2>2. /\ r \in Request /\ r.step = "tx" /\ r.store = old.store /\ r.cart = old.cart
        /\ r.items = old.items /\ r.key = old.key
    BY <2>1 DEF Request, Step
  <2>3. Sound(r)
    BY <1>1, <2>2 DEF Sound
  <2>4. req' = [req EXCEPT ![p] = r]
    BY <1>3, <2>1 DEF Continue
  <2>5. Kept
    BY <2>2, <2>3, <2>4, QuietStep DEF CheckIdempotencyKey
  <2> QED BY <1>1, <2>2, <2>4, <2>5
<1> QED BY <1>1, <1>2, <1>3 DEF CheckIdempotencyKey

\* The order's row, and the carts its transaction abandons.
OrderPlaced(r) ==
  /\ CartsMove /\ Len(placed) \in Nat /\ DOMAIN placed = 1..Len(placed)
  /\ placed' \in Seq(Order) /\ DOMAIN placed' = 1..(Len(placed) + 1)
  /\ \A i \in DOMAIN placed : placed'[i] = placed[i]
  /\ placed'[Len(placed) + 1] = [store |-> r.store, items |-> r.items, cart |-> r.cart, key |-> r.key]
  /\ DOMAIN carts' = DOMAIN carts
  /\ \A c \in ActiveCartsOf(r.store) : carts'[c].status = "ABANDONED"

LEMMA PlaceOrderStep ==
  ASSUME CartInv, NEW p \in Procs, PlaceOrder(p)
  PROVE  /\ Kept /\ OrderPlaced(req[p])
         /\ \E r \in Request : req' = [req EXCEPT ![p] = r] /\ r.step = "setKey"
<1>1. PICK old \in Request : old = req[p] /\ old.key \in Keys
  BY DEF CartInv, TypeOK, RequestsInv, Sound, PlaceOrder
<1>2. PICK x : x = [store |-> old.store, items |-> old.items, cart |-> old.cart, key |-> old.key]
  OBVIOUS
<1>3. x \in Order /\ x.key = old.key
  BY <1>1, <1>2 DEF Order, Request
<1>4. PICK n \in Nat : /\ n = Len(placed) /\ DOMAIN placed = 1..n
                       /\ placed' \in Seq(Order) /\ DOMAIN placed' = 1..(n + 1)
                       /\ \A i \in DOMAIN placed : placed'[i] = placed[i]
                       /\ placed'[n + 1] = x
  <2>1. placed \in Seq(Order) /\ placed' = Append(placed, x)
    BY <1>1, <1>2 DEF CartInv, TypeOK, PlaceOrder
  <2> QED BY <1>3, <2>1, RowAdded
<1>5. /\ carts' \in Seq(Cart) /\ DOMAIN carts' = DOMAIN carts
      /\ \A c \in DOMAIN carts : /\ carts'[c].store = carts[c].store
                                 /\ carts'[c].status \in {carts[c].status, "ABANDONED"}
                                 /\ c \in ActiveCartsOf(old.store) => carts'[c].status = "ABANDONED"
  <2>1. carts \in Seq(Cart) /\ \A c \in DOMAIN carts : carts[c] \in Cart
    <3>1. carts \in Seq(Cart) /\ DOMAIN carts = 1..Len(carts)
      BY LenProperties DEF CartInv, TypeOK
    <3> QED BY <3>1, ElementOfSeq
  <2>2. carts' = [c \in DOMAIN carts |->
                   IF c \in ActiveCartsOf(old.store) THEN [carts[c] EXCEPT !.status = "ABANDONED"]
                                                     ELSE carts[c]]
    BY <1>1 DEF PlaceOrder
  <2>3. ASSUME NEW c \in DOMAIN carts
        PROVE  /\ carts'[c] \in Cart /\ carts'[c].store = carts[c].store
               /\ carts'[c].status \in {carts[c].status, "ABANDONED"}
               /\ c \in ActiveCartsOf(old.store) => carts'[c].status = "ABANDONED"
    <3>1. PICK x1 \in Cart : x1 = carts[c]
      BY <2>1
    <3>2. CASE c \in ActiveCartsOf(old.store)
      <4>1. carts'[c] = [x1 EXCEPT !.status = "ABANDONED"]
        BY <2>2, <3>1, <3>2
      <4> QED BY <3>1, <4>1 DEF Cart
    <3>3. CASE c \notin ActiveCartsOf(old.store)
      <4>1. carts'[c] = x1
        BY <2>2, <3>1, <3>3
      <4> QED BY <3>1, <3>3, <4>1
    <3> QED BY <3>2, <3>3
  <2>4. carts' \in [DOMAIN carts -> Cart]
    BY <2>2, <2>3
  <2> QED BY <2>1, <2>3, <2>4, RowsRewritten
<1>6. CartsMove
  BY <1>5 DEF CartsMove
<1>7. OrderPlaced(req[p])
  <2>1. \A c \in ActiveCartsOf(old.store) : carts'[c].status = "ABANDONED"
    BY <1>5 DEF ActiveCartsOf, ActiveCarts
  <2>2. OrderPlaced(old)
    BY <1>2, <1>4, <1>5, <1>6, <2>1 DEF OrderPlaced
  <2> QED BY <1>1, <2>2
<1>0. PICK m \in Nat : m = n + 1
  OBVIOUS
<1>8. PICK r : r = [old EXCEPT !.step = "setKey", !.row = m]
  OBVIOUS
<1>9. r \in Request /\ r.step = "setKey" /\ r.row = m /\ r.key = old.key
  BY <1>8 DEF Request, Step
<1>10. req' = [req EXCEPT ![p] = r]
  BY <1>0, <1>1, <1>4, <1>8 DEF PlaceOrder, Continue
<1>11. Sound(r)'
  <2>1. r.row \in DOMAIN placed' /\ placed'[r.row].key = r.key
    BY <1>0, <1>3, <1>4, <1>9
  <2> QED BY <1>1, <1>9, <2>1 DEF Sound
<1>12. lines' = lines /\ keys' = keys /\ forSale' = forSale
  BY DEF PlaceOrder
<1>13. Grown
  BY <1>4, <1>6, <1>12 DEF Grown, CartsMove
<1>14. LinesInv'
  BY <1>6, <1>12 DEF CartInv, LinesInv, CartsOfOneStore, CartsMove
<1>15. KeysInv'
  BY <1>4, <1>12 DEF CartInv, KeysInv
<1>16. req' \in [Procs -> Request] /\ RequestsInv'
  BY <1>9, <1>10, <1>11, <1>13, MoveKeepsRequests DEF CartInv
<1>17. TypeOK'
  BY <1>4, <1>6, <1>12, <1>16 DEF CartInv, TypeOK, CartsMove
<1> QED BY <1>7, <1>9, <1>10, <1>13, <1>14, <1>15, <1>16, <1>17 DEF Kept, CartInv

LEMMA SetKeyStep ==
  ASSUME CartInv, NEW p \in Procs, SetIdempotencyKey(p)
  PROVE  Kept
<1>1. PICK r \in Request : /\ r = req[p] /\ r.key \in Keys /\ r.row \in DOMAIN placed
                           /\ placed[r.row].key = r.key
  BY DEF CartInv, TypeOK, RequestsInv, Sound, SetIdempotencyKey
<1>2. PICK x : x = [order |-> r.row, expired |-> FALSE]
  OBVIOUS
<1>3. x \in Key /\ x.order = r.row
  BY <1>1, <1>2 DEF Key, Request
<1>4. keys' = [keys EXCEPT ![r.key] = x]
  BY <1>1, <1>2 DEF SetIdempotencyKey
<1>5. UNCHANGED <<carts, lines, placed, forSale>> /\ Finish(p)
  BY DEF SetIdempotencyKey
<1>6. Grown /\ LinesInv'
  BY <1>5, NothingMoves DEF CartInv
<1>7. req' \in [Procs -> Request] /\ RequestsInv'
  BY <1>5, <1>6, FinishKeepsRequests DEF CartInv
<1>8. keys' \in [Keys -> Key] /\ KeysInv'
  BY <1>1, <1>3, <1>4, <1>5 DEF CartInv, TypeOK, KeysInv
<1> QED BY <1>5, <1>6, <1>7, <1>8 DEF Kept, CartInv, TypeOK

LEMMA ExpireStep ==
  ASSUME CartInv, NEW k \in Keys, Expire(k)
  PROVE  Kept
<1>1. keys[k] \in Key
  BY DEF CartInv, TypeOK
<1>2. PICK x : x = [keys[k] EXCEPT !.expired = TRUE]
  OBVIOUS
<1>3. x \in Key /\ x.order = keys[k].order
  BY <1>1, <1>2 DEF Key
<1>4. keys' = [keys EXCEPT ![k] = x] /\ UNCHANGED <<carts, lines, placed, forSale, req>>
  BY <1>2 DEF Expire
<1>5. Grown /\ LinesInv'
  BY <1>4, NothingMoves DEF CartInv
<1>6. RequestsInv'
  BY <1>4 DEF CartInv, RequestsInv, Sound, HasCart, OfStore, AddsOne
<1>7. keys' \in [Keys -> Key] /\ KeysInv'
  BY <1>3, <1>4 DEF CartInv, TypeOK, KeysInv
<1> QED BY <1>4, <1>5, <1>6, <1>7 DEF Kept, CartInv, TypeOK

LEMMA IdleStep ==
  ASSUME CartInv, UNCHANGED vars \/ \E v \in Variants : Toggle(v)
  PROVE  Kept
<1>1. UNCHANGED <<carts, lines, placed, keys, req>> /\ forSale' \subseteq Variants
  BY DEF vars, Toggle, CartInv, TypeOK
<1>2. Grown /\ LinesInv'
  BY <1>1, NothingMoves DEF CartInv
<1>3. RequestsInv'
  BY <1>1 DEF CartInv, RequestsInv, Sound, HasCart, OfStore, AddsOne
<1> QED BY <1>1, <1>2, <1>3 DEF Kept, CartInv, TypeOK, KeysInv

LEMMA HandleStep ==
  ASSUME CartInv, NEW p \in Procs, Handle(p)
  PROVE  Kept
<1>1. CASE \E v \in Variants, confirm \in BOOLEAN : AddItem(p, v, confirm)
  BY <1>1, AddItemStep
<1>2. CASE \E l \in DOMAIN lines : RemoveItem(p, l) \/ \E n \in 1..2 : UpdateItem(p, l, n)
  BY <1>2, RemoveItemStep, UpdateItemStep
<1>3. CASE \E s \in Stores :
             \/ ClearCart(p, s)
             \/ \E items \in Baskets(s) : MergeCart(p, s, items)
             \/ \E k \in Keys :
                  \/ CartCheckout(p, s, k)
                  \/ \E items \in Baskets(s) : Checkout(p, s, items, k)
  BY <1>3, ClearCartStep, MergeCartStep, CartCheckoutStep, CheckoutStep
<1>4. CASE AbandonOtherCart(p) \/ FindOrCreateCart(p) \/ FindItem(p) \/ WriteItem(p)
           \/ DeleteItem(p) \/ AbandonCart(p) \/ ClearStaleItems(p) \/ MergeCommit(p)
  BY <1>4, AbandonOtherStep, FindOrCreateStep, FindItemStep, WriteItemStep, DeleteItemStep,
     AbandonCartStep, ClearStaleStep, MergeCommitStep
<1>5. CASE CheckIdempotencyKey(p) \/ PlaceOrder(p) \/ SetIdempotencyKey(p)
  BY <1>5, CheckKeyStep, PlaceOrderStep, SetKeyStep
<1>6. CASE RefuseOrder(p) \/ Crash(p)
  BY <1>6, QuietFinish DEF RefuseOrder, Crash
<1> QED BY <1>1, <1>2, <1>3, <1>4, <1>5, <1>6 DEF Handle

LEMMA CartInvIsInductive == CartInv /\ [Next]_vars => Kept
  BY HandleStep, ExpireStep, IdleStep DEF Next

LEMMA InitCartInv == Init => CartInv
<1> SUFFICES ASSUME Init PROVE CartInv
  OBVIOUS
<1>1. carts \in Seq(Cart) /\ lines \in Seq(Line) /\ placed \in Seq(Order)
  BY EmptySeq DEF Init
<1>2. keys \in [Keys -> Key] /\ KeysInv
  BY DEF Init, Key, NoRow, KeysInv
<1>3. req \in [Procs -> Request] /\ RequestsInv
  BY IdleIsRequest DEF Init, RequestsInv, Sound
<1>4. LinesInv /\ forSale \subseteq Variants
  BY DEF Init, LinesInv, CartsOfOneStore
<1> QED BY <1>1, <1>2, <1>3, <1>4 DEF CartInv, TypeOK

\* However the customer's tabs, devices and retries overlap, and whatever dies halfway,
\* every line is of the store of its cart: addItem's check of the cart it has found holds
\* until the line is written, because a cart never changes its store.
THEOREM CartsAreOfOneStore == Spec => []CartsOfOneStore
<1>1. CartInv => CartsOfOneStore
  BY DEF CartInv, LinesInv
<1>2. CartInv /\ [Next]_vars => CartInv'
  BY CartInvIsInductive DEF Kept
<1> QED BY <1>1, <1>2, InitCartInv, PTL DEF Spec

\* However requests overlap, the answer kept for a key is about an order that was placed
\* with it, the answers of expired keys included.
THEOREM KeysNameTheirOrders == Spec => []KeyNamesItsOrder
<1>1. CartInv => KeyNamesItsOrder
  BY DEF CartInv, KeysInv, KeyNamesItsOrder
<1>2. CartInv /\ [Next]_vars => CartInv'
  BY CartInvIsInductive DEF Kept
<1> QED BY <1>1, <1>2, InitCartInv, PTL DEF Spec

-------------------------------------------------------------------------------
(* The lines of one variant, however requests overlap *)

\* A request that is about to add a line for variant v to cart c.
IsAdder(r, c, v) ==
  /\ r.step = "mergeCommit" \/ (r.step = "write" /\ r.row = NoRow)
  /\ r.cart = c /\ r.items[v] > 0

Adders(c, v) == {p \in Procs : IsAdder(req[p], c, v)}

\* Every line for the variant, and every one still to be added, came of a request of its own.
Few(c, v) == Cardinality(LinesFor(c, v)) + Cardinality(Adders(c, v)) <= Cardinality(Procs)

CrowdInv == \A c \in Nat \ {NoRow}, v \in Variants : Few(c, v)

LEMMA CountsAreNatural ==
  ASSUME TypeOK, NEW c, NEW v
  PROVE  /\ IsFiniteSet(LinesFor(c, v)) /\ Cardinality(LinesFor(c, v)) \in Nat
         /\ IsFiniteSet(Adders(c, v)) /\ Cardinality(Adders(c, v)) \in Nat
         /\ Cardinality(Procs) \in Nat
<1>1. LinesFor(c, v) \subseteq LiveLines(c) /\ IsFiniteSet(LiveLines(c))
  BY LiveLinesFinite DEF LinesFor
<1>2. Adders(c, v) \subseteq Procs /\ IsFiniteSet(Procs)
  BY CartAssumption DEF Adders
<1> QED BY <1>1, <1>2, FS_Subset, FS_CardinalityType

\* Nobody adds a line, and none was added.
LEMMA NoMoreLines ==
  ASSUME TypeOK, NEW c, NEW v, Few(c, v),
         LinesFor(c, v)' \subseteq LinesFor(c, v), Adders(c, v)' \subseteq Adders(c, v)
  PROVE  Few(c, v)'
<1>1. /\ Cardinality(LinesFor(c, v)') <= Cardinality(LinesFor(c, v))
      /\ Cardinality(Adders(c, v)') <= Cardinality(Adders(c, v))
      /\ Cardinality(LinesFor(c, v)') \in Nat /\ Cardinality(Adders(c, v)') \in Nat
  BY CountsAreNatural, FS_Subset, FS_CardinalityType
<1> QED BY <1>1, CountsAreNatural DEF Few

\* There is no line, whoever may still add one.
LEMMA NoLines ==
  ASSUME NEW c, NEW v, LinesFor(c, v)' = {}
  PROVE  Few(c, v)'
<1>1. Adders(c, v)' \subseteq Procs
  BY DEF Adders
<1>2. /\ Cardinality(Adders(c, v)') <= Cardinality(Procs) /\ Cardinality(Adders(c, v)') \in Nat
      /\ Cardinality(LinesFor(c, v)') = 0
  BY <1>1, CartAssumption, FS_Subset, FS_CardinalityType, FS_EmptySet
<1> QED BY <1>2 DEF Few

\* A request adds the line it was about to add, or the first one.
LEMMA OneMoreLine ==
  ASSUME TypeOK, NEW c, NEW v, Few(c, v), NEW p \in Procs, NEW l,
         p \in Adders(c, v) \/ LinesFor(c, v) = {},
         LinesFor(c, v)' \subseteq LinesFor(c, v) \cup {l},
         Adders(c, v)' \subseteq Adders(c, v) \ {p}
  PROVE  Few(c, v)'
<1>1. /\ IsFiniteSet(LinesFor(c, v)) /\ Cardinality(LinesFor(c, v)) \in Nat
      /\ IsFiniteSet(Adders(c, v)) /\ Cardinality(Adders(c, v)) \in Nat
      /\ Cardinality(Procs) \in Nat
  BY CountsAreNatural
<1>2. /\ Cardinality(LinesFor(c, v)') <= Cardinality(LinesFor(c, v)) + 1
      /\ Cardinality(LinesFor(c, v)') \in Nat
  <2>1. /\ IsFiniteSet(LinesFor(c, v) \cup {l})
        /\ Cardinality(LinesFor(c, v) \cup {l}) \in {Cardinality(LinesFor(c, v)), Cardinality(LinesFor(c, v)) + 1}
    BY <1>1, FS_AddElement
  <2>2. /\ Cardinality(LinesFor(c, v)') <= Cardinality(LinesFor(c, v) \cup {l})
        /\ Cardinality(LinesFor(c, v)') \in Nat
    BY <2>1, FS_Subset, FS_CardinalityType
  <2> QED BY <1>1, <2>1, <2>2
<1>3. CASE p \in Adders(c, v)
  <2>1. /\ IsFiniteSet(Adders(c, v) \ {p})
        /\ Cardinality(Adders(c, v) \ {p}) = Cardinality(Adders(c, v)) - 1
    BY <1>1, <1>3, FS_RemoveElement
  <2>2. /\ Cardinality(Adders(c, v)') <= Cardinality(Adders(c, v) \ {p})
        /\ Cardinality(Adders(c, v)') \in Nat
    BY <2>1, FS_Subset, FS_CardinalityType
  <2> QED BY <1>1, <1>2, <2>1, <2>2 DEF Few
<1>4. CASE LinesFor(c, v) = {}
  <2>1. /\ IsFiniteSet(Procs \ {p}) /\ Cardinality(Procs \ {p}) = Cardinality(Procs) - 1
    BY CartAssumption, FS_RemoveElement
  <2>2. Adders(c, v)' \subseteq Procs \ {p}
    BY DEF Adders
  <2>3. /\ Cardinality(Adders(c, v)') <= Cardinality(Procs \ {p})
        /\ Cardinality(Adders(c, v)') \in Nat
    BY <2>1, <2>2, FS_Subset, FS_CardinalityType
  <2>4. Cardinality(LinesFor(c, v)) = 0
    BY <1>4, FS_EmptySet
  <2> QED BY <1>1, <1>2, <2>1, <2>3, <2>4 DEF Few
<1> QED BY <1>3, <1>4

\* Only the request that moves may begin or cease to be one that adds.
LEMMA MoveAdders ==
  ASSUME TypeOK, NEW p \in Procs, NEW r, req' = [req EXCEPT ![p] = r], NEW c, NEW v
  PROVE  /\ Adders(c, v)' \subseteq Adders(c, v) \cup {p}
         /\ ~IsAdder(r, c, v) => Adders(c, v)' = Adders(c, v) \ {p}
<1>1. \A q \in Procs : req'[q] = IF q = p THEN r ELSE req[q]
  BY DEF TypeOK
<1> QED BY <1>1 DEF Adders, IsAdder

LEMMA SameLinesFor ==
  ASSUME UNCHANGED lines, NEW c, NEW v
  PROVE  LinesFor(c, v)' = LinesFor(c, v)
  BY DEF LinesFor, LiveLines

\* A request moves that adds nothing and will not yet.
LEMMA QuietCrowd ==
  ASSUME TypeOK, CrowdInv, NEW p \in Procs, NEW r, req' = [req EXCEPT ![p] = r],
         r.step # "mergeCommit", r.step = "write" => r.row # NoRow,
         \A c, v : LinesFor(c, v)' \subseteq LinesFor(c, v)
  PROVE  CrowdInv'
<1>1. \A c, v : ~IsAdder(r, c, v)
  BY DEF IsAdder
<1>2. ASSUME NEW c, NEW v
      PROVE  Adders(c, v)' \subseteq Adders(c, v)
  <2>1. Adders(c, v)' = Adders(c, v) \ {p}
    BY <1>1, MoveAdders
  <2> QED BY <2>1
<1>3. ASSUME NEW c \in Nat \ {NoRow}, NEW v \in Variants
      PROVE  Few(c, v)'
  BY <1>2, NoMoreLines DEF CrowdInv
<1> QED BY <1>3 DEF CrowdInv

LEMMA QuietCrowdFinish ==
  ASSUME TypeOK, CrowdInv, NEW p \in Procs, Finish(p),
         \A c, v : LinesFor(c, v)' \subseteq LinesFor(c, v)
  PROVE  CrowdInv'
  BY QuietCrowd, IdleIsRequest DEF Finish

\* A request that has found no line may add one.
LEMMA NewAdder ==
  ASSUME TypeOK, CrowdInv, NEW p \in Procs, NEW r, req' = [req EXCEPT ![p] = r],
         \A c, v : LinesFor(c, v)' \subseteq LinesFor(c, v),
         \A c \in Nat \ {NoRow}, v \in Variants : IsAdder(r, c, v) => LinesFor(c, v)' = {}
  PROVE  CrowdInv'
<1>1. ASSUME NEW c \in Nat \ {NoRow}, NEW v \in Variants
      PROVE  Few(c, v)'
  <2>1. CASE IsAdder(r, c, v)
    BY <2>1, NoLines
  <2>2. CASE ~IsAdder(r, c, v)
    <3>1. Adders(c, v)' = Adders(c, v) \ {p}
      BY <2>2, MoveAdders
    <3>2. Adders(c, v)' \subseteq Adders(c, v)
      BY <3>1
    <3> QED BY <3>2, NoMoreLines DEF CrowdInv
  <2> QED BY <2>1, <2>2
<1> QED BY <1>1 DEF CrowdInv

LEMMA NoRowIsNoLine ==
  ASSUME TypeOK, NEW c, NEW v
  PROVE  NoRow \notin LinesFor(c, v)
<1>1. DOMAIN lines = 1..Len(lines) /\ Len(lines) \in Nat
  BY LenProperties DEF TypeOK
<1> QED BY <1>1 DEF LinesFor, LiveLines, NoRow

LEMMA FindItemCrowd ==
  ASSUME CartInv, CrowdInv, NEW p \in Procs, FindItem(p)
  PROVE  CrowdInv'
<1>1. TypeOK /\ \A c, v : LinesFor(c, v)' \subseteq LinesFor(c, v)
  BY SameLinesFor DEF CartInv, FindItem
<1>2. CASE Finish(p)
  BY <1>1, <1>2, QuietCrowdFinish
<1>3. CASE \E r : /\ req' = [req EXCEPT ![p] = r] /\ r.step = "write"
                  /\ AddsOne(r) /\ r.row \in FindFirst(LinesFor(r.cart, VariantOf(r)))
  <2>1. PICK r : /\ req' = [req EXCEPT ![p] = r] /\ r.step = "write"
                 /\ AddsOne(r) /\ r.row \in FindFirst(LinesFor(r.cart, VariantOf(r)))
    BY <1>3
  <2>2. ASSUME NEW c \in Nat \ {NoRow}, NEW v \in Variants, IsAdder(r, c, v)
        PROVE  LinesFor(c, v)' = {}
    <3>1. r.row = NoRow /\ r.cart = c /\ v = VariantOf(r)
      BY <2>1, <2>2, VariantOfIs DEF IsAdder
    <3>2. LinesFor(c, v) = {}
      BY <1>1, <2>1, <3>1, NoRowIsNoLine DEF FindFirst
    <3> QED BY <1>1, <3>2
  <2> QED BY <1>1, <2>1, <2>2, NewAdder
<1> QED BY <1>2, <1>3, FindItemStep

LEMMA MergeCartCrowd ==
  ASSUME CartInv, CrowdInv, NEW p \in Procs, NEW s \in Stores, NEW items \in Baskets(s),
         MergeCart(p, s, items)
  PROVE  CrowdInv'
<1>1. TypeOK /\ \A c, v : LinesFor(c, v)' \subseteq LinesFor(c, v)
  BY SameLinesFor DEF CartInv, MergeCart
<1>2. PICK r : /\ req' = [req EXCEPT ![p] = r]
               /\ r.step = IF r.cart # NoRow /\ LiveLines(r.cart) # {} THEN "mergeClear"
                                                                     ELSE "mergeCommit"
  BY MergeCartStep
<1>3. ASSUME NEW c \in Nat \ {NoRow}, NEW v \in Variants, IsAdder(r, c, v)
      PROVE  LinesFor(c, v)' = {}
  <2>1. LiveLines(c) = {}
    BY <1>2, <1>3 DEF IsAdder
  <2>2. LinesFor(c, v) = {}
    BY <2>1 DEF LinesFor
  <2> QED BY <1>1, <2>2
<1> QED BY <1>1, <1>2, <1>3, NewAdder

LEMMA ClearStaleCrowd ==
  ASSUME CartInv, CrowdInv, NEW p \in Procs, ClearStaleItems(p)
  PROVE  CrowdInv'
<1>1. TypeOK
  BY DEF CartInv
<1>2. /\ DOMAIN lines' = DOMAIN lines /\ Kept
      /\ \A l \in DOMAIN lines :
           IF lines[l].cart = req[p].cart THEN lines'[l].deleted ELSE lines'[l] = lines[l]
  BY ClearStaleStep
<1>3. PICK r : req' = [req EXCEPT ![p] = r] /\ r.step = "mergeCommit" /\ r.cart = req[p].cart
  BY ClearStaleStep
<1>4. \A c, v : LinesFor(c, v)' \subseteq LinesFor(c, v)
  BY <1>2 DEF LinesFor, LiveLines, Kept, Grown
<1>5. \A v : LinesFor(r.cart, v)' = {}
  BY <1>2, <1>3 DEF LinesFor, LiveLines, Kept, Grown
<1> QED BY <1>1, <1>3, <1>4, <1>5, NewAdder DEF IsAdder

\* The line that is added is the one of the request that adds it.
LEMMA WriteItemCrowd ==
  ASSUME CartInv, CrowdInv, NEW p \in Procs, WriteItem(p)
  PROVE  CrowdInv'
<1>1. TypeOK /\ lines \in Seq(Line)
  BY DEF CartInv, TypeOK
<1>2. PICK r \in Request : r = req[p] /\ AddsOne(r) /\ r.step = "write" /\ HasCart(r)
                           /\ (r.row # NoRow => r.row \in DOMAIN lines)
  BY DEF CartInv, TypeOK, RequestsInv, Sound, WriteItem
<1>3. PICK v \in Variants : v = VariantOf(r) /\ r.items[v] > 0
  BY <1>2, VariantOfIs
<1>4. CASE r.row = NoRow /\ lines' = Append(lines, NewLine(r.cart, v, r.items[v]))
  <2>1. PICK n : n = Len(lines) + 1
    OBVIOUS
  <2>2. PICK x : x = NewLine(r.cart, v, r.items[v])
    OBVIOUS
  <2>3. x.cart = r.cart /\ x.variant = v
    BY <2>2 DEF NewLine
  <2>4. x \in Line
    <3>1. r.items[v] \in Nat \ {0}
      BY <1>2, <1>3 DEF Request, Basket
    <3>2. r.cart \in Nat
      BY <1>2 DEF Request
    <3> QED BY <2>2, <3>1, <3>2 DEF NewLine, Line
  <2>5. /\ DOMAIN lines' = DOMAIN lines \cup {n} /\ lines'[n] = x
        /\ \A l \in DOMAIN lines : lines'[l] = lines[l]
    BY <1>1, <1>4, <2>1, <2>2, <2>4, RowAdded
  <2>6. ASSUME NEW c \in Nat \ {NoRow}, NEW w \in Variants
        PROVE  Few(c, w)'
    <3>1. Adders(c, w)' = Adders(c, w) \ {p}
      BY <1>1, MoveAdders, IdleIsRequest DEF WriteItem, Finish, IsAdder
    <3>2. CASE c = r.cart /\ w = v
      <4>1. p \in Adders(c, w)
        BY <1>2, <1>3, <1>4, <3>2 DEF Adders, IsAdder
      <4>2. LinesFor(c, w)' \subseteq LinesFor(c, w) \cup {n}
        BY <2>5 DEF LinesFor, LiveLines
      <4> QED BY <1>1, <3>1, <4>1, <4>2, OneMoreLine DEF CrowdInv
    <3>3. CASE ~(c = r.cart /\ w = v)
      <4>1. LinesFor(c, w)' \subseteq LinesFor(c, w)
        BY <2>3, <2>5, <3>3 DEF LinesFor, LiveLines
      <4> QED BY <1>1, <3>1, <4>1, NoMoreLines DEF CrowdInv
    <3> QED BY <3>2, <3>3
  <2> QED BY <2>6 DEF CrowdInv
<1>5. CASE r.row # NoRow /\ lines' = [lines EXCEPT ![r.row].quantity = r.items[v]]
  <2>1. /\ DOMAIN lines' = DOMAIN lines
        /\ \A l \in DOMAIN lines : /\ lines'[l].cart = lines[l].cart
                                   /\ lines'[l].variant = lines[l].variant
                                   /\ lines'[l].deleted = lines[l].deleted
    <3>1. \A l \in DOMAIN lines : lines[l] \in Line
      BY <1>1, LineHasType
    <3>2. DOMAIN lines' = DOMAIN lines
      BY <1>5
    <3>3. ASSUME NEW l \in DOMAIN lines
          PROVE  /\ lines'[l].cart = lines[l].cart /\ lines'[l].variant = lines[l].variant
                 /\ lines'[l].deleted = lines[l].deleted
      BY <1>5, <3>1 DEF Line
    <3> QED BY <3>2, <3>3
  <2>2. \A c, w : LinesFor(c, w)' \subseteq LinesFor(c, w)
    BY <2>1 DEF LinesFor, LiveLines
  <2> QED BY <1>1, <2>2, QuietCrowdFinish DEF WriteItem
<1>6. CASE UNCHANGED lines
  BY <1>1, <1>6, SameLinesFor, QuietCrowdFinish DEF WriteItem
<1> QED BY <1>2, <1>3, <1>4, <1>5, <1>6 DEF WriteItem

\* A merge adds one line for every variant it was about to add.
LEMMA MergeCommitCrowd ==
  ASSUME CartInv, CrowdInv, NEW p \in Procs, MergeCommit(p)
  PROVE  CrowdInv'
<1>1. TypeOK
  BY DEF CartInv
<1>2. PICK d, n \in Nat, kept \in SUBSET Variants : \E new \in [1..n -> kept] :
        /\ IF req[p].cart # NoRow THEN d = req[p].cart ELSE d \notin DOMAIN carts
        /\ IsInjective(new) /\ LinesAdded(d, n, new)
        /\ \A i \in 1..n : req[p].items[new[i]] > 0
  BY MergeCommitIs
<1>3. PICK new \in [1..n -> kept] :
        /\ IF req[p].cart # NoRow THEN d = req[p].cart ELSE d \notin DOMAIN carts
        /\ IsInjective(new) /\ LinesAdded(d, n, new)
        /\ \A i \in 1..n : req[p].items[new[i]] > 0
  BY <1>2
<1>4. \A l \in DOMAIN lines' \ DOMAIN lines : \E i \in 1..n : l = Len(lines) + i
  <2>1. ASSUME NEW l \in 1..(Len(lines) + n), l \notin 1..Len(lines)
        PROVE  l - Len(lines) \in 1..n /\ l = Len(lines) + (l - Len(lines))
    BY <1>3, <2>1 DEF LinesAdded
  <2> QED BY <1>3, <2>1 DEF LinesAdded
<1>5. \A l \in DOMAIN lines : lines'[l] = lines[l]
  BY <1>3 DEF LinesAdded
<1>6. ASSUME NEW c \in Nat \ {NoRow}, NEW v \in Variants
      PROVE  Few(c, v)'
  <2>1. Adders(c, v)' = Adders(c, v) \ {p}
    BY <1>1, MoveAdders, IdleIsRequest DEF MergeCommit, Finish, IsAdder
  <2>2. CASE c = d /\ \E i \in 1..n : new[i] = v
    <3>1. PICK i \in 1..n : new[i] = v
      BY <2>2
    <3>2. LinesFor(c, v)' \subseteq LinesFor(c, v) \cup {Len(lines) + i}
      <4>1. ASSUME NEW l \in LinesFor(c, v)', l \notin LinesFor(c, v)
            PROVE  l = Len(lines) + i
        <5>1. l \in DOMAIN lines' \ DOMAIN lines
          BY <1>5, <4>1 DEF LinesFor, LiveLines
        <5>2. PICK j \in 1..n : l = Len(lines) + j
          BY <1>4, <5>1
        <5>3. new[j] = v
          BY <1>3, <4>1, <5>2 DEF LinesFor, LiveLines, LinesAdded
        <5>4. i = j
          BY <1>3, <3>1, <5>3 DEF IsInjective
        <5> QED BY <5>2, <5>4
      <4> QED BY <4>1
    <3>3. p \in Adders(c, v) \/ LinesFor(c, v) = {}
      <4>1. CASE req[p].cart # NoRow
        BY <1>3, <2>2, <3>1, <4>1 DEF MergeCommit, Adders, IsAdder
      <4>2. CASE req[p].cart = NoRow
        BY <1>3, <2>2, <4>2 DEF CartInv, LinesInv, LinesFor, LiveLines
      <4> QED BY <4>1, <4>2
    <3> QED BY <1>1, <2>1, <3>2, <3>3, OneMoreLine DEF CrowdInv
  <2>3. CASE ~(c = d /\ \E i \in 1..n : new[i] = v)
    <3>1. LinesFor(c, v)' \subseteq LinesFor(c, v)
      <4>1. ASSUME NEW l \in LinesFor(c, v)', l \notin LinesFor(c, v)
            PROVE  FALSE
        <5>1. l \in DOMAIN lines' \ DOMAIN lines
          BY <1>5, <4>1 DEF LinesFor, LiveLines
        <5>2. PICK j \in 1..n : l = Len(lines) + j
          BY <1>4, <5>1
        <5> QED BY <1>3, <2>3, <4>1, <5>2 DEF LinesFor, LiveLines, LinesAdded
      <4> QED BY <4>1
    <3> QED BY <1>1, <2>1, <3>1, NoMoreLines DEF CrowdInv
  <2> QED BY <2>2, <2>3
<1> QED BY <1>6 DEF CrowdInv

LEMMA DeleteItemCrowd ==
  ASSUME CartInv, CrowdInv, NEW p \in Procs, DeleteItem(p)
  PROVE  CrowdInv'
<1>1. TypeOK /\ Grown /\ DOMAIN lines' = DOMAIN lines
  BY DeleteItemStep DEF CartInv, Kept, DeleteItem
<1>2. \A c, v : LinesFor(c, v)' \subseteq LinesFor(c, v)
  BY <1>1 DEF LinesFor, LiveLines, Grown
<1> QED BY <1>1, <1>2, QuietCrowdFinish DEF DeleteItem

LEMMA HandleCrowd ==
  ASSUME CartInv, CrowdInv, NEW p \in Procs, Handle(p)
  PROVE  CrowdInv'
<1>0. TypeOK
  BY DEF CartInv
<1>1. ASSUME UNCHANGED lines,
             Finish(p) \/ \E r : /\ req' = [req EXCEPT ![p] = r] /\ r.step # "mergeCommit"
                                 /\ r.step = "write" => r.row # NoRow
      PROVE  CrowdInv'
  <2>1. \A c, v : LinesFor(c, v)' \subseteq LinesFor(c, v)
    BY <1>1, SameLinesFor
  <2> QED BY <1>0, <1>1, <2>1, QuietCrowd, QuietCrowdFinish
<1>2. CASE \E v \in Variants, confirm \in BOOLEAN : AddItem(p, v, confirm)
  <2>1. UNCHANGED lines
    BY <1>2 DEF AddItem
  <2>2. \E r : req' = [req EXCEPT ![p] = r] /\ r.step \in {"abandon", "cart"}
    BY <1>2, AddItemStep
  <2> QED BY <1>1, <2>1, <2>2
<1>3. CASE \E l \in DOMAIN lines : RemoveItem(p, l)
  <2>1. UNCHANGED lines
    BY <1>3 DEF RemoveItem
  <2>2. \E r : req' = [req EXCEPT ![p] = r] /\ r.step = "delete"
    BY <1>3, RemoveItemStep
  <2> QED BY <1>1, <2>1, <2>2
<1>4. CASE \E l \in DOMAIN lines, n \in 1..2 : UpdateItem(p, l, n)
  <2>1. PICK l \in DOMAIN lines, n \in 1..2 : UpdateItem(p, l, n)
    BY <1>4
  <2>2. UNCHANGED lines
    BY <2>1 DEF UpdateItem
  <2>3. \E r : req' = [req EXCEPT ![p] = r] /\ r.step = "write" /\ r.row = l
    BY <2>1, UpdateItemStep
  <2>4. l # NoRow
    <3>1. DOMAIN lines = 1..Len(lines) /\ Len(lines) \in Nat
      BY <1>0, LenProperties DEF TypeOK
    <3> QED BY <3>1 DEF NoRow
  <2> QED BY <1>1, <2>2, <2>3, <2>4
<1>5. CASE \E s \in Stores : ClearCart(p, s)
  <2>1. UNCHANGED lines
    BY <1>5 DEF ClearCart
  <2>2. \E r : req' = [req EXCEPT ![p] = r] /\ r.step = "clear"
    BY <1>5, ClearCartStep
  <2> QED BY <1>1, <2>1, <2>2
<1>6. CASE \E s \in Stores, k \in Keys : \/ CartCheckout(p, s, k)
                                         \/ \E items \in Baskets(s) : Checkout(p, s, items, k)
  <2>1. UNCHANGED lines
    BY <1>6 DEF CartCheckout, Checkout
  <2>2. \E r : req' = [req EXCEPT ![p] = r] /\ r.step = "key"
    BY <1>6, CartCheckoutStep, CheckoutStep
  <2> QED BY <1>1, <2>1, <2>2
<1>7. CASE AbandonOtherCart(p)
  <2>1. UNCHANGED lines
    BY <1>7 DEF AbandonOtherCart
  <2>2. \E r : req' = [req EXCEPT ![p] = r] /\ r.step = "cart"
    BY <1>7, AbandonOtherStep
  <2> QED BY <1>1, <2>1, <2>2
<1>8. CASE FindOrCreateCart(p)
  <2>1. UNCHANGED lines
    BY <1>8 DEF FindOrCreateCart
  <2>2. Finish(p) \/ \E r : req' = [req EXCEPT ![p] = r] /\ r.step = "item"
    BY <1>8, FindOrCreateStep DEF CartReady
  <2> QED BY <1>1, <2>1, <2>2
<1>9. CASE CheckIdempotencyKey(p)
  <2>1. UNCHANGED lines
    BY <1>9 DEF CheckIdempotencyKey
  <2>2. Finish(p) \/ \E r : req' = [req EXCEPT ![p] = r] /\ r.step = "tx"
    BY <1>9, CheckKeyStep
  <2> QED BY <1>1, <2>1, <2>2
<1>10. CASE PlaceOrder(p)
  <2>1. UNCHANGED lines
    BY <1>10 DEF PlaceOrder
  <2>2. \E r : req' = [req EXCEPT ![p] = r] /\ r.step = "setKey"
    BY <1>10, PlaceOrderStep
  <2> QED BY <1>1, <2>1, <2>2
<1>11. CASE AbandonCart(p) \/ RefuseOrder(p) \/ SetIdempotencyKey(p) \/ Crash(p)
  <2>1. UNCHANGED lines /\ Finish(p)
    BY <1>11 DEF AbandonCart, RefuseOrder, SetIdempotencyKey, Crash
  <2> QED BY <1>1, <2>1
<1> QED
  BY <1>2, <1>3, <1>4, <1>5, <1>6, <1>7, <1>8, <1>9, <1>10, <1>11, FindItemCrowd,
     MergeCartCrowd, ClearStaleCrowd, WriteItemCrowd, MergeCommitCrowd, DeleteItemCrowd
  DEF Handle

LEMMA CrowdInvIsInductive ==
  ASSUME CartInv, CrowdInv, [Next]_vars
  PROVE  CrowdInv'
<1>1. TypeOK
  BY DEF CartInv
<1>2. ASSUME UNCHANGED <<lines, req>>
      PROVE  CrowdInv'
  <2>1. ASSUME NEW c \in Nat \ {NoRow}, NEW v \in Variants
        PROVE  Few(c, v)'
    <3>1. Adders(c, v)' = Adders(c, v)
      BY <1>2 DEF Adders, IsAdder
    <3> QED BY <1>1, <1>2, <3>1, SameLinesFor, NoMoreLines DEF CrowdInv
  <2> QED BY <2>1 DEF CrowdInv
<1>3. CASE (\E k \in Keys : Expire(k)) \/ (\E v \in Variants : Toggle(v)) \/ UNCHANGED vars
  BY <1>2, <1>3 DEF Expire, Toggle, vars
<1> QED BY <1>3, HandleCrowd DEF Next

LEMMA InitCrowdInv == Init => CrowdInv
<1> SUFFICES ASSUME Init, NEW c \in Nat \ {NoRow}, NEW v \in Variants PROVE Few(c, v)
  BY DEF CrowdInv
<1>1. LinesFor(c, v) = {} /\ Adders(c, v) = {}
  BY IdleIsRequest DEF Init, LinesFor, LiveLines, Adders, IsAdder
<1>2. Cardinality({}) = 0 /\ Cardinality(Procs) \in Nat
  BY CartAssumption, FS_EmptySet, FS_CardinalityType
<1> QED BY <1>1, <1>2 DEF Few

-------------------------------------------------------------------------------
(* The invariant when requests do not overlap *)

OneAtWork == \A p, q \in Procs : req[p].step # "idle" /\ req[q].step # "idle" => p = q

OneLine ==
  \A l, m \in DOMAIN lines :
    (/\ lines[l].cart = lines[m].cart /\ lines[l].variant = lines[m].variant
     /\ ~lines[l].deleted /\ ~lines[m].deleted) => l = m

\* What a request has read still holds: its cart is active, there is no line for what it
\* adds or the line it writes is in its cart, an emptied cart is empty, and what it orders
\* is in the cart.
Current(r) ==
  /\ r.step \in {"cart", "mergeClear", "mergeCommit", "key", "tx"} /\ r.cart # NoRow =>
       r.cart \in ActiveCarts
  /\ r.step \in {"item", "write"} => r.cart \in ActiveCarts
  /\ r.step = "write" /\ r.row = NoRow =>
       \A v \in Variants : r.items[v] > 0 => LinesFor(r.cart, v) = {}
  /\ r.step = "write" /\ r.row # NoRow => lines[r.row].cart = r.cart
  /\ r.step = "delete" => lines[r.row].cart \in ActiveCarts
  /\ r.step = "mergeCommit" /\ r.cart # NoRow => LiveLines(r.cart) = {}
  /\ r.step \in {"key", "tx"} /\ r.cart # NoRow =>
       carts[r.cart].store = r.store /\ Content(r.cart) = r.items

RequestsCurrent == \A r \in {req[p] : p \in Procs} : Current(r)

\* The carts that were abandoned: nothing touches their lines any more.
Settled == DOMAIN carts \ ActiveCarts

OrderedInv ==
  \A i \in DOMAIN placed : \A c \in {placed[i].cart} \ {NoRow} :
    /\ c \in Settled /\ Content(c) = placed[i].items
    /\ \A j \in DOMAIN placed : placed[j].cart = c => i = j

SequentialInv == CartInv /\ OneAtWork /\ OneLine /\ RequestsCurrent /\ OrderedInv

\* All requests but p wait, and p goes on with what holds after the step.
Moves(p) ==
  /\ \A q \in Procs : q # p => req[q].step = "idle"
  /\ \E r : req' = [req EXCEPT ![p] = r] /\ Current(r)'

LEMMA OthersWait ==
  ASSUME ~Overlapping, OneAtWork, NEW p \in Procs, MayStart(p) \/ req[p].step # "idle"
  PROVE  \A q \in Procs : q # p => req[q].step = "idle"
  BY DEF OneAtWork, MayStart

LEMMA MovesKeepsRequests ==
  ASSUME TypeOK, NEW p \in Procs, Moves(p)
  PROVE  OneAtWork' /\ RequestsCurrent'
<1>1. PICK r : req' = [req EXCEPT ![p] = r] /\ Current(r)'
  BY DEF Moves
<1>2. /\ req'[p] = r
      /\ \A q \in Procs : q # p => req'[q] = req[q] /\ req'[q].step = "idle"
  BY <1>1 DEF Moves, TypeOK
<1>3. OneAtWork'
  BY <1>2 DEF OneAtWork
<1>4. ASSUME NEW x \in {req'[q] : q \in Procs}
      PROVE  Current(x)'
  <2>1. CASE x = r
    BY <1>1, <2>1
  <2>2. CASE x # r
    <3>1. x.step = "idle"
      BY <1>2, <2>2
    <3> QED BY <3>1 DEF Current
  <2> QED BY <2>1, <2>2
<1> QED BY <1>3, <1>4 DEF RequestsCurrent

LEMMA IdleIsCurrent ==
  ASSUME NEW p \in Procs, Finish(p), \A q \in Procs : q # p => req[q].step = "idle"
  PROVE  Moves(p)
<1>1. Current(Idle)'
  BY IdleIsRequest DEF Current
<1> QED BY <1>1 DEF Moves, Finish

-------------------------------------------------------------------------------
(* What a cart holds *)

\* The lines of cart c stay as they are.
CartKept(c) ==
  /\ \A l \in DOMAIN lines : lines[l].cart = c => l \in DOMAIN lines' /\ lines'[l] = lines[l]
  /\ \A l \in DOMAIN lines' : lines'[l].cart = c => l \in DOMAIN lines /\ lines'[l] = lines[l]

LEMMA ContentKept ==
  ASSUME NEW c, CartKept(c)
  PROVE  /\ LiveLines(c)' = LiveLines(c)
         /\ \A v \in Variants : LinesFor(c, v)' = LinesFor(c, v)
         /\ Content(c)' = Content(c)
<1>1. LiveLines(c)' = LiveLines(c)
  BY DEF LiveLines, CartKept
<1>2. ASSUME NEW v \in Variants
      PROVE  LinesFor(c, v)' = LinesFor(c, v)
  BY <1>1 DEF LinesFor, LiveLines, CartKept
<1>3. ASSUME NEW v \in Variants
      PROVE  Content(c)'[v] = Content(c)[v]
  <2>1. PICK S : S = LinesFor(c, v) /\ S = LinesFor(c, v)'
    BY <1>2
  <2>2. PICK m : m = CHOOSE l \in S : TRUE
    OBVIOUS
  <2>3. Content(c)[v] = IF S = {} THEN 0 ELSE lines[m].quantity
    <3>1. Content(c)[v] = IF LinesFor(c, v) = {} THEN 0
                          ELSE lines[CHOOSE l \in LinesFor(c, v) : TRUE].quantity
      BY DEF Content
    <3> QED BY <2>1, <2>2, <3>1, Zenon
  <2>4. Content(c)'[v] = IF S = {} THEN 0 ELSE lines'[m].quantity
    <3>1. Content(c)'[v] = IF LinesFor(c, v)' = {} THEN 0
                           ELSE lines'[CHOOSE l \in LinesFor(c, v)' : TRUE].quantity
      BY DEF Content
    <3> QED BY <2>1, <2>2, <3>1, Zenon
  <2>5. S # {} => lines'[m] = lines[m]
    <3>1. S # {} => m \in S
      BY <2>2
    <3> QED BY <2>1, <3>1 DEF LinesFor, LiveLines, CartKept
  <2> QED BY <2>3, <2>4, <2>5
<1>4. Content(c)' = Content(c)
  <2>1. /\ Content(c) = [v \in Variants |-> Content(c)[v]]
        /\ Content(c)' = [v \in Variants |-> Content(c)'[v]]
    BY DEF Content
  <2> QED BY <1>3, <2>1, Zenon
<1> QED BY <1>1, <1>2, <1>4

LEMMA LinesStay ==
  ASSUME UNCHANGED lines, NEW c
  PROVE  CartKept(c)
  BY DEF CartKept

LEMMA CurrentStays ==
  ASSUME UNCHANGED <<carts, lines>>, NEW r, Current(r)
  PROVE  Current(r)'
<1>1. /\ LiveLines(r.cart)' = LiveLines(r.cart)
      /\ \A v \in Variants : LinesFor(r.cart, v)' = LinesFor(r.cart, v)
      /\ Content(r.cart)' = Content(r.cart)
  BY LinesStay, ContentKept
<1>2. ActiveCarts' = ActiveCarts
  BY DEF ActiveCarts
<1> QED BY <1>1, <1>2 DEF Current

\* Only cart c gets or changes lines.
OnlyCart(c) ==
  /\ \A l \in DOMAIN lines : lines[l].cart # c => lines'[l] = lines[l]
  /\ \A l \in DOMAIN lines' \ DOMAIN lines : lines'[l].cart = c

\* The orders stay true to their carts: those are settled.
LEMMA OrdersStay ==
  ASSUME OrderedInv, Grown, UNCHANGED placed, NEW c, c \notin Settled, OnlyCart(c)
  PROVE  OrderedInv'
<1>1. ASSUME NEW i \in DOMAIN placed, NEW d \in {placed[i].cart} \ {NoRow}
      PROVE  d \in Settled' /\ Content(d)' = placed[i].items
  <2>1. d \in Settled /\ Content(d) = placed[i].items
    BY DEF OrderedInv
  <2>2. d \in Settled'
    BY <2>1 DEF Settled, ActiveCarts, Grown
  <2>3. CartKept(d)
    BY <2>1 DEF CartKept, OnlyCart, Grown
  <2>4. Content(d)' = placed[i].items
    BY <2>1, <2>3, ContentKept
  <2> QED BY <2>2, <2>4
<1> QED BY <1>1 DEF OrderedInv

\* Lines are edited, or deleted.
LEMMA EditedOnce ==
  ASSUME OneLine, Grown, DOMAIN lines' = DOMAIN lines
  PROVE  OneLine'
  BY DEF OneLine, Grown

\* Lines are added for different variants the cart has no line for.
LEMMA AddedOnce ==
  ASSUME OneLine, NEW c, NEW n \in Nat, NEW S, NEW new \in [1..n -> S], IsInjective(new),
         LinesAdded(c, n, new), \A i \in 1..n : LinesFor(c, new[i]) = {}
  PROVE  OneLine'
<1>1. PICK k \in Nat : /\ k = Len(lines) /\ DOMAIN lines = 1..k /\ DOMAIN lines' = 1..(k + n)
                       /\ \A l \in 1..k : lines'[l] = lines[l]
                       /\ \A i \in 1..n : lines'[k + i].cart = c /\ lines'[k + i].variant = new[i]
  BY DEF LinesAdded
<1>2. ASSUME NEW l \in 1..(k + n), NEW m \in 1..(k + n), lines'[l].cart = lines'[m].cart,
             lines'[l].variant = lines'[m].variant, ~lines'[l].deleted, ~lines'[m].deleted
      PROVE  l = m
  <2>1. \A x \in 1..(k + n) : x \in 1..k \/ \E i \in 1..n : x = k + i
    <3>1. ASSUME NEW x \in 1..(k + n), x \notin 1..k
          PROVE  x - k \in 1..n /\ x = k + (x - k)
      BY <3>1
    <3> QED BY <3>1
  <2>2. ASSUME NEW x \in 1..k, NEW i \in 1..n
        PROVE  ~(lines[x].cart = c /\ lines[x].variant = new[i] /\ ~lines[x].deleted)
    <3>1. x \notin LinesFor(c, new[i])
      BY <2>2
    <3> QED BY <1>1, <3>1 DEF LinesFor, LiveLines
  <2>3. CASE l \in 1..k /\ m \in 1..k
    BY <1>1, <1>2, <2>3 DEF OneLine
  <2>4. CASE l \in 1..k /\ m \notin 1..k
    <3>1. PICK i \in 1..n : m = k + i
      BY <2>1, <2>4
    <3> QED BY <1>1, <1>2, <2>2, <2>4, <3>1
  <2>5. CASE l \notin 1..k /\ m \in 1..k
    <3>1. PICK i \in 1..n : l = k + i
      BY <2>1, <2>5
    <3> QED BY <1>1, <1>2, <2>2, <2>5, <3>1
  <2>6. CASE l \notin 1..k /\ m \notin 1..k
    <3>1. PICK i \in 1..n, j \in 1..n : l = k + i /\ m = k + j
      BY <2>1, <2>6
    <3>2. new[i] = new[j]
      BY <1>1, <1>2, <3>1
    <3>3. i = j
      BY <3>2 DEF IsInjective
    <3> QED BY <3>1, <3>3
  <2> QED BY <2>3, <2>4, <2>5, <2>6
<1> QED BY <1>1, <1>2 DEF OneLine

-------------------------------------------------------------------------------
(* Every step keeps it, when requests do not overlap *)

\* What a step of p does.
Advances(p) == OneLine' /\ OrderedInv' /\ Moves(p)

LEMMA NoLineNoCart ==
  ASSUME TypeOK
  PROVE  NoRow \notin DOMAIN lines /\ NoRow \notin DOMAIN carts
<1>1. DOMAIN lines = 1..Len(lines) /\ DOMAIN carts = 1..Len(carts)
  BY LenProperties DEF TypeOK
<1> QED BY <1>1 DEF NoRow

LEMMA TablesStay ==
  ASSUME SequentialInv, UNCHANGED <<carts, lines, placed>>
  PROVE  OneLine' /\ OrderedInv'
<1>1. NoRow \notin Settled
  BY NoLineNoCart DEF SequentialInv, CartInv, Settled
<1>2. Grown /\ OnlyCart(NoRow)
  BY DEF Grown, OnlyCart
<1>3. OrderedInv'
  BY <1>1, <1>2, OrdersStay DEF SequentialInv
<1> QED BY <1>3 DEF SequentialInv, OneLine

\* A request that only reads.
LEMMA ReadAdvances ==
  ASSUME SequentialInv, UNCHANGED <<carts, lines, placed>>, NEW p \in Procs,
         \A q \in Procs : q # p => req[q].step = "idle",
         NEW r, req' = [req EXCEPT ![p] = r], Current(r)
  PROVE  Advances(p)
<1>1. Current(r)'
  BY CurrentStays
<1> QED BY <1>1, TablesStay DEF Advances, Moves

LEMMA FinishAdvances ==
  ASSUME SequentialInv, UNCHANGED <<carts, lines, placed>>, NEW p \in Procs,
         \A q \in Procs : q # p => req[q].step = "idle", Finish(p)
  PROVE  Advances(p)
  BY TablesStay, IdleIsCurrent DEF Advances

LEMMA StartAdvances ==
  ASSUME SequentialInv, ~Overlapping, NEW p \in Procs,
         \/ \E v \in Variants, confirm \in BOOLEAN : AddItem(p, v, confirm)
         \/ \E l \in DOMAIN lines : RemoveItem(p, l) \/ \E n \in 1..2 : UpdateItem(p, l, n)
  PROVE  Advances(p)
<1>1. \A q \in Procs : q # p => req[q].step = "idle"
  BY OthersWait DEF SequentialInv, AddItem, RemoveItem, UpdateItem, Start
<1>2. UNCHANGED <<carts, lines, placed>>
  BY DEF AddItem, RemoveItem, UpdateItem
<1>3. CASE \E v \in Variants, confirm \in BOOLEAN : AddItem(p, v, confirm)
  <2>1. PICK r : /\ req' = [req EXCEPT ![p] = r] /\ r.step \in {"abandon", "cart"}
                 /\ r.cart \in FindFirst(ActiveCarts)
    BY <1>3, AddItemStep DEF SequentialInv
  <2>2. Current(r)
    BY <2>1 DEF Current, FindFirst
  <2> QED BY <1>1, <1>2, <2>1, <2>2, ReadAdvances
<1>4. ASSUME NEW l \in DOMAIN lines, RemoveItem(p, l)
      PROVE  Advances(p)
  <2>1. PICK r : req' = [req EXCEPT ![p] = r] /\ r.step = "delete" /\ r.row = l
    BY <1>4, RemoveItemStep DEF SequentialInv
  <2>2. Current(r)
    BY <1>4, <2>1 DEF Current, RemoveItem, IsEditable
  <2> QED BY <1>1, <1>2, <2>1, <2>2, ReadAdvances
<1>5. ASSUME NEW l \in DOMAIN lines, NEW n \in 1..2, UpdateItem(p, l, n)
      PROVE  Advances(p)
  <2>1. PICK r : req' = [req EXCEPT ![p] = r] /\ r.step = "write" /\ r.row = l /\ r.cart = lines[l].cart
    BY <1>5, UpdateItemStep DEF SequentialInv
  <2>2. l # NoRow
    BY NoLineNoCart DEF SequentialInv, CartInv
  <2>3. Current(r)
    BY <1>5, <2>1, <2>2 DEF Current, UpdateItem, IsEditable
  <2> QED BY <1>1, <1>2, <2>1, <2>3, ReadAdvances
<1> QED BY <1>3, <1>4, <1>5

LEMMA StartOfStoreAdvances ==
  ASSUME SequentialInv, ~Overlapping, NEW p \in Procs, NEW s \in Stores,
         \/ ClearCart(p, s)
         \/ \E items \in Baskets(s) : MergeCart(p, s, items)
         \/ \E k \in Keys :
              \/ CartCheckout(p, s, k)
              \/ \E items \in Baskets(s) : Checkout(p, s, items, k)
  PROVE  Advances(p)
<1>1. \A q \in Procs : q # p => req[q].step = "idle"
  BY OthersWait DEF SequentialInv, ClearCart, MergeCart, CartCheckout, Checkout, Start
<1>2. UNCHANGED <<carts, lines, placed>>
  BY DEF ClearCart, MergeCart, CartCheckout, Checkout
<1>3. CASE ClearCart(p, s)
  <2>1. PICK r : req' = [req EXCEPT ![p] = r] /\ r.step = "clear"
    BY <1>3, ClearCartStep DEF SequentialInv
  <2>2. Current(r)
    BY <2>1 DEF Current
  <2> QED BY <1>1, <1>2, <2>1, <2>2, ReadAdvances
<1>4. ASSUME NEW items \in Baskets(s), MergeCart(p, s, items)
      PROVE  Advances(p)
  <2>1. PICK r : /\ req' = [req EXCEPT ![p] = r] /\ r.cart \in FindFirst(ActiveCartsOf(s))
                 /\ r.step = IF r.cart # NoRow /\ LiveLines(r.cart) # {} THEN "mergeClear"
                                                                        ELSE "mergeCommit"
    BY <1>4, MergeCartStep DEF SequentialInv
  <2>2. r.cart # NoRow => r.cart \in ActiveCarts
    BY <2>1 DEF FindFirst, ActiveCartsOf
  <2>3. Current(r)
    BY <2>1, <2>2 DEF Current
  <2> QED BY <1>1, <1>2, <2>1, <2>3, ReadAdvances
<1>5. ASSUME NEW k \in Keys, CartCheckout(p, s, k)
      PROVE  Advances(p)
  <2>1. PICK c \in ActiveCartsOf(s), r \in Request :
          /\ r.step = "key" /\ r.store = s /\ r.cart = c /\ r.items = Content(c)
          /\ req' = [req EXCEPT ![p] = r]
    BY <1>5, CartCheckoutStep DEF SequentialInv
  <2>2. c \in ActiveCarts /\ carts[c].store = s
    BY DEF ActiveCartsOf
  <2>3. Current(r)
    BY <2>1, <2>2 DEF Current
  <2> QED BY <1>1, <1>2, <2>1, <2>3, ReadAdvances
<1>6. ASSUME NEW k \in Keys, NEW items \in Baskets(s), Checkout(p, s, items, k)
      PROVE  Advances(p)
  <2>1. PICK r \in Request : r.step = "key" /\ r.cart = NoRow /\ req' = [req EXCEPT ![p] = r]
    BY <1>6, CheckoutStep DEF SequentialInv
  <2>2. Current(r)
    BY <2>1 DEF Current
  <2> QED BY <1>1, <1>2, <2>1, <2>2, ReadAdvances
<1> QED BY <1>3, <1>4, <1>5, <1>6

\* Carts are abandoned or created, nothing else.
LEMMA OnlyCartsMove ==
  ASSUME SequentialInv, Grown, UNCHANGED <<lines, placed>>
  PROVE  OneLine' /\ OrderedInv'
<1>1. NoRow \notin Settled
  BY NoLineNoCart DEF SequentialInv, CartInv, Settled
<1>2. OnlyCart(NoRow)
  BY DEF OnlyCart
<1>3. OrderedInv'
  BY <1>1, <1>2, OrdersStay DEF SequentialInv
<1> QED BY <1>3 DEF SequentialInv, OneLine

LEMMA CartsAdvance ==
  ASSUME SequentialInv, ~Overlapping, NEW p \in Procs,
         AbandonOtherCart(p) \/ FindOrCreateCart(p) \/ AbandonCart(p)
  PROVE  Advances(p)
<1>1. \A q \in Procs : q # p => req[q].step = "idle"
  BY OthersWait DEF SequentialInv, AbandonOtherCart, FindOrCreateCart, AbandonCart
<1>2. Grown
  BY AbandonOtherStep, FindOrCreateStep, AbandonCartStep DEF Kept, SequentialInv
<1>3. UNCHANGED <<lines, placed>>
  BY DEF AbandonOtherCart, FindOrCreateCart, AbandonCart
<1>4. OneLine' /\ OrderedInv'
  BY <1>2, <1>3, OnlyCartsMove
<1>5. Moves(p)
  <2>1. CASE AbandonOtherCart(p)
    <3>1. PICK r : req' = [req EXCEPT ![p] = r] /\ r.step = "cart" /\ r.cart = NoRow
      BY <2>1, AbandonOtherStep DEF SequentialInv
    <3>2. Current(r)'
      BY <3>1 DEF Current
    <3> QED BY <1>1, <3>1, <3>2 DEF Moves
  <2>2. CASE CartReady(p) /\ FindOrCreateCart(p)
    <3>1. PICK r : /\ req' = [req EXCEPT ![p] = r] /\ r.step = "item"
                   /\ \A d \in DOMAIN carts : carts'[d] = carts[d]
                   /\ \/ r.cart = req[p].cart /\ req[p].cart # NoRow
                      \/ carts'[r.cart].status = "ACTIVE"
                   /\ r.cart \in DOMAIN carts'
      BY <2>2 DEF CartReady
    <3>2. req[p].cart # NoRow => req[p].cart \in ActiveCarts
      BY <2>2 DEF SequentialInv, RequestsCurrent, Current, FindOrCreateCart
    <3>3. r.cart \in ActiveCarts'
      BY <3>1, <3>2 DEF ActiveCarts
    <3>4. Current(r)'
      BY <3>1, <3>3 DEF Current
    <3> QED BY <1>1, <3>1, <3>4 DEF Moves
  <2>3. CASE Finish(p)
    BY <1>1, <2>3, IdleIsCurrent
  <2> QED BY <2>1, <2>2, <2>3, FindOrCreateStep DEF SequentialInv, AbandonCart
<1> QED BY <1>4, <1>5 DEF Advances

LEMMA FindItemAdvances ==
  ASSUME SequentialInv, ~Overlapping, NEW p \in Procs, FindItem(p)
  PROVE  Advances(p)
<1>1. \A q \in Procs : q # p => req[q].step = "idle"
  BY OthersWait DEF SequentialInv, FindItem
<1>2. UNCHANGED <<carts, lines, placed>>
  BY DEF FindItem
<1>3. CASE Finish(p)
  BY <1>1, <1>2, <1>3, FinishAdvances
<1>4. ASSUME NEW r, req' = [req EXCEPT ![p] = r], r.step = "write", r.cart = req[p].cart,
             AddsOne(r), r.row \in FindFirst(LinesFor(r.cart, VariantOf(r)))
      PROVE  Advances(p)
  <2>1. r.cart \in ActiveCarts
    BY <1>4 DEF SequentialInv, RequestsCurrent, Current, FindItem
  <2>2. PICK v \in Variants : v = VariantOf(r) /\ \A w \in Variants : r.items[w] > 0 => w = v
    BY <1>4, VariantOfIs
  <2>3. NoRow \notin DOMAIN lines
    BY NoLineNoCart DEF SequentialInv, CartInv
  <2>4. r.row = NoRow => LinesFor(r.cart, v) = {}
    BY <1>4, <2>2, <2>3 DEF FindFirst, LinesFor, LiveLines
  <2>5. r.row # NoRow => lines[r.row].cart = r.cart
    BY <1>4, <2>2 DEF FindFirst, LinesFor, LiveLines
  <2>6. Current(r)
    BY <1>4, <2>1, <2>2, <2>4, <2>5 DEF Current
  <2> QED BY <1>1, <1>2, <1>4, <2>6, ReadAdvances
<1> QED BY <1>3, <1>4, FindItemStep DEF SequentialInv

\* One line is edited, or deleted, in a cart that is active.
LEMMA EditAdvances ==
  ASSUME SequentialInv, Grown, UNCHANGED placed, NEW l \in DOMAIN lines,
         lines[l].cart \in ActiveCarts, NEW x, lines' = [lines EXCEPT ![l] = x]
  PROVE  OneLine' /\ OrderedInv'
<1>1. DOMAIN lines' = DOMAIN lines /\ OnlyCart(lines[l].cart)
  BY DEF OnlyCart
<1>2. OneLine'
  BY <1>1, EditedOnce DEF SequentialInv
<1>3. OrderedInv'
  BY <1>1, OrdersStay DEF SequentialInv, Settled
<1> QED BY <1>2, <1>3

\* Lines are added to a cart, none of them for a variant it has a line for.
LEMMA AddAdvances ==
  ASSUME SequentialInv, Grown, UNCHANGED placed, NEW c, c \notin Settled, NEW n \in Nat, NEW S,
         NEW new \in [1..n -> S], IsInjective(new), LinesAdded(c, n, new),
         \A i \in 1..n : LinesFor(c, new[i]) = {}
  PROVE  OneLine' /\ OrderedInv'
<1>1. OneLine'
  BY AddedOnce DEF SequentialInv
<1>2. PICK k \in Nat : /\ k = Len(lines) /\ DOMAIN lines = 1..k /\ DOMAIN lines' = 1..(k + n)
                       /\ \A l \in 1..k : lines'[l] = lines[l]
                       /\ \A i \in 1..n : lines'[k + i].cart = c
  BY DEF LinesAdded
<1>3. ASSUME NEW l \in DOMAIN lines' \ DOMAIN lines
      PROVE  lines'[l].cart = c
  <2>1. l - k \in 1..n /\ l = k + (l - k)
    BY <1>2, <1>3
  <2> QED BY <1>2, <2>1
<1>4. OnlyCart(c)
  BY <1>2, <1>3 DEF OnlyCart
<1> QED BY <1>1, <1>4, OrdersStay DEF SequentialInv

LEMMA WriteItemAdvances ==
  ASSUME SequentialInv, ~Overlapping, NEW p \in Procs, WriteItem(p)
  PROVE  Advances(p)
<1>1. Moves(p)
  BY OthersWait, IdleIsCurrent DEF SequentialInv, WriteItem
<1>2. Grown /\ UNCHANGED <<carts, placed>>
  BY WriteItemStep DEF SequentialInv, Kept, WriteItem
<1>3. PICK r \in Request : /\ r = req[p] /\ AddsOne(r) /\ r.cart \in ActiveCarts
                           /\ r.row # NoRow => r.row \in DOMAIN lines /\ lines[r.row].cart = r.cart
                           /\ r.row = NoRow =>
                                \A v \in Variants : r.items[v] > 0 => LinesFor(r.cart, v) = {}
  <2>1. PICK r \in Request : r = req[p]
    BY DEF SequentialInv, CartInv, TypeOK
  <2>2. r.step = "write" /\ Sound(r) /\ Current(r)
    BY <2>1 DEF SequentialInv, CartInv, RequestsInv, RequestsCurrent, WriteItem
  <2> QED BY <2>1, <2>2 DEF Sound, Current
<1>4. PICK v \in Variants : v = VariantOf(r) /\ r.items[v] > 0
  BY <1>3, VariantOfIs
<1>5. CASE r.row = NoRow /\ lines' = Append(lines, NewLine(r.cart, v, r.items[v]))
  <2>1. PICK new : new = [i \in 1..1 |-> v]
    OBVIOUS
  <2>2. new \in [1..1 -> Variants] /\ new[1] = v
    BY <2>1
  <2>3. IsInjective(new)
    BY <2>1 DEF IsInjective
  <2>4. PICK x : x = NewLine(r.cart, v, r.items[v])
    OBVIOUS
  <2>5. x \in Line /\ x.cart = r.cart /\ x.variant = v
    <3>1. r.items \in Basket /\ r.cart \in Nat
      BY DEF Request
    <3>2. r.items[v] \in Nat \ {0}
      BY <1>4, <3>1 DEF Basket
    <3> QED BY <2>4, <3>1, <3>2 DEF NewLine, Line
  <2>6. LinesAdded(r.cart, 1, new)
    <3>1. lines \in Seq(Line) /\ lines' = Append(lines, x)
      BY <1>5, <2>4 DEF SequentialInv, CartInv, TypeOK
    <3>2. /\ Len(lines) \in Nat /\ DOMAIN lines = 1..Len(lines)
          /\ DOMAIN lines' = 1..(Len(lines) + 1)
          /\ \A i \in DOMAIN lines : lines'[i] = lines[i]
          /\ lines'[Len(lines) + 1] = x
      BY <2>5, <3>1, RowAdded
    <3>3. \A i \in 1..1 : i = 1
      OBVIOUS
    <3> QED BY <2>2, <2>5, <3>2, <3>3 DEF LinesAdded
  <2>7. \A i \in 1..1 : LinesFor(r.cart, new[i]) = {}
    BY <1>3, <1>4, <1>5, <2>1
  <2>8. r.cart \notin Settled
    BY <1>3 DEF Settled
  <2>9. OneLine' /\ OrderedInv'
    BY <1>2, <2>2, <2>3, <2>6, <2>7, <2>8, AddAdvances
  <2> QED BY <1>1, <2>9 DEF Advances
<1>6. CASE r.row # NoRow /\ lines' = [lines EXCEPT ![r.row].quantity = r.items[v]]
  <2>1. PICK x : x = [lines[r.row] EXCEPT !.quantity = r.items[v]]
    OBVIOUS
  <2>2. lines' = [lines EXCEPT ![r.row] = x]
    BY <1>6, <2>1
  <2> QED BY <1>1, <1>2, <1>3, <1>6, <2>2, EditAdvances DEF Advances
<1>7. CASE UNCHANGED lines
  BY <1>1, <1>2, <1>7, TablesStay DEF Advances
<1> QED BY <1>3, <1>4, <1>5, <1>6, <1>7 DEF WriteItem

LEMMA DeleteItemAdvances ==
  ASSUME SequentialInv, ~Overlapping, NEW p \in Procs, DeleteItem(p)
  PROVE  Advances(p)
<1>1. Moves(p)
  BY OthersWait, IdleIsCurrent DEF SequentialInv, DeleteItem
<1>2. Grown /\ UNCHANGED <<carts, placed>>
  BY DeleteItemStep DEF SequentialInv, Kept, DeleteItem
<1>3. PICK l \in DOMAIN lines : l = req[p].row /\ lines[l].cart \in ActiveCarts
  BY DEF SequentialInv, CartInv, RequestsInv, Sound, RequestsCurrent, Current, DeleteItem
<1>4. PICK x : x = [lines[l] EXCEPT !.deleted = TRUE]
  OBVIOUS
<1>5. lines' = [lines EXCEPT ![l] = x]
  BY <1>3, <1>4 DEF DeleteItem
<1> QED BY <1>1, <1>2, <1>3, <1>5, EditAdvances DEF Advances

LEMMA ClearStaleAdvances ==
  ASSUME SequentialInv, ~Overlapping, NEW p \in Procs, ClearStaleItems(p)
  PROVE  Advances(p)
<1>1. \A q \in Procs : q # p => req[q].step = "idle"
  BY OthersWait DEF SequentialInv, ClearStaleItems
<1>2. Grown /\ UNCHANGED <<carts, placed>>
  BY ClearStaleStep DEF SequentialInv, Kept, ClearStaleItems
<1>3. PICK c, r :
        /\ c = req[p].cart /\ DOMAIN lines' = DOMAIN lines
        /\ \A l \in DOMAIN lines :
             IF lines[l].cart = c THEN lines'[l].deleted ELSE lines'[l] = lines[l]
        /\ req' = [req EXCEPT ![p] = r] /\ r.step = "mergeCommit" /\ r.cart = c
  BY ClearStaleStep DEF SequentialInv
<1>4. c # NoRow => c \in ActiveCarts
  BY <1>3 DEF SequentialInv, RequestsCurrent, Current, ClearStaleItems
<1>5. c \notin Settled
  BY <1>4, NoLineNoCart DEF SequentialInv, CartInv, Settled
<1>6. OnlyCart(c)
  BY <1>3 DEF OnlyCart
<1>7. OneLine' /\ OrderedInv'
  BY <1>2, <1>3, <1>5, <1>6, EditedOnce, OrdersStay DEF SequentialInv
<1>8. LiveLines(c)' = {}
  BY <1>2, <1>3 DEF LiveLines, Grown
<1>9. c # NoRow => c \in ActiveCarts'
  BY <1>2, <1>4 DEF ActiveCarts
<1>10. Current(r)'
  BY <1>3, <1>8, <1>9 DEF Current
<1> QED BY <1>1, <1>3, <1>7, <1>10 DEF Advances, Moves

LEMMA MergeCommitAdvances ==
  ASSUME SequentialInv, ~Overlapping, NEW p \in Procs, MergeCommit(p)
  PROVE  Advances(p)
<1>1. Moves(p)
  BY OthersWait, IdleIsCurrent DEF SequentialInv, MergeCommit
<1>2. Grown /\ UNCHANGED placed
  BY MergeCommitStep DEF SequentialInv, Kept, MergeCommit
<1>3. PICK c, n \in Nat, kept \in SUBSET Variants : \E new \in [1..n -> kept] :
        /\ IF req[p].cart # NoRow THEN c = req[p].cart ELSE c \notin DOMAIN carts
        /\ IsInjective(new) /\ LinesAdded(c, n, new)
  BY MergeCommitIs DEF SequentialInv
<1>4. PICK new \in [1..n -> kept] :
        /\ IF req[p].cart # NoRow THEN c = req[p].cart ELSE c \notin DOMAIN carts
        /\ IsInjective(new) /\ LinesAdded(c, n, new)
  BY <1>3
<1>5. c \notin Settled /\ LiveLines(c) = {}
  <2>1. CASE req[p].cart # NoRow
    BY <1>4, <2>1 DEF SequentialInv, RequestsCurrent, Current, MergeCommit, Settled
  <2>2. CASE req[p].cart = NoRow
    BY <1>4, <2>2 DEF SequentialInv, CartInv, LinesInv, LiveLines, Settled
  <2> QED BY <2>1, <2>2
<1>6. \A i \in 1..n : LinesFor(c, new[i]) = {}
  BY <1>5 DEF LinesFor
<1>7. OneLine' /\ OrderedInv'
  BY <1>2, <1>4, <1>5, <1>6, AddAdvances
<1> QED BY <1>1, <1>7 DEF Advances

LEMMA CheckKeyAdvances ==
  ASSUME SequentialInv, ~Overlapping, NEW p \in Procs, CheckIdempotencyKey(p)
  PROVE  Advances(p)
<1>1. \A q \in Procs : q # p => req[q].step = "idle"
  BY OthersWait DEF SequentialInv, CheckIdempotencyKey
<1>2. UNCHANGED <<carts, lines, placed>>
  BY DEF CheckIdempotencyKey
<1>3. CASE Finish(p)
  BY <1>1, <1>2, <1>3, FinishAdvances
<1>4. ASSUME NEW r, req' = [req EXCEPT ![p] = r], r.step = "tx", r.store = req[p].store,
             r.cart = req[p].cart, r.items = req[p].items
      PROVE  Advances(p)
  <2>1. r.cart # NoRow => /\ r.cart \in ActiveCarts /\ carts[r.cart].store = r.store
                          /\ Content(r.cart) = r.items
    <3>1. PICK old : old = req[p]
      OBVIOUS
    <3>2. old.step = "key" /\ Current(old)
      BY <3>1 DEF SequentialInv, RequestsCurrent, CheckIdempotencyKey
    <3>3. old.cart = r.cart /\ old.store = r.store /\ old.items = r.items
      BY <1>4, <3>1
    <3> QED BY <3>2, <3>3 DEF Current
  <2>2. Current(r)
    BY <1>4, <2>1 DEF Current
  <2> QED BY <1>1, <1>2, <1>4, <2>2, ReadAdvances
<1> QED BY <1>3, <1>4, CheckKeyStep DEF SequentialInv

LEMMA PlaceOrderAdvances ==
  ASSUME SequentialInv, ~Overlapping, NEW p \in Procs, PlaceOrder(p)
  PROVE  Advances(p)
<1>1. \A q \in Procs : q # p => req[q].step = "idle"
  BY OthersWait DEF SequentialInv, PlaceOrder
<1>2. Grown /\ UNCHANGED lines
  BY PlaceOrderStep DEF SequentialInv, Kept, PlaceOrder
<1>3. Moves(p)
  <2>1. PICK r : req' = [req EXCEPT ![p] = r] /\ r.step = "setKey"
    BY PlaceOrderStep DEF SequentialInv
  <2>2. Current(r)'
    BY <2>1 DEF Current
  <2> QED BY <1>1, <2>1, <2>2 DEF Moves
<1>4. OneLine'
  BY <1>2 DEF SequentialInv, OneLine
<1>5. PICK r : /\ r = req[p] /\ OrderPlaced(r)
               /\ r.cart # NoRow => /\ r.cart \in ActiveCartsOf(r.store)
                                    /\ Content(r.cart) = r.items
  <2>1. PICK r : r = req[p]
    OBVIOUS
  <2>2. r.step = "tx" /\ Current(r)
    BY <2>1 DEF SequentialInv, RequestsCurrent, PlaceOrder
  <2>3. OrderPlaced(r)
    BY <2>1, PlaceOrderStep DEF SequentialInv
  <2> QED BY <2>1, <2>2, <2>3 DEF Current, ActiveCartsOf
<1>6. PICK n \in Nat : /\ DOMAIN placed = 1..n /\ DOMAIN placed' = 1..(n + 1)
                       /\ \A i \in 1..n : placed'[i] = placed[i]
                       /\ placed'[n + 1].cart = r.cart /\ placed'[n + 1].items = r.items
  <2>1. PICK x : x = [store |-> r.store, items |-> r.items, cart |-> r.cart, key |-> r.key]
    OBVIOUS
  <2>2. x.cart = r.cart /\ x.items = r.items
    BY <2>1
  <2>3. PICK n \in Nat : n = Len(placed)
    BY <1>5 DEF OrderPlaced
  <2>4. /\ DOMAIN placed = 1..n /\ DOMAIN placed' = 1..(n + 1)
        /\ \A i \in 1..n : placed'[i] = placed[i]
        /\ placed'[n + 1] = x
    BY <1>5, <2>1, <2>3 DEF OrderPlaced
  <2> QED BY <2>2, <2>4
<1>7. ASSUME NEW c \in Settled
      PROVE  c \in Settled' /\ Content(c)' = Content(c)
  BY <1>2, LinesStay, ContentKept DEF Settled, ActiveCarts, Grown
<1>8. r.cart # NoRow => /\ r.cart \notin Settled /\ r.cart \in Settled'
                        /\ Content(r.cart)' = r.items
  <2>1. Content(r.cart)' = Content(r.cart)
    BY <1>2, LinesStay, ContentKept
  <2> QED BY <1>5, <2>1 DEF OrderPlaced, Settled, ActiveCarts, ActiveCartsOf
<1>9. \A i \in 1..n : \A c \in {placed[i].cart} \ {NoRow} :
        /\ c \in Settled /\ Content(c) = placed[i].items
        /\ \A j \in 1..n : placed[j].cart = c => i = j
  BY <1>6 DEF SequentialInv, OrderedInv
<1>10. \A j \in 1..(n + 1) : j \in 1..n \/ j = n + 1
  OBVIOUS
<1>11. ASSUME NEW i \in 1..(n + 1), NEW c \in {placed'[i].cart} \ {NoRow}
       PROVE  /\ c \in Settled' /\ Content(c)' = placed'[i].items
              /\ \A j \in 1..(n + 1) : placed'[j].cart = c => i = j
  <2>1. CASE i = n + 1
    <3>1. c = r.cart /\ placed'[i].items = r.items
      BY <1>6, <2>1
    <3>2. \A j \in 1..n : placed'[j].cart # c
      BY <1>6, <1>8, <1>9, <3>1
    <3> QED BY <1>8, <1>10, <2>1, <3>1, <3>2
  <2>2. CASE i \in 1..n
    <3>1. c \in Settled /\ Content(c) = placed'[i].items
      BY <1>6, <1>9, <2>2
    <3>2. c \in Settled' /\ Content(c)' = placed'[i].items
      BY <1>7, <3>1
    <3>3. \A j \in 1..(n + 1) : placed'[j].cart = c => i = j
      BY <1>6, <1>8, <1>9, <1>10, <2>2, <3>1
    <3> QED BY <3>2, <3>3
  <2> QED BY <1>10, <2>1, <2>2
<1>12. OrderedInv'
  BY <1>6, <1>11 DEF OrderedInv
<1> QED BY <1>3, <1>4, <1>12 DEF Advances

LEMMA SequentialInvIsInductive ==
  ASSUME ~Overlapping, SequentialInv, [Next]_vars
  PROVE  SequentialInv'
<1>1. CartInv'
  BY CartInvIsInductive DEF SequentialInv, Kept
<1>2. ASSUME NEW p \in Procs, Advances(p)
      PROVE  SequentialInv'
  BY <1>1, <1>2, MovesKeepsRequests DEF SequentialInv, Advances, CartInv
<1>3. ASSUME NEW p \in Procs, Handle(p)
      PROVE  SequentialInv'
  <2>1. CASE \/ \E v \in Variants, confirm \in BOOLEAN : AddItem(p, v, confirm)
             \/ \E l \in DOMAIN lines : RemoveItem(p, l) \/ \E n \in 1..2 : UpdateItem(p, l, n)
    BY <1>2, <2>1, StartAdvances
  <2>2. CASE \E s \in Stores :
               \/ ClearCart(p, s)
               \/ \E items \in Baskets(s) : MergeCart(p, s, items)
               \/ \E k \in Keys :
                    \/ CartCheckout(p, s, k)
                    \/ \E items \in Baskets(s) : Checkout(p, s, items, k)
    BY <1>2, <2>2, StartOfStoreAdvances
  <2>3. CASE AbandonOtherCart(p) \/ FindOrCreateCart(p) \/ AbandonCart(p)
    BY <1>2, <2>3, CartsAdvance
  <2>4. CASE FindItem(p) \/ WriteItem(p) \/ DeleteItem(p) \/ ClearStaleItems(p) \/ MergeCommit(p)
    BY <1>2, <2>4, FindItemAdvances, WriteItemAdvances, DeleteItemAdvances, ClearStaleAdvances,
       MergeCommitAdvances
  <2>5. CASE CheckIdempotencyKey(p) \/ PlaceOrder(p)
    BY <1>2, <2>5, CheckKeyAdvances, PlaceOrderAdvances
  <2>6. CASE RefuseOrder(p) \/ SetIdempotencyKey(p) \/ Crash(p)
    <3>1. \A q \in Procs : q # p => req[q].step = "idle"
      BY <2>6, OthersWait DEF SequentialInv, RefuseOrder, SetIdempotencyKey, Crash
    <3>2. UNCHANGED <<carts, lines, placed>> /\ Finish(p)
      BY <2>6 DEF RefuseOrder, SetIdempotencyKey, Crash
    <3> QED BY <1>2, <3>1, <3>2, FinishAdvances
  <2> QED BY <1>3, <2>1, <2>2, <2>3, <2>4, <2>5, <2>6 DEF Handle
<1>4. ASSUME UNCHANGED <<carts, lines, placed, req>>
      PROVE  SequentialInv'
  <2>1. OneLine' /\ OrderedInv'
    BY <1>4, TablesStay
  <2>2. ASSUME NEW r \in {req'[q] : q \in Procs}
        PROVE  Current(r)'
    <3>1. Current(r)
      BY <1>4 DEF SequentialInv, RequestsCurrent
    <3> QED BY <1>4, <3>1, CurrentStays
  <2>3. RequestsCurrent'
    BY <2>2 DEF RequestsCurrent
  <2>4. OneAtWork'
    BY <1>4 DEF SequentialInv, OneAtWork
  <2> QED BY <1>1, <2>1, <2>3, <2>4 DEF SequentialInv
<1> QED BY <1>3, <1>4 DEF Next, vars, Expire, Toggle

LEMMA InitSequentialInv == Init => SequentialInv
<1> SUFFICES ASSUME Init PROVE SequentialInv
  OBVIOUS
<1>1. \A p \in Procs : req[p].step = "idle"
  BY IdleIsRequest DEF Init
<1>2. OneAtWork /\ RequestsCurrent
  BY <1>1 DEF OneAtWork, RequestsCurrent, Current
<1>3. OneLine /\ OrderedInv
  BY DEF Init, OneLine, OrderedInv
<1> QED BY <1>2, <1>3, InitCartInv DEF SequentialInv

\* However the customer's requests overlap and wherever they die, no cart ever has more
\* lines for a variant than there are requests at a time; and when they come one after
\* another it has one, so checkout never refuses a cart for that.
THEOREM VariantsAreOnFewLines == Spec => []FewLinesPerVariant
<1>1. CASE Overlapping
  <2>1. CartInv /\ CrowdInv => FewLinesPerVariant
    <3> SUFFICES ASSUME CartInv, CrowdInv, NEW c \in ActiveCarts, NEW v \in Variants
                 PROVE  Cardinality(LinesFor(c, v)) <= Cardinality(Procs)
      BY <1>1 DEF FewLinesPerVariant, CartInv
    <3>1. c \in Nat \ {NoRow}
      <4>1. DOMAIN carts = 1..Len(carts) /\ Len(carts) \in Nat
        BY LenProperties DEF CartInv, TypeOK
      <4> QED BY <4>1 DEF ActiveCarts, NoRow
    <3>2. Few(c, v) /\ TypeOK
      BY <3>1 DEF CrowdInv, CartInv
    <3> QED BY <3>2, CountsAreNatural DEF Few
  <2>2. CartInv /\ CrowdInv /\ [Next]_vars => CartInv' /\ CrowdInv'
    BY CartInvIsInductive, CrowdInvIsInductive DEF Kept
  <2> QED BY <2>1, <2>2, InitCartInv, InitCrowdInv, PTL DEF Spec
<1>2. CASE ~Overlapping
  <2>1. SequentialInv => FewLinesPerVariant
    <3> SUFFICES ASSUME SequentialInv PROVE FewLinesPerVariant
      OBVIOUS
    <3>1. ASSUME NEW c \in ActiveCarts, NEW v \in Variants
          PROVE  Cardinality(LinesFor(c, v)) <= 1
      <4>1. \A l, m \in LinesFor(c, v) : l = m
        BY DEF SequentialInv, OneLine, LinesFor, LiveLines
      <4>2. CASE LinesFor(c, v) = {}
        BY <4>2, FS_EmptySet
      <4>3. CASE LinesFor(c, v) # {}
        <5>1. PICK l : LinesFor(c, v) = {l}
          BY <4>1, <4>3
        <5>2. Cardinality({l}) = 1
          BY FS_Singleton
        <5> QED BY <5>1, <5>2
      <4> QED BY <4>2, <4>3
    <3> QED BY <1>2, <3>1 DEF FewLinesPerVariant, SequentialInv, CartInv
  <2>2. SequentialInv /\ [Next]_vars => SequentialInv'
    BY <1>2, SequentialInvIsInductive
  <2> QED BY <2>1, <2>2, InitSequentialInv, PTL DEF Spec
<1> QED BY <1>1, <1>2

\* When requests come one after another, a cart is ordered once at most, whatever crashes
\* and however often its checkout is sent again with any key, and the order has what the
\* cart held: it is abandoned with the order, and no line of an abandoned cart changes.
THEOREM CartsAreOrderedOnce ==
  ASSUME ~Overlapping
  PROVE  Spec => []CartOrderedOnce
<1>1. SequentialInv => CartOrderedOnce
  <2> SUFFICES ASSUME SequentialInv, NEW i \in DOMAIN placed, NEW j \in DOMAIN placed,
                      placed[i].cart # NoRow
               PROVE  /\ placed[i].cart = placed[j].cart => i = j
                      /\ Content(placed[i].cart) = placed[i].items
    BY DEF CartOrderedOnce
  <2> QED BY DEF SequentialInv, OrderedInv
<1>2. SequentialInv /\ [Next]_vars => SequentialInv'
  BY SequentialInvIsInductive
<1> QED BY <1>1, <1>2, InitSequentialInv, PTL DEF Spec
===============================================================================
