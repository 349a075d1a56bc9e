---------------------------- MODULE WebClientProofs -----------------------------
(***************************************************************************)
(* Proofs about the web clients: the customer's shop (ShopClient), for any *)
(* number of stores, variants, tabs, calls in flight, units and acts of    *)
(* the user; and, at the end, the orders page of the store (OrderConsole). *)
(***************************************************************************)
EXTENDS ShopClient, TLAPS

-------------------------------------------------------------------------------
(* The invariant *)

GoodBasket == {b \in Basket : IsOfOneStore(b)}

GoodPage == {page \in Tab : page.shown \in GoodBasket}

\* A copy that is kept has items, so it names a store, and it has a number.
GoodCopy == {k \in Copy : k.basket \in GoodBasket /\ (k = NoCopy \/ (k.basket.store \in Stores /\ k.n > 0))}

\* Another unit of v can be added to b, and leaves it of one store.
Fits(b, v) == (b.store \in {NoStore, StoreOf[v]} \/ b.items = Nothing) /\ b.items[v] < MaxQty

\* A call carries baskets of one store; an item that was added did fit the basket to go
\* back to; a merge carries a copy.
GoodCall ==
  {r \in Call : /\ r.for \in GoodBasket /\ r.answer \in GoodBasket /\ r.copy \in GoodCopy
                /\ r.kind \in {"add", "update", "remove"} => r.variants # {}
                /\ r.kind = "add" => \A v \in r.variants : Fits(r.for, v)
                /\ r.kind = "merge" => /\ r.copy # NoCopy /\ r.for = r.copy.basket
                                       /\ r.store = r.copy.basket.store}

Merges == {c \in Calls : call[c].kind = "merge"}

\* Every copy of the guest cart was saved once and is in one place.
TokensInv ==
  /\ storage.n <= saved
  /\ \A c \in Merges : /\ call[c].copy.n <= saved /\ call[c].copy.n # storage.n
                       /\ \A d \in Merges : call[d].copy.n = call[c].copy.n => c = d

\* A copy that the API has merged, and whose answer was not lost, is nowhere it could be
\* merged from again.
MergedInv ==
  /\ \A n \in server.merged : n > 0 /\ n <= saved
  /\ storage.n \notin server.merged
  /\ \A c \in Merges : call[c].phase # "served" => call[c].copy.n \notin server.merged

ShopInv ==
  /\ storage \in GoodCopy /\ saved \in Nat /\ session \in BOOLEAN
  /\ tab \in [Tabs -> GoodPage] /\ call \in [Calls -> GoodCall] /\ server \in Server
  /\ acts \in 0..MaxActs /\ smooth \in BOOLEAN
  /\ TokensInv /\ MergedInv

-------------------------------------------------------------------------------
(* Baskets, copies and requests *)

LEMMA EmptyIsGood ==
  /\ Nothing \in [Variants -> 0..MaxQty] /\ Empty \in GoodBasket
  /\ NoCopy \in GoodCopy /\ NoCopy.n = 0 /\ NoCopy.basket = Empty
<1>1. Nothing \in [Variants -> 0..MaxQty] /\ \A v \in Variants : ~(Nothing[v] > 0)
  BY ShopAssumption DEF Nothing
<1>2. Empty \in GoodBasket
  BY <1>1 DEF Empty, GoodBasket, Basket, IsOfOneStore
<1>3. NoCopy.n = 0 /\ NoCopy.basket = Empty
  BY DEF NoCopy
<1>4. NoCopy \in Copy
  BY <1>2 DEF NoCopy, Copy, GoodBasket
<1> QED BY <1>1, <1>2, <1>3, <1>4 DEF GoodCopy

\* Whoever has items names a store.
LEMMA BasketNamesStore ==
  ASSUME NEW b \in GoodBasket, b.items # Nothing
  PROVE  b.store \in Stores /\ \A v \in Variants : b.items[v] > 0 => b.store = StoreOf[v]
<1>1. b.items \in [Variants -> 0..MaxQty]
  BY DEF GoodBasket, Basket
<1>2. PICK v \in Variants : b.items[v] # 0
  BY <1>1 DEF Nothing
<1>3. b.items[v] > 0
  BY <1>1, <1>2, ShopAssumption
<1> QED BY <1>3, ShopAssumption DEF GoodBasket, IsOfOneStore

LEMMA RequestIs ==
  ASSUME NEW kind, NEW t \in Tabs,
         kind \in {"none", "me", "get", "add", "update", "remove", "clear", "merge", "checkout", "logout"}
  PROVE  /\ Request(kind, t) \in Call /\ Request(kind, t).kind = kind /\ Request(kind, t).tab = t
         /\ Request(kind, t).for = Empty /\ Request(kind, t).answer = Empty
         /\ Request(kind, t).copy = NoCopy /\ Request(kind, t).variants = {}
         /\ Request(kind, t).store = NoStore /\ Request(kind, t).live /\ Request(kind, t).phase = "sent"
<1>1. (CHOOSE u \in Tabs : TRUE) \in Tabs
  BY ShopAssumption
<1>2. Empty \in Basket /\ NoCopy \in Copy
  BY EmptyIsGood DEF GoodBasket, GoodCopy
<1>3. NoCall \in Call
  BY <1>1, <1>2 DEF NoCall, Call, NoStore
<1> QED BY <1>3 DEF Request, NoCall, Call

LEMMA NoCallIsGood == NoCall \in GoodCall /\ NoCall.kind = "none"
<1>1. (CHOOSE u \in Tabs : TRUE) \in Tabs
  BY ShopAssumption
<1>2. Empty \in Basket /\ NoCopy \in Copy
  BY EmptyIsGood DEF GoodBasket, GoodCopy
<1>3. NoCall \in Call
  BY <1>1, <1>2 DEF NoCall, Call, NoStore
<1> QED BY <1>3, EmptyIsGood DEF NoCall, GoodCall

\* A call that carries nothing but a store.
PlainKinds == {"me", "get", "clear", "checkout", "logout"}

LEMMA PlainIsGood ==
  ASSUME NEW kind \in PlainKinds, NEW t \in Tabs
  PROVE  Request(kind, t) \in GoodCall /\ Request(kind, t).kind = kind
<1>1. /\ Request(kind, t) \in Call /\ Request(kind, t).kind = kind /\ Request(kind, t).for = Empty
      /\ Request(kind, t).answer = Empty /\ Request(kind, t).copy = NoCopy
  BY RequestIs DEF PlainKinds
<1> QED BY <1>1, EmptyIsGood DEF GoodCall, PlainKinds

LEMMA PlainOf ==
  ASSUME NEW kind \in PlainKinds, NEW t \in Tabs, NEW s \in Stores \cup {NoStore}
  PROVE  /\ [Request(kind, t) EXCEPT !.store = s] \in GoodCall
         /\ [Request(kind, t) EXCEPT !.store = s].kind = kind
<1>1. PICK q \in Call : /\ q = Request(kind, t) /\ q.kind = kind /\ q.for = Empty
                        /\ q.answer = Empty /\ q.copy = NoCopy
  BY RequestIs DEF PlainKinds
<1>2. PICK r : r = [q EXCEPT !.store = s]
  OBVIOUS
<1>3. r \in Call /\ r.kind = kind /\ r.for = Empty /\ r.answer = Empty /\ r.copy = NoCopy
  BY <1>1, <1>2 DEF Call
<1> QED BY <1>1, <1>2, <1>3, EmptyIsGood DEF GoodCall, PlainKinds

\* One that carries an item too.
OfItems(kind, t, s, vs) == [Request(kind, t) EXCEPT !.store = s, !.variants = vs]

LEMMA PlainOfItems ==
  ASSUME NEW kind \in PlainKinds, NEW t \in Tabs, NEW s \in Stores \cup {NoStore},
         NEW vs \in SUBSET Variants
  PROVE  OfItems(kind, t, s, vs) \in GoodCall /\ OfItems(kind, t, s, vs).kind = kind
<1>1. PICK q \in Call : /\ q = Request(kind, t) /\ q.kind = kind /\ q.for = Empty
                        /\ q.answer = Empty /\ q.copy = NoCopy
  BY RequestIs DEF PlainKinds
<1>2. PICK r : r = [q EXCEPT !.store = s, !.variants = vs]
  OBVIOUS
<1>3. r \in Call /\ r.kind = kind /\ r.for = Empty /\ r.answer = Empty /\ r.copy = NoCopy
  BY <1>1, <1>2 DEF Call
<1> QED BY <1>1, <1>2, <1>3, EmptyIsGood DEF GoodCall, PlainKinds, OfItems

-------------------------------------------------------------------------------
(* What keeps the invariant *)

\* No call becomes a merge.
MergesStay ==
  \A c \in Calls : call'[c].kind = "merge" => call[c].kind = "merge" /\ call'[c].copy = call[c].copy

\* No answer to a merge is lost.
MergesWait ==
  \A c \in Calls : call'[c].kind = "merge" /\ call'[c].phase # "served" => call[c].phase # "served"

\* localStorage is left alone, cleared, or gets a new copy.
StorageMoves ==
  \/ KeepCopy
  \/ Forget
  \/ \E b \in GoodBasket : Save(b)

LEMMA StorageIsGood ==
  ASSUME ShopInv, StorageMoves
  PROVE  /\ storage' \in GoodCopy /\ saved' \in Nat /\ storage'.n <= saved' /\ saved <= saved'
         /\ storage'.n \in {storage.n, 0, saved + 1}
<1>1. storage \in GoodCopy /\ saved \in Nat /\ storage.n \in Nat /\ storage.n <= saved
  BY DEF ShopInv, TokensInv, GoodCopy, Copy
<1>2. CASE KeepCopy
  BY <1>1, <1>2 DEF KeepCopy
<1>3. CASE Forget
  BY <1>1, <1>3, EmptyIsGood DEF Forget
<1>4. ASSUME NEW b \in GoodBasket, Save(b), b.items # Nothing
      PROVE  /\ storage' \in GoodCopy /\ saved' = saved + 1 /\ storage'.n = saved + 1
  <2>1. storage' = [basket |-> b, n |-> saved + 1] /\ saved' = saved + 1
    BY <1>4 DEF Save
  <2>2. storage'.basket = b /\ storage'.n = saved + 1
    BY <2>1
  <2>3. storage' \in Copy
    BY <1>1, <2>1 DEF Copy, GoodBasket
  <2>4. b.store \in Stores
    BY <1>4, BasketNamesStore
  <2> QED BY <1>1, <2>1, <2>2, <2>3, <2>4 DEF GoodCopy
<1>5. ASSUME NEW b \in GoodBasket, Save(b), b.items = Nothing
      PROVE  Forget
  BY <1>5 DEF Save, Forget
<1> QED BY <1>1, <1>2, <1>3, <1>4, <1>5 DEF StorageMoves

LEMMA MergeIs ==
  ASSUME ShopInv, MergesStay, NEW c \in Merges'
  PROVE  /\ c \in Merges /\ call'[c].copy = call[c].copy
         /\ call[c].copy.n \in Nat \ {0} /\ saved \in Nat
<1>1. c \in Calls /\ call[c].kind = "merge" /\ call'[c].copy = call[c].copy
  BY DEF Merges, MergesStay
<1>2. call[c] \in GoodCall
  BY <1>1 DEF ShopInv
<1>3. call[c].copy \in GoodCopy /\ call[c].copy # NoCopy
  BY <1>1, <1>2 DEF GoodCall
<1> QED BY <1>1, <1>3 DEF Merges, GoodCopy, Copy, ShopInv

LEMMA TokensMove ==
  ASSUME ShopInv, StorageMoves, MergesStay
  PROVE  TokensInv'
<1>1. storage'.n <= saved' /\ saved <= saved' /\ storage'.n \in {storage.n, 0, saved + 1} /\ saved' \in Nat
  BY StorageIsGood
<1>2. ASSUME NEW c \in Merges'
      PROVE  /\ call'[c].copy.n <= saved' /\ call'[c].copy.n # storage'.n
             /\ \A d \in Merges' : call'[d].copy.n = call'[c].copy.n => c = d
  BY <1>1, MergeIs DEF ShopInv, TokensInv
<1> QED BY <1>1, <1>2 DEF TokensInv

LEMMA ShopMoves ==
  ASSUME ShopInv, StorageMoves, MergesStay, MergesWait, server'.merged = server.merged,
         tab' \in [Tabs -> GoodPage], call' \in [Calls -> GoodCall], server' \in Server,
         session' \in BOOLEAN, acts' \in 0..MaxActs, smooth' \in BOOLEAN
  PROVE  ShopInv'
<1>1. /\ storage' \in GoodCopy /\ saved' \in Nat /\ saved <= saved' /\ saved \in Nat
      /\ storage'.n \in {storage.n, 0, saved + 1}
  BY StorageIsGood DEF ShopInv
<1>2. TokensInv'
  BY TokensMove
<1>3. \A n \in server.merged : n \in Nat /\ n > 0 /\ n <= saved
  BY DEF ShopInv, MergedInv, Server
<1>4. storage'.n \notin server'.merged
  BY <1>1, <1>3 DEF ShopInv, MergedInv
<1>5. ASSUME NEW c \in Merges', call'[c].phase # "served" PROVE call'[c].copy.n \notin server'.merged
  <2>1. c \in Merges /\ call'[c].copy = call[c].copy /\ call[c].phase # "served"
    BY <1>5, MergeIs DEF MergesWait, Merges
  <2> QED BY <2>1 DEF ShopInv, MergedInv
<1>6. \A n \in server'.merged : n > 0 /\ n <= saved'
  BY <1>1, <1>3
<1>7. MergedInv'
  BY <1>4, <1>5, <1>6 DEF MergedInv
<1> QED BY <1>1, <1>2, <1>7 DEF ShopInv

LEMMA SendIsGood ==
  ASSUME ShopInv, NEW c, NEW r \in GoodCall, r.kind # "merge", Send(c, r)
  PROVE  call' \in [Calls -> GoodCall] /\ MergesStay /\ MergesWait
  BY DEF Send, ShopInv, MergesStay, MergesWait

LEMMA SetTabIsGood ==
  ASSUME ShopInv, NEW t, NEW page \in GoodPage, SetTab(t, page)
  PROVE  tab' \in [Tabs -> GoodPage]
  BY DEF SetTab, ShopInv

LEMMA StayGood ==
  ASSUME ShopInv
  PROVE  /\ UNCHANGED tab => tab' \in [Tabs -> GoodPage]
         /\ UNCHANGED call => call' \in [Calls -> GoodCall] /\ MergesStay /\ MergesWait
  BY DEF ShopInv, MergesStay, MergesWait

\* The state of the page has the fields it should have.
LEMMA PageIs ==
  ASSUME NEW page \in GoodPage
  PROVE  /\ page \in Tab /\ page.shown \in GoodBasket /\ page.stubs \in SUBSET Variants
         /\ page.shown.store \in Stores \cup {NoStore}
         /\ page.shown.items \in [Variants -> 0..MaxQty]
  BY DEF GoodPage, Tab, GoodBasket, Basket

LEMMA NewPageIsGood == NewPage \in GoodPage /\ Closed \in GoodPage
<1>1. NewPage \in GoodPage
  BY EmptyIsGood DEF NewPage, GoodPage, Tab, GoodBasket
<1>2. Closed \in Tab /\ Closed.shown = NewPage.shown
  BY <1>1 DEF Closed, GoodPage, Tab
<1> QED BY <1>1, <1>2 DEF GoodPage

LEMMA ActIs ==
  ASSUME ShopInv, NEW t, Act(t)
  PROVE  acts' \in 0..MaxActs /\ smooth' \in BOOLEAN
  BY ShopAssumption DEF ShopInv, Act

\* What every action does but those that take the guest cart out of localStorage for a
\* merge, or put it back.
Moves ==
  /\ StorageMoves /\ MergesStay /\ MergesWait
  /\ tab' \in [Tabs -> GoodPage] /\ call' \in [Calls -> GoodCall]

LEMMA MovesKeep ==
  ASSUME ShopInv, Moves, server' \in Server, server'.merged = server.merged, session' \in BOOLEAN,
         acts' \in 0..MaxActs, smooth' \in BOOLEAN
  PROVE  ShopInv'
BY ShopMoves DEF Moves

LEMMA StepIs ==
  ASSUME ShopInv, NEW c, NEW t, NEW r \in GoodCall, r.kind # "merge", NEW page \in GoodPage,
         SetTab(t, page), Send(c, r), StorageMoves
  PROVE  Moves
BY SendIsGood, SetTabIsGood DEF Moves

\* The same when nothing is sent.
LEMMA QuietStepIs ==
  ASSUME ShopInv, NEW t, NEW page \in GoodPage, SetTab(t, page), StorageMoves, UNCHANGED call
  PROVE  Moves
BY StayGood, SetTabIsGood DEF Moves

-------------------------------------------------------------------------------
(* Items *)

LEMMA WithItemIsGood ==
  ASSUME NEW page \in GoodPage, NEW v \in Variants, Fits(page.shown, v)
  PROVE  WithItem(page, v) \in GoodPage /\ WithItem(page, v).shown \in GoodBasket
<1>1. /\ page \in Tab /\ page.shown \in GoodBasket /\ page.stubs \in SUBSET Variants
      /\ page.shown.items \in [Variants -> 0..MaxQty] /\ StoreOf[v] \in Stores
  BY PageIs, ShopAssumption
<1>2. PICK items : items = [page.shown.items EXCEPT ![v] = @ + 1]
  OBVIOUS
<1>3. items \in [Variants -> 0..MaxQty] /\ \A w \in Variants \ {v} : items[w] = page.shown.items[w]
  BY <1>1, <1>2, ShopAssumption DEF Fits
<1>4. PICK b : b = Of(StoreOf[v], items)
  OBVIOUS
<1>5. b \in Basket /\ b.store = StoreOf[v] /\ b.items = items
  BY <1>1, <1>3, <1>4 DEF Of, Basket
<1>6. IsOfOneStore(b)
  <2>1. ASSUME NEW w \in Variants, items[w] > 0, w # v
        PROVE  StoreOf[w] = StoreOf[v]
    <3>1. page.shown.items[w] > 0
      BY <1>3, <2>1
    <3>2. page.shown.items # Nothing /\ page.shown.store = StoreOf[w] /\ page.shown.store # NoStore
      BY <3>1, <1>1, ShopAssumption, BasketNamesStore DEF Nothing
    <3> QED BY <3>2 DEF Fits
  <2> QED BY <1>5, <2>1 DEF IsOfOneStore
<1>7. b \in GoodBasket
  BY <1>5, <1>6 DEF GoodBasket
<1>8. WithItem(page, v) \in Tab /\ WithItem(page, v).shown = b
  BY <1>1, <1>2, <1>4, <1>5 DEF WithItem, Tab
<1> QED BY <1>7, <1>8 DEF GoodPage

LEMMA AskingIsGood ==
  ASSUME NEW page \in GoodPage, NEW v \in Variants, NEW s \in Stores \cup {NoStore}
  PROVE  Asking(page, v, s) \in GoodPage
BY DEF Asking, GoodPage, Tab

LEMMA AddItemMoves ==
  ASSUME ShopInv, NEW c, NEW t \in Tabs, NEW page \in GoodPage, NEW v \in Variants,
         AddItem(c, t, page, v)
  PROVE  Moves
<1>1. CASE IsForeign(page, v)
  <2>1. SetTab(t, Asking(page, v, page.shown.store)) /\ KeepCopy /\ Send(c, NoCall)
    BY <1>1 DEF AddItem
  <2> QED BY <2>1, PageIs, AskingIsGood, NoCallIsGood, StepIs DEF StorageMoves
<1>2. CASE ~IsForeign(page, v)
  <2>1. Fits(page.shown, v)
    BY <1>2 DEF AddItem, IsForeign, Fits
  <2>2. PICK w \in GoodPage : w = WithItem(page, v) /\ w.shown \in GoodBasket
    BY <2>1, WithItemIsGood
  <2>3. CASE page.auth
    <3>0. PICK q \in Call : q = Request("add", t) /\ q.kind = "add" /\ q.answer = Empty /\ q.copy = NoCopy
      BY RequestIs
    <3>1. PICK r : r = [q EXCEPT !.store = StoreOf[v], !.variants = {v},
                                 !.for = page.shown, !.stubs = page.stubs]
      OBVIOUS
    <3>2. r \in Call /\ r.kind = "add" /\ r.variants = {v} /\ r.for = page.shown
          /\ r.answer = Empty /\ r.copy = NoCopy
      <4>1. StoreOf[v] \in Stores /\ page.shown \in Basket /\ page.stubs \in SUBSET Variants
        BY PageIs, ShopAssumption DEF GoodBasket
      <4> QED BY <3>0, <3>1, <4>1 DEF Call
    <3>3. r \in GoodCall
      BY <3>2, <2>1, PageIs, EmptyIsGood DEF GoodCall
    <3>4. SetTab(t, w) /\ KeepCopy /\ Send(c, r)
      BY <1>2, <2>2, <2>3, <3>0, <3>1 DEF AddItem
    <3> QED BY <3>2, <3>3, <3>4, StepIs DEF StorageMoves
  <2>4. CASE ~page.auth
    <3>1. SetTab(t, w) /\ Save(w.shown) /\ Send(c, NoCall)
      BY <1>2, <2>2, <2>4 DEF AddItem
    <3> QED BY <2>2, <3>1, NoCallIsGood, StepIs DEF StorageMoves
  <2> QED BY <2>3, <2>4
<1> QED BY <1>1, <1>2

LEMMA AddKeeps ==
  ASSUME ShopInv, NEW t \in Tabs, NEW v \in Variants, Add(t, v)
  PROVE  ShopInv'
<1>1. tab[t] \in GoodPage
  BY DEF ShopInv
<1>2. PICK c \in Free : AddItem(c, t, tab[t], v)
  BY DEF Add
<1>3. Moves
  BY <1>1, <1>2, AddItemMoves
<1>4. acts' \in 0..MaxActs /\ smooth' \in BOOLEAN
  BY ActIs DEF Add
<1> QED BY <1>3, <1>4, MovesKeep DEF Add, ShopInv

\* The number of units of an item that is there can be changed.
LEMMA UpdateQuantityKeeps ==
  ASSUME ShopInv, NEW t \in Tabs, NEW v \in Variants, NEW n \in 1..MaxQty, UpdateQuantity(t, v, n)
  PROVE  ShopInv'
<1>1. PICK old \in GoodPage : old = tab[t]
  BY DEF ShopInv
<1>2. /\ old \in Tab /\ old.shown \in Basket /\ old.shown.items \in [Variants -> 0..MaxQty]
      /\ old.stubs \in SUBSET Variants /\ IsOfOneStore(old.shown) /\ old.shown.items[v] > 0
  BY <1>1, PageIs DEF GoodBasket, UpdateQuantity
<1>3. PICK items : items = [old.shown.items EXCEPT ![v] = n]
  OBVIOUS
<1>4. PICK b : b = [old.shown EXCEPT !.items = items]
  OBVIOUS
<1>5. PICK page : page = [old EXCEPT !.shown = b]
  OBVIOUS
<1>6. n \in 0..MaxQty /\ items \in [Variants -> 0..MaxQty]
      /\ \A w \in Variants : items[w] > 0 => old.shown.items[w] > 0
  BY <1>2, <1>3, ShopAssumption
<1>7. b \in Basket /\ b.store = old.shown.store /\ b.items = items
  BY <1>2, <1>4, <1>6 DEF Basket
<1>8. b \in GoodBasket
  BY <1>2, <1>6, <1>7 DEF GoodBasket, IsOfOneStore
<1>9. page \in Tab /\ page.shown = b /\ page.stubs = old.stubs
  BY <1>2, <1>5, <1>7 DEF Tab
<1>10. page \in GoodPage
  BY <1>8, <1>9 DEF GoodPage
<1>11. [tab[t] EXCEPT !.shown.items[v] = n] = page
  BY <1>1, <1>3, <1>4, <1>5
<1>12. SetTab(t, page) /\ Save(b) /\ acts' \in 0..MaxActs /\ smooth' \in BOOLEAN
       /\ UNCHANGED <<session, server>>
  BY <1>9, <1>11, ActIs DEF UpdateQuantity
<1>13. StorageMoves
  BY <1>8, <1>12 DEF StorageMoves
<1>14. ASSUME NEW c, NEW r, Send(c, r),
              r = [Request("update", t) EXCEPT !.variants = {v}, !.for = b, !.stubs = page.stubs]
       PROVE  Moves
  <2>1. PICK q \in Call : q = Request("update", t) /\ q.kind = "update" /\ q.answer = Empty /\ q.copy = NoCopy
    BY RequestIs
  <2>2. r \in Call /\ r.kind = "update" /\ r.variants = {v} /\ r.for = b
        /\ r.answer = Empty /\ r.copy = NoCopy
    BY <1>2, <1>7, <1>9, <1>14, <2>1 DEF Call
  <2>3. r \in GoodCall
    BY <1>8, <2>2, EmptyIsGood DEF GoodCall
  <2> QED BY <1>10, <1>12, <1>13, <1>14, <2>2, <2>3, StepIs
<1>15. \/ UNCHANGED call
       \/ \E c \in Free : Send(c, [Request("update", t) EXCEPT !.variants = {v}, !.for = b, !.stubs = page.stubs])
  BY <1>9, <1>11 DEF UpdateQuantity
<1>16. Moves
  BY <1>10, <1>12, <1>13, <1>14, <1>15, QuietStepIs
<1> QED BY <1>12, <1>16, MovesKeep DEF ShopInv

LEMMA RemoveItemKeeps ==
  ASSUME ShopInv, NEW t \in Tabs, NEW v \in Variants, RemoveItem(t, v)
  PROVE  ShopInv'
<1>1. PICK old \in GoodPage : old = tab[t]
  BY DEF ShopInv
<1>2. /\ old \in Tab /\ old.shown \in Basket /\ old.shown.items \in [Variants -> 0..MaxQty]
      /\ old.stubs \in SUBSET Variants /\ IsOfOneStore(old.shown)
      /\ old.shown.store \in Stores \cup {NoStore}
  BY <1>1, PageIs DEF GoodBasket
<1>3. PICK left : left = [old.shown.items EXCEPT ![v] = 0]
  OBVIOUS
<1>4. left \in [Variants -> 0..MaxQty] /\ \A w \in Variants : left[w] > 0 => old.shown.items[w] > 0
  BY <1>2, <1>3, ShopAssumption
<1>5. PICK b : b = IF left = Nothing THEN Empty ELSE Of(old.shown.store, left)
  OBVIOUS
<1>6. b \in GoodBasket
  <2>1. PICK o : o = Of(old.shown.store, left)
    OBVIOUS
  <2>2. o \in Basket /\ o.store = old.shown.store /\ o.items = left
    BY <1>2, <1>4, <2>1 DEF Of, Basket
  <2>3. o \in GoodBasket
    BY <1>2, <1>4, <2>2 DEF GoodBasket, IsOfOneStore
  <2> QED BY <1>5, <2>1, <2>3, EmptyIsGood
<1>7. PICK page : page = [old EXCEPT !.shown = b, !.stubs = @ \ {v}]
  OBVIOUS
<1>8. page \in GoodPage
  BY <1>2, <1>6, <1>7 DEF GoodPage, Tab, GoodBasket
<1>9. SetTab(t, page) /\ Save(b) /\ acts' \in 0..MaxActs /\ smooth' \in BOOLEAN
      /\ UNCHANGED <<session, server>>
  BY <1>1, <1>3, <1>5, <1>7, ActIs DEF RemoveItem
<1>10. StorageMoves
  BY <1>6, <1>9 DEF StorageMoves
<1>11. ASSUME NEW c, NEW r, Send(c, r),
              r = [Request("remove", t) EXCEPT !.variants = {v}, !.stubs = old.stubs]
       PROVE  Moves
  <2>1. PICK q \in Call : /\ q = Request("remove", t) /\ q.kind = "remove" /\ q.answer = Empty
                          /\ q.copy = NoCopy /\ q.for = Empty
    BY RequestIs
  <2>2. r \in Call /\ r.kind = "remove" /\ r.variants = {v} /\ r.for = Empty
        /\ r.answer = Empty /\ r.copy = NoCopy
    BY <1>2, <1>11, <2>1 DEF Call
  <2>3. r \in GoodCall
    BY <2>2, EmptyIsGood DEF GoodCall
  <2> QED BY <1>8, <1>9, <1>10, <1>11, <2>2, <2>3, StepIs
<1>12. \/ UNCHANGED call
       \/ \E c \in Free : Send(c, [Request("remove", t) EXCEPT !.variants = {v}, !.stubs = old.stubs])
  BY <1>1 DEF RemoveItem
<1>13. Moves
  BY <1>8, <1>9, <1>10, <1>11, <1>12, QuietStepIs
<1> QED BY <1>9, <1>13, MovesKeep DEF ShopInv

LEMMA ConfirmCrossStoreClearKeeps ==
  ASSUME ShopInv, NEW t \in Tabs, ConfirmCrossStoreClear(t)
  PROVE  ShopInv'
<1>1. PICK old \in GoodPage : old = tab[t]
  BY DEF ShopInv
<1>2. PICK page : page = [old EXCEPT !.shown = Empty, !.stubs = {}, !.pending = {}]
  OBVIOUS
<1>3. PICK v : v = CHOOSE x \in old.pending : TRUE
  OBVIOUS
<1>4. page \in GoodPage /\ v \in Variants /\ old.other \in Stores \cup {NoStore} /\ old.pending \in SUBSET Variants
  <2>1. page \in Tab /\ page.shown = Empty
    BY <1>2, EmptyIsGood DEF GoodPage, Tab, GoodBasket
  <2>2. old.pending \in SUBSET Variants /\ old.other \in Stores \cup {NoStore} /\ old.pending # {}
    BY <1>1 DEF GoodPage, Tab, ConfirmCrossStoreClear
  <2> QED BY <1>3, <2>1, <2>2, EmptyIsGood DEF GoodPage
<1>5. acts' \in 0..MaxActs /\ smooth' \in BOOLEAN /\ UNCHANGED <<session, server>>
  BY ActIs DEF ConfirmCrossStoreClear
<1>6. CASE page.auth
  <2>1. SetTab(t, page) /\ Forget
        /\ \E c \in Free : Send(c, [Request("clear", t) EXCEPT !.store = old.other, !.variants = {v}])
    BY <1>1, <1>2, <1>3, <1>6 DEF ConfirmCrossStoreClear
  <2>2. PICK r : r = OfItems("clear", t, old.other, {v})
    OBVIOUS
  <2>3. "clear" \in PlainKinds /\ {v} \in SUBSET Variants
    BY <1>4 DEF PlainKinds
  <2>4. r \in GoodCall /\ r.kind = "clear"
    BY <1>4, <2>2, <2>3, PlainOfItems
  <2>5. \E c \in Free : Send(c, r)
    BY <2>1, <2>2 DEF OfItems
  <2> QED BY <1>4, <1>5, <2>1, <2>4, <2>5, StepIs, MovesKeep DEF StorageMoves, ShopInv
<1>7. CASE ~page.auth
  <2>1. \E c \in Free : AddItem(c, t, page, v)
    BY <1>1, <1>2, <1>3, <1>7 DEF ConfirmCrossStoreClear
  <2> QED BY <1>4, <1>5, <2>1, AddItemMoves, MovesKeep DEF ShopInv
<1> QED BY <1>6, <1>7

LEMMA DismissConflictKeeps ==
  ASSUME ShopInv, NEW t \in Tabs, DismissConflict(t)
  PROVE  ShopInv'
<1>1. PICK old \in GoodPage : old = tab[t]
  BY DEF ShopInv
<1>2. PICK page : page = [old EXCEPT !.pending = {}]
  OBVIOUS
<1>3. page \in GoodPage
  BY <1>2 DEF GoodPage, Tab
<1>4. SetTab(t, page) /\ KeepCopy /\ UNCHANGED <<session, server, call>>
  BY <1>1, <1>2 DEF DismissConflict
<1>5. acts' \in 0..MaxActs /\ smooth' \in BOOLEAN
  BY ActIs DEF DismissConflict
<1> QED BY <1>3, <1>4, <1>5, QuietStepIs, MovesKeep DEF StorageMoves, ShopInv

LEMMA PlaceOrderKeeps ==
  ASSUME ShopInv, NEW t \in Tabs, PlaceOrder(t)
  PROVE  ShopInv'
<1>1. PICK old \in GoodPage : old = tab[t]
  BY DEF ShopInv
<1>2. PICK page : page = [old EXCEPT !.buying = "placing"]
  OBVIOUS
<1>3. page \in GoodPage
  BY <1>2 DEF GoodPage, Tab
<1>4. PICK c : /\ SetTab(t, page) /\ KeepCopy /\ UNCHANGED <<session, server>>
               /\ Send(c, [Request("checkout", t) EXCEPT !.store = old.shown.store])
  BY <1>1, <1>2 DEF PlaceOrder
<1>5. PICK r \in GoodCall : r = [Request("checkout", t) EXCEPT !.store = old.shown.store] /\ r.kind = "checkout"
  <2>1. PICK r : r = [Request("checkout", t) EXCEPT !.store = old.shown.store]
    OBVIOUS
  <2>2. old.shown.store \in Stores \cup {NoStore} /\ "checkout" \in PlainKinds
    BY PageIs DEF PlainKinds
  <2>3. r \in GoodCall /\ r.kind = "checkout"
    BY <2>1, <2>2, PlainOf, Zenon
  <2> QED BY <2>1, <2>3
<1>6. acts' \in 0..MaxActs /\ smooth' \in BOOLEAN
  BY ActIs DEF PlaceOrder
<1> QED BY <1>3, <1>4, <1>5, <1>6, StepIs, MovesKeep DEF StorageMoves, ShopInv

LEMMA ClearCartMoves ==
  ASSUME ShopInv, NEW c, NEW t \in Tabs, ClearCart(c, t)
  PROVE  Moves
<1>1. PICK old \in GoodPage : old = tab[t]
  BY DEF ShopInv
<1>2. PICK page : page = [old EXCEPT !.shown = Empty, !.stubs = {}, !.buying = "no"]
  OBVIOUS
<1>3. page \in GoodPage
  BY <1>2, EmptyIsGood DEF GoodPage, Tab, GoodBasket
<1>4. PICK r \in GoodCall : r = (IF old.auth THEN [Request("clear", t) EXCEPT !.store = old.shown.store] ELSE NoCall)
                            /\ r.kind \in {"clear", "none"}
  <2>1. PICK r : r = [Request("clear", t) EXCEPT !.store = old.shown.store]
    OBVIOUS
  <2>2. old.shown.store \in Stores \cup {NoStore} /\ "clear" \in PlainKinds
    BY PageIs DEF PlainKinds
  <2>3. r \in GoodCall /\ r.kind = "clear"
    BY <2>1, <2>2, PlainOf, Zenon
  <2> QED BY <2>1, <2>3, NoCallIsGood
<1>5. SetTab(t, page) /\ Forget /\ Send(c, r)
  BY <1>1, <1>2, <1>4 DEF ClearCart
<1>6. StorageMoves /\ r.kind # "merge"
  BY <1>4, <1>5 DEF StorageMoves
<1> QED BY <1>3, <1>5, <1>6, StepIs

LEMMA PaymentKeeps ==
  ASSUME ShopInv, NEW t \in Tabs, PaymentDone(t) \/ GiveUpPayment(t)
  PROVE  ShopInv'
<1>1. CASE PaymentDone(t)
  <2>1. PICK c : ClearCart(c, t)
    BY <1>1 DEF PaymentDone
  <2>2. acts' \in 0..MaxActs /\ smooth' \in BOOLEAN /\ UNCHANGED <<session, server>>
    BY <1>1, ActIs DEF PaymentDone
  <2> QED BY <2>1, <2>2, ClearCartMoves, MovesKeep DEF ShopInv
<1>2. CASE GiveUpPayment(t)
  <2>1. PICK old \in GoodPage : old = tab[t]
    BY DEF ShopInv
  <2>2. PICK page : page = [old EXCEPT !.buying = "no"]
    OBVIOUS
  <2>3. page \in GoodPage
    BY <2>2 DEF GoodPage, Tab
  <2>4. /\ SetTab(t, page) /\ KeepCopy /\ UNCHANGED <<session, server, call>>
        /\ acts < MaxActs /\ acts' = acts + 1 /\ smooth' = FALSE
    BY <1>2, <2>1, <2>2 DEF GiveUpPayment
  <2>5. acts' \in 0..MaxActs /\ smooth' \in BOOLEAN
    <3>1. acts' \in 0..MaxActs
      BY <2>4, ShopAssumption DEF ShopInv
    <3> QED BY <2>4, <3>1
  <2> QED BY <2>3, <2>4, <2>5, QuietStepIs, MovesKeep DEF StorageMoves, ShopInv
<1> QED BY <1>1, <1>2

\* A page that goes away leaves its calls behind: those under way are served in vain.
LEMMA ReloadMoves ==
  ASSUME ShopInv, NEW c, NEW t \in Tabs, Reload(c, t), StorageMoves
  PROVE  Moves
<1>1. tab' \in [Tabs -> GoodPage]
  BY NewPageIsGood, SetTabIsGood DEF Reload
<1>2. PICK me \in GoodCall : me = Request("me", t) /\ me.kind = "me"
  BY PlainIsGood DEF PlainKinds
<1>3. ASSUME NEW d \in Calls
      PROVE  /\ call'[d] \in GoodCall
             /\ call'[d].kind = "merge" => /\ call[d].kind = "merge" /\ call'[d].copy = call[d].copy
                                           /\ call'[d].phase = call[d].phase
  <2>1. PICK r \in GoodCall : r = call[d]
    BY DEF ShopInv
  <2>2. PICK dead : dead = [r EXCEPT !.live = FALSE]
    OBVIOUS
  <2>3. dead \in Call /\ dead.kind = r.kind /\ dead.copy = r.copy /\ dead.for = r.for /\ dead.store = r.store
        /\ dead.answer = r.answer /\ dead.variants = r.variants /\ dead.phase = r.phase
    BY <2>2 DEF GoodCall, Call
  <2>4. dead \in GoodCall
    BY <2>3 DEF GoodCall
  <2>5. call'[d] \in {me, r, dead, NoCall}
    BY <1>2, <2>1, <2>2 DEF Reload
  <2> QED BY <1>2, <2>1, <2>3, <2>4, <2>5, NoCallIsGood
<1>4. call' \in [Calls -> GoodCall] /\ MergesStay /\ MergesWait
  <2>1. DOMAIN call' = Calls /\ call' = [d \in DOMAIN call' |-> call'[d]]
    BY DEF Reload
  <2> QED BY <1>3, <2>1 DEF MergesStay, MergesWait
<1> QED BY <1>1, <1>4 DEF Moves

LEMMA LoadKeeps ==
  ASSUME ShopInv, NEW t \in Tabs, Load(t)
  PROVE  ShopInv'
<1>1. PICK c : Reload(c, t) /\ KeepCopy
  BY DEF Load, KeepCopy
<1>2. Moves
  BY <1>1, ReloadMoves DEF StorageMoves
<1>3. acts' \in 0..MaxActs /\ smooth' \in BOOLEAN
  BY ShopAssumption DEF ShopInv, Load
<1> QED BY <1>2, <1>3, MovesKeep DEF Load, ShopInv

LEMMA SignOutKeeps ==
  ASSUME ShopInv, NEW t \in Tabs, SignOut(t)
  PROVE  ShopInv'
<1>1. PICK old \in GoodPage : old = tab[t]
  BY DEF ShopInv
<1>2. PICK page : page = [old EXCEPT !.auth = FALSE]
  OBVIOUS
<1>3. page \in GoodPage
  BY <1>2 DEF GoodPage, Tab
<1>4. PICK r \in GoodCall : r = Request("logout", t) /\ r.kind = "logout"
  BY PlainIsGood DEF PlainKinds
<1>5. PICK c : SetTab(t, page) /\ Forget /\ Send(c, r) /\ UNCHANGED <<session, server>>
  BY <1>1, <1>2, <1>4 DEF SignOut
<1>6. acts' \in 0..MaxActs /\ smooth' \in BOOLEAN
  BY ActIs DEF SignOut
<1> QED BY <1>3, <1>4, <1>5, <1>6, StepIs, MovesKeep DEF StorageMoves, ShopInv

-------------------------------------------------------------------------------
(* The guest cart on its way to the API, and back *)

\* What is taken out of localStorage is in no other merge, and is the merge's from then on.
LEMMA MergeGuestCartKeeps ==
  ASSUME ShopInv, NEW c \in Calls, call[c].kind # "merge", NEW t \in Tabs, NEW page \in GoodPage,
         MergeGuestCart(c, t, page), server' \in Server, server'.merged = server.merged, session' \in BOOLEAN,
         acts' \in 0..MaxActs, smooth' \in BOOLEAN
  PROVE  ShopInv'
<1>1. CASE storage = NoCopy
  <2>1. PICK r \in GoodCall : r = Request("get", t) /\ r.kind = "get"
    BY PlainIsGood DEF PlainKinds
  <2>2. Forget /\ SetTab(t, page) /\ Send(c, r)
    BY <1>1, <2>1 DEF MergeGuestCart
  <2> QED BY <2>1, <2>2, StepIs, MovesKeep DEF StorageMoves
<1>2. CASE storage # NoCopy
  <2>1. PICK k : k = storage
    OBVIOUS
  <2>2. /\ k \in GoodCopy /\ k # NoCopy /\ k \in Copy /\ k.basket \in GoodBasket /\ k.basket.store \in Stores
        /\ k.n \in Nat /\ k.n > 0 /\ k.n <= saved
    BY <1>2, <2>1 DEF ShopInv, TokensInv, GoodCopy, Copy
  <2>3. PICK q \in Call : q = Request("merge", t) /\ q.kind = "merge" /\ q.answer = Empty
    BY RequestIs
  <2>4. PICK m : m = [q EXCEPT !.store = k.basket.store, !.for = k.basket, !.copy = k]
    OBVIOUS
  <2>5. m \in Call /\ m.kind = "merge" /\ m.answer = Empty /\ m.copy = k /\ m.for = k.basket
        /\ m.store = k.basket.store
    BY <2>2, <2>3, <2>4 DEF Call, GoodBasket
  <2>6. m \in GoodCall
    BY <2>2, <2>5, EmptyIsGood DEF GoodCall
  <2>7. PICK p : p = [page EXCEPT !.shown = Empty, !.stubs = {}]
    OBVIOUS
  <2>8. p \in GoodPage
    BY <2>7, EmptyIsGood DEF GoodPage, Tab, GoodBasket
  <2>9. Forget /\ SetTab(t, p) /\ Send(c, m)
    BY <1>2, <2>1, <2>3, <2>4, <2>7 DEF MergeGuestCart
  <2>10. call' \in [Calls -> GoodCall] /\ call'[c] = m /\ \A d \in Calls \ {c} : call'[d] = call[d]
    BY <2>6, <2>9 DEF Send, ShopInv
  <2>11. tab' \in [Tabs -> GoodPage]
    BY <2>8, <2>9, SetTabIsGood
  <2>12. storage' \in GoodCopy /\ storage'.n = 0 /\ saved' = saved /\ saved \in Nat
    BY <2>9, EmptyIsGood DEF Forget, ShopInv
  <2>13. ASSUME NEW d \in Merges', d # c
         PROVE  d \in Merges /\ call'[d].copy = call[d].copy /\ call[d].copy.n > 0 /\ call[d].copy.n \in Nat
    <3>1. d \in Calls /\ call'[d] = call[d] /\ call[d] \in GoodCall /\ call[d].kind = "merge"
      BY <2>10, <2>13 DEF Merges, ShopInv
    <3>2. call[d].copy \in GoodCopy /\ call[d].copy # NoCopy
      BY <3>1 DEF GoodCall
    <3> QED BY <3>1, <3>2 DEF Merges, GoodCopy, Copy
  <2>14. TokensInv'
    <3>1. c \in Merges'
      BY <2>5, <2>10 DEF Merges
    <3>2. ASSUME NEW d \in Merges'
          PROVE  /\ call'[d].copy.n <= saved' /\ call'[d].copy.n # storage'.n
                 /\ \A e \in Merges' : call'[e].copy.n = call'[d].copy.n => d = e
      BY <2>1, <2>2, <2>5, <2>10, <2>12, <2>13 DEF ShopInv, TokensInv
    <3> QED BY <2>12, <3>2 DEF TokensInv
  <2>15. MergedInv'
    <3>1. 0 \notin server.merged /\ \A n \in server.merged : n > 0 /\ n <= saved
      BY DEF ShopInv, MergedInv
    <3>2. k.n \notin server.merged
      BY <2>1 DEF ShopInv, MergedInv
    <3>3. ASSUME NEW d \in Merges', call'[d].phase # "served" PROVE call'[d].copy.n \notin server.merged
      <4>1. CASE d = c
        BY <2>5, <2>10, <3>2, <4>1
      <4>2. CASE d # c
        <5>1. call'[d] = call[d]
          BY <2>10, <4>2 DEF Merges
        <5> QED BY <2>13, <3>3, <4>2, <5>1 DEF ShopInv, MergedInv
      <4> QED BY <4>1, <4>2
    <3> QED BY <2>12, <3>1, <3>3 DEF MergedInv
  <2> QED BY <2>10, <2>11, <2>12, <2>14, <2>15 DEF ShopInv
<1> QED BY <1>1, <1>2

\* What goes back to localStorage is in no merge any more.
LEMMA PutBackKeeps ==
  ASSUME ShopInv, NEW c \in Calls, call[c].kind = "merge", NEW t \in Tabs, NEW page \in GoodPage,
         call[c].phase # "served", SetTab(t, page), Send(c, NoCall), storage' = call[c].copy,
         UNCHANGED <<saved, session, server, acts, smooth>>
  PROVE  ShopInv'
<1>1. PICK k : k = call[c].copy
  OBVIOUS
<1>2. call[c] \in GoodCall /\ k \in GoodCopy /\ k.n <= saved
  BY <1>1 DEF ShopInv, GoodCall, TokensInv, Merges
<1>3. call' \in [Calls -> GoodCall] /\ call'[c].kind = "none" /\ \A d \in Calls \ {c} : call'[d] = call[d]
  BY NoCallIsGood DEF Send, ShopInv
<1>4. tab' \in [Tabs -> GoodPage]
  BY SetTabIsGood
<1>5. ASSUME NEW d \in Merges'
      PROVE  d \in Merges /\ d # c /\ call'[d] = call[d]
  BY <1>3 DEF Merges
<1>6. c \in Merges
  BY DEF Merges
<1>7. TokensInv'
  <2>1. storage'.n = k.n /\ saved' = saved /\ saved \in Nat /\ k.n \in Nat
    BY <1>1, <1>2 DEF ShopInv, GoodCopy, Copy
  <2>2. ASSUME NEW d \in Merges'
        PROVE  /\ call'[d].copy.n <= saved' /\ call'[d].copy.n # storage'.n
               /\ \A e \in Merges' : call'[e].copy.n = call'[d].copy.n => d = e
    BY <1>1, <1>5, <1>6, <2>1 DEF ShopInv, TokensInv
  <2> QED BY <1>2, <2>1, <2>2 DEF TokensInv
<1>8. MergedInv'
  <2>1. storage'.n \notin server'.merged
    BY <1>6 DEF ShopInv, MergedInv
  <2>2. \A d \in Merges' : call'[d].phase # "served" => call'[d].copy.n \notin server'.merged
    BY <1>5 DEF ShopInv, MergedInv
  <2> QED BY <2>1, <2>2 DEF ShopInv, MergedInv
<1> QED BY <1>1, <1>2, <1>3, <1>4, <1>7, <1>8 DEF ShopInv

LEMMA SignInKeeps ==
  ASSUME ShopInv, NEW t \in Tabs, SignIn(t)
  PROVE  ShopInv'
<1>1. PICK old \in GoodPage : old = tab[t]
  BY DEF ShopInv
<1>2. PICK page : page = [old EXCEPT !.auth = TRUE]
  OBVIOUS
<1>3. page \in GoodPage
  BY <1>2 DEF GoodPage, Tab
<1>4. PICK c \in Free : MergeGuestCart(c, t, page)
  BY <1>1, <1>2 DEF SignIn
<1>5. session' = TRUE /\ UNCHANGED server /\ acts' \in 0..MaxActs /\ smooth' \in BOOLEAN
  BY ActIs DEF SignIn
<1>6. c \in Calls /\ call[c].kind # "merge"
  BY DEF Free
<1>7. server' \in Server /\ session' \in BOOLEAN
  BY <1>5 DEF ShopInv
<1> QED BY <1>3, <1>4, <1>5, <1>6, <1>7, MergeGuestCartKeeps

LEMMA KnowUserKeeps ==
  ASSUME ShopInv, NEW c \in Calls, KnowUser(c)
  PROVE  ShopInv'
<1>1. PICK t \in Tabs : t = call[c].tab
  BY DEF ShopInv, GoodCall, Call
<1>2. PICK old \in GoodPage : old = tab[t]
  BY DEF ShopInv
<1>3. /\ UNCHANGED <<session, server, acts, smooth>> /\ call[c].kind = "me"
      /\ server' \in Server /\ session' \in BOOLEAN /\ acts' \in 0..MaxActs /\ smooth' \in BOOLEAN
  BY DEF KnowUser, ShopInv
<1>4. CASE call[c].phase = "served"
  <2>1. PICK page : page = [old EXCEPT !.boot = "cart", !.auth = TRUE]
    OBVIOUS
  <2>2. page \in GoodPage
    BY <2>1 DEF GoodPage, Tab
  <2>3. MergeGuestCart(c, t, page)
    BY <1>1, <1>2, <1>4, <2>1 DEF KnowUser
  <2> QED BY <1>3, <2>2, <2>3, MergeGuestCartKeeps
<1>5. CASE call[c].phase # "served"
  <2>1. PICK b \in GoodBasket : b = storage.basket
    BY DEF ShopInv, GoodCopy
  <2>2. PICK ids \in SUBSET Variants : ids = {v \in Variants : b.items[v] > 0}
    OBVIOUS
  <2>3. PICK page : page = [old EXCEPT !.boot = "ready", !.shown = b, !.stubs = ids]
    OBVIOUS
  <2>4. page \in GoodPage
    BY <2>1, <2>2, <2>3 DEF GoodPage, Tab, GoodBasket
  <2>5. SetTab(t, page) /\ KeepCopy /\ Send(c, NoCall)
    BY <1>1, <1>2, <1>5, <2>1, <2>2, <2>3 DEF KnowUser, Hydrate
  <2> QED BY <1>3, <2>4, <2>5, NoCallIsGood, StepIs, MovesKeep DEF StorageMoves
<1> QED BY <1>4, <1>5

-------------------------------------------------------------------------------
(* The page handles an answer *)

LEMMA CallIs ==
  ASSUME ShopInv, NEW c \in Calls
  PROVE  /\ call[c] \in GoodCall /\ call[c] \in Call /\ call[c].tab \in Tabs
         /\ call[c].for \in GoodBasket /\ call[c].answer \in GoodBasket /\ call[c].copy \in GoodCopy
         /\ call[c].stubs \in SUBSET Variants /\ call[c].variants \in SUBSET Variants
         /\ call[c].store \in Stores \cup {NoStore}
         /\ tab[call[c].tab] \in GoodPage
BY DEF ShopInv, GoodCall, Call

\* What nothing but the page, its calls and localStorage is changed by.
LEMMA SettledKeeps ==
  ASSUME ShopInv, Moves, UNCHANGED <<session, server, acts, smooth>>
  PROVE  ShopInv'
BY MovesKeep DEF ShopInv

LEMMA LoggedOutKeeps ==
  ASSUME ShopInv, NEW c \in Calls, LoggedOut(c)
  PROVE  ShopInv'
<1>1. PICK t \in Tabs : t = call[c].tab
  BY CallIs
<1>2. KeepCopy /\ UNCHANGED <<session, server, acts, smooth>> /\ StorageMoves
  BY DEF LoggedOut, StorageMoves
<1>3. Reload(c, t) \/ (UNCHANGED tab /\ Send(c, NoCall))
  BY <1>1 DEF LoggedOut
<1>4. CASE Reload(c, t)
  BY <1>2, <1>4, ReloadMoves, SettledKeeps
<1>5. CASE UNCHANGED tab /\ Send(c, NoCall)
  BY <1>2, <1>5, NoCallIsGood, StayGood, SendIsGood, SettledKeeps DEF Moves
<1> QED BY <1>3, <1>4, <1>5

LEMMA SyncedIsGood ==
  ASSUME NEW page \in GoodPage, NEW b \in GoodBasket
  PROVE  Synced(page, b) \in GoodPage
BY DEF Synced, GoodPage, Tab, GoodBasket

LEMMA AddedKeeps ==
  ASSUME ShopInv, NEW c \in Calls, Added(c)
  PROVE  ShopInv'
<1>1. PICK r \in GoodCall : r = call[c]
  BY CallIs
<1>2. PICK t \in Tabs : t = r.tab
  BY <1>1, CallIs
<1>3. PICK page \in GoodPage : page = tab[t]
  BY DEF ShopInv
<1>4. /\ r.for \in GoodBasket /\ r.answer \in GoodBasket /\ r.stubs \in SUBSET Variants
      /\ r.variants \in SUBSET Variants /\ r.kind = "add" /\ r.variants # {}
  <2>1. r.kind = "add"
    BY <1>1 DEF Added
  <2> QED BY <1>1, <2>1, CallIs DEF GoodCall
<1>5. PICK back : back = [page EXCEPT !.shown = r.for, !.stubs = r.stubs]
  OBVIOUS
<1>6. back \in GoodPage /\ back.shown = r.for
  BY <1>4, <1>5 DEF GoodPage, Tab, GoodBasket
<1>7. PICK again : again = [back EXCEPT !.shown = r.for]
  OBVIOUS
<1>8. again \in GoodPage /\ again.shown = r.for
  BY <1>4, <1>6, <1>7 DEF GoodPage, Tab, GoodBasket
<1>9. PICK v \in Variants : v = CHOOSE x \in r.variants : TRUE
  BY <1>4
<1>10. v \in r.variants
  BY <1>4, <1>9
<1>11. Fits(again.shown, v)
  BY <1>4, <1>8, <1>10 DEF GoodCall
<1>12. PICK w \in GoodPage : w = WithItem(again, v) /\ w.shown \in GoodBasket
  BY <1>8, <1>11, WithItemIsGood
<1>13. PICK ask \in GoodPage : ask = Asking(back, v, r.answer.store)
  <2>1. r.answer.store \in Stores \cup {NoStore}
    BY <1>4 DEF GoodBasket, Basket
  <2> QED BY <1>6, <2>1, AskingIsGood
<1>14. PICK new \in GoodPage : new = Synced(page, r.answer)
  BY <1>4, SyncedIsGood
<1>15. /\ Send(c, NoCall) /\ UNCHANGED <<session, server, acts, smooth>>
       /\ \/ SetTab(t, new) /\ Forget
          \/ SetTab(t, ask) /\ KeepCopy
          \/ SetTab(t, page) /\ Save(w.shown)
          \/ SetTab(t, back) /\ KeepCopy
  BY <1>1, <1>2, <1>3, <1>5, <1>7, <1>9, <1>12, <1>13, <1>14 DEF Added
<1>16. StorageMoves /\ \E p \in {new, ask, page, back} : SetTab(t, p)
  BY <1>12, <1>15 DEF StorageMoves
<1> QED BY <1>6, <1>15, <1>16, NoCallIsGood, StepIs, SettledKeeps

LEMMA AnsweredKeeps ==
  ASSUME ShopInv, NEW c \in Calls, Answered(c)
  PROVE  ShopInv'
<1>1. PICK r \in GoodCall : r = call[c]
  BY CallIs
<1>2. PICK t \in Tabs : t = r.tab
  BY <1>1, CallIs
<1>3. PICK old \in GoodPage : old = tab[t]
  BY DEF ShopInv
<1>4. r.answer \in GoodBasket /\ r.copy \in GoodCopy
  BY <1>1, CallIs
<1>5. PICK page : page = [old EXCEPT !.boot = "ready"]
  OBVIOUS
<1>6. page \in GoodPage
  BY <1>5 DEF GoodPage, Tab
<1>7. PICK new \in GoodPage : new = Synced(page, r.answer)
  BY <1>4, <1>6, SyncedIsGood
<1>8. PICK b \in GoodBasket : b = r.copy.basket
  BY <1>4 DEF GoodCopy
<1>9. PICK took : took = [v \in Variants |-> b.items[v]]
  OBVIOUS
<1>10. PICK ids \in SUBSET Variants : ids = {v \in Variants : took[v] > 0}
  OBVIOUS
<1>11. PICK kept : kept = [page EXCEPT !.shown = b, !.stubs = ids]
  OBVIOUS
<1>12. kept \in GoodPage
  BY <1>6, <1>8, <1>10, <1>11 DEF GoodPage, Tab, GoodBasket
<1>13. /\ Send(c, NoCall) /\ UNCHANGED <<session, server, acts, smooth>>
       /\ \/ SetTab(t, new) /\ Forget
          \/ r.kind = "merge" /\ r.phase # "served" /\ SetTab(t, kept) /\ storage' = r.copy /\ UNCHANGED saved
          \/ SetTab(t, page) /\ KeepCopy
  BY <1>1, <1>2, <1>3, <1>5, <1>7, <1>8, <1>9, <1>10, <1>11 DEF Answered
<1>14. CASE r.kind = "merge" /\ r.phase # "served" /\ SetTab(t, kept) /\ storage' = r.copy /\ UNCHANGED saved
  BY <1>1, <1>12, <1>13, <1>14, PutBackKeeps
<1>15. CASE SetTab(t, new) /\ Forget
  BY <1>13, <1>15, NoCallIsGood, StepIs, SettledKeeps DEF StorageMoves
<1>16. CASE SetTab(t, page) /\ KeepCopy
  BY <1>6, <1>13, <1>16, NoCallIsGood, StepIs, SettledKeeps DEF StorageMoves
<1> QED BY <1>13, <1>14, <1>15, <1>16

LEMMA ClearedKeeps ==
  ASSUME ShopInv, NEW c \in Calls, Cleared(c)
  PROVE  ShopInv'
<1>1. PICK r \in GoodCall : r = call[c]
  BY CallIs
<1>2. PICK t \in Tabs : t = r.tab
  BY <1>1, CallIs
<1>3. UNCHANGED <<session, server, acts, smooth>>
  BY DEF Cleared
<1>4. CASE r.variants # {}
  <2>1. PICK v \in Variants : v = CHOOSE x \in r.variants : TRUE
    BY <1>1, <1>4, CallIs
  <2>2. AddItem(c, t, tab[t], v)
    BY <1>1, <1>2, <1>4, <2>1 DEF Cleared
  <2>3. tab[t] \in GoodPage
    BY DEF ShopInv
  <2> QED BY <1>3, <2>2, <2>3, AddItemMoves, SettledKeeps
<1>5. CASE r.variants = {}
  <2>1. UNCHANGED tab /\ KeepCopy /\ Send(c, NoCall)
    BY <1>1, <1>5 DEF Cleared
  <2> QED BY <1>3, <2>1, NoCallIsGood, StayGood, SendIsGood, SettledKeeps DEF Moves, StorageMoves
<1> QED BY <1>4, <1>5

LEMMA OrderAnsweredKeeps ==
  ASSUME ShopInv, NEW c \in Calls, OrderAnswered(c)
  PROVE  ShopInv'
<1>1. PICK t \in Tabs : t = call[c].tab
  BY CallIs
<1>2. PICK old \in GoodPage : old = tab[t]
  BY DEF ShopInv
<1>3. PICK page : page = [old EXCEPT !.buying = "no"]
  OBVIOUS
<1>4. PICK paying : paying = [page EXCEPT !.buying = "paying"]
  OBVIOUS
<1>5. page \in GoodPage /\ paying \in GoodPage
  BY <1>3, <1>4 DEF GoodPage, Tab
<1>6. PICK get \in GoodCall : get = [Request("get", t) EXCEPT !.store = old.shown.store] /\ get.kind = "get"
  <2>1. PICK r : r = [Request("get", t) EXCEPT !.store = old.shown.store]
    OBVIOUS
  <2>2. old.shown.store \in Stores \cup {NoStore} /\ "get" \in PlainKinds
    BY PageIs DEF PlainKinds
  <2>3. r \in GoodCall /\ r.kind = "get"
    BY <2>1, <2>2, PlainOf, Zenon
  <2> QED BY <2>1, <2>3
<1>7. /\ UNCHANGED <<session, server, acts, smooth>>
      /\ \/ ClearCart(c, t)
         \/ SetTab(t, paying) /\ KeepCopy /\ Send(c, NoCall)
         \/ SetTab(t, page) /\ KeepCopy /\ Send(c, NoCall)
         \/ SetTab(t, page) /\ KeepCopy /\ Send(c, get)
  BY <1>1, <1>2, <1>3, <1>4, <1>6 DEF OrderAnswered
<1>8. CASE ClearCart(c, t)
  BY <1>7, <1>8, ClearCartMoves, SettledKeeps
<1>9. CASE \E p \in {paying, page} : SetTab(t, p) /\ KeepCopy /\ Send(c, NoCall)
  BY <1>5, <1>7, <1>9, NoCallIsGood, StepIs, SettledKeeps DEF StorageMoves
<1>10. CASE SetTab(t, page) /\ KeepCopy /\ Send(c, get)
  BY <1>5, <1>6, <1>7, <1>10, StepIs, SettledKeeps DEF StorageMoves
<1> QED BY <1>7, <1>8, <1>9, <1>10

-------------------------------------------------------------------------------
(* The API answers *)

LEMMA ReplyIs ==
  ASSUME ShopInv, NEW c \in Calls, NEW b \in GoodBasket,
         NEW phase \in {"served", "conflict", "expired", "failed"}, Reply(c, phase, b)
  PROVE  /\ call' \in [Calls -> GoodCall] /\ MergesStay
         /\ call[c].phase = "sent" => MergesWait
         /\ \A d \in Calls \ {c} : call'[d] = call[d]
         /\ phase = "served" => call'[c].kind # "merge" \/ call'[c].phase = "served"
<1>1. PICK r \in GoodCall : r = call[c]
  BY CallIs
<1>2. PICK done : done = [r EXCEPT !.phase = phase, !.answer = b]
  OBVIOUS
<1>3. done \in Call /\ done.kind = r.kind /\ done.copy = r.copy /\ done.for = r.for /\ done.store = r.store
      /\ done.answer = b /\ done.variants = r.variants
  BY <1>2 DEF GoodCall, Call, GoodBasket
<1>4. done \in GoodCall
  BY <1>3 DEF GoodCall
<1>5. Send(c, done) \/ Send(c, NoCall)
  BY <1>1, <1>2 DEF Reply
<1>6. CASE Send(c, NoCall)
  <2>1. call' \in [Calls -> GoodCall] /\ MergesStay /\ MergesWait
    BY <1>6, NoCallIsGood, SendIsGood
  <2>2. call'[c].kind = "none" /\ \A d \in Calls \ {c} : call'[d] = call[d]
    BY <1>6, NoCallIsGood DEF Send, ShopInv
  <2> QED BY <2>1, <2>2
<1>7. CASE Send(c, done)
  <2>1. done.phase = phase
    BY <1>2 DEF GoodCall, Call
  <2>2. call' = [call EXCEPT ![c] = done] /\ call \in [Calls -> GoodCall]
    BY <1>7 DEF Send, ShopInv
  <2>3. call' \in [Calls -> GoodCall] /\ call'[c] = done /\ \A d \in Calls \ {c} : call'[d] = call[d]
    BY <1>4, <2>2
  <2>4. MergesStay
    BY <1>1, <1>3, <2>3 DEF MergesStay
  <2>5. call[c].phase = "sent" => MergesWait
    BY <2>3 DEF MergesWait
  <2> QED BY <2>1, <2>3, <2>4, <2>5
<1> QED BY <1>5, <1>6, <1>7

\* A step of the API: a call is answered, the customer's carts change.
LEMMA AnswerKeeps ==
  ASSUME ShopInv, NEW c \in Calls, NEW b \in GoodBasket,
         NEW phase \in {"served", "conflict", "expired", "failed"}, Reply(c, phase, b), call[c].phase = "sent",
         server' \in Server, server'.merged = server.merged, session' \in BOOLEAN, smooth' \in BOOLEAN,
         UNCHANGED <<storage, saved, tab, acts>>
  PROVE  ShopInv'
<1>1. call' \in [Calls -> GoodCall] /\ MergesStay /\ MergesWait
  BY ReplyIs
<1>2. tab' \in [Tabs -> GoodPage] /\ acts' \in 0..MaxActs
  BY DEF ShopInv
<1>3. StorageMoves
  BY DEF StorageMoves, KeepCopy
<1> QED BY <1>1, <1>2, <1>3, ShopMoves

LEMMA CartOfIsGood ==
  ASSUME NEW s \in Stores, NEW qty \in [Variants -> 0..MaxQty]
  PROVE  CartOf(s, qty) \in GoodBasket
<1>1. PICK items : items = ItemsOf(s, qty)
  OBVIOUS
<1>2. items \in [Variants -> 0..MaxQty] /\ \A v \in Variants : items[v] > 0 => StoreOf[v] = s
  BY <1>1, ShopAssumption DEF ItemsOf
<1>3. PICK b : b = Of(s, items)
  OBVIOUS
<1>4. b \in Basket /\ b.store = s /\ b.items = items
  BY <1>2, <1>3 DEF Of, Basket
<1> QED BY <1>1, <1>2, <1>3, <1>4 DEF CartOf, GoodBasket, IsOfOneStore

LEMMA NothingOfIsGood ==
  ASSUME NEW s \in Stores
  PROVE  Of(s, Nothing) \in GoodBasket
<1>1. Nothing \in [Variants -> 0..MaxQty] /\ \A v \in Variants : ~(Nothing[v] > 0)
  BY EmptyIsGood, ShopAssumption DEF Nothing
<1> QED BY <1>1 DEF Of, GoodBasket, Basket, IsOfOneStore

LEMMA ServerIs ==
  ASSUME ShopInv
  PROVE  /\ server \in Server /\ server.open \in SUBSET Stores
         /\ server.qty \in [Variants -> 0..MaxQty] /\ server.latest \in Stores \cup {NoStore}
         /\ server.merged \in SUBSET Nat
BY DEF ShopInv, Server

LEMMA WithCartIs ==
  ASSUME ShopInv, NEW s \in Stores, NEW qty \in [Variants -> 0..MaxQty]
  PROVE  WithCart(s, qty) \in Server /\ WithCart(s, qty).merged = server.merged
BY ServerIs DEF WithCart, Server

LEMMA WithoutCartIs ==
  ASSUME ShopInv, NEW s
  PROVE  WithoutCart(s) \in Server /\ WithoutCart(s).merged = server.merged
<1>1. PICK old \in Server : old = server
  BY ServerIs
<1>2. PICK qty : qty = [v \in Variants |-> IF StoreOf[v] = s THEN 0 ELSE old.qty[v]]
  OBVIOUS
<1>3. qty \in [Variants -> 0..MaxQty]
  BY <1>2, ShopAssumption DEF Server
<1>4. PICK new : new = [old EXCEPT !.open = old.open \ {s}, !.qty = qty]
  OBVIOUS
<1>5. new \in Server /\ new.merged = old.merged
  BY <1>3, <1>4 DEF Server
<1>6. WithoutCart(s) = new
  BY <1>1, <1>2, <1>4 DEF WithoutCart
<1> QED BY <1>1, <1>5, <1>6

LEMMA ServeGetKeeps ==
  ASSUME ShopInv, NEW c \in Calls, ServeGet(c), call[c].phase = "sent",
         UNCHANGED <<storage, saved, session, tab, acts, smooth>>
  PROVE  ShopInv'
<1>1. server' \in Server /\ server'.merged = server.merged /\ session' \in BOOLEAN /\ smooth' \in BOOLEAN
  BY DEF ServeGet, ShopInv
<1>2. \/ Reply(c, "served", Empty)
      \/ \E x \in Stores : Reply(c, "served", CartOf(x, server.qty))
  BY ServerIs DEF ServeGet
<1>3. PICK b \in GoodBasket : Reply(c, "served", b)
  BY <1>2, EmptyIsGood, CartOfIsGood, ServerIs
<1> QED BY <1>1, <1>3, AnswerKeeps

LEMMA ServeAddKeeps ==
  ASSUME ShopInv, NEW c \in Calls, ServeAdd(c), call[c].phase = "sent",
         UNCHANGED <<storage, saved, session, tab, acts, smooth>>
  PROVE  ShopInv'
<1>1. session' \in BOOLEAN /\ smooth' \in BOOLEAN
  BY DEF ShopInv
<1>2. PICK r \in GoodCall : r = call[c]
  BY CallIs
<1>3. r.variants \in SUBSET Variants /\ r.variants # {}
  BY <1>2, CallIs DEF ServeAdd, GoodCall
<1>4. PICK v \in Variants : v = CHOOSE x \in r.variants : TRUE
  BY <1>3
<1>5. PICK s \in Stores : s = StoreOf[v]
  BY ShopAssumption
<1>6. PICK qty : qty = [server.qty EXCEPT ![v] = @ + 1]
  OBVIOUS
<1>7. \/ \E x \in server.open : Reply(c, "conflict", Of(x, Nothing)) /\ UNCHANGED server
      \/ server.qty[v] < MaxQty /\ server' = WithCart(s, qty) /\ Reply(c, "served", CartOf(s, qty))
      \/ server' = WithCart(s, server.qty) /\ Reply(c, "failed", Empty)
  BY <1>2, <1>4, <1>5, <1>6 DEF ServeAdd
<1>8. CASE \E x \in server.open : Reply(c, "conflict", Of(x, Nothing)) /\ UNCHANGED server
  <2>1. PICK x \in Stores : Reply(c, "conflict", Of(x, Nothing)) /\ UNCHANGED server
    BY <1>8, ServerIs
  <2> QED BY <1>1, <2>1, ServerIs, NothingOfIsGood, AnswerKeeps
<1>9. CASE server.qty[v] < MaxQty /\ server' = WithCart(s, qty) /\ Reply(c, "served", CartOf(s, qty))
  <2>1. qty \in [Variants -> 0..MaxQty]
    BY <1>6, <1>9, ServerIs, ShopAssumption
  <2> QED BY <1>1, <1>9, <2>1, WithCartIs, CartOfIsGood, AnswerKeeps
<1>10. CASE server' = WithCart(s, server.qty) /\ Reply(c, "failed", Empty)
  BY <1>1, <1>10, ServerIs, WithCartIs, EmptyIsGood, AnswerKeeps
<1> QED BY <1>7, <1>8, <1>9, <1>10

LEMMA ServeItemKeeps ==
  ASSUME ShopInv, NEW c \in Calls, ServeItem(c), call[c].phase = "sent",
         UNCHANGED <<storage, saved, session, tab, acts, smooth>>
  PROVE  ShopInv'
<1>1. session' \in BOOLEAN /\ smooth' \in BOOLEAN
  BY DEF ShopInv
<1>2. PICK r \in GoodCall : r = call[c]
  BY CallIs
<1>3. r.variants \in SUBSET Variants /\ r.variants # {} /\ r.for.items \in [Variants -> 0..MaxQty]
  BY <1>2, CallIs DEF ServeItem, GoodCall, GoodBasket, Basket
<1>4. PICK v \in Variants : v = CHOOSE x \in r.variants : TRUE
  BY <1>3
<1>5. PICK n : n = IF r.kind = "update" THEN r.for.items[v] ELSE 0
  OBVIOUS
<1>6. PICK old \in Server : old = server
  BY ServerIs
<1>7. PICK qty : qty = [old.qty EXCEPT ![v] = n]
  OBVIOUS
<1>8. n \in 0..MaxQty /\ qty \in [Variants -> 0..MaxQty]
  BY <1>3, <1>5, <1>7, ShopAssumption DEF Server
<1>9. PICK new : new = [old EXCEPT !.qty = qty]
  OBVIOUS
<1>10. new \in Server /\ new.merged = server.merged
  BY <1>6, <1>8, <1>9 DEF Server
<1>11. server' = new /\ Reply(c, "served", CartOf(StoreOf[v], qty))
  BY <1>2, <1>4, <1>5, <1>6, <1>7, <1>9 DEF ServeItem
<1>12. CartOf(StoreOf[v], qty) \in GoodBasket
  BY <1>8, CartOfIsGood, ShopAssumption
<1> QED BY <1>1, <1>10, <1>11, <1>12, AnswerKeeps

LEMMA ServeMergeKeeps ==
  ASSUME ShopInv, NEW c \in Calls, ServeMerge(c), call[c].phase = "sent",
         UNCHANGED <<storage, saved, session, tab, acts, smooth>>
  PROVE  ShopInv'
<1>1. session' \in BOOLEAN /\ smooth' \in BOOLEAN
  BY DEF ShopInv
<1>2. PICK r \in GoodCall : r = call[c]
  BY CallIs
<1>3. r.for.items \in [Variants -> 0..MaxQty]
  BY <1>2, CallIs DEF GoodBasket, Basket
<1>4. PICK s \in Stores : s = r.store
  BY <1>2 DEF ServeMerge, GoodCall, GoodCopy
<1>5. PICK qty : qty = [v \in Variants |-> IF StoreOf[v] = s THEN r.for.items[v] ELSE server.qty[v]]
  OBVIOUS
<1>6. qty \in [Variants -> 0..MaxQty]
  BY <1>3, <1>5, ServerIs
<1>7. PICK n : n = call[c].copy.n
  OBVIOUS
<1>8. /\ server' = [WithCart(s, qty) EXCEPT !.merged = @ \cup {n}] /\ Reply(c, "served", CartOf(s, qty))
      /\ call[c].kind = "merge"
  BY <1>2, <1>4, <1>5, <1>7 DEF ServeMerge
<1>9. c \in Merges /\ n \in Nat /\ n > 0 /\ n <= saved /\ n # storage.n
      /\ \A d \in Merges : call[d].copy.n = n => d = c
  <2>1. c \in Merges /\ call[c] \in GoodCall
    BY <1>8 DEF Merges, ShopInv
  <2>2. call[c].copy \in GoodCopy /\ call[c].copy # NoCopy
    BY <1>8, <2>1 DEF GoodCall
  <2>3. n \in Nat /\ n > 0
    BY <1>7, <2>2 DEF GoodCopy, Copy
  <2> QED BY <1>7, <2>1, <2>3 DEF ShopInv, TokensInv
<1>10. server' \in Server /\ server'.merged = server.merged \cup {n}
  <2>1. PICK cart : cart = WithCart(s, qty)
    OBVIOUS
  <2>2. cart \in Server /\ cart.merged = server.merged /\ server' = [cart EXCEPT !.merged = @ \cup {n}]
    BY <1>6, <1>8, <2>1, WithCartIs
  <2> QED BY <1>9, <2>2 DEF Server
<1>11. /\ call' \in [Calls -> GoodCall] /\ MergesStay
       /\ \A d \in Calls \ {c} : call'[d] = call[d]
       /\ call'[c].kind # "merge" \/ call'[c].phase = "served"
  BY <1>6, <1>8, CartOfIsGood, ReplyIs
<1>12. TokensInv'
  BY <1>11, TokensMove DEF StorageMoves, KeepCopy
<1>13. MergedInv'
  <2>1. ASSUME NEW d \in Merges', call'[d].phase # "served" PROVE call'[d].copy.n \notin server'.merged
    <3>1. d # c /\ d \in Merges /\ call'[d] = call[d]
      BY <1>11, <2>1 DEF Merges
    <3>2. call[d].copy.n \notin server.merged
      BY <2>1, <3>1 DEF ShopInv, MergedInv
    <3> QED BY <1>9, <1>10, <3>1, <3>2
  <2>2. \A m \in server'.merged : m > 0 /\ m <= saved
    BY <1>9, <1>10 DEF ShopInv, MergedInv
  <2>3. storage.n \notin server'.merged
    BY <1>9, <1>10 DEF ShopInv, MergedInv
  <2> QED BY <2>1, <2>2, <2>3 DEF MergedInv
<1> QED BY <1>10, <1>11, <1>12, <1>13 DEF ShopInv

LEMMA ServeKeeps ==
  ASSUME ShopInv, NEW c \in Calls, Serve(c)
  PROVE  ShopInv'
<1>1. UNCHANGED <<storage, saved, session, tab, acts, smooth>> /\ call[c].phase = "sent"
      /\ session' \in BOOLEAN /\ smooth' \in BOOLEAN
  BY DEF Serve, ShopInv
<1>2. CASE ServeGet(c) \/ ServeAdd(c) \/ ServeItem(c) \/ ServeMerge(c)
  BY <1>1, <1>2, ServeGetKeeps, ServeAddKeeps, ServeItemKeeps, ServeMergeKeeps
<1>3. ASSUME Reply(c, "served", Empty), server' \in Server, server'.merged = server.merged
      PROVE  ShopInv'
  BY <1>1, <1>3, EmptyIsGood, AnswerKeeps
<1>4. CASE ServeClear(c)
  <2>1. \E s : server' = WithoutCart(s)
    BY <1>4 DEF ServeClear
  <2> QED BY <1>3, <1>4, <2>1, WithoutCartIs DEF ServeClear
<1>5. CASE ServeCheckout(c)
  <2>1. \E s : server' = WithoutCart(s)
    BY <1>5 DEF ServeCheckout
  <2> QED BY <1>3, <1>5, <2>1, WithoutCartIs DEF ServeCheckout
<1>6. CASE Reply(c, "served", Empty) /\ UNCHANGED server
  BY <1>3, <1>6, ServerIs
<1> QED BY <1>2, <1>4, <1>5, <1>6 DEF Serve

LEMMA UnservedKeeps ==
  ASSUME ShopInv, NEW c \in Calls, ServeLogout(c) \/ Reject(c)
  PROVE  ShopInv'
<1>1. UNCHANGED <<storage, saved, tab, acts>> /\ UNCHANGED server /\ session' \in BOOLEAN
      /\ call[c].phase = "sent"
  BY DEF ServeLogout, Reject, ShopInv
<1>2. smooth' \in BOOLEAN
  BY DEF ServeLogout, Reject, ShopInv
<1>3. PICK phase \in {"served", "expired"} : Reply(c, phase, Empty)
  BY DEF ServeLogout, Reject
<1> QED BY <1>1, <1>2, <1>3, ServerIs, EmptyIsGood, AnswerKeeps

\* A merge whose answer is lost may be served again.
LEMMA FailKeeps ==
  ASSUME ShopInv, NEW c \in Calls, Fail(c)
  PROVE  ShopInv'
<1>1. /\ UNCHANGED <<storage, saved, tab, acts, session>> /\ smooth' = FALSE /\ Reply(c, "failed", Empty)
      /\ \/ server' = server /\ call[c].phase # "served"
         \/ server' = [server EXCEPT !.merged = @ \ {call[c].copy.n}]
  BY DEF Fail
<1>2. /\ call' \in [Calls -> GoodCall] /\ MergesStay
      /\ \A d \in Calls \ {c} : call'[d] = call[d]
  BY <1>1, EmptyIsGood, ReplyIs
<1>3. TokensInv'
  BY <1>1, <1>2, TokensMove DEF StorageMoves, KeepCopy
<1>4. /\ server' \in Server /\ server'.merged \subseteq server.merged
      /\ call[c].phase = "served" => call[c].copy.n \notin server'.merged
  <2>1. server \in Server
    BY DEF ShopInv
  <2> QED BY <1>1, <2>1 DEF Server
<1>5. MergedInv'
  <2>1. ASSUME NEW d \in Merges', call'[d].phase # "served" PROVE call'[d].copy.n \notin server'.merged
    <3>1. d \in Merges /\ call'[d].copy = call[d].copy
      BY <1>2, MergeIs
    <3>2. CASE call[d].phase = "served"
      <4>1. d = c
        BY <1>2, <2>1, <3>2 DEF Merges
      <4> QED BY <1>4, <3>1, <3>2, <4>1
    <3>3. CASE call[d].phase # "served"
      BY <1>4, <3>1, <3>3 DEF ShopInv, MergedInv
    <3> QED BY <3>2, <3>3
  <2>2. (\A n \in server'.merged : n > 0 /\ n <= saved) /\ storage.n \notin server'.merged
    BY <1>4 DEF ShopInv, MergedInv
  <2> QED BY <1>1, <2>1, <2>2 DEF MergedInv
<1> QED BY <1>1, <1>2, <1>3, <1>4, <1>5 DEF ShopInv

-------------------------------------------------------------------------------
(* The theorems *)

LEMMA ShopInit == Init => ShopInv
<1>1. SUFFICES ASSUME Init PROVE ShopInv
  OBVIOUS
<1>2. tab \in [Tabs -> GoodPage] /\ call \in [Calls -> GoodCall] /\ \A c \in Calls : call[c].kind = "none"
  BY <1>1, NewPageIsGood, NoCallIsGood DEF Init
<1>3. server \in Server
  BY <1>1, EmptyIsGood DEF Init, Server
<1>4. Merges = {}
  BY <1>2 DEF Merges
<1>5. storage \in GoodCopy /\ storage.n = 0 /\ saved = 0 /\ session \in BOOLEAN
  BY <1>1, EmptyIsGood DEF Init
<1>6. acts \in 0..MaxActs /\ smooth \in BOOLEAN
  BY <1>1, ShopAssumption DEF Init
<1>7. server.merged = {}
  BY <1>1 DEF Init
<1> QED BY <1>2, <1>3, <1>4, <1>5, <1>6, <1>7 DEF ShopInv, TokensInv, MergedInv

LEMMA SettleKeeps ==
  ASSUME ShopInv, NEW c \in Calls, Settle(c)
  PROVE  ShopInv'
BY KnowUserKeeps, LoggedOutKeeps, AddedKeeps, AnsweredKeeps, ClearedKeeps, OrderAnsweredKeeps DEF Settle

LEMMA BrowseKeeps ==
  ASSUME ShopInv, NEW t \in Tabs, Browse(t)
  PROVE  ShopInv'
BY LoadKeeps, SignInKeeps, SignOutKeeps, AddKeeps, RemoveItemKeeps, UpdateQuantityKeeps,
   ConfirmCrossStoreClearKeeps, DismissConflictKeeps, PlaceOrderKeeps, PaymentKeeps DEF Browse

LEMMA ExpiryKeeps ==
  ASSUME ShopInv, SessionExpires \/ CopyExpires
  PROVE  ShopInv'
<1>1. StorageMoves /\ UNCHANGED <<tab, call, server, acts, smooth>>
  BY DEF SessionExpires, CopyExpires, StorageMoves, KeepCopy
<1>2. Moves
  BY <1>1, StayGood DEF Moves
<1>3. /\ session' \in BOOLEAN /\ server' \in Server /\ server'.merged = server.merged
      /\ acts' \in 0..MaxActs /\ smooth' \in BOOLEAN
  BY <1>1 DEF SessionExpires, CopyExpires, ShopInv
<1> QED BY <1>2, <1>3, MovesKeep

LEMMA ShopStep == ShopInv /\ [Next]_vars => ShopInv'
<1>1. SUFFICES ASSUME ShopInv, [Next]_vars PROVE ShopInv'
  OBVIOUS
<1>2. CASE UNCHANGED vars
  BY <1>1, <1>2 DEF vars, ShopInv, TokensInv, MergedInv, Merges
<1>3. CASE Next
  BY <1>1, <1>3, BrowseKeeps, ServeKeeps, UnservedKeeps, FailKeeps, SettleKeeps, ExpiryKeeps DEF Next
<1> QED BY <1>1, <1>2, <1>3

LEMMA ShopAlways == Spec => []ShopInv
BY ShopInit, ShopStep, PTL DEF Spec

\* Everything keeps its type, and what a page shows, the copy in localStorage and every
\* guest cart sent to mergeCart are of one store, in any number of tabs, with any number of
\* calls in flight.  The API does not check the last of these.
THEOREM BasketsAreOfOneStore == Spec => []OneStore
<1>1. ASSUME ShopInv PROVE OneStore
  <2>1. storage \in Copy /\ IsOfOneStore(storage.basket)
    BY <1>1 DEF ShopInv, GoodCopy, GoodBasket
  <2>2. tab \in [Tabs -> Tab] /\ \A t \in Tabs : IsOfOneStore(tab[t].shown)
    BY <1>1 DEF ShopInv, GoodPage, GoodBasket
  <2>3. call \in [Calls -> Call] /\ \A c \in Calls : IsOfOneStore(call[c].for)
    BY <1>1 DEF ShopInv, GoodCall, GoodBasket
  <2> QED BY <1>1, <2>1, <2>2, <2>3 DEF OneStore, TypeOK, InFlight, ShopInv
<1> QED BY <1>1, ShopAlways, PTL

\* However many tabs start at the same time, are reloaded or lose answers: the API merges a
\* guest cart once, and once more for every time that the answer was lost and the copy was put
\* back; the copy is in localStorage or in one merge call.
THEOREM GuestCartsAreMergedOnce == Spec => []MergedOnce
<1>1. ASSUME ShopInv PROVE MergedOnce
  <2>1. ASSUME NEW c \in InFlight, call[c].kind = "merge"
        PROVE  /\ call[c].phase # "served" => call[c].copy.n \notin server.merged
               /\ call[c].copy.n # storage.n
               /\ \A d \in InFlight \ {c} : call[d].kind = "merge" => call[d].copy.n # call[c].copy.n
    BY <1>1, <2>1 DEF ShopInv, TokensInv, MergedInv, Merges, InFlight
  <2> QED BY <1>1, <2>1 DEF MergedOnce, ShopInv, MergedInv
<1> QED BY <1>1, ShopAlways, PTL
-------------------------------------------------------------------------------
(* What is shown is what the API has *)

\* What the API answers of b's store, when it has `qty` units of each variant in its carts.
Served(qty, b) == b.items = ItemsOf(b.store, qty)

\* A page that should show the cart does.
Fresh(qty, page) == page.auth /\ page.buying = "no" => Served(qty, page.shown)

\* What the page of the only call in flight, and the call, will make of its answer.
Awaits(qty, r, page) ==
  /\ r.live
  /\ r.kind \in {"get", "update", "merge", "remove", "checkout", "logout"} => r.phase \in {"sent", "served"}
  /\ r.kind = "me" => ~page.auth
  /\ r.kind \in {"get", "update", "merge", "add"} /\ r.phase = "served" => Served(qty, r.answer)
  /\ r.kind = "add" => /\ r.phase # "expired"
                       /\ page.buying = "no" => r.phase = "served" \/ Served(qty, r.for)
  /\ (r.kind = "remove" /\ page.buying = "no") =>
       IF r.phase = "served" THEN Served(qty, page.shown)
       ELSE \E v \in r.variants : /\ r.variants = {v}
                                  /\ Served([qty EXCEPT ![v] = 0], page.shown)
  /\ r.kind = "clear" => page.shown = Empty

Lone(t) == \A u \in Tabs \ {t} : tab[u].boot = "closed"

SmoothInv ==
  smooth =>
    /\ InFlight = {} => \A t \in Tabs : tab[t].boot = "ready" => Fresh(server.qty, tab[t])
    /\ \A c \in InFlight : /\ InFlight = {c} /\ Lone(call[c].tab)
                           /\ Awaits(server.qty, call[c], tab[call[c].tab])

LEMMA EmptyIsServed ==
  ASSUME NEW qty, NEW b, b = Empty
  PROVE  Served(qty, b)
BY ShopAssumption DEF Served, Empty, Nothing, ItemsOf

LEMMA CartOfIsServed ==
  ASSUME NEW qty, NEW s
  PROVE  Served(qty, CartOf(s, qty))
BY DEF Served, CartOf, Of

\* While all goes well the page that waits for an answer is the only one, and so is its call.
LEMMA Alone ==
  ASSUME SmoothInv, smooth, NEW c \in InFlight
  PROVE  InFlight = {c} /\ Lone(call[c].tab) /\ Awaits(server.qty, call[c], tab[call[c].tab])
BY DEF SmoothInv

LEMMA ActAlone ==
  ASSUME SmoothInv, NEW t \in Tabs, Act(t), smooth'
  PROVE  smooth /\ InFlight = {} /\ Lone(t) /\ Fresh(server.qty, tab[t])
BY DEF Act, SmoothInv, Lone

\* A step of one page that leaves at most the call c in flight.
LEMMA StepIsSmooth ==
  ASSUME ShopInv, NEW c \in Calls, InFlight \subseteq {c}, NEW r, Send(c, r),
         NEW t \in Tabs, Lone(t), NEW page, SetTab(t, page),
         IF r.kind = "none" THEN Fresh(server.qty, page)
                            ELSE r.tab = t /\ Awaits(server.qty, r, page),
         UNCHANGED server
  PROVE  SmoothInv'
<1>1. call'[c] = r /\ tab'[t] = page /\ \A u \in Tabs \ {t} : tab'[u] = tab[u]
  BY DEF Send, SetTab, ShopInv
<1>2. \A d \in Calls \ {c} : call'[d].kind = "none"
  BY DEF Send, ShopInv, InFlight
<1>3. Lone(t)'
  BY <1>1 DEF Lone
<1>4. CASE r.kind = "none"
  <2>1. InFlight' = {}
    BY <1>1, <1>2, <1>4 DEF InFlight
  <2>2. ASSUME NEW u \in Tabs, tab'[u].boot = "ready"
        PROVE  Fresh(server.qty, tab'[u])
    BY <1>1, <1>3, <1>4, <2>2 DEF Lone
  <2> QED BY <2>1, <2>2 DEF SmoothInv
<1>5. CASE r.kind # "none"
  <2>1. InFlight' = {c}
    BY <1>1, <1>2, <1>5 DEF InFlight
  <2>2. r.tab = t /\ Awaits(server.qty, r, page)
    BY <1>5
  <2> QED BY <1>1, <1>3, <2>1, <2>2 DEF SmoothInv
<1> QED BY <1>4, <1>5

LEMMA AddItemIsSmooth ==
  ASSUME ShopInv, NEW c \in Calls, InFlight \subseteq {c}, NEW t \in Tabs, Lone(t),
         NEW page \in GoodPage, Fresh(server.qty, page), NEW v \in Variants,
         AddItem(c, t, page, v), UNCHANGED server
  PROVE  SmoothInv'
<1>1. CASE IsForeign(page, v)
  <2>1. PICK ask : ask = Asking(page, v, page.shown.store)
    OBVIOUS
  <2>2. ask.auth = page.auth /\ ask.buying = page.buying /\ ask.shown = page.shown
    BY <2>1 DEF Asking, GoodPage, Tab
  <2>3. Fresh(server.qty, ask)
    BY <2>2 DEF Fresh
  <2>4. SetTab(t, ask) /\ Send(c, NoCall)
    BY <1>1, <2>1 DEF AddItem
  <2> QED BY <2>3, <2>4, NoCallIsGood, StepIsSmooth
<1>2. CASE ~IsForeign(page, v)
  <2>1. PICK w : w = WithItem(page, v)
    OBVIOUS
  <2>2. w.auth = page.auth /\ w.buying = page.buying
    BY <2>1 DEF WithItem, GoodPage, Tab
  <2>3. CASE page.auth
    <3>1. PICK q \in Call : q = Request("add", t) /\ q.kind = "add" /\ q.live /\ q.phase = "sent" /\ q.tab = t
      BY RequestIs
    <3>2. PICK r : r = [q EXCEPT !.store = StoreOf[v], !.variants = {v},
                                 !.for = page.shown, !.stubs = page.stubs]
      OBVIOUS
    <3>3. r.kind = "add" /\ r.live /\ r.phase = "sent" /\ r.tab = t /\ r.for = page.shown
      BY <3>1, <3>2 DEF Call
    <3>4. Awaits(server.qty, r, w)
      BY <2>2, <2>3, <3>3 DEF Awaits, Fresh
    <3>5. SetTab(t, w) /\ Send(c, r)
      BY <1>2, <2>1, <2>3, <3>1, <3>2 DEF AddItem
    <3> QED BY <3>3, <3>4, <3>5, StepIsSmooth
  <2>4. CASE ~page.auth
    <3>1. SetTab(t, w) /\ Send(c, NoCall)
      BY <1>2, <2>1, <2>4 DEF AddItem
    <3>2. Fresh(server.qty, w)
      BY <2>2, <2>4 DEF Fresh
    <3> QED BY <3>1, <3>2, NoCallIsGood, StepIsSmooth
  <2> QED BY <2>3, <2>4
<1> QED BY <1>1, <1>2

LEMMA QuietStepIsSmooth ==
  ASSUME ShopInv, InFlight = {}, UNCHANGED <<call, server>>,
         NEW t \in Tabs, Lone(t), NEW page, SetTab(t, page), Fresh(server.qty, page)
  PROVE  SmoothInv'
<1>1. tab'[t] = page /\ \A u \in Tabs \ {t} : tab'[u] = tab[u]
  BY DEF SetTab, ShopInv
<1>2. InFlight' = {}
  BY DEF InFlight
<1>3. ASSUME NEW u \in Tabs, tab'[u].boot = "ready"
      PROVE  Fresh(server.qty, tab'[u])
  BY <1>1, <1>3 DEF Lone
<1> QED BY <1>2, <1>3 DEF SmoothInv

LEMMA MergeGuestCartIsSmooth ==
  ASSUME ShopInv, NEW c \in Calls, InFlight \subseteq {c}, NEW t \in Tabs, Lone(t), NEW page,
         MergeGuestCart(c, t, page), UNCHANGED server
  PROVE  SmoothInv'
<1>1. CASE storage = NoCopy
  <2>1. PICK r : r = Request("get", t) /\ r.kind = "get" /\ r.live /\ r.phase = "sent" /\ r.tab = t
    BY RequestIs
  <2>2. Awaits(server.qty, r, page)
    BY <2>1 DEF Awaits
  <2>3. SetTab(t, page) /\ Send(c, r)
    BY <1>1, <2>1 DEF MergeGuestCart
  <2> QED BY <2>1, <2>2, <2>3, StepIsSmooth
<1>2. CASE storage # NoCopy
  <2>1. PICK q \in Call : q = Request("merge", t) /\ q.kind = "merge" /\ q.live /\ q.phase = "sent" /\ q.tab = t
    BY RequestIs
  <2>2. PICK r : r = [q EXCEPT !.store = storage.basket.store, !.for = storage.basket, !.copy = storage]
    OBVIOUS
  <2>3. r.kind = "merge" /\ r.live /\ r.phase = "sent" /\ r.tab = t
    BY <2>1, <2>2 DEF Call
  <2>4. PICK p : p = [page EXCEPT !.shown = Empty, !.stubs = {}]
    OBVIOUS
  <2>5. Awaits(server.qty, r, p)
    BY <2>3 DEF Awaits
  <2>6. SetTab(t, p) /\ Send(c, r)
    BY <1>2, <2>1, <2>2, <2>4 DEF MergeGuestCart
  <2> QED BY <2>3, <2>5, <2>6, StepIsSmooth
<1> QED BY <1>1, <1>2

\* What the user does.
LEMMA AddIsSmooth ==
  ASSUME ShopInv, SmoothInv, smooth', NEW t \in Tabs, NEW v \in Variants, Add(t, v)
  PROVE  SmoothInv'
<1>1. PICK c \in Free : AddItem(c, t, tab[t], v)
  BY DEF Add
<1>2. c \in Calls /\ tab[t] \in GoodPage /\ Act(t) /\ UNCHANGED server
  BY DEF Add, ShopInv, Free
<1>3. InFlight \subseteq {c} /\ Lone(t) /\ Fresh(server.qty, tab[t])
  BY <1>2, ActAlone
<1> QED BY <1>1, <1>2, <1>3, AddItemIsSmooth

LEMMA UpdateQuantityIsSmooth ==
  ASSUME ShopInv, SmoothInv, smooth', NEW t \in Tabs, NEW v \in Variants, NEW n \in 1..MaxQty,
         UpdateQuantity(t, v, n)
  PROVE  SmoothInv'
<1>1. PICK page : page = [tab[t] EXCEPT !.shown.items[v] = n]
  OBVIOUS
<1>2. Act(t) /\ SetTab(t, page) /\ UNCHANGED server
  BY <1>1 DEF UpdateQuantity
<1>3. InFlight = {} /\ Lone(t)
  BY <1>2, ActAlone
<1>4. PICK old \in GoodPage : old = tab[t]
  BY DEF ShopInv
<1>5. page.auth = old.auth /\ page.buying = old.buying
  BY <1>1, <1>4 DEF GoodPage, Tab
<1>6. CASE page.auth
  <2>1. PICK c \in Free : Send(c, [Request("update", t) EXCEPT !.variants = {v},
                                             !.for = page.shown, !.stubs = page.stubs])
    BY <1>1, <1>6 DEF UpdateQuantity
  <2>2. PICK q \in Call : q = Request("update", t) /\ q.kind = "update" /\ q.live /\ q.phase = "sent" /\ q.tab = t
    BY RequestIs
  <2>3. PICK r : r = [q EXCEPT !.variants = {v}, !.for = page.shown, !.stubs = page.stubs]
    OBVIOUS
  <2>4. r.kind = "update" /\ r.live /\ r.phase = "sent" /\ r.tab = t
    BY <2>2, <2>3 DEF Call
  <2>5. Awaits(server.qty, r, page)
    BY <2>4 DEF Awaits
  <2>6. c \in Calls /\ InFlight \subseteq {c} /\ Send(c, r)
    BY <1>3, <2>1, <2>2, <2>3 DEF Free
  <2> QED BY <1>2, <1>3, <2>4, <2>5, <2>6, StepIsSmooth
<1>7. CASE ~page.auth
  <2>1. UNCHANGED call
    BY <1>1, <1>7 DEF UpdateQuantity
  <2>2. Fresh(server.qty, page)
    BY <1>7 DEF Fresh
  <2> QED BY <1>2, <1>3, <2>1, <2>2, QuietStepIsSmooth
<1> QED BY <1>6, <1>7

\* A customer's page that takes an item off shows what the API has once it has taken it off.
LEMMA RemoveItemIsSmooth ==
  ASSUME ShopInv, SmoothInv, smooth', NEW t \in Tabs, NEW v \in Variants, RemoveItem(t, v)
  PROVE  SmoothInv'
<1>1. PICK old \in GoodPage : old = tab[t]
  BY DEF ShopInv
<1>2. Act(t) /\ UNCHANGED server
  BY DEF RemoveItem
<1>3. InFlight = {} /\ Lone(t) /\ Fresh(server.qty, old)
  BY <1>1, <1>2, ActAlone
<1>4. PICK left : left = [old.shown.items EXCEPT ![v] = 0]
  OBVIOUS
<1>5. PICK b : b = IF left = Nothing THEN Empty ELSE Of(old.shown.store, left)
  OBVIOUS
<1>6. PICK page : page = [old EXCEPT !.shown = b, !.stubs = @ \ {v}]
  OBVIOUS
<1>7. page.auth = old.auth /\ page.buying = old.buying /\ page.shown = b
  BY <1>6 DEF GoodPage, Tab
<1>8. SetTab(t, page)
  BY <1>1, <1>4, <1>5, <1>6 DEF RemoveItem
<1>9. CASE old.auth
  <2>1. PICK c \in Free : Send(c, [Request("remove", t) EXCEPT !.variants = {v}, !.stubs = old.stubs])
    BY <1>1, <1>9 DEF RemoveItem
  <2>2. PICK q \in Call : q = Request("remove", t) /\ q.kind = "remove" /\ q.live /\ q.phase = "sent" /\ q.tab = t
    BY RequestIs
  <2>3. PICK r : r = [q EXCEPT !.variants = {v}, !.stubs = old.stubs]
    OBVIOUS
  <2>4. r.kind = "remove" /\ r.live /\ r.phase = "sent" /\ r.tab = t /\ r.variants = {v}
    BY <2>2, <2>3 DEF Call
  <2>5. ASSUME page.buying = "no" PROVE Served([server.qty EXCEPT ![v] = 0], b)
    <3>1. old.shown.items = ItemsOf(old.shown.store, server.qty)
      BY <1>3, <1>7, <1>9, <2>5 DEF Fresh, Served
    <3>2. PICK qty : qty = [server.qty EXCEPT ![v] = 0]
      OBVIOUS
    <3>3. server.qty \in [Variants -> 0..MaxQty]
      BY ServerIs
    <3>4. left = ItemsOf(old.shown.store, qty)
      BY <1>4, <3>1, <3>2, <3>3 DEF ItemsOf
    <3>5. Served(qty, Of(old.shown.store, left))
      BY <3>4 DEF Served, Of
    <3> QED BY <1>5, <3>2, <3>5, EmptyIsServed
  <2>6. Awaits(server.qty, r, page)
    BY <1>7, <2>4, <2>5 DEF Awaits
  <2>7. c \in Calls /\ InFlight \subseteq {c} /\ Send(c, r)
    BY <1>3, <2>1, <2>2, <2>3 DEF Free
  <2> QED BY <1>2, <1>3, <1>8, <2>4, <2>6, <2>7, StepIsSmooth
<1>10. CASE ~old.auth
  <2>1. UNCHANGED call
    BY <1>1, <1>10 DEF RemoveItem
  <2>2. Fresh(server.qty, page)
    BY <1>7, <1>10 DEF Fresh
  <2> QED BY <1>2, <1>3, <1>8, <2>1, <2>2, QuietStepIsSmooth
<1> QED BY <1>9, <1>10

LEMMA ConfirmCrossStoreClearIsSmooth ==
  ASSUME ShopInv, SmoothInv, smooth', NEW t \in Tabs, ConfirmCrossStoreClear(t)
  PROVE  SmoothInv'
<1>1. PICK old \in GoodPage : old = tab[t]
  BY DEF ShopInv
<1>2. PICK page : page = [old EXCEPT !.shown = Empty, !.stubs = {}, !.pending = {}]
  OBVIOUS
<1>3. PICK v : v = CHOOSE x \in old.pending : TRUE
  OBVIOUS
<1>4. Act(t) /\ UNCHANGED server /\ old.pending # {}
  BY <1>1 DEF ConfirmCrossStoreClear
<1>5. InFlight = {} /\ Lone(t)
  BY <1>4, ActAlone
<1>6. page \in GoodPage /\ page.shown = Empty /\ v \in Variants
  <2>1. page \in Tab /\ page.shown = Empty
    BY <1>2, EmptyIsGood DEF GoodPage, Tab, GoodBasket
  <2>2. old.pending \in SUBSET Variants
    BY DEF GoodPage, Tab
  <2> QED BY <1>3, <1>4, <2>1, <2>2, EmptyIsGood DEF GoodPage
<1>7. CASE page.auth
  <2>1. PICK r : r = OfItems("clear", t, old.other, {v})
    OBVIOUS
  <2>2. PICK c \in Free : SetTab(t, page) /\ Send(c, r)
    BY <1>1, <1>2, <1>3, <1>7, <2>1 DEF ConfirmCrossStoreClear, OfItems
  <2>3. PICK q \in Call : q = Request("clear", t) /\ q.kind = "clear" /\ q.live /\ q.phase = "sent" /\ q.tab = t
    BY RequestIs
  <2>4. r = [q EXCEPT !.store = old.other, !.variants = {v}]
    BY <2>1, <2>3 DEF OfItems
  <2>5. r.kind = "clear" /\ r.live /\ r.tab = t
    BY <2>3, <2>4 DEF Call
  <2>6. Awaits(server.qty, r, page)
    BY <1>6, <2>5 DEF Awaits
  <2>7. c \in Calls /\ InFlight \subseteq {c}
    BY <1>5 DEF Free
  <2> QED BY <1>4, <1>5, <2>2, <2>5, <2>6, <2>7, StepIsSmooth
<1>8. CASE ~page.auth
  <2>1. PICK c \in Free : AddItem(c, t, page, v)
    BY <1>1, <1>2, <1>3, <1>8 DEF ConfirmCrossStoreClear
  <2>2. c \in Calls /\ InFlight \subseteq {c} /\ Fresh(server.qty, page)
    BY <1>5, <1>8 DEF Free, Fresh
  <2> QED BY <1>4, <1>5, <1>6, <2>1, <2>2, AddItemIsSmooth
<1> QED BY <1>7, <1>8

LEMMA DismissConflictIsSmooth ==
  ASSUME ShopInv, SmoothInv, smooth', NEW t \in Tabs, DismissConflict(t)
  PROVE  SmoothInv'
<1>1. PICK old \in GoodPage : old = tab[t]
  BY DEF ShopInv
<1>2. PICK page : page = [old EXCEPT !.pending = {}]
  OBVIOUS
<1>3. page.auth = old.auth /\ page.buying = old.buying /\ page.shown = old.shown
  BY <1>2 DEF GoodPage, Tab
<1>4. Act(t) /\ SetTab(t, page) /\ UNCHANGED <<call, server>>
  BY <1>1, <1>2 DEF DismissConflict
<1>5. InFlight = {} /\ Lone(t) /\ Fresh(server.qty, old)
  BY <1>1, <1>4, ActAlone
<1>6. Fresh(server.qty, page)
  BY <1>3, <1>5 DEF Fresh
<1> QED BY <1>4, <1>5, <1>6, QuietStepIsSmooth

LEMMA PlaceOrderIsSmooth ==
  ASSUME ShopInv, SmoothInv, smooth', NEW t \in Tabs, PlaceOrder(t)
  PROVE  SmoothInv'
<1>1. PICK page : page = [tab[t] EXCEPT !.buying = "placing"]
  OBVIOUS
<1>2. Act(t) /\ SetTab(t, page) /\ UNCHANGED server
      /\ \E c \in Free : Send(c, [Request("checkout", t) EXCEPT !.store = tab[t].shown.store])
  BY <1>1 DEF PlaceOrder
<1>3. InFlight = {} /\ Lone(t)
  BY <1>2, ActAlone
<1>4. PICK q \in Call : q = Request("checkout", t) /\ q.kind = "checkout" /\ q.live /\ q.phase = "sent" /\ q.tab = t
  BY RequestIs
<1>5. PICK r : r = [q EXCEPT !.store = tab[t].shown.store]
  OBVIOUS
<1>6. r.kind = "checkout" /\ r.live /\ r.phase = "sent" /\ r.tab = t
  BY <1>4, <1>5 DEF Call
<1>7. Awaits(server.qty, r, page)
  BY <1>6 DEF Awaits
<1>8. PICK c \in Calls : InFlight \subseteq {c} /\ Send(c, r)
  BY <1>2, <1>3, <1>4, <1>5 DEF Free
<1> QED BY <1>2, <1>3, <1>6, <1>7, <1>8, StepIsSmooth

LEMMA ClearCartIsSmooth ==
  ASSUME ShopInv, NEW c \in Calls, InFlight \subseteq {c}, NEW t \in Tabs, Lone(t),
         ClearCart(c, t), UNCHANGED server
  PROVE  SmoothInv'
<1>1. PICK old \in GoodPage : old = tab[t]
  BY DEF ShopInv
<1>2. PICK page : page = [old EXCEPT !.shown = Empty, !.stubs = {}, !.buying = "no"]
  OBVIOUS
<1>3. page.shown = Empty
  BY <1>2 DEF GoodPage, Tab
<1>4. CASE old.auth
  <2>1. PICK q \in Call : q = Request("clear", t) /\ q.kind = "clear" /\ q.live /\ q.phase = "sent" /\ q.tab = t
    BY RequestIs
  <2>2. PICK r : r = [q EXCEPT !.store = old.shown.store]
    OBVIOUS
  <2>3. r.kind = "clear" /\ r.live /\ r.tab = t
    BY <2>1, <2>2 DEF Call
  <2>4. Awaits(server.qty, r, page)
    BY <1>3, <2>3 DEF Awaits
  <2>5. SetTab(t, page) /\ Send(c, r)
    BY <1>1, <1>2, <1>4, <2>1, <2>2 DEF ClearCart
  <2> QED BY <2>3, <2>4, <2>5, StepIsSmooth
<1>5. CASE ~old.auth
  <2>1. SetTab(t, page) /\ Send(c, NoCall)
    BY <1>1, <1>2, <1>5 DEF ClearCart
  <2>2. Fresh(server.qty, page)
    BY <1>3, EmptyIsServed DEF Fresh
  <2> QED BY <2>1, <2>2, NoCallIsGood, StepIsSmooth
<1> QED BY <1>4, <1>5

LEMMA PaymentDoneIsSmooth ==
  ASSUME ShopInv, SmoothInv, smooth', NEW t \in Tabs, PaymentDone(t)
  PROVE  SmoothInv'
<1>1. Act(t) /\ UNCHANGED server /\ \E c \in Free : ClearCart(c, t)
  BY DEF PaymentDone
<1>2. InFlight = {} /\ Lone(t)
  BY <1>1, ActAlone
<1>3. PICK c \in Calls : ClearCart(c, t) /\ InFlight \subseteq {c}
  BY <1>1, <1>2 DEF Free
<1> QED BY <1>1, <1>2, <1>3, ClearCartIsSmooth

\* With nothing else under way a reload leaves nothing but the question who the user is.
LEMMA ReloadIsSmooth ==
  ASSUME ShopInv, NEW c \in Calls, InFlight \subseteq {c}, NEW t \in Tabs, Lone(t),
         Reload(c, t), UNCHANGED server
  PROVE  SmoothInv'
<1>1. PICK r : r = Request("me", t) /\ r.kind = "me" /\ r.live /\ r.phase = "sent" /\ r.tab = t
  BY RequestIs
<1>2. call'[c] = r /\ tab'[t] = NewPage /\ \A u \in Tabs \ {t} : tab'[u] = tab[u]
  BY <1>1 DEF Reload, SetTab, ShopInv
<1>3. ASSUME NEW d \in Calls \ {c}
      PROVE  call'[d].kind = "none"
  <2>1. PICK o \in Call : o = call[d] /\ o.kind = "none"
    BY DEF ShopInv, GoodCall, InFlight
  <2>2. PICK dead : dead = [o EXCEPT !.live = FALSE]
    OBVIOUS
  <2>3. dead.kind = "none"
    BY <2>1, <2>2 DEF Call
  <2>4. call'[d] \in {o, dead, NoCall}
    BY <2>1, <2>2 DEF Reload
  <2> QED BY <2>1, <2>3, <2>4, NoCallIsGood
<1>4. InFlight' = {c}
  BY <1>1, <1>2, <1>3 DEF InFlight
<1>5. ~NewPage.auth
  BY DEF NewPage
<1>6. Awaits(server.qty, r, NewPage)
  BY <1>1, <1>5 DEF Awaits
<1>7. Lone(t)'
  BY <1>2 DEF Lone
<1> QED BY <1>1, <1>2, <1>4, <1>6, <1>7 DEF SmoothInv

LEMMA LoadIsSmooth ==
  ASSUME ShopInv, SmoothInv, smooth', NEW t \in Tabs, Load(t)
  PROVE  SmoothInv'
<1>1. InFlight = {} /\ Lone(t) /\ UNCHANGED server /\ \E c \in Free : Reload(c, t)
  BY DEF Load, Lone
<1>2. PICK c \in Calls : Reload(c, t) /\ InFlight \subseteq {c}
  BY <1>1 DEF Free
<1> QED BY <1>1, <1>2, ReloadIsSmooth

LEMMA SignInIsSmooth ==
  ASSUME ShopInv, SmoothInv, smooth', NEW t \in Tabs, SignIn(t)
  PROVE  SmoothInv'
<1>1. PICK page : page = [tab[t] EXCEPT !.auth = TRUE]
  OBVIOUS
<1>2. Act(t) /\ UNCHANGED server /\ \E c \in Free : MergeGuestCart(c, t, page)
  BY <1>1 DEF SignIn
<1>3. InFlight = {} /\ Lone(t)
  BY <1>2, ActAlone
<1>4. PICK c \in Calls : MergeGuestCart(c, t, page) /\ InFlight \subseteq {c}
  BY <1>2, <1>3 DEF Free
<1> QED BY <1>2, <1>3, <1>4, MergeGuestCartIsSmooth

LEMMA SignOutIsSmooth ==
  ASSUME ShopInv, SmoothInv, smooth', NEW t \in Tabs, SignOut(t)
  PROVE  SmoothInv'
<1>1. PICK page : page = [tab[t] EXCEPT !.auth = FALSE]
  OBVIOUS
<1>2. PICK r : r = Request("logout", t) /\ r.kind = "logout" /\ r.live /\ r.phase = "sent" /\ r.tab = t
  BY RequestIs
<1>3. Act(t) /\ UNCHANGED server /\ SetTab(t, page) /\ \E c \in Free : Send(c, r)
  BY <1>1, <1>2 DEF SignOut
<1>4. InFlight = {} /\ Lone(t)
  BY <1>3, ActAlone
<1>5. PICK c \in Calls : Send(c, r) /\ InFlight \subseteq {c}
  BY <1>3, <1>4 DEF Free
<1>6. Awaits(server.qty, r, page)
  BY <1>2 DEF Awaits
<1> QED BY <1>2, <1>3, <1>4, <1>5, <1>6, StepIsSmooth

\* What the page makes of an answer.
LEMMA SettleAlone ==
  ASSUME ShopInv, SmoothInv, smooth, NEW c \in Calls, call[c].kind # "none"
  PROVE  /\ InFlight = {c} /\ call[c].tab \in Tabs /\ Lone(call[c].tab)
         /\ tab[call[c].tab] \in GoodPage
         /\ Awaits(server.qty, call[c], tab[call[c].tab])
BY Alone, CallIs DEF InFlight

LEMMA KnowUserIsSmooth ==
  ASSUME ShopInv, SmoothInv, smooth', NEW c \in Calls, KnowUser(c)
  PROVE  SmoothInv'
<1>1. smooth /\ UNCHANGED server /\ call[c].kind = "me"
  BY DEF KnowUser
<1>2. PICK t \in Tabs : /\ t = call[c].tab /\ InFlight = {c} /\ Lone(t) /\ tab[t] \in GoodPage
                        /\ Awaits(server.qty, call[c], tab[t])
  BY <1>1, SettleAlone
<1>3. CASE call[c].phase = "served"
  <2>1. MergeGuestCart(c, t, [tab[t] EXCEPT !.boot = "cart", !.auth = TRUE])
    BY <1>2, <1>3 DEF KnowUser
  <2> QED BY <1>1, <1>2, <2>1, MergeGuestCartIsSmooth
<1>4. CASE call[c].phase # "served"
  <2>1. PICK page : page = [tab[t] EXCEPT !.boot = "ready", !.shown = storage.basket,
                              !.stubs = {v \in Variants : storage.basket.items[v] > 0}]
    OBVIOUS
  <2>2. SetTab(t, page) /\ Send(c, NoCall)
    BY <1>2, <1>4, <2>1 DEF KnowUser, Hydrate
  <2>3. PICK old \in GoodPage : old = tab[t]
    BY <1>2
  <2>4. page.auth = old.auth
    BY <2>1, <2>3 DEF GoodPage, Tab
  <2>5. Fresh(server.qty, page)
    BY <1>1, <1>2, <2>3, <2>4 DEF Awaits, Fresh
  <2> QED BY <1>1, <1>2, <2>2, <2>5, NoCallIsGood, StepIsSmooth
<1> QED BY <1>3, <1>4

LEMMA LoggedOutIsSmooth ==
  ASSUME ShopInv, SmoothInv, smooth', NEW c \in Calls, call[c].phase # "sent", LoggedOut(c)
  PROVE  SmoothInv'
<1>1. smooth /\ UNCHANGED server /\ call[c].kind = "logout"
  BY DEF LoggedOut
<1>2. PICK t \in Tabs : t = call[c].tab /\ InFlight = {c} /\ Lone(t) /\ Awaits(server.qty, call[c], tab[t])
  BY <1>1, SettleAlone
<1>3. call[c].phase = "served"
  BY <1>1, <1>2 DEF Awaits
<1>4. Reload(c, t)
  BY <1>2, <1>3 DEF LoggedOut
<1> QED BY <1>1, <1>2, <1>4, ReloadIsSmooth

LEMMA SyncedIsFresh ==
  ASSUME NEW qty, NEW page \in GoodPage, NEW b, Served(qty, b)
  PROVE  Fresh(qty, Synced(page, b))
<1>1. Synced(page, b).shown = b
  BY DEF Synced, GoodPage, Tab
<1> QED BY <1>1 DEF Fresh

LEMMA AddedIsSmooth ==
  ASSUME ShopInv, SmoothInv, smooth', NEW c \in Calls, call[c].phase # "sent", Added(c)
  PROVE  SmoothInv'
<1>1. smooth /\ UNCHANGED server /\ call[c].kind = "add"
  BY DEF Added
<1>2. PICK r \in GoodCall : r = call[c]
  BY CallIs
<1>3. PICK t \in Tabs : /\ t = r.tab /\ InFlight = {c} /\ Lone(t) /\ tab[t] \in GoodPage
                        /\ Awaits(server.qty, r, tab[t])
  BY <1>1, <1>2, SettleAlone
<1>4. PICK page \in GoodPage : page = tab[t]
  BY <1>3
<1>5. PICK back : back = [page EXCEPT !.shown = r.for, !.stubs = r.stubs]
  OBVIOUS
<1>6. back.auth = page.auth /\ back.buying = page.buying /\ back.shown = r.for
  BY <1>5 DEF GoodPage, Tab
<1>7. /\ r.kind = "add" /\ r.phase # "sent" /\ r.phase # "expired"
      /\ r.phase = "served" => Served(server.qty, r.answer)
      /\ (r.phase # "served" /\ page.buying = "no") => Served(server.qty, r.for)
  BY <1>1, <1>2, <1>3, <1>4 DEF Awaits
<1>8. CASE r.phase = "served"
  <2>1. SetTab(t, Synced(page, r.answer)) /\ Send(c, NoCall)
    BY <1>2, <1>3, <1>4, <1>8 DEF Added
  <2> QED BY <1>1, <1>3, <1>7, <1>8, <2>1, SyncedIsFresh, NoCallIsGood, StepIsSmooth
<1>9. CASE r.phase # "served"
  <2>1. Fresh(server.qty, back)
    BY <1>6, <1>7, <1>9 DEF Fresh
  <2>2. PICK v : v = CHOOSE x \in r.variants : TRUE
    OBVIOUS
  <2>3. PICK ask : ask = Asking(back, v, r.answer.store)
    OBVIOUS
  <2>4. back \in GoodPage
    BY <1>2, <1>4, <1>5, CallIs DEF GoodPage, Tab, GoodBasket
  <2>5. ask.auth = back.auth /\ ask.buying = back.buying /\ ask.shown = back.shown
    BY <2>3, <2>4 DEF Asking, GoodPage, Tab
  <2>6. Fresh(server.qty, ask)
    BY <2>1, <2>5 DEF Fresh
  <2>7. (SetTab(t, ask) \/ SetTab(t, back)) /\ Send(c, NoCall)
    BY <1>2, <1>3, <1>4, <1>5, <1>7, <1>9, <2>2, <2>3 DEF Added
  <2> QED BY <1>1, <1>3, <2>1, <2>6, <2>7, NoCallIsGood, StepIsSmooth
<1> QED BY <1>8, <1>9

LEMMA AnsweredIsSmooth ==
  ASSUME ShopInv, SmoothInv, smooth', NEW c \in Calls, call[c].phase # "sent", Answered(c)
  PROVE  SmoothInv'
<1>1. smooth /\ UNCHANGED server /\ call[c].kind \in {"get", "update", "remove", "merge"}
  BY DEF Answered
<1>2. PICK r \in GoodCall : r = call[c]
  BY CallIs
<1>3. PICK t \in Tabs : /\ t = r.tab /\ InFlight = {c} /\ Lone(t) /\ tab[t] \in GoodPage
                        /\ Awaits(server.qty, r, tab[t])
  BY <1>1, <1>2, SettleAlone
<1>4. PICK old \in GoodPage : old = tab[t]
  BY <1>3
<1>5. PICK page : page = [old EXCEPT !.boot = "ready"]
  OBVIOUS
<1>6. page \in GoodPage /\ page.auth = old.auth /\ page.buying = old.buying /\ page.shown = old.shown
  BY <1>5 DEF GoodPage, Tab
<1>7. r.phase = "served"
  BY <1>1, <1>2, <1>3 DEF Awaits
<1>8. CASE r.kind # "remove"
  <2>1. SetTab(t, Synced(page, r.answer)) /\ Send(c, NoCall)
    BY <1>2, <1>3, <1>4, <1>5, <1>7, <1>8 DEF Answered
  <2>2. Served(server.qty, r.answer)
    BY <1>1, <1>2, <1>3, <1>7, <1>8 DEF Awaits
  <2> QED BY <1>1, <1>3, <1>6, <2>1, <2>2, SyncedIsFresh, NoCallIsGood, StepIsSmooth
<1>9. CASE r.kind = "remove"
  <2>1. SetTab(t, page) /\ Send(c, NoCall)
    BY <1>2, <1>3, <1>4, <1>5, <1>7, <1>9 DEF Answered
  <2>2. Fresh(server.qty, page)
    BY <1>3, <1>4, <1>6, <1>7, <1>9 DEF Awaits, Fresh
  <2> QED BY <1>1, <1>3, <2>1, <2>2, NoCallIsGood, StepIsSmooth
<1> QED BY <1>8, <1>9

LEMMA ClearedIsSmooth ==
  ASSUME ShopInv, SmoothInv, smooth', NEW c \in Calls, Cleared(c)
  PROVE  SmoothInv'
<1>1. smooth /\ UNCHANGED server /\ call[c].kind = "clear"
  BY DEF Cleared
<1>2. PICK t \in Tabs : /\ t = call[c].tab /\ InFlight = {c} /\ Lone(t) /\ tab[t] \in GoodPage
                        /\ Awaits(server.qty, call[c], tab[t])
  BY <1>1, SettleAlone
<1>3. Fresh(server.qty, tab[t])
  BY <1>1, <1>2, EmptyIsServed DEF Awaits, Fresh
<1>4. CASE call[c].variants # {}
  <2>1. PICK v \in Variants : v = CHOOSE x \in call[c].variants : TRUE
    BY <1>4, CallIs
  <2>2. AddItem(c, t, tab[t], v)
    BY <1>2, <1>4, <2>1 DEF Cleared
  <2> QED BY <1>1, <1>2, <1>3, <2>1, <2>2, AddItemIsSmooth
<1>5. CASE call[c].variants = {}
  <2>1. UNCHANGED tab /\ Send(c, NoCall)
    BY <1>5 DEF Cleared
  <2>2. SetTab(t, tab[t])
    BY <2>1 DEF SetTab, ShopInv
  <2> QED BY <1>1, <1>2, <1>3, <2>1, <2>2, NoCallIsGood, StepIsSmooth
<1> QED BY <1>4, <1>5

LEMMA OrderAnsweredIsSmooth ==
  ASSUME ShopInv, SmoothInv, smooth', NEW c \in Calls, call[c].phase # "sent", OrderAnswered(c)
  PROVE  SmoothInv'
<1>1. smooth /\ UNCHANGED server /\ call[c].kind = "checkout"
  BY DEF OrderAnswered
<1>2. PICK t \in Tabs : /\ t = call[c].tab /\ InFlight = {c} /\ Lone(t) /\ tab[t] \in GoodPage
                        /\ Awaits(server.qty, call[c], tab[t])
  BY <1>1, SettleAlone
<1>3. call[c].phase = "served"
  BY <1>1, <1>2 DEF Awaits
<1>4. PICK old \in GoodPage : old = tab[t]
  BY <1>2
<1>5. PICK page : page = [old EXCEPT !.buying = "no"]
  OBVIOUS
<1>6. PICK paying : paying = [page EXCEPT !.buying = "paying"]
  OBVIOUS
<1>7. ClearCart(c, t) \/ (SetTab(t, paying) /\ Send(c, NoCall))
  BY <1>2, <1>3, <1>4, <1>5, <1>6 DEF OrderAnswered
<1>8. paying.buying = "paying"
  BY <1>5, <1>6 DEF GoodPage, Tab
<1>9. Fresh(server.qty, paying)
  BY <1>8 DEF Fresh
<1> QED BY <1>1, <1>2, <1>7, <1>9, ClearCartIsSmooth, NoCallIsGood, StepIsSmooth

\* What the API makes of the call.
LEMMA ReplyIsSmooth ==
  ASSUME ShopInv, SmoothInv, smooth, NEW c \in InFlight, UNCHANGED tab, NEW phase, NEW b,
         Reply(c, phase, b),
         \A done : (/\ done.kind = call[c].kind /\ done.live /\ done.for = call[c].for
                    /\ done.variants = call[c].variants /\ done.phase = phase /\ done.answer = b)
                   => Awaits(server'.qty, done, tab[call[c].tab])
  PROVE  SmoothInv'
<1>1. PICK r \in Call : r = call[c]
  BY DEF ShopInv, GoodCall, InFlight
<1>2. InFlight = {c} /\ Lone(r.tab) /\ r.live /\ r.kind # "none" /\ c \in Calls
  BY <1>1, Alone DEF Awaits, InFlight
<1>3. PICK done : done = [r EXCEPT !.phase = phase, !.answer = b]
  OBVIOUS
<1>4. /\ done.kind = r.kind /\ done.live /\ done.for = r.for /\ done.tab = r.tab
      /\ done.variants = r.variants /\ done.phase = phase /\ done.answer = b
  BY <1>2, <1>3 DEF Call
<1>5. Send(c, done)
  BY <1>1, <1>2, <1>3 DEF Reply
<1>6. call'[c] = done /\ \A d \in Calls \ {c} : call'[d] = call[d] /\ call[d].kind = "none"
  BY <1>2, <1>5 DEF Send, ShopInv, InFlight
<1>7. InFlight' = {c}
  BY <1>2, <1>4, <1>6 DEF InFlight
<1>8. Awaits(server'.qty, done, tab[r.tab])
  BY <1>1, <1>4
<1>9. Lone(r.tab)'
  BY <1>2 DEF Lone
<1> QED BY <1>4, <1>6, <1>7, <1>8, <1>9 DEF SmoothInv

LEMMA WithCartHas ==
  ASSUME NEW s, NEW qty
  PROVE  WithCart(s, qty).qty = qty /\ \A x : [WithCart(s, qty) EXCEPT !.merged = x].qty = qty
BY DEF WithCart

\* A call that is answered with a cart as the API has it from then on.
LEMMA ServedIsSmooth ==
  ASSUME ShopInv, SmoothInv, smooth, NEW c \in InFlight, UNCHANGED tab, NEW b,
         call[c].kind \in {"get", "update", "merge", "add"},
         Reply(c, "served", b), Served(server'.qty, b)
  PROVE  SmoothInv'
<1>1. ASSUME NEW done, done.kind = call[c].kind, done.live, done.phase = "served", done.answer = b
      PROVE  Awaits(server'.qty, done, tab[call[c].tab])
  BY <1>1 DEF Awaits
<1> QED BY <1>1, ReplyIsSmooth

LEMMA ServeGetIsSmooth ==
  ASSUME ShopInv, SmoothInv, smooth, NEW c \in InFlight, UNCHANGED tab, ServeGet(c)
  PROVE  SmoothInv'
<1>1. UNCHANGED server /\ call[c].kind = "get"
  BY DEF ServeGet
<1>2. \/ Reply(c, "served", Empty)
      \/ \E x : Reply(c, "served", CartOf(x, server.qty))
  BY DEF ServeGet
<1>3. PICK b : Reply(c, "served", b) /\ Served(server.qty, b)
  BY <1>2, EmptyIsServed, CartOfIsServed
<1> QED BY <1>1, <1>3, ServedIsSmooth

LEMMA ServeAddIsSmooth ==
  ASSUME ShopInv, SmoothInv, smooth, NEW c \in InFlight, call[c].phase = "sent", UNCHANGED tab, ServeAdd(c)
  PROVE  SmoothInv'
<1>1. call[c].kind = "add" /\ Awaits(server.qty, call[c], tab[call[c].tab])
  BY Alone DEF ServeAdd
<1>2. PICK v : v = CHOOSE x \in call[c].variants : TRUE
  OBVIOUS
<1>3. PICK qty : qty = [server.qty EXCEPT ![v] = @ + 1]
  OBVIOUS
<1>4. \/ \E x : Reply(c, "conflict", Of(x, Nothing)) /\ UNCHANGED server
      \/ server' = WithCart(StoreOf[v], qty) /\ Reply(c, "served", CartOf(StoreOf[v], qty))
      \/ server' = WithCart(StoreOf[v], server.qty) /\ Reply(c, "failed", Empty)
  BY <1>2, <1>3 DEF ServeAdd
<1>5. CASE server' = WithCart(StoreOf[v], qty) /\ Reply(c, "served", CartOf(StoreOf[v], qty))
  <2>1. Served(server'.qty, CartOf(StoreOf[v], qty))
    BY <1>5, WithCartHas, CartOfIsServed
  <2> QED BY <1>1, <1>5, <2>1, ServedIsSmooth
<1>6. ASSUME NEW phase \in {"conflict", "failed"}, NEW b, Reply(c, phase, b), server'.qty = server.qty
      PROVE  SmoothInv'
  <2>1. ASSUME NEW done, done.kind = call[c].kind, done.live, done.phase = phase, done.for = call[c].for
        PROVE  Awaits(server'.qty, done, tab[call[c].tab])
    BY <1>1, <1>6, <2>1 DEF Awaits
  <2> QED BY <1>6, <2>1, ReplyIsSmooth
<1>7. CASE \E x : Reply(c, "conflict", Of(x, Nothing)) /\ UNCHANGED server
  BY <1>6, <1>7
<1>8. CASE server' = WithCart(StoreOf[v], server.qty) /\ Reply(c, "failed", Empty)
  BY <1>6, <1>8, WithCartHas
<1> QED BY <1>4, <1>5, <1>7, <1>8

\* A removed item is gone from the API's cart as it is from the page.
LEMMA ServeItemIsSmooth ==
  ASSUME ShopInv, SmoothInv, smooth, NEW c \in InFlight, call[c].phase = "sent", UNCHANGED tab, ServeItem(c)
  PROVE  SmoothInv'
<1>1. call[c].kind \in {"update", "remove"} /\ Awaits(server.qty, call[c], tab[call[c].tab])
  BY Alone DEF ServeItem
<1>2. PICK v : v = CHOOSE x \in call[c].variants : TRUE
  OBVIOUS
<1>3. PICK qty : qty = [server.qty EXCEPT ![v] = IF call[c].kind = "update" THEN call[c].for.items[v] ELSE 0]
  OBVIOUS
<1>4. server' = [server EXCEPT !.qty = qty] /\ Reply(c, "served", CartOf(StoreOf[v], qty))
  BY <1>2, <1>3 DEF ServeItem
<1>5. server'.qty = qty
  BY <1>4, ServerIs DEF Server
<1>6. CASE call[c].kind = "update"
  <2>1. Served(server'.qty, CartOf(StoreOf[v], qty))
    BY <1>5, CartOfIsServed
  <2> QED BY <1>4, <1>6, <2>1, ServedIsSmooth
<1>7. CASE call[c].kind = "remove"
  <2>1. ASSUME tab[call[c].tab].buying = "no" PROVE Served(server'.qty, tab[call[c].tab].shown)
    <3>1. PICK w \in call[c].variants : call[c].variants = {w}
            /\ Served([server.qty EXCEPT ![w] = 0], tab[call[c].tab].shown)
      BY <1>1, <1>7, <2>1 DEF Awaits
    <3>2. w = v
      BY <1>2, <3>1
    <3> QED BY <1>3, <1>5, <1>7, <3>1, <3>2
  <2>2. ASSUME NEW done, done.kind = call[c].kind, done.live, done.phase = "served"
        PROVE  Awaits(server'.qty, done, tab[call[c].tab])
    BY <1>7, <2>1, <2>2 DEF Awaits
  <2> QED BY <1>4, <2>2, ReplyIsSmooth
<1> QED BY <1>1, <1>6, <1>7

LEMMA ServeIsSmooth ==
  ASSUME ShopInv, SmoothInv, smooth', NEW c \in Calls, Serve(c)
  PROVE  SmoothInv'
<1>1. UNCHANGED <<tab, smooth>> /\ smooth /\ call[c].phase = "sent"
  BY DEF Serve
<1>2. ASSUME call[c].kind # "none" PROVE c \in InFlight
  BY <1>2 DEF InFlight
<1>3. CASE ServeGet(c) \/ ServeAdd(c) \/ ServeItem(c)
  BY <1>1, <1>2, <1>3, ServeGetIsSmooth, ServeAddIsSmooth, ServeItemIsSmooth
     DEF ServeGet, ServeAdd, ServeItem
<1>4. CASE ServeMerge(c)
  <2>1. PICK qty : server'.qty = qty /\ Reply(c, "served", CartOf(call[c].store, qty))
    BY <1>4, WithCartHas DEF ServeMerge
  <2>2. Served(server'.qty, CartOf(call[c].store, qty)) /\ call[c].kind = "merge"
    BY <1>4, <2>1, CartOfIsServed DEF ServeMerge
  <2> QED BY <1>1, <1>2, <2>1, <2>2, ServedIsSmooth
<1>5. CASE ServeClear(c) \/ ServeCheckout(c) \/ (call[c].kind = "me" /\ Reply(c, "served", Empty))
  <2>1. call[c].kind \in {"clear", "checkout", "me"} /\ Reply(c, "served", Empty)
    BY <1>5 DEF ServeClear, ServeCheckout
  <2>2. c \in InFlight /\ Awaits(server.qty, call[c], tab[call[c].tab])
    BY <1>1, <1>2, <2>1, Alone
  <2>3. ASSUME NEW done, done.kind = call[c].kind, done.live, done.phase = "served"
        PROVE  Awaits(server'.qty, done, tab[call[c].tab])
    BY <2>1, <2>2, <2>3 DEF Awaits
  <2> QED BY <1>1, <2>1, <2>2, <2>3, ReplyIsSmooth
<1> QED BY <1>3, <1>4, <1>5 DEF Serve

\* A 401 is no trouble while the page asks who the user is.
LEMMA UnservedIsSmooth ==
  ASSUME ShopInv, SmoothInv, smooth', NEW c \in Calls, ServeLogout(c) \/ Reject(c) \/ Fail(c)
  PROVE  SmoothInv'
<1>1. ~Fail(c)
  BY DEF Fail
<1>2. PICK phase : /\ Reply(c, phase, Empty) /\ UNCHANGED <<tab, server>> /\ smooth
                   /\ \/ call[c].kind = "logout" /\ phase = "served"
                      \/ call[c].kind = "me" /\ phase = "expired"
  BY <1>1 DEF ServeLogout, Reject
<1>3. c \in InFlight /\ Awaits(server.qty, call[c], tab[call[c].tab])
  BY <1>2, Alone DEF InFlight
<1>4. ASSUME NEW done, done.kind = call[c].kind, done.live, done.phase = phase
      PROVE  Awaits(server'.qty, done, tab[call[c].tab])
  BY <1>2, <1>3, <1>4 DEF Awaits
<1> QED BY <1>2, <1>3, <1>4, ReplyIsSmooth

LEMMA SmoothInit == Init => SmoothInv
<1>1. ASSUME Init PROVE InFlight = {} /\ \A t \in Tabs : tab[t].boot = "closed"
  BY <1>1, NoCallIsGood DEF Init, InFlight, Closed, NewPage
<1> QED BY <1>1 DEF SmoothInv

LEMMA SmoothStep == ShopInv /\ SmoothInv /\ [Next]_vars => SmoothInv'
<1>1. SUFFICES ASSUME ShopInv, SmoothInv, [Next]_vars, smooth' PROVE SmoothInv'
  BY DEF SmoothInv
<1>2. ASSUME UNCHANGED <<tab, call, server, smooth>> PROVE SmoothInv'
  <2>1. InFlight' = InFlight /\ (\A t : Lone(t)' <=> Lone(t))
    BY <1>2 DEF InFlight, Lone
  <2>2. InFlight = {} => \A t \in Tabs : tab[t].boot = "ready" => Fresh(server.qty, tab[t])
    BY <1>1, <1>2 DEF SmoothInv
  <2>3. ASSUME NEW c \in InFlight
        PROVE  InFlight = {c} /\ Lone(call[c].tab) /\ Awaits(server.qty, call[c], tab[call[c].tab])
    BY <1>1, <1>2, <2>3 DEF SmoothInv
  <2> QED BY <1>2, <2>1, <2>2, <2>3 DEF SmoothInv
<1>3. CASE UNCHANGED vars \/ SessionExpires \/ CopyExpires
  BY <1>2, <1>3 DEF vars, SessionExpires, CopyExpires
<1>4. ASSUME NEW t \in Tabs, Browse(t) PROVE SmoothInv'
  <2>1. ~GiveUpPayment(t)
    BY <1>1 DEF GiveUpPayment
  <2> QED BY <1>1, <1>4, <2>1, LoadIsSmooth, SignInIsSmooth, SignOutIsSmooth, AddIsSmooth, RemoveItemIsSmooth,
             UpdateQuantityIsSmooth, ConfirmCrossStoreClearIsSmooth, DismissConflictIsSmooth,
             PlaceOrderIsSmooth, PaymentDoneIsSmooth DEF Browse
<1>5. ASSUME NEW c \in Calls, Settle(c) PROVE SmoothInv'
  BY <1>1, <1>5, KnowUserIsSmooth, LoggedOutIsSmooth, AddedIsSmooth, AnsweredIsSmooth, ClearedIsSmooth,
     OrderAnsweredIsSmooth DEF Settle
<1>6. ASSUME NEW c \in Calls, Serve(c) \/ ServeLogout(c) \/ Reject(c) \/ Fail(c) PROVE SmoothInv'
  BY <1>1, <1>6, ServeIsSmooth, UnservedIsSmooth
<1> QED BY <1>1, <1>3, <1>4, <1>5, <1>6 DEF Next

\* Where nothing went wrong and nothing overlapped, a customer's page shows the cart that the
\* API has of that store: what an order would be made of is what is on the screen.
THEOREM PagesShowTheServedCart == Spec => []ShownIsServed
<1>1. ASSUME SmoothInv PROVE ShownIsServed
  BY <1>1 DEF SmoothInv, ShownIsServed, Fresh, Served
<1>2. Spec => []SmoothInv
  BY ShopInit, ShopStep, SmoothInit, SmoothStep, PTL DEF Spec
<1> QED BY <1>1, <1>2, PTL

-------------------------------------------------------------------------------
(* The console                                                             *)
(*                                                                         *)
(* The buttons of the store's orders page follow its screen, for every     *)
(* number of orders, tabs and calls, and however late lists and calls are. *)
(* Orders only move forward.  So whatever a list, an answer under way, the *)
(* drawer or a call has of an order is behind the order, and where a       *)
(* handler allows two statuses the one that was not shown is either behind *)
(* the shown one or not reached by an order of that kind.                  *)

CONSTANTS Orders, Views, Drawers, MaxCalls
VARIABLES order, takeaway, view, screen, loaded, list, fetching, calls, drawer

Console == INSTANCE OrderConsole WITH Tabs <- Views, tab <- view

-------------------------------------------------------------------------------
(* The console: its invariant *)

\* How far an order is.
Rank(s) ==
  CASE s = "NONE"             -> 0
    [] s = "PLACED"           -> 1
    [] s = "ACCEPTED"         -> 2
    [] s = "PREPARING"        -> 3
    [] s = "READY_FOR_PICKUP" -> 4
    [] s = "OUT_FOR_DELIVERY" -> 5
    [] OTHER                  -> 6

\* What f says of the orders is how they are, or were.
Behind(f) == \A o \in Orders : Rank(f[o]) <= Rank(order[o])

Rows      == [Orders -> Console!Status]
ReadPhase == [phase : {"read"}, data : Rows]

ConsoleCall ==
  [by : {"row", "drawer", "nobody"}, live : BOOLEAN, order : Orders, op : Console!Operations,
   seen : Console!Status, phase : {"sent", "done", "refused"}]

\* What is collected is never on its way.
OrderInv ==
  /\ order \in Rows /\ takeaway \in SUBSET Orders
  /\ \A o \in takeaway : order[o] # "OUT_FOR_DELIVERY"

ListInv ==
  /\ view \in Views /\ screen \in Views /\ list \in [Views -> Rows]
  /\ \A t \in Views : Behind(list[t])

FetchInv ==
  /\ fetching \in [Views -> {Console!Idle, Console!Sent} \cup ReadPhase]
  /\ \A t \in Views : fetching[t].phase = "read" => fetching[t] \in ReadPhase /\ Behind(fetching[t].data)

DrawerInv ==
  drawer # Console!Closed =>
    /\ drawer \in [order : Orders, status : Console!Status]
    /\ Rank(drawer.status) <= Rank(order[drawer.order])

\* A call was offered for the status it was pressed at.
CallOK(c) ==
  /\ c \in ConsoleCall /\ Rank(c.seen) <= Rank(order[c.order])
  /\ c.op \in Console!OfferedInDrawer(c.order, c.seen)

CallInv == \A c \in calls : CallOK(c)

ConsoleInv == OrderInv /\ ListInv /\ FetchInv /\ DrawerInv /\ CallInv

-------------------------------------------------------------------------------
(* The console: lemmas *)

\* A handler moves an order forward, and only dispatchOrder sends it on its way.
LEMMA MovesForward ==
  ASSUME NEW op \in Console!Operations, NEW s \in Console!AllowedFrom(op)
  PROVE  /\ s \in Console!Status /\ Console!Target(op) \in Console!Status
         /\ Rank(s) <= Rank(Console!Target(op))
         /\ Console!Target(op) = "OUT_FOR_DELIVERY" => op = "dispatch"
  BY
     DEF Console!Operations, Console!AllowedFrom, Console!Target, Rank, Console!Status,
         Console!OrderStatus, Console!OpenStatuses, Console!TerminalStatuses

\* Buttons are for operations, and dispatching is offered for deliveries only.
LEMMA OffersAreOperations ==
  ASSUME NEW o \in Orders, NEW s, NEW op \in Console!OfferedInDrawer(o, s)
  PROVE  op \in Console!Operations /\ (op = "dispatch" => o \notin takeaway)
  BY DEF Console!OfferedInDrawer, Console!Offered, Console!Operations

\* Ranks are numbers.
LEMMA RankType == \A s : Rank(s) \in 0..6
  BY DEF Rank

\* The buttons of a row are among those of the drawer.
LEMMA RowOffers == \A o, s : Console!Offered(o, s) \subseteq Console!OfferedInDrawer(o, s)
  BY DEF Console!OfferedInDrawer

\* When one order moves forward, all that is shown or sent stays behind the orders.
LEMMA ForwardKeepsInv ==
  ASSUME ConsoleInv, NEW o \in Orders, NEW s \in Console!Status, Rank(order[o]) <= Rank(s),
         o \in takeaway => s # "OUT_FOR_DELIVERY",
         order' = [order EXCEPT ![o] = s],
         UNCHANGED <<takeaway, view, screen, Console!kept, fetching, drawer>>
  PROVE  /\ OrderInv' /\ ListInv' /\ FetchInv' /\ DrawerInv'
         /\ \A x \in Orders : Rank(order[x]) <= Rank(order'[x])
  <1>1. order' \in Rows /\ \A x \in Orders : Rank(order[x]) <= Rank(order'[x])
    BY RankType DEF ConsoleInv, OrderInv, Rows
  <1>2. OrderInv'
    BY <1>1 DEF ConsoleInv, OrderInv, Rows
  <1>3. ListInv'
    BY <1>1, RankType DEF ConsoleInv, ListInv, Console!kept, Behind
  <1>4. FetchInv'
    BY <1>1, RankType DEF ConsoleInv, FetchInv, Behind
  <1>5. DrawerInv'
    BY <1>1, RankType DEF ConsoleInv, DrawerInv
  <1> QED BY <1>1, <1>2, <1>3, <1>4, <1>5

\* What is known of a call stays true when orders move forward.
LEMMA CallStaysOK ==
  ASSUME NEW c, CallOK(c), \A x \in Orders : Rank(order[x]) <= Rank(order'[x]),
         UNCHANGED takeaway
  PROVE  CallOK(c)'
  BY RankType DEF CallOK, ConsoleCall, Console!OfferedInDrawer, Console!Offered

-------------------------------------------------------------------------------
(* The console: every step keeps the invariant *)

\* At first nothing is shown, and nothing was sent.
LEMMA InitialInv ==
  ASSUME "All" \in Views
  PROVE  Console!Init => ConsoleInv
  BY RankType
     DEF Console!Init, ConsoleInv, OrderInv, ListInv, FetchInv, DrawerInv, CallInv, Behind, Rows,
                  ReadPhase, Console!Idle, Console!Sent, Console!Closed, Console!Status, Console!OrderStatus

\* Whoever else moves orders moves them forward.
LEMMA WorldKeepsInv ==
  ASSUME ConsoleInv,
         \/ \E o \in Orders : Console!PlaceOrder(o)
         \/ \E o \in Orders, op \in Console!Operations : Console!Elsewhere(o, op)
  PROVE  ConsoleInv'
  <1>1. ASSUME NEW o \in Orders, Console!PlaceOrder(o) PROVE ConsoleInv'
    <2>1. "PLACED" \in Console!Status /\ Rank(order[o]) <= Rank("PLACED")
      BY <1>1 DEF Console!PlaceOrder, Rank, Console!Status, Console!OrderStatus
    <2>2. /\ OrderInv' /\ ListInv' /\ FetchInv' /\ DrawerInv'
          /\ \A x \in Orders : Rank(order[x]) <= Rank(order'[x])
      BY <1>1, <2>1, ForwardKeepsInv DEF Console!PlaceOrder
    <2>3. CallInv'
      BY <1>1, <2>2, CallStaysOK DEF Console!PlaceOrder, ConsoleInv, CallInv
    <2> QED BY <2>2, <2>3 DEF ConsoleInv
  <1>2. ASSUME NEW o \in Orders, NEW op \in Console!Operations, Console!Elsewhere(o, op) PROVE ConsoleInv'
    <2>1. order[o] \in Console!AllowedFrom(op) /\ order' = [order EXCEPT ![o] = Console!Target(op)]
      BY <1>2 DEF Console!Elsewhere
    <2>2. /\ Console!Target(op) \in Console!Status /\ Rank(order[o]) <= Rank(Console!Target(op))
          /\ Console!Target(op) = "OUT_FOR_DELIVERY" => op = "dispatch"
      BY <2>1, MovesForward
    <2>3. op = "dispatch" => o \notin takeaway
      BY <1>2, OffersAreOperations DEF Console!Elsewhere
    <2>4. /\ OrderInv' /\ ListInv' /\ FetchInv' /\ DrawerInv'
          /\ \A x \in Orders : Rank(order[x]) <= Rank(order'[x])
      BY <1>2, <2>1, <2>2, <2>3, ForwardKeepsInv DEF Console!Elsewhere
    <2>5. CallInv'
      BY <1>2, <2>4, CallStaysOK DEF Console!Elsewhere, ConsoleInv, CallInv
    <2> QED BY <2>4, <2>5 DEF ConsoleInv
  <1> QED BY <1>1, <1>2

\* A row that leaves the screen takes nothing from its call but the spinner.
LEMMA UnmountKeepsCalls ==
  ASSUME CallInv, NEW rows, UNCHANGED <<order, takeaway>>
  PROVE  /\ UNCHANGED calls => CallInv'
         /\ calls' = Console!Unmount(rows) => CallInv'
         /\ \A cs : cs \subseteq calls /\ calls' = cs => CallInv'
         /\ \A cs : cs \subseteq calls /\ calls' = Console!DrawerGone(cs) => CallInv'
  <1>1. \A c \in calls : CallOK(c)' /\ CallOK([c EXCEPT !.live = FALSE])'
    <2> SUFFICES ASSUME NEW c \in calls PROVE CallOK(c)' /\ CallOK([c EXCEPT !.live = FALSE])'
      OBVIOUS
    <2> DEFINE gone == [c EXCEPT !.live = FALSE]
    <2>1. CallOK(c)'
      BY DEF CallInv, CallOK, Console!OfferedInDrawer, Console!Offered
    <2>2. gone \in ConsoleCall /\ gone.seen = c.seen /\ gone.order = c.order /\ gone.op = c.op
      BY <2>1 DEF CallOK, ConsoleCall
    <2> HIDE DEF gone
    <2>3. CallOK(gone)'
      BY <2>1, <2>2 DEF CallOK
    <2> QED BY <2>1, <2>3 DEF gone
  <1> QED BY <1>1 DEF CallInv, Console!Unmount, Console!DrawerGone

\* Invalidating starts fetches only.
LEMMA InvalidateKeepsInv ==
  ASSUME ConsoleInv, Console!Invalidate, UNCHANGED <<order, takeaway, view, screen, Console!kept>>
  PROVE  OrderInv' /\ ListInv' /\ FetchInv'
  <1>1. OrderInv' /\ ListInv'
    BY DEF ConsoleInv, OrderInv, ListInv, Behind, Console!kept
  <1>2. FetchInv'
    BY DEF ConsoleInv, FetchInv, Behind, Console!Invalidate, Console!Sent
  <1> QED BY <1>1, <1>2

\* What the query client does keeps the invariant: what it reads is how the orders are.
LEMMA QueriesKeepInv ==
  ASSUME ConsoleInv,
         \/ \E t \in Views : \/ Console!SwitchTab(t) \/ Console!Poll(t)
                            \/ Console!ReadOrders(t) \/ Console!ListAnswer(t) \/ Console!ListFails(t)
         \/ Console!Refresh
  PROVE  ConsoleInv'
  <1>1. ASSUME NEW t \in Views, Console!SwitchTab(t) PROVE ConsoleInv'
    <2>1. OrderInv' /\ ListInv' /\ DrawerInv'
      BY <1>1
         DEF Console!SwitchTab, ConsoleInv, OrderInv, ListInv, DrawerInv, Behind, Console!db,
             Console!kept
    <2>2. FetchInv'
      BY <1>1 DEF Console!SwitchTab, ConsoleInv, FetchInv, Behind, Console!db, Console!Sent
    <2>3. CallInv'
      BY <1>1, UnmountKeepsCalls DEF Console!SwitchTab, ConsoleInv, Console!db
    <2> QED BY <2>1, <2>2, <2>3 DEF ConsoleInv
  <1>2. ASSUME NEW t \in Views, Console!Poll(t) \/ Console!ListFails(t) PROVE ConsoleInv'
    <2>1. OrderInv' /\ ListInv' /\ DrawerInv' /\ CallInv'
      BY <1>2, UnmountKeepsCalls
         DEF Console!Poll, Console!ListFails, ConsoleInv, OrderInv, ListInv, DrawerInv, Behind,
             Console!db, Console!kept
    <2>2. FetchInv'
      BY <1>2
         DEF Console!Poll, Console!ListFails, ConsoleInv, FetchInv, Behind, Console!db,
             Console!Sent, Console!Idle
    <2> QED BY <2>1, <2>2 DEF ConsoleInv
  <1>3. ASSUME NEW t \in Views, Console!ReadOrders(t) PROVE ConsoleInv'
    <2>1. OrderInv' /\ ListInv' /\ DrawerInv' /\ CallInv'
      BY <1>3, UnmountKeepsCalls
         DEF Console!ReadOrders, ConsoleInv, OrderInv, ListInv, DrawerInv, Behind, Console!db, Console!kept
    <2>2. Console!ListOrders(t) \in Rows /\ Behind(Console!ListOrders(t))
      BY RankType DEF ConsoleInv, OrderInv, Console!ListOrders, Rows, Behind, Rank, Console!Status
    <2>3. FetchInv'
      BY <1>3, <2>2
         DEF Console!ReadOrders, ConsoleInv, FetchInv, Behind, Console!db, Console!Read, ReadPhase
    <2> QED BY <2>1, <2>3 DEF ConsoleInv
  <1>4. ASSUME NEW t \in Views, Console!ListAnswer(t) PROVE ConsoleInv'
    <2>1. fetching[t].data \in Rows /\ Behind(fetching[t].data)
      BY <1>4 DEF Console!ListAnswer, ConsoleInv, FetchInv, ReadPhase
    <2>2. OrderInv' /\ DrawerInv'
      BY <1>4 DEF Console!ListAnswer, ConsoleInv, OrderInv, DrawerInv, Console!db
    <2>3. ListInv'
      BY <1>4, <2>1 DEF Console!ListAnswer, ConsoleInv, ListInv, Behind, Console!db
    <2>4. FetchInv'
      BY <1>4 DEF Console!ListAnswer, ConsoleInv, FetchInv, Behind, Console!db, Console!Idle
    <2>5. CallInv'
      BY <1>4, UnmountKeepsCalls DEF Console!ListAnswer, ConsoleInv, Console!db
    <2> QED BY <2>2, <2>3, <2>4, <2>5 DEF ConsoleInv
  <1>5. CASE Console!Refresh
    <2>1. OrderInv' /\ ListInv' /\ FetchInv'
      BY <1>5, InvalidateKeepsInv DEF Console!Refresh, Console!db
    <2>2. DrawerInv' /\ CallInv'
      BY <1>5, UnmountKeepsCalls DEF Console!Refresh, ConsoleInv, DrawerInv, Console!db
    <2> QED BY <2>1, <2>2 DEF ConsoleInv
  <1> QED BY <1>1, <1>2, <1>3, <1>4, <1>5

\* A call that is sent was offered for what is shown, and what is shown is behind the order.
LEMMA SendKeepsCalls ==
  ASSUME ConsoleInv, NEW by \in {"row", "drawer"}, NEW o \in Orders, NEW s \in Console!Status,
         NEW op \in Console!OfferedInDrawer(o, s), Rank(s) <= Rank(order[o]), Console!Send(by, o, op, s),
         UNCHANGED <<order, takeaway>>
  PROVE  CallInv'
  <1>1. \A c \in calls : CallOK(c)'
    BY DEF ConsoleInv, CallInv, CallOK, Console!OfferedInDrawer, Console!Offered
  <1>2. op \in Console!Operations
    BY OffersAreOperations
  <1> DEFINE new == [by |-> by, live |-> TRUE, order |-> o, op |-> op, seen |-> s, phase |-> "sent"]
  <1>3. CallOK(new)'
    BY <1>2 DEF CallOK, ConsoleCall, Console!OfferedInDrawer, Console!Offered
  <1>4. calls' = calls \cup {new}
    BY DEF Console!Send
  <1> HIDE DEF new
  <1> QED BY <1>1, <1>3, <1>4 DEF CallInv

\* Buttons and the drawer keep the invariant.
LEMMA ButtonsKeepInv ==
  ASSUME ConsoleInv,
         \/ \E o \in Orders : Console!OpenDrawer(o) \/ \E op \in Console!Operations : Console!Press(o, op)
         \/ \E op \in Console!Operations : Console!PressInDrawer(op)
         \/ Console!CloseDrawer
  PROVE  ConsoleInv'
  <1>1. ASSUME NEW o \in Orders, Console!OpenDrawer(o) PROVE ConsoleInv'
    <2>1. OrderInv' /\ ListInv' /\ FetchInv' /\ CallInv'
      BY <1>1, UnmountKeepsCalls
         DEF Console!OpenDrawer, ConsoleInv, OrderInv, ListInv, FetchInv, Behind, Console!db, Console!kept
    <2>2. Console!Shown(o) \in Console!Status /\ Rank(Console!Shown(o)) <= Rank(order[o])
      BY DEF Console!Shown, ConsoleInv, ListInv, Rows, Behind
    <2>3. DrawerInv'
      BY <1>1, <2>2 DEF Console!OpenDrawer, DrawerInv, Console!db
    <2> QED BY <2>1, <2>3 DEF ConsoleInv
  <1>2. ASSUME NEW o \in Orders, NEW op \in Console!Operations, Console!Press(o, op) PROVE ConsoleInv'
    <2>1. OrderInv' /\ ListInv' /\ FetchInv' /\ DrawerInv'
      BY <1>2
         DEF Console!Press, ConsoleInv, OrderInv, ListInv, FetchInv, DrawerInv, Behind, Console!db,
             Console!kept
    <2>2. Console!Shown(o) \in Console!Status /\ Rank(Console!Shown(o)) <= Rank(order[o])
      BY DEF Console!Shown, ConsoleInv, ListInv, Rows, Behind
    <2>3. op \in Console!OfferedInDrawer(o, Console!Shown(o))
      BY <1>2, RowOffers DEF Console!Press
    <2>4. CallInv'
      BY <1>2, <2>2, <2>3, SendKeepsCalls DEF Console!Press, Console!db
    <2> QED BY <2>1, <2>4 DEF ConsoleInv
  <1>3. ASSUME NEW op \in Console!Operations, Console!PressInDrawer(op) PROVE ConsoleInv'
    <2>1. OrderInv' /\ ListInv' /\ FetchInv' /\ DrawerInv'
      BY <1>3
         DEF Console!PressInDrawer, ConsoleInv, OrderInv, ListInv, FetchInv, DrawerInv, Behind,
             Console!db, Console!kept
    <2>2. /\ drawer.order \in Orders /\ drawer.status \in Console!Status
          /\ Rank(drawer.status) <= Rank(order[drawer.order])
      BY <1>3 DEF Console!PressInDrawer, ConsoleInv, DrawerInv
    <2>3. CallInv'
      BY <1>3, <2>2, SendKeepsCalls DEF Console!PressInDrawer, Console!db
    <2> QED BY <2>1, <2>3 DEF ConsoleInv
  <1>4. CASE Console!CloseDrawer
    <2>1. OrderInv' /\ ListInv' /\ FetchInv' /\ DrawerInv'
      BY <1>4
         DEF Console!CloseDrawer, ConsoleInv, OrderInv, ListInv, FetchInv, DrawerInv, Behind,
             Console!db, Console!kept
    <2>2. CallInv'
      BY <1>4, UnmountKeepsCalls DEF Console!CloseDrawer, ConsoleInv, Console!db
    <2> QED BY <2>1, <2>2 DEF ConsoleInv
  <1> QED BY <1>1, <1>2, <1>3, <1>4

\* Neither what the API does with a call nor what becomes of its answer breaks the invariant.
LEMMA CallsKeepInv ==
  ASSUME ConsoleInv, NEW c \in calls,
         Console!Perform(c) \/ Console!Updated(c) \/ Console!Failed(c) \/ Console!GiveUp(c)
  PROVE  ConsoleInv'
  <1>1. /\ c \in ConsoleCall /\ c.op \in Console!OfferedInDrawer(c.order, c.seen)
        /\ c.op = "dispatch" => c.order \notin takeaway
    BY OffersAreOperations DEF ConsoleInv, CallInv, CallOK, ConsoleCall
  <1>2. CASE Console!Perform(c)
    <2>1. \A p \in {"done", "refused"} : [c EXCEPT !.phase = p] \in ConsoleCall
      BY <1>1 DEF ConsoleCall
    <2>2. ASSUME order[c.order] \in Console!AllowedFrom(c.op) PROVE ConsoleInv'
      <3>1. /\ c.order \in Orders /\ c.op \in Console!Operations
            /\ order' = [order EXCEPT ![c.order] = Console!Target(c.op)]
        BY <1>1, <1>2, <2>2 DEF Console!Perform, ConsoleCall
      <3>2. /\ Console!Target(c.op) \in Console!Status /\ Rank(order[c.order]) <= Rank(Console!Target(c.op))
            /\ Console!Target(c.op) = "OUT_FOR_DELIVERY" => c.op = "dispatch"
        BY <2>2, <3>1, MovesForward
      <3>3. /\ OrderInv' /\ ListInv' /\ FetchInv' /\ DrawerInv'
            /\ \A x \in Orders : Rank(order[x]) <= Rank(order'[x])
        BY <1>1, <1>2, <3>1, <3>2, ForwardKeepsInv DEF Console!Perform
      <3>4. UNCHANGED takeaway
        BY <1>2 DEF Console!Perform
      <3>5. \A d \in calls : CallOK(d)'
        BY <3>3, <3>4, CallStaysOK DEF ConsoleInv, CallInv
      <3>6. CallOK([c EXCEPT !.phase = "done"])'
        BY <2>1, <3>5, <1>1 DEF CallOK, ConsoleCall
      <3>7. calls' \subseteq calls \cup {[c EXCEPT !.phase = "done"]}
        BY <1>2, <2>2 DEF Console!Perform, Console!Becomes
      <3> QED BY <3>3, <3>5, <3>6, <3>7 DEF ConsoleInv, CallInv
    <2>3. ASSUME order[c.order] \notin Console!AllowedFrom(c.op) PROVE ConsoleInv'
      <3>1. UNCHANGED <<order, takeaway, view, screen, Console!kept, fetching, drawer>>
        BY <1>2, <2>3 DEF Console!Perform
      <3>2. OrderInv' /\ ListInv' /\ FetchInv' /\ DrawerInv'
        BY <3>1 DEF ConsoleInv, OrderInv, ListInv, FetchInv, DrawerInv, Behind, Console!kept
      <3>3. \A d \in calls : CallOK(d)'
        BY <3>1 DEF ConsoleInv, CallInv, CallOK, Console!OfferedInDrawer, Console!Offered
      <3>4. CallOK([c EXCEPT !.phase = "refused"])'
        BY <2>1, <3>3, <1>1 DEF CallOK, ConsoleCall
      <3>5. calls' \subseteq calls \cup {[c EXCEPT !.phase = "refused"]}
        BY <1>2, <2>3 DEF Console!Perform, Console!Becomes
      <3> QED BY <3>2, <3>3, <3>4, <3>5 DEF ConsoleInv, CallInv
    <2> QED BY <2>2, <2>3
  <1>3. CASE Console!Updated(c)
    <2>1. OrderInv' /\ ListInv' /\ FetchInv'
      BY <1>3, InvalidateKeepsInv DEF Console!Updated, Console!db
    <2>2. DrawerInv'
      BY <1>3 DEF Console!Updated, ConsoleInv, DrawerInv, Console!db
    <2>3. calls \ {c} \subseteq calls /\ (calls' = calls \ {c} \/ calls' = Console!DrawerGone(calls \ {c}))
      BY <1>3 DEF Console!Updated, Console!Becomes
    <2>4. CallInv'
      BY <1>3, <2>3, UnmountKeepsCalls DEF Console!Updated, ConsoleInv, Console!db
    <2> QED BY <2>1, <2>2, <2>4 DEF ConsoleInv
  <1>4. CASE Console!Failed(c)
    <2>1. OrderInv' /\ ListInv' /\ FetchInv' /\ DrawerInv'
      BY <1>4
         DEF Console!Failed, ConsoleInv, OrderInv, ListInv, FetchInv, DrawerInv, Behind,
             Console!db, Console!kept
    <2>2. CallInv'
      BY <1>4, UnmountKeepsCalls DEF Console!Failed, Console!Becomes, ConsoleInv, Console!db
    <2> QED BY <2>1, <2>2 DEF ConsoleInv
  <1>5. CASE Console!GiveUp(c)
    <2>1. OrderInv' /\ ListInv' /\ FetchInv' /\ DrawerInv'
      BY <1>5
         DEF Console!GiveUp, ConsoleInv, OrderInv, ListInv, FetchInv, DrawerInv, Behind,
             Console!db, Console!kept
    <2>2. \A d \in calls : CallOK(d)'
      BY <1>5
         DEF Console!GiveUp, ConsoleInv, CallInv, CallOK, Console!OfferedInDrawer, Console!Offered,
             Console!db
    <2>3. CallOK([c EXCEPT !.by = "nobody", !.live = FALSE])'
      BY <1>1, <2>2 DEF CallOK, ConsoleCall
    <2>4. calls' \subseteq calls \cup {[c EXCEPT !.by = "nobody", !.live = FALSE]}
      BY <1>5 DEF Console!GiveUp, Console!Becomes
    <2> QED BY <2>1, <2>2, <2>3, <2>4 DEF ConsoleInv, CallInv
  <1> QED BY <1>2, <1>3, <1>4, <1>5

\* One step: the world, the query client, a button, a call, or nothing.
LEMMA StepKeepsConsoleInv == ConsoleInv /\ [Console!Next]_(Console!vars) => ConsoleInv'
  <1> SUFFICES ASSUME ConsoleInv, [Console!Next]_(Console!vars) PROVE ConsoleInv'
    OBVIOUS
  <1>1. CASE UNCHANGED Console!vars
    <2>1. OrderInv' /\ ListInv' /\ FetchInv' /\ DrawerInv'
      BY <1>1
         DEF Console!vars, Console!db, Console!kept, ConsoleInv, OrderInv, ListInv, FetchInv,
             DrawerInv, Behind
    <2>2. CallInv'
      BY <1>1, UnmountKeepsCalls DEF Console!vars, Console!db, ConsoleInv
    <2> QED BY <2>1, <2>2 DEF ConsoleInv
  <1>2. CASE Console!Next
    <2>1. \/ \E o \in Orders : Console!PlaceOrder(o)
          \/ \E o \in Orders, op \in Console!Operations : Console!Elsewhere(o, op)
          \/ \E t \in Views : \/ Console!SwitchTab(t) \/ Console!Poll(t)
                             \/ Console!ReadOrders(t) \/ Console!ListAnswer(t) \/ Console!ListFails(t)
          \/ Console!Refresh
          \/ \E o \in Orders : Console!OpenDrawer(o) \/ \E op \in Console!Operations : Console!Press(o, op)
          \/ \E op \in Console!Operations : Console!PressInDrawer(op)
          \/ Console!CloseDrawer
          \/ \E c \in calls : Console!Perform(c) \/ Console!Updated(c) \/ Console!Failed(c) \/ Console!GiveUp(c)
      BY <1>2 DEF Console!Next, Console!Answers
    <2> QED BY <2>1, WorldKeepsInv, QueriesKeepInv, ButtonsKeepInv, CallsKeepInv
  <1> QED BY <1>1, <1>2

-------------------------------------------------------------------------------
(* The console: the theorems *)

\* Whatever a list, an answer under way, the drawer or a call has of an order is how the order
\* is or once was, each call was offered for what it saw, and no takeaway order is on its way.
THEOREM ScreensAreBehind ==
  ASSUME "All" \in Views
  PROVE  Console!Spec => []ConsoleInv
  <1>1. Console!Init => ConsoleInv
    BY InitialInv
  <1>2. ConsoleInv /\ [Console!Next]_(Console!vars) => ConsoleInv'
    BY StepKeepsConsoleInv
  <1> QED BY <1>1, <1>2, PTL DEF Console!Spec

\* Of the statuses a handler allows, only the one the button was pressed at is possible.
LEMMA OnlyWhatWasSeen ==
  ASSUME ConsoleInv, NEW c \in calls, order[c.order] \in Console!AllowedFrom(c.op),
         c.op \notin {"reject", "cancel"}
  PROVE  order[c.order] = c.seen
  <1>1. /\ c.order \in Orders /\ c.op \in Console!Operations /\ Rank(c.seen) <= Rank(order[c.order])
        /\ c.op \in Console!OfferedInDrawer(c.order, c.seen)
        /\ c.order \in takeaway => order[c.order] # "OUT_FOR_DELIVERY"
    BY DEF ConsoleInv, OrderInv, CallInv, CallOK, ConsoleCall
  <1>2. CASE c.op \in {"accept", "prepare", "markReady"}
    BY <1>1, <1>2 DEF Console!AllowedFrom, Console!OfferedInDrawer, Console!Offered
  <1>3. CASE c.op = "dispatch"
    <2>1. c.seen = "READY_FOR_PICKUP"
      BY <1>1, <1>3 DEF Console!OfferedInDrawer, Console!Offered
    <2>2. order[c.order] \in {"PREPARING", "READY_FOR_PICKUP"}
      BY <1>3 DEF Console!AllowedFrom
    <2> QED BY <1>1, <2>1, <2>2 DEF Rank
  <1>4. CASE c.op = "complete"
    <2>1. \/ c.seen = "READY_FOR_PICKUP" /\ c.order \in takeaway
          \/ c.seen = "OUT_FOR_DELIVERY"
      BY <1>1, <1>4 DEF Console!OfferedInDrawer, Console!Offered
    <2>2. order[c.order] \in {"READY_FOR_PICKUP", "OUT_FOR_DELIVERY"}
      BY <1>4 DEF Console!AllowedFrom
    <2> QED BY <1>1, <2>1, <2>2 DEF Rank
  <1> QED BY <1>1, <1>2, <1>3, <1>4 DEF Console!Operations

\* A button of the orders page (app/(store-owner)/orders/page.tsx) moves an order on from the
\* status that was on the screen, or not at all.
THEOREM StepsFollow ==
  ASSUME "All" \in Views
  PROVE  Console!Spec => Console!StepsFollowScreen
  <1> DEFINE A == \A c \in calls : (Console!Perform(c) /\ order' # order /\ c.op \notin {"reject", "cancel"})
                                      => order[c.order] = c.seen
  <1>1. ConsoleInv /\ [Console!Next]_(Console!vars) => [A]_(Console!vars)
    <2> SUFFICES ASSUME ConsoleInv, NEW c \in calls, Console!Perform(c), order' # order,
                        c.op \notin {"reject", "cancel"}
                 PROVE  order[c.order] = c.seen
      OBVIOUS
    <2>1. order[c.order] \in Console!AllowedFrom(c.op)
      BY DEF Console!Perform
    <2> QED BY <2>1, OnlyWhatWasSeen
  <1>2. Console!Spec => []ConsoleInv
    BY ScreensAreBehind
  <1>3. Console!StepsFollowScreen <=> [][A]_(Console!vars)
    BY DEF Console!StepsFollowScreen
  <1> HIDE DEF A
  <1> QED BY <1>1, <1>2, <1>3, PTL DEF Console!Spec
===============================================================================
