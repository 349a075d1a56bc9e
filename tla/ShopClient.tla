------------------------------ MODULE ShopClient ------------------------------
(***************************************************************************)
(* The cart of the web shop as the customer's browser keeps it: the cart   *)
(* store (cart.store.ts), the sign-in state, the page start (AppInit), the *)
(* cart and checkout pages, and the calls they send to the API.            *)
(*                                                                         *)
(* Every tab has its own copy of the stores; the guest cart in             *)
(* localStorage and the session cookie are shared by the tabs.  A call is  *)
(* served by the API as a whole (CartService has its steps), its answer    *)
(* arrives any time later, in any order, or never, and the tab may have    *)
(* been reloaded by then.                                                  *)
(***************************************************************************)
EXTENDS Integers

CONSTANTS
  Stores, Variants, StoreOf,  \* StoreOf[v]: the store that sells v
  Tabs,                       \* browser tabs
  Calls,                      \* calls that can be in flight at the same time
  MaxQty, MaxActs             \* bounds: units of a variant, things the user does

VARIABLES
  storage,  \* the guest cart in localStorage
  saved,    \* history: how often it was saved
  session,  \* is the cookie's token valid?
  tab,      \* tab[t]: the state of the page in tab t
  call,     \* call[c]: a call in flight, NoCall when the slot is free
  server,   \* the active carts of the customer
  acts,     \* history: how much the user has done
  smooth    \* history: one page open, one call at a time, no call failed, every payment made

vars == <<storage, saved, session, tab, call, server, acts, smooth>>

-------------------------------------------------------------------------------
NoStore == "none"

ASSUME ShopAssumption ==
  /\ NoStore \notin Stores /\ StoreOf \in [Variants -> Stores]
  /\ Tabs # {} /\ MaxQty \in Nat /\ MaxActs \in Nat

Nothing == [v \in Variants |-> 0]

\* The items of a cart store and the store they are of.
Basket == [store : Stores \cup {NoStore}, items : [Variants -> 0..MaxQty]]
Empty  == [store |-> NoStore, items |-> Nothing]
Of(s, items) == [store |-> s, items |-> items]

\* `n` tells copies apart that were saved at different times.
Copy   == [basket : Basket, n : Nat]
NoCopy == [basket |-> Empty, n |-> 0]

\* boot: what AppInit waits for; stubs: items whose id is local-...; buying: the checkout
\* page; pending, other: the item and the store of the cross-store question.
Tab == [boot : {"closed", "me", "cart", "ready"}, auth : BOOLEAN, shown : Basket,
        stubs : SUBSET Variants, buying : {"no", "placing", "paying"},
        pending : SUBSET Variants, other : Stores \cup {NoStore}]

NewPage == [boot |-> "me", auth |-> FALSE, shown |-> Empty, stubs |-> {},
            buying |-> "no", pending |-> {}, other |-> NoStore]
Closed  == [NewPage EXCEPT !.boot = "closed"]

\* live: the page that sent it is still there; for: the basket it carries, or the one to go
\* back to, with its stubs; copy: what a merge has taken out of localStorage.
Call == [kind : {"none", "me", "get", "add", "update", "remove", "clear", "merge", "checkout", "logout"},
         tab : Tabs, live : BOOLEAN, phase : {"sent", "served", "conflict", "expired", "failed"},
         store : Stores \cup {NoStore}, variants : SUBSET Variants, for : Basket,
         stubs : SUBSET Variants, copy : Copy, answer : Basket]

NoCall == [kind |-> "none", tab |-> CHOOSE t \in Tabs : TRUE, live |-> FALSE, phase |-> "sent",
           store |-> NoStore, variants |-> {}, for |-> Empty, stubs |-> {}, copy |-> NoCopy,
           answer |-> Empty]

\* open: the stores the customer has an active cart of; latest: the one created last; merged:
\* history: the guest carts it has merged, but those whose answer was lost since.
Server == [open : SUBSET Stores, qty : [Variants -> 0..MaxQty], latest : Stores \cup {NoStore},
           merged : SUBSET Nat]

Init ==
  /\ storage = NoCopy /\ saved = 0 /\ session \in BOOLEAN
  /\ tab = [t \in Tabs |-> Closed]
  /\ call = [c \in Calls |-> NoCall]
  /\ server = [open |-> {}, qty |-> Nothing, latest |-> NoStore, merged |-> {}]
  /\ acts = 0 /\ smooth = TRUE

InFlight == {c \in Calls : call[c].kind # "none"}
ItemsOf(s, items) == [v \in Variants |-> IF StoreOf[v] = s THEN items[v] ELSE 0]

Request(kind, t) == [NoCall EXCEPT !.kind = kind, !.tab = t, !.live = TRUE]

\* The user does something on a page that is drawn.
Act(t) ==
  /\ tab[t].boot = "ready" /\ acts < MaxActs
  /\ acts' = acts + 1
  /\ smooth' = (smooth /\ InFlight = {} /\ \A u \in Tabs \ {t} : tab[u].boot = "closed")

Free == {c \in Calls : call[c].kind = "none"}
Send(c, r) == call' = [call EXCEPT ![c] = r]
SetTab(t, page) == tab' = [tab EXCEPT ![t] = page]

\* saveToStorage: an empty cart removes the copy.
Save(b) == IF b.items = Nothing THEN storage' = NoCopy /\ UNCHANGED saved
           ELSE storage' = [basket |-> b, n |-> saved + 1] /\ saved' = saved + 1
Forget  == storage' = NoCopy /\ UNCHANGED saved
KeepCopy == UNCHANGED <<storage, saved>>

\* syncFromResponse: what the API answers replaces the cart; localStorage is cleared.
Synced(page, answer) == [page EXCEPT !.shown = answer, !.stubs = {}]

-------------------------------------------------------------------------------
(* Opening a page and signing in *)

\* Tab t loads a page and asks who the user is; calls of the page that was there are
\* answered in vain.
Reload(c, t) ==
  /\ SetTab(t, NewPage)
  /\ call' = [d \in Calls |-> IF d = c THEN Request("me", t)
                              ELSE IF call[d].tab # t THEN call[d]
                              ELSE IF call[d].phase = "sent" THEN [call[d] EXCEPT !.live = FALSE]
                              ELSE NoCall]

\* A tab is opened or reloaded.
Load(t) ==
  /\ acts < MaxActs /\ acts' = acts + 1
  /\ smooth' = (smooth /\ InFlight = {} /\ \A u \in Tabs \ {t} : tab[u].boot = "closed")
  /\ \E c \in Free : Reload(c, t)
  /\ UNCHANGED <<storage, saved, session, server>>

\* Mutant: the copy stays in localStorage until the merge has succeeded.
MergeKeepingCopy(c, t, page) ==
  IF storage = NoCopy
  THEN Forget /\ SetTab(t, page) /\ Send(c, Request("get", t))
  ELSE /\ KeepCopy
       /\ SetTab(t, [page EXCEPT !.shown = Empty, !.stubs = {}])
       /\ Send(c, [Request("merge", t) EXCEPT !.store = storage.basket.store,
                                               !.for = storage.basket, !.copy = storage])

\* mergeGuestCart: the copy is taken out of localStorage and sent; without one the
\* customer's newest cart is fetched.
MergeGuestCart(c, t, page) ==
  IF storage = NoCopy
  THEN Forget /\ SetTab(t, page) /\ Send(c, Request("get", t))
  ELSE /\ Forget
       /\ SetTab(t, [page EXCEPT !.shown = Empty, !.stubs = {}])
       /\ Send(c, [Request("merge", t) EXCEPT !.store = storage.basket.store,
                                               !.for = storage.basket, !.copy = storage])

\* Mutant: a page that finds the session over waits on.
WaitOn(c, t) == /\ UNCHANGED tab /\ KeepCopy /\ Send(c, NoCall)

\* hydrateFromStorage: a guest's page shows the copy.
Hydrate(c, t) ==
  /\ SetTab(t, [tab[t] EXCEPT !.boot = "ready", !.shown = storage.basket,
                              !.stubs = {v \in Variants : storage.basket.items[v] > 0}])
  /\ KeepCopy /\ Send(c, NoCall)

\* AppInit after me().
KnowUser(c) ==
  LET t == call[c].tab IN
  /\ call[c].kind = "me"
  /\ IF call[c].phase = "served" THEN MergeGuestCart(c, t, [tab[t] EXCEPT !.boot = "cart", !.auth = TRUE])
                                 ELSE Hydrate(c, t)
  /\ UNCHANGED <<session, server, acts, smooth>>

\* verifyOtp succeeded: login() and mergeGuestCart() in one go.
SignIn(t) ==
  /\ Act(t) /\ ~tab[t].auth
  /\ session' = TRUE
  /\ \E c \in Free : MergeGuestCart(c, t, [tab[t] EXCEPT !.auth = TRUE])
  /\ UNCHANGED server

\* logout(): what is shown stays until the answer reloads the page.
SignOut(t) ==
  /\ Act(t) /\ tab[t].auth
  /\ SetTab(t, [tab[t] EXCEPT !.auth = FALSE])
  /\ Forget
  /\ \E c \in Free : Send(c, Request("logout", t))
  /\ UNCHANGED <<session, server>>

LoggedOut(c) ==
  LET t == call[c].tab IN
  /\ call[c].kind = "logout"
  /\ IF call[c].phase = "served" THEN Reload(c, t)
                                 ELSE UNCHANGED tab /\ Send(c, NoCall)
  /\ KeepCopy /\ UNCHANGED <<session, server, acts, smooth>>

-------------------------------------------------------------------------------
(* addItem, updateQuantity, removeItem *)

\* Mutant: no question is asked.
NeverForeign(page, v) == FALSE

\* The cart that is shown has items of another store.
IsForeign(page, v) == page.shown.store \notin {NoStore, StoreOf[v]} /\ page.shown.items # Nothing

Asking(page, v, other) == [page EXCEPT !.pending = {v}, !.other = other]

\* localAddItem
WithItem(page, v) ==
  [page EXCEPT !.shown = Of(StoreOf[v], [page.shown.items EXCEPT ![v] = @ + 1]),
               !.stubs = IF page.shown.items[v] > 0 THEN @ ELSE @ \cup {v}]

\* Mutant: the answer is not waited for.
AddAndForget(c, t, page, v) ==
  /\ ~IsForeign(page, v) /\ page.shown.items[v] < MaxQty
  /\ SetTab(t, WithItem(page, v)) /\ KeepCopy /\ Send(c, NoCall)

\* A guest's item goes to localStorage, a customer's to the API, shown before it is there.
AddItem(c, t, page, v) ==
  IF IsForeign(page, v)
  THEN SetTab(t, Asking(page, v, page.shown.store)) /\ KeepCopy /\ Send(c, NoCall)
  ELSE /\ page.shown.items[v] < MaxQty
       /\ IF page.auth
          THEN /\ SetTab(t, WithItem(page, v)) /\ KeepCopy
               /\ Send(c, [Request("add", t) EXCEPT !.store = StoreOf[v], !.variants = {v},
                                                    !.for = page.shown, !.stubs = page.stubs])
          ELSE /\ SetTab(t, WithItem(page, v)) /\ Save(WithItem(page, v).shown)
               /\ Send(c, NoCall)

Add(t, v) ==
  /\ Act(t)
  /\ \E c \in Free : AddItem(c, t, tab[t], v)
  /\ UNCHANGED <<session, server>>

\* The answer to addItem.  A refusal takes back what is shown to what it was before the
\* call; after a 401 it stays, and is saved as a guest's.
Added(c) ==
  LET r    == call[c]
      t    == r.tab
      page == tab[t]
      back == [page EXCEPT !.shown = r.for, !.stubs = r.stubs]
      v    == CHOOSE x \in r.variants : TRUE IN
  /\ r.kind = "add"
  /\ \/ r.phase = "served"   /\ SetTab(t, Synced(page, r.answer)) /\ Forget
     \/ r.phase = "conflict" /\ SetTab(t, Asking(back, v, r.answer.store)) /\ KeepCopy
     \/ r.phase = "expired"  /\ SetTab(t, page)
        /\ Save(WithItem([back EXCEPT !.shown = r.for], v).shown)
     \/ r.phase = "failed"   /\ SetTab(t, back) /\ KeepCopy
  /\ Send(c, NoCall)
  /\ UNCHANGED <<session, server, acts, smooth>>

\* The buttons of the cart page are off while an item is being added, those of the store's
\* page are not.
UpdateQuantity(t, v, n) ==
  LET page == [tab[t] EXCEPT !.shown.items[v] = n] IN
  /\ Act(t)
  /\ tab[t].shown.items[v] > 0 /\ n # tab[t].shown.items[v]
  /\ SetTab(t, page) /\ Save(page.shown)
  /\ IF page.auth
     THEN \E c \in Free : Send(c, [Request("update", t) EXCEPT !.variants = {v},
                                            !.for = page.shown, !.stubs = page.stubs])
     ELSE UNCHANGED call
  /\ UNCHANGED <<session, server>>

RemoveItem(t, v) ==
  LET left == [tab[t].shown.items EXCEPT ![v] = 0]
      b    == IF left = Nothing THEN Empty ELSE Of(tab[t].shown.store, left) IN
  /\ Act(t) /\ tab[t].shown.items[v] > 0
  /\ SetTab(t, [tab[t] EXCEPT !.shown = b, !.stubs = @ \ {v}]) /\ Save(b)
  /\ IF tab[t].auth
     THEN \E c \in Free : Send(c, [Request("remove", t) EXCEPT !.variants = {v}, !.stubs = tab[t].stubs])
     ELSE UNCHANGED call
  /\ UNCHANGED <<session, server>>

\* The answer to getCart, updateQuantity, removeItem or mergeGuestCart.
Answered(c) ==
  LET r    == call[c]
      t    == r.tab
      page == [tab[t] EXCEPT !.boot = "ready"]
      took == [v \in Variants |-> r.copy.basket.items[v]] IN
  /\ r.kind \in {"get", "update", "remove", "merge"}
  /\ \/ r.phase = "served" /\ r.kind # "remove" /\ SetTab(t, Synced(page, r.answer)) /\ Forget
     \/ r.phase # "served" /\ r.kind = "merge"  \* the copy goes back
        /\ SetTab(t, [page EXCEPT !.shown = r.copy.basket, !.stubs = {v \in Variants : took[v] > 0}])
        /\ storage' = r.copy /\ UNCHANGED saved
     \/ r.phase # "served" /\ r.kind # "merge" /\ SetTab(t, page) /\ KeepCopy
     \/ r.kind = "remove" /\ r.phase = "served" /\ SetTab(t, page) /\ KeepCopy
  /\ Send(c, NoCall)
  /\ UNCHANGED <<session, server, acts, smooth>>

\* confirmCrossStoreClear: the old cart is cleared, then the item is added.
ConfirmCrossStoreClear(t) ==
  LET page == [tab[t] EXCEPT !.shown = Empty, !.stubs = {}, !.pending = {}]
      v    == CHOOSE x \in tab[t].pending : TRUE IN
  /\ Act(t) /\ tab[t].pending # {}
  /\ IF page.auth
     THEN /\ SetTab(t, page) /\ Forget
          /\ \E c \in Free : Send(c, [Request("clear", t) EXCEPT !.store = tab[t].other, !.variants = {v}])
     ELSE \E c \in Free : AddItem(c, t, page, v)
  /\ UNCHANGED <<session, server>>

DismissConflict(t) ==
  /\ Act(t) /\ tab[t].pending # {}
  /\ SetTab(t, [tab[t] EXCEPT !.pending = {}])
  /\ KeepCopy /\ UNCHANGED <<session, server, call>>

\* The old cart is cleared, or not: the item is added all the same.
Cleared(c) ==
  LET r == call[c] IN
  /\ r.kind = "clear"
  /\ IF r.variants # {}
     THEN AddItem(c, r.tab, tab[r.tab], CHOOSE v \in r.variants : TRUE)
     ELSE UNCHANGED tab /\ KeepCopy /\ Send(c, NoCall)
  /\ UNCHANGED <<session, server, acts, smooth>>

-------------------------------------------------------------------------------
(* The checkout page *)

PlaceOrder(t) ==
  /\ Act(t) /\ tab[t].auth /\ tab[t].buying = "no" /\ tab[t].shown.items # Nothing
  /\ SetTab(t, [tab[t] EXCEPT !.buying = "placing"])
  /\ \E c \in Free : Send(c, [Request("checkout", t) EXCEPT !.store = tab[t].shown.store])
  /\ KeepCopy /\ UNCHANGED <<session, server>>

\* clearCart
ClearCart(c, t) ==
  /\ SetTab(t, [tab[t] EXCEPT !.shown = Empty, !.stubs = {}, !.buying = "no"])
  /\ Forget
  /\ Send(c, IF tab[t].auth THEN [Request("clear", t) EXCEPT !.store = tab[t].shown.store] ELSE NoCall)

\* PAY_AT_PICKUP: the cart is cleared.  Otherwise the payment dialog opens first.  When
\* the stock was short the cart is fetched again.
OrderAnswered(c) ==
  LET r == call[c]
      t == r.tab
      page == [tab[t] EXCEPT !.buying = "no"] IN
  /\ r.kind = "checkout"
  /\ \/ r.phase = "served" /\ ClearCart(c, t)
     \/ r.phase = "served" /\ SetTab(t, [page EXCEPT !.buying = "paying"]) /\ KeepCopy /\ Send(c, NoCall)
     \/ r.phase # "served" /\ SetTab(t, page) /\ KeepCopy /\ Send(c, NoCall)
     \/ r.phase = "failed" /\ SetTab(t, page) /\ KeepCopy
        /\ Send(c, [Request("get", t) EXCEPT !.store = tab[t].shown.store])
  /\ UNCHANGED <<session, server, acts, smooth>>

\* The payment was confirmed; the API does nothing when it is told.
PaymentDone(t) ==
  /\ Act(t) /\ tab[t].buying = "paying"
  /\ \E c \in Free : ClearCart(c, t)
  /\ UNCHANGED <<session, server>>

\* The dialog is closed, or the confirmation fails: the order stands, the items stay.
GiveUpPayment(t) ==
  /\ tab[t].buying = "paying" /\ acts < MaxActs
  /\ acts' = acts + 1 /\ smooth' = FALSE
  /\ SetTab(t, [tab[t] EXCEPT !.buying = "no"])
  /\ KeepCopy /\ UNCHANGED <<session, server, call>>

-------------------------------------------------------------------------------
(* The API and the network *)

\* The call has been served; nobody waits for the answer of a dead one.
Reply(c, phase, answer) ==
  Send(c, IF call[c].live THEN [call[c] EXCEPT !.phase = phase, !.answer = answer] ELSE NoCall)

CartOf(s, qty) == Of(s, ItemsOf(s, qty))
WithCart(s, qty) == [open |-> server.open \cup {s}, qty |-> qty,
                     latest |-> IF s \in server.open THEN server.latest ELSE s,
                     merged |-> server.merged]
WithoutCart(s)  == [server EXCEPT !.open = @ \ {s},
                     !.qty = [v \in Variants |-> IF StoreOf[v] = s THEN 0 ELSE @[v]]]

\* getCart: the cart of the store that is named, else the newest.
ServeGet(c) ==
  LET s == call[c].store
      named == IF s # NoStore THEN {s} \cap server.open
               ELSE IF server.latest \in server.open THEN {server.latest} ELSE server.open IN
  /\ call[c].kind = "get"
  /\ \/ named = {} /\ Reply(c, "served", Empty)
     \/ \E x \in named : Reply(c, "served", CartOf(x, server.qty))
  /\ UNCHANGED server

\* addItem: any active cart is looked at first.
ServeAdd(c) ==
  LET v   == CHOOSE x \in call[c].variants : TRUE
      s   == StoreOf[v]
      qty == [server.qty EXCEPT ![v] = @ + 1] IN
  /\ call[c].kind = "add"
  /\ \/ \E x \in server.open \ {s} : Reply(c, "conflict", Of(x, Nothing)) /\ UNCHANGED server
     \/ /\ server.open = {} \/ s \in server.open
        /\ server.qty[v] < MaxQty
        /\ server' = WithCart(s, qty) /\ Reply(c, "served", CartOf(s, qty))
     \/ \* out of stock: the cart has been made before that is known
        /\ server.open = {} /\ server' = WithCart(s, server.qty) /\ Reply(c, "failed", Empty)

\* updateItem, removeItem: of a line that is there.  Ids of lines are not kept: a tab may
\* hold the id of a line that was made anew, the API then refuses, as Fail covers.
ServeItem(c) ==
  LET v   == CHOOSE x \in call[c].variants : TRUE
      qty == [server.qty EXCEPT ![v] = IF call[c].kind = "update" THEN call[c].for.items[v] ELSE 0] IN
  /\ call[c].kind \in {"update", "remove"}
  /\ v \notin call[c].stubs /\ server.qty[v] > 0
  /\ server' = [server EXCEPT !.qty = qty]
  /\ Reply(c, "served", CartOf(StoreOf[v], qty))

\* mergeCart: the cart of that store is what the guest had.
ServeMerge(c) ==
  LET s   == call[c].store
      qty == [v \in Variants |-> IF StoreOf[v] = s THEN call[c].for.items[v] ELSE server.qty[v]] IN
  /\ call[c].kind = "merge"
  /\ server' = [WithCart(s, qty) EXCEPT !.merged = @ \cup {call[c].copy.n}]
  /\ Reply(c, "served", CartOf(s, qty))

ServeClear(c) ==
  /\ call[c].kind = "clear"
  /\ \E s \in IF call[c].store # NoStore \/ server.open = {} THEN {call[c].store} ELSE server.open :
       server' = WithoutCart(s)
  /\ Reply(c, "served", Empty)

\* checkout of the active cart; without one it is refused.
ServeCheckout(c) ==
  LET s == call[c].store IN
  /\ call[c].kind = "checkout"
  /\ s \in server.open /\ ItemsOf(s, server.qty) # Nothing
  /\ server' = WithoutCart(s) /\ Reply(c, "served", Empty)

Serve(c) ==
  /\ call[c].phase = "sent" /\ session
  /\ \/ ServeGet(c) \/ ServeAdd(c) \/ ServeItem(c) \/ ServeMerge(c) \/ ServeClear(c) \/ ServeCheckout(c)
     \/ call[c].kind = "me" /\ Reply(c, "served", Empty) /\ UNCHANGED server
  /\ UNCHANGED <<storage, saved, session, tab, acts, smooth>>

\* /api/auth/logout drops the cookie, signed in or not.
ServeLogout(c) ==
  /\ call[c].kind = "logout" /\ call[c].phase = "sent"
  /\ session' = FALSE /\ Reply(c, "served", Empty)
  /\ UNCHANGED <<storage, saved, tab, server, acts, smooth>>

\* The token has expired: 401.
Reject(c) ==
  /\ call[c].kind \notin {"none", "logout"} /\ call[c].phase = "sent" /\ ~session
  /\ Reply(c, "expired", Empty)
  /\ smooth' = (smooth /\ call[c].kind = "me")
  /\ UNCHANGED <<storage, saved, session, tab, server, acts>>

\* The API refuses, or the call or its answer is lost.
Fail(c) ==
  /\ call[c].kind # "none" /\ call[c].phase \in {"sent", "served", "conflict"}
  /\ Reply(c, "failed", Empty)
  /\ smooth' = FALSE
  /\ server' = IF call[c].phase = "served" THEN [server EXCEPT !.merged = @ \ {call[c].copy.n}] ELSE server
  /\ UNCHANGED <<storage, saved, session, tab, acts>>

\* The page handles the answer.
Settle(c) ==
  /\ call[c].kind # "none" /\ call[c].phase # "sent"
  /\ \/ KnowUser(c) \/ LoggedOut(c) \/ Added(c) \/ Answered(c) \/ Cleared(c) \/ OrderAnswered(c)

\* The token is good for fifteen minutes, the copy too.
SessionExpires ==
  /\ session /\ session' = FALSE
  /\ UNCHANGED <<storage, saved, tab, call, server, acts, smooth>>

CopyExpires ==
  /\ storage # NoCopy /\ Forget
  /\ UNCHANGED <<session, tab, call, server, acts, smooth>>

Browse(t) ==
  \/ Load(t) \/ SignIn(t) \/ SignOut(t)
  \/ \E v \in Variants : Add(t, v) \/ RemoveItem(t, v) \/ \E n \in 1..MaxQty : UpdateQuantity(t, v, n)
  \/ ConfirmCrossStoreClear(t) \/ DismissConflict(t)
  \/ PlaceOrder(t) \/ PaymentDone(t) \/ GiveUpPayment(t)

Next ==
  \/ \E t \in Tabs : Browse(t)
  \/ \E c \in Calls : Serve(c) \/ ServeLogout(c) \/ Reject(c) \/ Fail(c) \/ Settle(c)
  \/ SessionExpires \/ CopyExpires

Spec == Init /\ [][Next]_vars

\* A fetch ends, if only by failing, and its handler runs.
Ends(c) == Serve(c) \/ ServeLogout(c) \/ Reject(c) \/ Fail(c)
FairSpec == Spec /\ \A c \in Calls : WF_vars(Ends(c)) /\ WF_vars(Settle(c))

-------------------------------------------------------------------------------
TypeOK ==
  /\ storage \in Copy /\ saved \in Nat /\ session \in BOOLEAN
  /\ tab \in [Tabs -> Tab] /\ call \in [Calls -> Call] /\ server \in Server
  /\ acts \in 0..MaxActs /\ smooth \in BOOLEAN

IsOfOneStore(b) == \A v \in Variants : b.items[v] > 0 => StoreOf[v] = b.store

\* Whatever overlaps, fails or is shared between tabs: everything keeps its type, and the items a page shows, the copy in
\* localStorage and every guest cart sent to mergeCart are of one store.  mergeCart does
\* not check that, and CartService takes it for granted (Baskets there).
OneStore ==
  /\ TypeOK
  /\ IsOfOneStore(storage.basket)
  /\ \A t \in Tabs : IsOfOneStore(tab[t].shown)
  /\ \A c \in InFlight : call[c].kind = "merge" => IsOfOneStore(call[c].for)

\* The API merges a guest cart again only if the answer to the merge before was lost: one that
\* it has merged is no longer in localStorage, nor in a call that it may still serve or that
\* gives it back.  And it is in one place: two tabs that start at the same time do not both
\* merge it, and a copy that was put back is not merged by the call that gave it back.
MergedOnce ==
  /\ storage.n \notin server.merged
  /\ \A c \in InFlight : call[c].kind = "merge" =>
       /\ call[c].phase # "served" => call[c].copy.n \notin server.merged
       /\ call[c].copy.n # storage.n
       /\ \A d \in InFlight \ {c} : call[d].kind = "merge" => call[d].copy.n # call[c].copy.n

\* With one page open, one call at a time, no call refused or lost and no payment dialog
\* closed (then the ordered items stay in the cart), a page that has all its answers shows a
\* signed-in customer the cart the API has of that store, the one an order is made of.  It
\* may show nothing while the API has a cart of another store.
ShownIsServed ==
  (smooth /\ InFlight = {}) =>
    \A t \in Tabs : (tab[t].boot = "ready" /\ tab[t].auth /\ tab[t].buying = "no") =>
      tab[t].shown.items = ItemsOf(tab[t].shown.store, server.qty)

\* A page that is opened or reloaded gets past the spinner, whatever fails.
EveryPageOpens == \A t \in Tabs : tab[t].boot \in {"me", "cart"} ~> tab[t].boot = "ready"
===============================================================================
