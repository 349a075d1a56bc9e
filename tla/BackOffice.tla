------------------------------ MODULE BackOffice ------------------------------
(***************************************************************************)
(* What store owners and admins keep in the database beside orders and     *)
(* stock: the categories, products and variants of a store, its offers,    *)
(* its billing profile, payout accounts and hour exceptions, the store     *)
(* itself as an admin creates it, and the commission rules for it.         *)
(*                                                                         *)
(* Nearly every handler reads first, decides, and writes later, without a  *)
(* lock: an action for what it reads and one for each transaction that it  *)
(* commits.  Writes of a soft-deletable model find live rows only: the     *)
(* extension adds `deletedAt: null` to the where clause of an update; the  *)
(* unique indexes of the schema count deleted rows too.                    *)
(***************************************************************************)
EXTENDS Integers, Sequences, FiniteSets

CONSTANTS
  Procs,        \* requests that can be under way at the same time
  Desks,        \* sets of operations; a behaviour has those of one of them
  Categories, Products, Variants,
  Offers, Rewards, Coupons,
  Stores, Accounts, Dates,
  RuleScopes,   \* the scopes that admins give to commission rules
  InitialCatalog, \* the categories, products and variants there are at first, and the vertical
  MaxRequests   \* bound: requests in a behaviour

VARIABLES
  ops,         \* the operations of this behaviour
  req,         \* req[p]: the request that p handles
  made,        \* history: how many requests were made
  overlapped,  \* history: two were under way at the same time
  died,        \* history: one ended between two steps
  category, vertical, product, variant,  \* one store's catalog and its business category
  offer, asked,                          \* its offers; history: what owners asked for
  plans, billing,                        \* default fee plans; billing[s]: has s a billing profile?
  account, primary,                      \* payout accounts of a store
  exception, refused,                    \* hour exceptions; history: dates that were refused
  owner,                                 \* the user with the phone number an admin enters
  rules, rate                            \* commission rules; the one whose percentage the store has

desk     == <<made, overlapped, died, ops>>
catalog  == <<category, vertical, product, variant>>
offers   == <<offer, asked>>
money    == <<plans, billing, account, primary>>
rates    == <<rules, rate>>
others   == <<exception, refused, owner, rates>>
vars     == <<desk, req, catalog, offers, money, others>>

-------------------------------------------------------------------------------
None  == "none"
State == {"none", "live", "dead"}
Ids   == Categories \cup Products \cup Variants \cup Offers \cup Rewards \cup Coupons
           \cup Stores \cup Accounts \cup Dates \cup {None, "CUSTOMER", "STORE_OWNER"}

Category == [state : State, parent : Categories \cup {None}, own : BOOLEAN]
Product  == [state : State, active : BOOLEAN, category : Categories]
Variant  == [state : State, active : BOOLEAN, product : Products]
Offer    == [state : State, active : BOOLEAN, coupon : Coupons \cup {None},
             reward : Rewards, triggers : SUBSET Products]
\* By the last request for an offer that was done, and the triggers (sent) of the last one whose
\* first transaction committed.
Terms    == [reward : Rewards, triggers : SUBSET Products, sent : SUBSET Products]
Owner    == [role : {None, "CUSTOMER", "STORE_OWNER"}, stores : 0..MaxRequests, newcomer : BOOLEAN]

Site  == {"ours", "other"}
Scope == [store : Site \cup {None}, zone : Site \cup {None}, category : Categories \cup {None},
          city : Site \cup {None}]
\* now: it is in force; rules do not begin or end within a behaviour.
Rule  == [scope : Scope, now : BOOLEAN]
Tier  == {"store", "zone", "category", "city", "global"}

\* id: the row, to: what it is to refer to, on: a switch, set: new rows, or the row itself if
\* its switch is sent along, seen: those read, rule: the commission rule found.
Request == [op : (UNION Desks) \cup {"idle"}, at : {"read", "cleared", "replaced"} \cup Tier, id : Ids, to : Ids,
            on : BOOLEAN, set : SUBSET Ids, seen : SUBSET Ids, rule : Nat]
Idle    == [op |-> "idle", at |-> "read", id |-> None, to |-> None, on |-> FALSE, set |-> {},
            seen |-> {}, rule |-> 0]

\* Rows that do not exist, or no longer do, are not switched on.
ASSUME BackOfficeAssumption ==
  /\ IsFiniteSet(Procs) /\ MaxRequests \in Nat
  /\ Rewards # {} /\ RuleScopes \subseteq Scope /\ None \notin Categories
  /\ InitialCatalog.category \in [Categories -> Category] /\ InitialCatalog.vertical \in Categories
  /\ InitialCatalog.product \in [Products -> Product] /\ InitialCatalog.variant \in [Variants -> Variant]
  /\ \A x \in Products : InitialCatalog.product[x].active => InitialCatalog.product[x].state = "live"

Live(table)  == {x \in DOMAIN table : table[x].state = "live"}
Unused(table) == {x \in DOMAIN table : table[x].state = "none"}

\* p begins request r, with what it has read.
Begin(p, r) ==
  /\ r.op \in ops /\ req[p] = Idle /\ made < MaxRequests
  /\ made' = made + 1
  /\ overlapped' = (overlapped \/ \E q \in Procs : req[q] # Idle)
  /\ req' = [req EXCEPT ![p] = r]
  /\ UNCHANGED <<ops, died, catalog, offers, money, others>>

Goes(p, op, at) == req[p].op = op /\ req[p].at = at
End(p) == req' = [req EXCEPT ![p] = Idle] /\ UNCHANGED desk

\* A request or its process ends between two steps.
Die(p) ==
  /\ req[p] # Idle /\ req' = [req EXCEPT ![p] = Idle]
  /\ died' = TRUE
  /\ UNCHANGED <<made, overlapped, ops, catalog, offers, money, others>>

-------------------------------------------------------------------------------
(* Categories *)

\* createCategory and createStoreCategory look at the parent before they create.
ReadParent(p) ==
  \/ \E c \in Live(category) \cup {None} : Begin(p, [Idle EXCEPT !.op = "createCategory", !.to = c])
  \/ \E c \in Live(category) :
       /\ (c = vertical /\ ~category[c].own) \/ category[c].own
       /\ Begin(p, [Idle EXCEPT !.op = "createStoreCategory", !.to = c])

CreateCategory(p) ==
  /\ Goes(p, "createCategory", "read") \/ Goes(p, "createStoreCategory", "read")
  /\ \E c \in Unused(category) :
       category' = [category EXCEPT ![c] = [state |-> "live", parent |-> req[p].to,
                                            own |-> req[p].op = "createStoreCategory"]]
  /\ End(p) /\ UNCHANGED <<vertical, product, variant, offers, money, others>>

\* updateCategory takes any parent.
ReadCategory(p) ==
  \E c \in Live(category), d \in Live(category) : Begin(p, [Idle EXCEPT !.op = "updateCategory", !.id = c, !.to = d])

UpdateCategory(p) ==
  /\ Goes(p, "updateCategory", "read")
  /\ category' = IF category[req[p].id].state = "live"
                 THEN [category EXCEPT ![req[p].id].parent = req[p].to] ELSE category
  /\ End(p) /\ UNCHANGED <<vertical, product, variant, offers, money, others>>

\* deleteCategory: of the verticals an admin sees, one that no store is mapped to.
Deletable == {c \in Live(category) : ~category[c].own /\ vertical # c}

\* deleteStoreCategory: one of the store's own; its parent is remembered.
ReadDeletable(p) ==
  \/ \E c \in Deletable : Begin(p, [Idle EXCEPT !.op = "deleteCategory", !.id = c])
  \/ \E c \in Live(category) :
       category[c].own /\ Begin(p, [Idle EXCEPT !.op = "deleteStoreCategory", !.id = c, !.to = category[c].parent])

\* The products of category c move to its parent, if deleteStoreCategory has found one.
Moved(c, parent) ==
  [x \in Products |-> IF parent # None /\ product[x].state = "live" /\ product[x].category = c
                      THEN [product[x] EXCEPT !.category = parent] ELSE product[x]]

DeleteCategory(p) ==
  LET c == req[p].id IN
  /\ Goes(p, "deleteCategory", "read") \/ Goes(p, "deleteStoreCategory", "read")
  /\ IF category[c].state = "live"
     THEN /\ category' = [category EXCEPT ![c].state = "dead"]
          /\ product' = Moved(c, req[p].to)
     ELSE UNCHANGED <<category, product>>
  /\ End(p) /\ UNCHANGED <<vertical, variant, offers, money, others>>

\* updateStoreByAdmin: the vertical is one of those the admin's page has listed.
ListVerticals(p) ==
  \E c \in Live(category) : ~category[c].own /\ Begin(p, [Idle EXCEPT !.op = "updateStoreByAdmin", !.id = c])

UpdateStoreByAdmin(p) ==
  /\ Goes(p, "updateStoreByAdmin", "read")
  /\ vertical' = req[p].id
  /\ End(p) /\ UNCHANGED <<category, product, variant, offers, money, others>>

-------------------------------------------------------------------------------
(* Products and variants *)

\* listCategoriesForStore: what the owner's page offers for a product.
Listed == {c \in Live(category) : category[c].own} \cup {vertical}

\* createProduct takes any category, the vertical when none is given.
ListCategories(p) == \E c \in Listed : Begin(p, [Idle EXCEPT !.op = "createProduct", !.to = c])

CreateProduct(p) ==
  /\ Goes(p, "createProduct", "read")
  /\ \E x \in Unused(product), v \in Unused(variant) :
       /\ product' = [product EXCEPT ![x] = [state |-> "live", active |-> TRUE, category |-> req[p].to]]
       /\ variant' = [variant EXCEPT ![v] = [state |-> "live", active |-> TRUE, product |-> x]]
  /\ End(p) /\ UNCHANGED <<category, vertical, offers, money, others>>

\* getProduct, of all that change a product or add a variant to it.
ReadProduct(p) ==
  \E x \in Live(product) :
    \/ \E c \in Listed \cup {None}, set \in {{}, {x}}, on \in BOOLEAN :
         Begin(p, [Idle EXCEPT !.op = "updateProduct", !.id = x, !.to = c, !.set = set, !.on = on])
    \/ Begin(p, [Idle EXCEPT !.op = "deleteProduct", !.id = x])
    \/ Begin(p, [Idle EXCEPT !.op = "createVariant", !.id = x])

\* The row as the request asks for it; a switch or a category that is not sent is left.
Switched(row, r) == [row EXCEPT !.active = IF r.set = {} THEN @ ELSE r.on]
Changed(row, r)  == [Switched(row, r) EXCEPT !.category = IF r.to = None THEN @ ELSE r.to]

\* Mutant: the update finds deleted rows too, as without the soft-delete extension.
UpdateAnyProduct(p) ==
  /\ Goes(p, "updateProduct", "read")
  /\ product' = [product EXCEPT ![req[p].id] = Changed(@, req[p])]
  /\ End(p) /\ UNCHANGED <<category, vertical, variant, offers, money, others>>

UpdateProduct(p) ==
  LET x == req[p].id IN
  /\ Goes(p, "updateProduct", "read")
  /\ product' = IF product[x].state = "live" THEN [product EXCEPT ![x] = Changed(@, req[p])] ELSE product
  /\ End(p) /\ UNCHANGED <<category, vertical, variant, offers, money, others>>

\* With all the variants there are at this time.
DeleteProduct(p) ==
  LET x == req[p].id IN
  /\ Goes(p, "deleteProduct", "read")
  /\ IF product[x].state = "live"
     THEN /\ product' = [product EXCEPT ![x].state = "dead", ![x].active = FALSE]
          /\ variant' = [v \in Variants |->
                           IF variant[v].state = "live" /\ variant[v].product = x
                           THEN [variant[v] EXCEPT !.state = "dead", !.active = FALSE] ELSE variant[v]]
     ELSE UNCHANGED <<product, variant>>
  /\ End(p) /\ UNCHANGED <<category, vertical, offers, money, others>>

\* The product is not looked at again.
CreateVariant(p) ==
  /\ Goes(p, "createVariant", "read")
  /\ \E v \in Unused(variant) :
       variant' = [variant EXCEPT ![v] = [state |-> "live", active |-> TRUE, product |-> req[p].id]]
  /\ End(p) /\ UNCHANGED <<category, vertical, product, offers, money, others>>

ReadVariant(p) ==
  \E v \in Live(variant) :
    /\ variant[v].product \in Live(product)
    /\ \/ \E set \in {{}, {v}}, on \in BOOLEAN :
            Begin(p, [Idle EXCEPT !.op = "updateVariant", !.id = v, !.set = set, !.on = on])
       \/ Begin(p, [Idle EXCEPT !.op = "deleteVariant", !.id = v])

UpdateVariant(p) ==
  LET v == req[p].id IN
  /\ Goes(p, "updateVariant", "read")
  /\ variant' = IF variant[v].state = "live" THEN [variant EXCEPT ![v] = Switched(@, req[p])] ELSE variant
  /\ End(p) /\ UNCHANGED <<category, vertical, product, offers, money, others>>

DeleteVariant(p) ==
  LET v == req[p].id IN
  /\ Goes(p, "deleteVariant", "read")
  /\ variant' = IF variant[v].state = "live"
                THEN [variant EXCEPT ![v].state = "dead", ![v].active = FALSE] ELSE variant
  /\ End(p) /\ UNCHANGED <<category, vertical, product, offers, money, others>>

\* What the cart's addItem accepts: it does not look at the product's deletedAt.
Accepted == {v \in Live(variant) : variant[v].active /\ product[variant[v].product].active}

-------------------------------------------------------------------------------
(* Offers.  Offer is not among the soft-deletable models: an update finds deleted rows. *)

AskOffer(p) ==
  \E r \in Rewards, t \in SUBSET Products, k \in Coupons \cup {None} :
    Begin(p, [Idle EXCEPT !.op = "createOffer", !.id = k, !.to = r, !.set = t])

\* The coupon code is unique, among deleted offers too.
CreateOffer(p) ==
  LET terms == [reward |-> req[p].to, triggers |-> req[p].set, sent |-> req[p].set]
      taken == req[p].id # None /\ \E q \in Offers : offer[q].coupon = req[p].id IN
  /\ Goes(p, "createOffer", "read")
  /\ IF taken
     THEN UNCHANGED offers
     ELSE \E o \in Unused(offer) :
            /\ offer' = [offer EXCEPT ![o] = [state |-> "live", active |-> TRUE, coupon |-> req[p].id,
                                              reward |-> terms.reward, triggers |-> terms.triggers]]
            /\ asked' = [asked EXCEPT ![o] = terms]
  /\ End(p) /\ UNCHANGED <<catalog, money, others>>

\* updateOffer, toggleOffer, deleteOffer.  updateOffer is asked for a reward, new triggers
\* (on) or both.
ReadOffer(p) ==
  \E o \in Live(offer) :
    \/ \E r \in Rewards \cup {None}, t \in SUBSET Products, on \in BOOLEAN :
         /\ ~on => t = {}
         /\ Begin(p, [Idle EXCEPT !.op = "updateOffer", !.id = o, !.to = r, !.on = on, !.set = t])
    \/ \E on \in BOOLEAN : Begin(p, [Idle EXCEPT !.op = "toggleOffer", !.id = o, !.on = on])
    \/ Begin(p, [Idle EXCEPT !.op = "deleteOffer", !.id = o])

\* Mutant: the triggers are deleted by a transaction of their own.
ClearAtOnce(p) ==
  /\ Goes(p, "updateOffer", "read")
  /\ req' = [req EXCEPT ![p].at = "cleared"]
  /\ offer' = [offer EXCEPT ![req[p].id].triggers = IF req[p].on THEN {} ELSE @]
  /\ UNCHANGED <<desk, asked, catalog, money, others>>

\* deleteMany: the triggers it finds are gone when the transaction commits.
ClearTriggers(p) ==
  /\ Goes(p, "updateOffer", "read")
  /\ req' = [req EXCEPT ![p].at = "cleared",
                        ![p].seen = IF req[p].on THEN offer[req[p].id].triggers ELSE {}]
  /\ UNCHANGED <<desk, catalog, offers, money, others>>

\* Another transaction that waits to delete the same rows finds them gone; triggers that
\* are created again are new rows.
Replaced(p) ==
  [q \in Procs |->
     IF q = p THEN [req[q] EXCEPT !.at = "replaced"]
     ELSE IF Goes(q, "updateOffer", "cleared") /\ req[q].id = req[p].id
          THEN [req[q] EXCEPT !.seen = @ \ req[p].seen] ELSE req[q]]

\* What owners have asked for, with the first transaction of p's update.
Asked(p) == [asked EXCEPT ![req[p].id].sent = IF req[p].on THEN req[p].set ELSE @]

\* Mutant: no triggers asked for are taken as none sent.
ReplaceSome(p) ==
  LET o == req[p].id
      left == offer[o].triggers \ req[p].seen IN
  /\ Goes(p, "updateOffer", "cleared") /\ (req[p].set \cap left = {} \/ ~req[p].on)
  /\ offer' = IF req[p].set # {} THEN [offer EXCEPT ![o].triggers = left \cup req[p].set] ELSE offer
  /\ req' = Replaced(p) /\ asked' = Asked(p)
  /\ UNCHANGED <<desk, catalog, money, others>>

\* The first transaction commits; READ COMMITTED, so triggers may have been added since.
ReplaceTriggers(p) ==
  LET o == req[p].id
      left == offer[o].triggers \ req[p].seen IN
  /\ Goes(p, "updateOffer", "cleared") /\ (req[p].set \cap left = {} \/ ~req[p].on)
  /\ offer' = IF req[p].on THEN [offer EXCEPT ![o].triggers = left \cup req[p].set] ELSE offer
  /\ req' = Replaced(p) /\ asked' = Asked(p)
  /\ UNCHANGED <<desk, catalog, money, others>>

\* A trigger to be created is there already: the transaction fails.
ReplaceFails(p) ==
  /\ Goes(p, "updateOffer", "cleared") /\ req[p].on
  /\ req[p].set \cap (offer[req[p].id].triggers \ req[p].seen) # {}
  /\ End(p) /\ UNCHANGED <<catalog, offers, money, others>>

\* The second one writes the row.
UpdateOffer(p) ==
  LET o == req[p].id
      reward == IF req[p].to = None THEN offer[o].reward ELSE req[p].to IN
  /\ Goes(p, "updateOffer", "replaced")
  /\ offer' = [offer EXCEPT ![o].reward = reward]
  /\ asked' = [asked EXCEPT ![o].reward = IF req[p].to = None THEN @ ELSE req[p].to,
                            ![o].triggers = IF req[p].on THEN req[p].set ELSE @]
  /\ End(p) /\ UNCHANGED <<catalog, money, others>>

ToggleOffer(p) ==
  /\ Goes(p, "toggleOffer", "read")
  /\ offer' = [offer EXCEPT ![req[p].id].active = req[p].on]
  /\ End(p) /\ UNCHANGED <<asked, catalog, money, others>>

DeleteOffer(p) ==
  /\ Goes(p, "deleteOffer", "read")
  /\ offer' = [offer EXCEPT ![req[p].id].state = "dead", ![req[p].id].active = FALSE]
  /\ End(p) /\ UNCHANGED <<asked, catalog, money, others>>

-------------------------------------------------------------------------------
(* Billing profiles and payout accounts *)

\* getBillingProfile of a store that has none; `on`: there is a default plan.
ReadBilling(p) ==
  \E s \in Stores : ~billing[s] /\ Begin(p, [Idle EXCEPT !.op = "getBillingProfile", !.id = s, !.on = (plans > 0)])

CreatePlan(p) ==
  /\ Goes(p, "getBillingProfile", "read")
  /\ plans' = IF req[p].on THEN plans ELSE plans + 1
  /\ req' = [req EXCEPT ![p].at = "replaced"]
  /\ UNCHANGED <<desk, billing, account, primary, catalog, offers, others>>

\* A store has one profile: a second insert fails.
CreateBilling(p) ==
  /\ Goes(p, "getBillingProfile", "replaced")
  /\ billing' = [billing EXCEPT ![req[p].id] = TRUE]
  /\ End(p) /\ UNCHANGED <<plans, account, primary, catalog, offers, others>>

\* createPayoutAccount: the primary ones it has found are demoted, a new one is primary.
DemoteAccounts(p) == Begin(p, [Idle EXCEPT !.op = "createPayoutAccount", !.seen = primary])

\* Mutant: the others stay primary.
AddAccount(p) ==
  /\ Goes(p, "createPayoutAccount", "read")
  /\ \E a \in Accounts \ account : account' = account \cup {a} /\ primary' = primary \cup {a}
  /\ End(p) /\ UNCHANGED <<plans, billing, catalog, offers, others>>

CreatePayoutAccount(p) ==
  /\ Goes(p, "createPayoutAccount", "read")
  /\ \E a \in Accounts \ account : account' = account \cup {a} /\ primary' = (primary \ req[p].seen) \cup {a}
  /\ End(p) /\ UNCHANGED <<plans, billing, catalog, offers, others>>

-------------------------------------------------------------------------------
(* Hour exceptions *)

\* `on`: there is one for that date.
ReadException(p) ==
  \E d \in Dates :
    \/ Begin(p, [Idle EXCEPT !.op = "createHourException", !.id = d, !.on = (exception[d] = "live")])
    \/ exception[d] = "live" /\ Begin(p, [Idle EXCEPT !.op = "deleteHourException", !.id = d])

\* The row that was found is updated, or one is made; a date has one row, dead or live.
SetException(p) ==
  LET d == req[p].id IN
  /\ Goes(p, "createHourException", "read")
  /\ IF req[p].on THEN refused' = (IF exception[d] = "live" THEN refused ELSE refused \cup {d}) /\ UNCHANGED exception
     ELSE IF exception[d] # "none" THEN refused' = refused \cup {d} /\ UNCHANGED exception
     ELSE exception' = [exception EXCEPT ![d] = "live"] /\ UNCHANGED refused
  /\ End(p) /\ UNCHANGED <<owner, rates, catalog, offers, money>>

DeleteHourException(p) ==
  /\ Goes(p, "deleteHourException", "read")
  /\ exception' = [exception EXCEPT ![req[p].id] = "dead"]
  /\ End(p) /\ UNCHANGED <<refused, owner, rates, catalog, offers, money>>

-------------------------------------------------------------------------------
(* createStoreByAdmin *)

\* The user is looked up; one who owns a store is refused.
FindOwner(p) ==
  /\ owner.role = "STORE_OWNER" => owner.stores = 0
  /\ Begin(p, [Idle EXCEPT !.op = "createStoreByAdmin", !.to = owner.role])

\* By what was found: a user nobody knew is inserted, a customer is upgraded (whose row in
\* store_owners is looked for by then), an owner gets the store at once.
CreateStoreByAdmin(p) ==
  LET fails == req[p].to = None /\ owner.role # None IN  \* phone_number is unique
  /\ Goes(p, "createStoreByAdmin", "read")
  /\ owner' = IF fails THEN owner
              ELSE [owner EXCEPT !.role = "STORE_OWNER", !.stores = @ + 1]
  /\ End(p) /\ UNCHANGED <<exception, refused, rates, catalog, offers, money>>

-------------------------------------------------------------------------------
(* Commission: createCommissionRule, and approveStore's applyEffectiveRateToStore *)

\* One insert; rules are never changed.
CreateCommissionRule(p) ==
  /\ "createCommissionRule" \in ops /\ req[p] = Idle /\ made < MaxRequests
  /\ made' = made + 1
  /\ overlapped' = (overlapped \/ \E q \in Procs : req[q] # Idle)
  /\ \E scope \in RuleScopes, now \in BOOLEAN : rules' = Append(rules, [scope |-> scope, now |-> now])
  /\ UNCHANGED <<req, died, ops, rate, exception, refused, owner, catalog, offers, money>>

\* The store's row is read for its category; its zone and city do not change.
ReadStore(p) == Begin(p, [Idle EXCEPT !.op = "approveStore", !.to = vertical])

\* Mutant: the category tier takes the rules of other zones too.
AnyTierRules(tier, c) ==
  {i \in DOMAIN rules :
     LET s == rules[i].scope IN
     rules[i].now /\ CASE tier = "store"    -> s.store = "ours"
                        [] tier = "zone"     -> s.zone = "ours" /\ s.store = None
                        [] tier = "category" -> s.category = c /\ s.store = None
                        [] tier = "city"     -> s.city = "ours" /\ {s.category, s.zone, s.store} = {None}
                        [] tier = "global"   -> {s.city, s.category, s.zone, s.store} = {None}}

\* What a tier's query asks for: the columns of the tiers before it are null, those of the
\* tiers after it are not looked at.
TierRules(tier, c) ==
  {i \in DOMAIN rules :
     LET s == rules[i].scope IN
     rules[i].now /\ CASE tier = "store"    -> s.store = "ours"
                        [] tier = "zone"     -> s.zone = "ours" /\ s.store = None
                        [] tier = "category" -> s.category = c /\ {s.zone, s.store} = {None}
                        [] tier = "city"     -> s.city = "ours" /\ {s.category, s.zone, s.store} = {None}
                        [] tier = "global"   -> {s.city, s.category, s.zone, s.store} = {None}}

NextTier == [read |-> "store", store |-> "zone", zone |-> "category", category |-> "city", city |-> "global"]

\* resolve asks one tier after the other and takes the newest rule of the first that has one.
ResolveTier(p) ==
  /\ req[p].op = "approveStore" /\ req[p].at \in DOMAIN NextTier /\ req[p].rule = 0
  /\ LET tier  == NextTier[req[p].at]
         found == TierRules(tier, req[p].to) IN
     req' = [req EXCEPT ![p].at = tier,
                        ![p].rule = IF found = {} THEN 0 ELSE CHOOSE i \in found : \A j \in found : j <= i]
  /\ UNCHANGED <<desk, catalog, offers, money, others>>

\* Without a rule in force there is none to apply: the approval fails.
ApplyEffectiveRateToStore(p) ==
  /\ req[p].op = "approveStore" /\ (req[p].rule # 0 \/ req[p].at = "global")
  /\ rate' = IF req[p].rule = 0 THEN rate ELSE req[p].rule
  /\ End(p) /\ UNCHANGED <<rules, exception, refused, owner, catalog, offers, money>>

-------------------------------------------------------------------------------
Init ==
  /\ ops \in Desks /\ req = [p \in Procs |-> Idle]
  /\ made = 0 /\ overlapped = FALSE /\ died = FALSE
  /\ category = InitialCatalog.category /\ vertical = InitialCatalog.vertical
  /\ product = InitialCatalog.product /\ variant = InitialCatalog.variant
  /\ offer = [o \in Offers |-> [state |-> "none", active |-> FALSE, coupon |-> None,
                                reward |-> CHOOSE r \in Rewards : TRUE, triggers |-> {}]]
  /\ asked = [o \in Offers |-> [reward |-> offer[o].reward, triggers |-> {}, sent |-> {}]]
  /\ plans = 0 /\ billing = [s \in Stores |-> FALSE]
  /\ account = {} /\ primary = {}
  /\ exception = [d \in Dates |-> "none"] /\ refused = {}
  /\ rules = <<[scope |-> [store |-> None, zone |-> None, category |-> None, city |-> None], now |-> TRUE]>>
  /\ rate = 0
  /\ \E newcomer \in BOOLEAN :
       owner = [role |-> IF newcomer THEN None ELSE "CUSTOMER", stores |-> 0, newcomer |-> newcomer]

Asks(p) ==
  \/ ReadParent(p) \/ ReadCategory(p) \/ ReadDeletable(p) \/ ListVerticals(p)
  \/ ListCategories(p) \/ ReadProduct(p) \/ ReadVariant(p)
  \/ AskOffer(p) \/ ReadOffer(p)
  \/ ReadBilling(p) \/ DemoteAccounts(p) \/ ReadException(p) \/ FindOwner(p)
  \/ ReadStore(p) \/ CreateCommissionRule(p)

Writes(p) ==
  \/ CreateCategory(p) \/ UpdateCategory(p) \/ DeleteCategory(p) \/ UpdateStoreByAdmin(p)
  \/ CreateProduct(p) \/ UpdateProduct(p) \/ DeleteProduct(p)
  \/ CreateVariant(p) \/ UpdateVariant(p) \/ DeleteVariant(p)
  \/ CreateOffer(p) \/ ClearTriggers(p) \/ ReplaceTriggers(p) \/ ReplaceFails(p) \/ UpdateOffer(p)
  \/ ToggleOffer(p) \/ DeleteOffer(p)
  \/ CreatePlan(p) \/ CreateBilling(p) \/ CreatePayoutAccount(p)
  \/ SetException(p) \/ DeleteHourException(p) \/ CreateStoreByAdmin(p)
  \/ ResolveTier(p) \/ ApplyEffectiveRateToStore(p)

Next == \E p \in Procs : Asks(p) \/ Writes(p) \/ Die(p)

Spec == Init /\ [][Next]_vars

-------------------------------------------------------------------------------
TypeOK ==
  /\ ops \in Desks /\ req \in [Procs -> Request] /\ made \in 0..MaxRequests
  /\ overlapped \in BOOLEAN /\ died \in BOOLEAN
  /\ category \in [Categories -> Category] /\ vertical \in Categories
  /\ product \in [Products -> Product] /\ variant \in [Variants -> Variant]
  /\ offer \in [Offers -> Offer] /\ asked \in [Offers -> Terms]
  /\ plans \in 0..MaxRequests /\ billing \in [Stores -> BOOLEAN]
  /\ account \in SUBSET Accounts /\ primary \in SUBSET account
  /\ exception \in [Dates -> State] /\ refused \in SUBSET Dates
  /\ owner \in Owner
  /\ rules \in Seq(Rule) /\ rate \in {0} \cup DOMAIN rules

\* Whatever overlaps, the cart accepts variants of live products only, though it looks at
\* the product's isActive and not at its deletedAt: no update that was decided before the
\* product was deleted switches it on again, and a variant that is added to a deleted
\* product stays out of reach.
SellableIsLive == \A v \in Accepted : product[variant[v].product].state = "live"

\* Without overlap, and wherever updates end, an offer has the reward of the last update that
\* was done and the triggers of the last one whose first transaction committed, never some
\* of them; if none has ended between its two transactions those are of one update.
OfferAsAsked ==
  ~overlapped =>
    \A o \in Offers :
      /\ offer[o].reward = asked[o].reward /\ offer[o].triggers = asked[o].sent
      /\ (~died /\ \A p \in Procs : req[p] = Idle) => asked[o].sent = asked[o].triggers

\* An offer without triggers is for every product: however updates overlap, and wherever
\* they end, one that has triggers loses the last of them only to an update that asks for none.
OffersStayNarrow ==
  [][\A o \in Offers :
       offer[o].state # "none" /\ offer[o].triggers # {} /\ offer'[o].triggers = {} =>
         \E p \in Procs : req[p].op = "updateOffer" /\ req[p].id = o /\ req[p].on /\ req[p].set = {}]_vars

\* The tables keep their types, and find-or-create makes one row: without overlap the
\* stores share one default plan, a store has one primary payout account, an owner one
\* store, and an owner who sets an exception is refused only for a date that had one and was
\* deleted, even if requests end between two steps.  A phone number that nobody has used yet
\* gets one store whatever overlaps.
OneRowEach ==
  /\ TypeOK
  /\ ~overlapped => /\ plans <= 1 /\ Cardinality(primary) <= 1 /\ owner.stores <= 1
                    /\ \A d \in refused : exception[d] = "dead"
  /\ owner.newcomer => owner.stores <= 1

\* By the scopes that a rule names: store before zone before category before city.
Narrowness(s) == IF s.store # None THEN 4 ELSE IF s.zone # None THEN 3
                 ELSE IF s.category # None THEN 2 ELSE IF s.city # None THEN 1 ELSE 0

\* Every scope that a rule names is the store's.
Fits(s) == s.store # "other" /\ s.zone # "other" /\ s.city # "other" /\ s.category \in {None, vertical}

\* The rule applied is narrower than every other that fits the store, or as narrow and newer.
BestRule ==
  \A i \in DOMAIN rules :
    rules[i].now /\ Fits(rules[i].scope) =>
      \/ Narrowness(rules[i].scope) < Narrowness(rules[rate'].scope)
      \/ Narrowness(rules[i].scope) = Narrowness(rules[rate'].scope) /\ i <= rate'

\* The rate that a store is approved with is never that of another store's or another
\* zone's rule, whatever is created while the tiers are asked; without overlap no rule in
\* force that fits the store is narrower than the one applied, or as narrow and newer.
\* Another city's rule does apply when it names the store's category: that tier does not
\* look at the city.
RateAsRuled ==
  [][rate' # rate =>
       LET applied == rules[rate'].scope IN
       /\ applied.store # "other" /\ (applied.store = None => applied.zone # "other")
       /\ ~overlapped' => BestRule]_vars
===============================================================================
