--------------------------- MODULE BackOfficeProofs ---------------------------
(***************************************************************************)
(* Proofs about BackOffice, for any number of requests, whatever tables    *)
(* the store has and whichever operations an owner or admin may call.      *)
(***************************************************************************)
EXTENDS BackOffice, SequenceTheorems, FiniteSetTheorems, TLAPS

-------------------------------------------------------------------------------
(* Requests *)

\* What a request refers to is a row, or a value, of the right table.
Refers(r) ==
  /\ r.rule \in {0} \cup DOMAIN rules
  /\ r.op \in {"createCategory", "createStoreCategory"} => r.to \in Categories \cup {None}
  /\ r.op = "updateCategory" => r.id \in Categories /\ r.to \in Categories
  /\ r.op \in {"deleteCategory", "deleteStoreCategory"} =>
       r.id \in Categories /\ r.to \in Categories \cup {None}
  /\ r.op = "updateStoreByAdmin" => r.id \in Categories
  /\ r.op = "createProduct" => r.to \in Categories
  /\ r.op = "updateProduct" => r.id \in Products /\ r.to \in Categories \cup {None}
  /\ r.op \in {"deleteProduct", "createVariant"} => r.id \in Products
  /\ r.op \in {"updateVariant", "deleteVariant"} => r.id \in Variants
  /\ r.op = "createOffer" => r.id \in Coupons \cup {None} /\ r.to \in Rewards /\ r.set \subseteq Products
  /\ r.op = "updateOffer" => r.id \in Offers /\ r.to \in Rewards \cup {None} /\ r.set \subseteq Products
  /\ r.op \in {"toggleOffer", "deleteOffer"} => r.id \in Offers
  /\ r.op = "getBillingProfile" => r.id \in Stores
  /\ r.op \in {"createHourException", "deleteHourException"} => r.id \in Dates

\* What a request that runs by itself has read is still so.
Current(r) ==
  /\ r.op = "getBillingProfile" /\ r.at = "read" => (r.on <=> plans > 0)
  /\ r.op = "createPayoutAccount" => r.seen = primary
  /\ r.op = "createHourException" => (r.on <=> exception[r.id] = "live")
  /\ r.op = "deleteHourException" => exception[r.id] = "live"
  /\ r.op = "createStoreByAdmin" => r.to = owner.role /\ (owner.role = "STORE_OWNER" => owner.stores = 0)
  /\ r.op = "approveStore" => r.to = vertical

\* A request of p begins with r.
Begun(p, r) ==
  /\ req[p] = Idle /\ made < MaxRequests /\ made' = made + 1
  /\ overlapped' = (overlapped \/ \E q \in Procs : req[q] # Idle)
  /\ req' = [req EXCEPT ![p] = r]
  /\ UNCHANGED <<ops, died, catalog, offers, money, others>>

\* p begins a request that refers to what is there.
Fresh(p) ==
  \E r \in Request : r # Idle /\ r.at = "read" /\ r.rule = 0 /\ Refers(r) /\ Current(r) /\ Begun(p, r)

LEMMA NamesAreIds ==
  /\ Categories \subseteq Ids /\ Products \subseteq Ids /\ Variants \subseteq Ids
  /\ Offers \subseteq Ids /\ Rewards \subseteq Ids /\ Coupons \subseteq Ids /\ Stores \subseteq Ids
  /\ Accounts \subseteq Ids /\ Dates \subseteq Ids
  /\ None \in Ids /\ "CUSTOMER" \in Ids /\ "STORE_OWNER" \in Ids
  BY DEF Ids

LEMMA OpIsKnown ==
  ASSUME TypeOK, NEW p \in Procs, NEW r, Begin(p, r)
  PROVE  r.op \in (UNION Desks) \cup {"idle"}
  BY DEF TypeOK, Begin

LEMMA BeginIs ==
  ASSUME NEW p \in Procs, NEW r \in Request, Begin(p, r), r.op # "idle", r.at = "read", r.rule = 0,
         Refers(r), Current(r)
  PROVE  Fresh(p)
<1>1. r # Idle
  BY DEF Idle
<1>2. Begun(p, r)
  BY DEF Begin, Begun
<1> QED BY <1>1, <1>2 DEF Fresh

\* A request that a handler of the catalog begins.
LEMMA CatalogAsks ==
  ASSUME TypeOK, NEW p \in Procs,
         \/ ReadParent(p) \/ ReadCategory(p) \/ ReadDeletable(p) \/ ListVerticals(p)
         \/ ListCategories(p) \/ ReadProduct(p) \/ ReadVariant(p)
  PROVE  Fresh(p)
<1>1. /\ Live(category) \subseteq Categories /\ Live(product) \subseteq Products
      /\ Live(variant) \subseteq Variants /\ Listed \subseteq Categories
  BY DEF Live, Listed, TypeOK
<1>2. \A c \in Categories : category[c].parent \in Categories \cup {None}
  BY DEF TypeOK, Category
<1>3. FALSE \in BOOLEAN /\ {} \in SUBSET Ids
  OBVIOUS
<1>4. CASE ReadParent(p)
  <2>1. ASSUME NEW c \in Categories \cup {None}, NEW op \in {"createCategory", "createStoreCategory"}, NEW r,
               r = [Idle EXCEPT !.op = op, !.to = c], Begin(p, r)
        PROVE  Fresh(p)
    <3>1. r \in Request
      BY <1>3, <2>1, OpIsKnown, NamesAreIds DEF Idle, Request
    <3> QED BY <2>1, <3>1, BeginIs DEF Idle, Refers, Current
  <2> QED BY <1>1, <1>4, <2>1 DEF ReadParent
<1>5. CASE ReadCategory(p)
  <2>1. ASSUME NEW c \in Categories, NEW d \in Categories, NEW r,
               r = [Idle EXCEPT !.op = "updateCategory", !.id = c, !.to = d], Begin(p, r)
        PROVE  Fresh(p)
    <3>1. r \in Request
      BY <1>3, <2>1, OpIsKnown, NamesAreIds DEF Idle, Request
    <3> QED BY <2>1, <3>1, BeginIs DEF Idle, Refers, Current
  <2> QED BY <1>1, <1>5, <2>1 DEF ReadCategory
<1>6. CASE ReadDeletable(p)
  <2>1. ASSUME NEW c \in Categories, NEW r, r = [Idle EXCEPT !.op = "deleteCategory", !.id = c], Begin(p, r)
        PROVE  Fresh(p)
    <3>1. r \in Request
      BY <1>3, <2>1, OpIsKnown, NamesAreIds DEF Idle, Request
    <3> QED BY <2>1, <3>1, BeginIs DEF Idle, Refers, Current
  <2>2. ASSUME NEW c \in Categories, NEW d \in Categories \cup {None}, NEW r,
               r = [Idle EXCEPT !.op = "deleteStoreCategory", !.id = c, !.to = d], Begin(p, r)
        PROVE  Fresh(p)
    <3>1. r \in Request
      BY <1>3, <2>2, OpIsKnown, NamesAreIds DEF Idle, Request
    <3> QED BY <2>2, <3>1, BeginIs DEF Idle, Refers, Current
  <2> QED BY <1>1, <1>2, <1>6, <2>1, <2>2 DEF ReadDeletable, Deletable
<1>7. CASE ListVerticals(p)
  <2>1. ASSUME NEW c \in Categories, NEW r,
               r = [Idle EXCEPT !.op = "updateStoreByAdmin", !.id = c], Begin(p, r)
        PROVE  Fresh(p)
    <3>1. r \in Request
      BY <1>3, <2>1, OpIsKnown, NamesAreIds DEF Idle, Request
    <3> QED BY <2>1, <3>1, BeginIs DEF Idle, Refers, Current
  <2> QED BY <1>1, <1>7, <2>1 DEF ListVerticals
<1>8. CASE ListCategories(p)
  <2>1. ASSUME NEW c \in Categories, NEW r,
               r = [Idle EXCEPT !.op = "createProduct", !.to = c], Begin(p, r)
        PROVE  Fresh(p)
    <3>1. r \in Request
      BY <1>3, <2>1, OpIsKnown, NamesAreIds DEF Idle, Request
    <3> QED BY <2>1, <3>1, BeginIs DEF Idle, Refers, Current
  <2> QED BY <1>1, <1>8, <2>1 DEF ListCategories
<1>9. CASE ReadProduct(p)
  <2>1. ASSUME NEW x \in Products, NEW c \in Categories \cup {None}, NEW set \in {{}, {x}}, NEW on \in BOOLEAN, NEW r,
               r = [Idle EXCEPT !.op = "updateProduct", !.id = x, !.to = c, !.set = set, !.on = on], Begin(p, r)
        PROVE  Fresh(p)
    <3>1. set \in SUBSET Ids
      BY NamesAreIds
    <3>2. r \in Request
      BY <1>3, <2>1, <3>1, OpIsKnown, NamesAreIds DEF Idle, Request
    <3> QED BY <2>1, <3>2, BeginIs DEF Idle, Refers, Current
  <2>2. ASSUME NEW x \in Products, NEW op \in {"deleteProduct", "createVariant"}, NEW r,
               r = [Idle EXCEPT !.op = op, !.id = x], Begin(p, r)
        PROVE  Fresh(p)
    <3>1. r \in Request
      BY <1>3, <2>2, OpIsKnown, NamesAreIds DEF Idle, Request
    <3> QED BY <2>2, <3>1, BeginIs DEF Idle, Refers, Current
  <2> QED BY <1>1, <1>9, <2>1, <2>2 DEF ReadProduct
<1>10. CASE ReadVariant(p)
  <2>1. ASSUME NEW v \in Variants, NEW set \in {{}, {v}}, NEW on \in BOOLEAN, NEW r,
               r = [Idle EXCEPT !.op = "updateVariant", !.id = v, !.set = set, !.on = on], Begin(p, r)
        PROVE  Fresh(p)
    <3>1. set \in SUBSET Ids
      BY NamesAreIds
    <3>2. r \in Request
      BY <1>3, <2>1, <3>1, OpIsKnown, NamesAreIds DEF Idle, Request
    <3> QED BY <2>1, <3>2, BeginIs DEF Idle, Refers, Current
  <2>2. ASSUME NEW v \in Variants, NEW r, r = [Idle EXCEPT !.op = "deleteVariant", !.id = v], Begin(p, r)
        PROVE  Fresh(p)
    <3>1. r \in Request
      BY <1>3, <2>2, OpIsKnown, NamesAreIds DEF Idle, Request
    <3> QED BY <2>2, <3>1, BeginIs DEF Idle, Refers, Current
  <2> QED BY <1>1, <1>10, <2>1, <2>2 DEF ReadVariant
<1> QED BY <1>4, <1>5, <1>6, <1>7, <1>8, <1>9, <1>10

\* Any other request.
LEMMA OtherAsks ==
  ASSUME TypeOK, NEW p \in Procs,
         \/ AskOffer(p) \/ ReadOffer(p) \/ ReadBilling(p) \/ DemoteAccounts(p)
         \/ ReadException(p) \/ FindOwner(p) \/ ReadStore(p)
  PROVE  Fresh(p)
<1>1. Live(offer) \subseteq Offers
  BY DEF Live, TypeOK
<1>2. owner.role \in {None, "CUSTOMER", "STORE_OWNER"} /\ vertical \in Categories /\ primary \subseteq Accounts
  BY DEF TypeOK, Owner
<1>3. FALSE \in BOOLEAN /\ {} \in SUBSET Ids
  OBVIOUS
<1>4. CASE AskOffer(p)
  <2>1. ASSUME NEW w \in Rewards, NEW t \in SUBSET Products, NEW k \in Coupons \cup {None}, NEW r,
               r = [Idle EXCEPT !.op = "createOffer", !.id = k, !.to = w, !.set = t], Begin(p, r)
        PROVE  Fresh(p)
    <3>1. r \in Request
      BY <1>3, <2>1, OpIsKnown, NamesAreIds DEF Idle, Request
    <3> QED BY <2>1, <3>1, BeginIs DEF Idle, Refers, Current
  <2> QED BY <1>4, <2>1 DEF AskOffer
<1>5. CASE ReadOffer(p)
  <2>1. ASSUME NEW o \in Offers, NEW w \in Rewards \cup {None}, NEW t \in SUBSET Products, NEW on \in BOOLEAN, NEW r,
               r = [Idle EXCEPT !.op = "updateOffer", !.id = o, !.to = w, !.on = on, !.set = t], Begin(p, r)
        PROVE  Fresh(p)
    <3>1. r \in Request
      BY <1>3, <2>1, OpIsKnown, NamesAreIds DEF Idle, Request
    <3> QED BY <2>1, <3>1, BeginIs DEF Idle, Refers, Current
  <2>2. ASSUME NEW o \in Offers, NEW on \in BOOLEAN, NEW r,
               r = [Idle EXCEPT !.op = "toggleOffer", !.id = o, !.on = on], Begin(p, r)
        PROVE  Fresh(p)
    <3>1. r \in Request
      BY <1>3, <2>2, OpIsKnown, NamesAreIds DEF Idle, Request
    <3> QED BY <2>2, <3>1, BeginIs DEF Idle, Refers, Current
  <2>3. ASSUME NEW o \in Offers, NEW r, r = [Idle EXCEPT !.op = "deleteOffer", !.id = o], Begin(p, r)
        PROVE  Fresh(p)
    <3>1. r \in Request
      BY <1>3, <2>3, OpIsKnown, NamesAreIds DEF Idle, Request
    <3> QED BY <2>3, <3>1, BeginIs DEF Idle, Refers, Current
  <2> QED BY <1>1, <1>5, <2>1, <2>2, <2>3 DEF ReadOffer
<1>6. CASE ReadBilling(p)
  <2>1. ASSUME NEW s \in Stores, NEW r,
               r = [Idle EXCEPT !.op = "getBillingProfile", !.id = s, !.on = (plans > 0)], Begin(p, r)
        PROVE  Fresh(p)
    <3> DEFINE some == plans > 0
    <3>0. some \in BOOLEAN /\ r = [Idle EXCEPT !.op = "getBillingProfile", !.id = s, !.on = some]
      BY <2>1
    <3> HIDE DEF some
    <3>1. PICK on \in BOOLEAN : r = [Idle EXCEPT !.op = "getBillingProfile", !.id = s, !.on = on]
      BY <3>0
    <3>2. r.op \in (UNION Desks) \cup {"idle"}
      BY <2>1, OpIsKnown
    <3>3. r \in Request
      BY <1>3, <3>1, <3>2, NamesAreIds DEF Idle, Request
    <3> QED BY <2>1, <3>3, BeginIs DEF Idle, Refers, Current
  <2> QED BY <1>6, <2>1 DEF ReadBilling
<1>7. CASE DemoteAccounts(p)
  <2>1. PICK r : r = [Idle EXCEPT !.op = "createPayoutAccount", !.seen = primary] /\ Begin(p, r)
    BY <1>7 DEF DemoteAccounts
  <2>2. r \in Request
    BY <1>2, <1>3, <2>1, OpIsKnown, NamesAreIds DEF Idle, Request
  <2> QED BY <2>1, <2>2, BeginIs DEF Idle, Refers, Current
<1>8. CASE ReadException(p)
  <2>1. ASSUME NEW d \in Dates, NEW r,
               r = [Idle EXCEPT !.op = "createHourException", !.id = d, !.on = (exception[d] = "live")], Begin(p, r)
        PROVE  Fresh(p)
    <3>1. PICK on \in BOOLEAN : r = [Idle EXCEPT !.op = "createHourException", !.id = d, !.on = on]
      BY <2>1
    <3>2. r.op \in (UNION Desks) \cup {"idle"}
      BY <2>1, OpIsKnown
    <3>3. r \in Request
      BY <1>3, <3>1, <3>2, NamesAreIds DEF Idle, Request
    <3> QED BY <2>1, <3>3, BeginIs DEF Idle, Refers, Current
  <2>2. ASSUME NEW d \in Dates, exception[d] = "live", NEW r,
               r = [Idle EXCEPT !.op = "deleteHourException", !.id = d], Begin(p, r)
        PROVE  Fresh(p)
    <3>1. r \in Request
      BY <1>3, <2>2, OpIsKnown, NamesAreIds DEF Idle, Request
    <3> QED BY <2>2, <3>1, BeginIs DEF Idle, Refers, Current
  <2> QED BY <1>8, <2>1, <2>2 DEF ReadException
<1>9. CASE FindOwner(p)
  <2>1. PICK r : r = [Idle EXCEPT !.op = "createStoreByAdmin", !.to = owner.role] /\ Begin(p, r)
    BY <1>9 DEF FindOwner
  <2>2. r \in Request
    BY <1>2, <1>3, <2>1, OpIsKnown, NamesAreIds DEF Idle, Request
  <2> QED BY <1>9, <2>1, <2>2, BeginIs DEF FindOwner, Idle, Refers, Current
<1>10. CASE ReadStore(p)
  <2>1. PICK r : r = [Idle EXCEPT !.op = "approveStore", !.to = vertical] /\ Begin(p, r)
    BY <1>10 DEF ReadStore
  <2>2. r \in Request
    BY <1>2, <1>3, <2>1, OpIsKnown, NamesAreIds DEF Idle, Request
  <2> QED BY <2>1, <2>2, BeginIs DEF Idle, Refers, Current
<1> QED BY <1>4, <1>5, <1>6, <1>7, <1>8, <1>9, <1>10

-------------------------------------------------------------------------------
(* Types *)

\* The requests that may still add a plan or a store.
Pending == {p \in Procs : req[p] # Idle /\ req[p].at # "replaced"}
Counted == plans + owner.stores + Cardinality(Pending) <= made

TypeInv == TypeOK /\ Counted /\ \A p \in Procs : Refers(req[p])

\* The requests keep their types, and none begins.
Moves ==
  /\ req' \in [Procs -> Request] /\ Pending' \subseteq Pending
  /\ \A q \in Procs : Refers(req[q])'

LEMMA IdleRefers == Idle \in Request /\ Refers(Idle)
<1>1. FALSE \in BOOLEAN /\ {} \in SUBSET Ids /\ None \in Ids
  BY NamesAreIds
<1>2. Idle \in Request
  BY <1>1 DEF Idle, Request
<1>3. Refers(Idle)
  BY DEF Idle, Refers
<1> QED BY <1>2, <1>3

LEMMA RequestMoves ==
  ASSUME TypeInv, NEW p \in Procs, NEW r \in Request, Refers(r), req' = [req EXCEPT ![p] = r], rules' = rules,
         r = Idle \/ r.at = "replaced" \/ p \in Pending
  PROVE  Moves /\ (r = Idle \/ r.at = "replaced" => Pending' \subseteq Pending \ {p})
<1>1. req \in [Procs -> Request] /\ \A q \in Procs : Refers(req[q])
  BY DEF TypeInv, TypeOK
<1>2. req' \in [Procs -> Request] /\ req'[p] = r /\ \A q \in Procs \ {p} : req'[q] = req[q]
  BY <1>1
<1>3. \A q \in Procs : Refers(req[q])'
  BY <1>1, <1>2 DEF Refers
<1>4. \A q \in Pending' : q = p \/ q \in Pending
  BY <1>2 DEF Pending
<1>5. r = Idle \/ r.at = "replaced" => p \notin Pending'
  BY <1>2 DEF Pending
<1> QED BY <1>2, <1>3, <1>4, <1>5 DEF Moves

LEMMA EndMoves ==
  ASSUME TypeInv, NEW p \in Procs, End(p), rules' = rules
  PROVE  Moves /\ Pending' \subseteq Pending \ {p}
  BY IdleRefers, RequestMoves DEF End

LEMMA PendingIsFinite ==
  /\ IsFiniteSet(Pending) /\ Cardinality(Pending) \in Nat
  /\ IsFiniteSet(Pending)' /\ Cardinality(Pending)' \in Nat
<1>1. Pending \in SUBSET Procs /\ Pending' \in SUBSET Procs
  BY DEF Pending
<1> QED BY <1>1, BackOfficeAssumption, FS_Subset, FS_CardinalityType

LEMMA FewerPending ==
  ASSUME Pending' \subseteq Pending
  PROVE  Cardinality(Pending)' <= Cardinality(Pending)
  BY PendingIsFinite, FS_Subset

LEMMA OneLessPending ==
  ASSUME NEW p \in Pending, Pending' \subseteq Pending \ {p}
  PROVE  Cardinality(Pending)' + 1 <= Cardinality(Pending)
<1>1. IsFiniteSet(Pending \ {p}) /\ Cardinality(Pending \ {p}) = Cardinality(Pending) - 1
  BY PendingIsFinite, FS_RemoveElement
<1>2. Cardinality(Pending)' <= Cardinality(Pending \ {p})
  BY <1>1, FS_Subset
<1> QED BY <1>1, <1>2, PendingIsFinite

LEMMA OneMorePending ==
  ASSUME NEW p \in Procs, Pending' \subseteq Pending \cup {p}
  PROVE  Cardinality(Pending)' <= Cardinality(Pending) + 1
<1>1. /\ IsFiniteSet(Pending \cup {p})
      /\ Cardinality(Pending \cup {p}) \in {Cardinality(Pending), Cardinality(Pending) + 1}
  <2>1. /\ IsFiniteSet(Pending \cup {p})
        /\ Cardinality(Pending \cup {p}) = IF p \in Pending THEN Cardinality(Pending) ELSE Cardinality(Pending) + 1
    BY PendingIsFinite, FS_AddElement
  <2> QED BY <2>1
<1>2. Cardinality(Pending)' <= Cardinality(Pending \cup {p})
  BY <1>1, FS_Subset
<1> QED BY <1>1, <1>2, PendingIsFinite

\* No plan and no store is added.
LEMMA StillCounted ==
  ASSUME TypeInv, Pending' \subseteq Pending, UNCHANGED <<plans, owner, made>>
  PROVE  Counted'
<1>1. plans \in Nat /\ owner.stores \in Nat /\ made \in Nat
  BY BackOfficeAssumption DEF TypeInv, TypeOK, Owner
<1> QED BY <1>1, FewerPending, PendingIsFinite DEF TypeInv, Counted

\* Only the catalog is written.
LEMMA CatalogWrites ==
  ASSUME TypeInv, NEW p \in Procs,
         \/ CreateCategory(p) \/ UpdateCategory(p) \/ DeleteCategory(p) \/ UpdateStoreByAdmin(p)
         \/ CreateProduct(p) \/ UpdateProduct(p) \/ DeleteProduct(p)
         \/ CreateVariant(p) \/ UpdateVariant(p) \/ DeleteVariant(p)
  PROVE  /\ TypeInv' /\ req' = [req EXCEPT ![p] = Idle]
         /\ UNCHANGED <<desk, offers, money, others>>
<1> DEFINE r == req[p]
<1>1. /\ r \in Request /\ Refers(r)
      /\ category \in [Categories -> Category] /\ vertical \in Categories
      /\ product \in [Products -> Product] /\ variant \in [Variants -> Variant]
  BY DEF TypeInv, TypeOK
<1> HIDE DEF r
<1>2. End(p) /\ UNCHANGED <<offers, money, others>>
  BY DEF CreateCategory, UpdateCategory, DeleteCategory, UpdateStoreByAdmin, CreateProduct, UpdateProduct,
         DeleteProduct, CreateVariant, UpdateVariant, DeleteVariant
<1>3. req' = [req EXCEPT ![p] = Idle] /\ UNCHANGED <<desk, offers, money, others>>
  BY <1>2 DEF End
<1> DEFINE Typed == /\ category' \in [Categories -> Category] /\ vertical' \in Categories
                    /\ product' \in [Products -> Product] /\ variant' \in [Variants -> Variant]
<1>4. ASSUME CreateCategory(p) PROVE Typed
  <2>1. r.to \in Categories \cup {None}
    BY <1>1, <1>4 DEF CreateCategory, Goes, Refers, r
  <2>2. [state |-> "live", parent |-> r.to, own |-> r.op = "createStoreCategory"] \in Category
    BY <2>1 DEF Category, State
  <2>3. category' \in [Categories -> Category]
    BY <1>1, <1>4, <2>2 DEF CreateCategory, r
  <2> QED BY <1>1, <1>4, <2>3 DEF CreateCategory
<1>5. ASSUME UpdateCategory(p) PROVE Typed
  <2>1. r.id \in Categories /\ r.to \in Categories
    BY <1>1, <1>5 DEF UpdateCategory, Goes, Refers, r
  <2>2. [category[r.id] EXCEPT !.parent = r.to] \in Category
    BY <1>1, <2>1 DEF Category
  <2>3. category' \in [Categories -> Category]
    BY <1>1, <1>5, <2>1, <2>2 DEF UpdateCategory, r
  <2> QED BY <1>1, <1>5, <2>3 DEF UpdateCategory
<1>6. ASSUME DeleteCategory(p) PROVE Typed
  <2>1. r.id \in Categories /\ r.to \in Categories \cup {None}
    BY <1>1, <1>6 DEF DeleteCategory, Goes, Refers, r
  <2>2. [category[r.id] EXCEPT !.state = "dead"] \in Category
    BY <1>1, <2>1 DEF Category, State
  <2>3. category' \in [Categories -> Category]
    BY <1>1, <1>6, <2>1, <2>2 DEF DeleteCategory, r
  <2>4. Moved(r.id, r.to) \in [Products -> Product]
    BY <1>1, <2>1 DEF Moved, Product
  <2>5. product' \in [Products -> Product]
    BY <1>1, <1>6, <2>4 DEF DeleteCategory, r
  <2> QED BY <1>1, <1>6, <2>3, <2>5 DEF DeleteCategory
<1>7. ASSUME UpdateStoreByAdmin(p) PROVE Typed
  BY <1>1, <1>7 DEF UpdateStoreByAdmin, Goes, Refers, r
<1>8. ASSUME CreateProduct(p) PROVE Typed
  <2>1. r.to \in Categories
    BY <1>1, <1>8 DEF CreateProduct, Goes, Refers, r
  <2>2. PICK x \in Products, v \in Variants :
          /\ product' = [product EXCEPT ![x] = [state |-> "live", active |-> TRUE, category |-> r.to]]
          /\ variant' = [variant EXCEPT ![v] = [state |-> "live", active |-> TRUE, product |-> x]]
    BY <1>1, <1>8 DEF CreateProduct, Unused, r
  <2>3. /\ [state |-> "live", active |-> TRUE, category |-> r.to] \in Product
        /\ [state |-> "live", active |-> TRUE, product |-> x] \in Variant
    BY <2>1 DEF Product, Variant, State
  <2>4. product' \in [Products -> Product] /\ variant' \in [Variants -> Variant]
    BY <1>1, <2>2, <2>3
  <2> QED BY <1>1, <1>8, <2>4 DEF CreateProduct
<1>9. ASSUME UpdateProduct(p) PROVE Typed
  <2>1. r.id \in Products /\ r.to \in Categories \cup {None} /\ r.on \in BOOLEAN
    BY <1>1, <1>9 DEF UpdateProduct, Goes, Refers, Request, r
  <2>2. Changed(product[r.id], r) \in Product
    BY <1>1, <2>1 DEF Changed, Switched, Product
  <2>3. product' \in [Products -> Product]
    BY <1>1, <1>9, <2>1, <2>2 DEF UpdateProduct, r
  <2> QED BY <1>1, <1>9, <2>3 DEF UpdateProduct
<1>10. ASSUME DeleteProduct(p) PROVE Typed
  <2>1. r.id \in Products
    BY <1>1, <1>10 DEF DeleteProduct, Goes, Refers, r
  <2>2. [product[r.id] EXCEPT !.state = "dead", !.active = FALSE] \in Product
    BY <1>1, <2>1 DEF Product, State
  <2>3. \A v \in Variants : [variant[v] EXCEPT !.state = "dead", !.active = FALSE] \in Variant
    BY <1>1 DEF Variant, State
  <2>4. product' \in [Products -> Product]
    <3>1. product' = [product EXCEPT ![r.id] = [product[r.id] EXCEPT !.state = "dead", !.active = FALSE]]
            \/ product' = product
      BY <1>1, <1>10, <2>1 DEF DeleteProduct, r
    <3> QED BY <1>1, <2>1, <2>2, <3>1
  <2>5. variant' \in [Variants -> Variant]
    <3> DEFINE gone(v) == [variant[v] EXCEPT !.state = "dead", !.active = FALSE]
    <3>1. \/ variant' = [v \in Variants |-> IF variant[v].state = "live" /\ variant[v].product = r.id
                                           THEN gone(v) ELSE variant[v]]
          \/ variant' = variant
      BY <1>10 DEF DeleteProduct, r
    <3>2. \A v \in Variants : gone(v) \in Variant /\ variant[v] \in Variant
      BY <1>1, <2>3
    <3> HIDE DEF gone
    <3> QED BY <1>1, <3>1, <3>2
  <2> QED BY <1>1, <1>10, <2>4, <2>5 DEF DeleteProduct
<1>11. ASSUME CreateVariant(p) PROVE Typed
  <2>1. r.id \in Products
    BY <1>1, <1>11 DEF CreateVariant, Goes, Refers, r
  <2>2. [state |-> "live", active |-> TRUE, product |-> r.id] \in Variant
    BY <2>1 DEF Variant, State
  <2>3. variant' \in [Variants -> Variant]
    BY <1>1, <1>11, <2>2 DEF CreateVariant, r
  <2> QED BY <1>1, <1>11, <2>3 DEF CreateVariant
<1>12. ASSUME UpdateVariant(p) PROVE Typed
  <2>1. r.id \in Variants /\ r.on \in BOOLEAN
    BY <1>1, <1>12 DEF UpdateVariant, Goes, Refers, Request, r
  <2>2. Switched(variant[r.id], r) \in Variant
    BY <1>1, <2>1 DEF Switched, Variant
  <2>3. variant' \in [Variants -> Variant]
    BY <1>1, <1>12, <2>1, <2>2 DEF UpdateVariant, r
  <2> QED BY <1>1, <1>12, <2>3 DEF UpdateVariant
<1>13. ASSUME DeleteVariant(p) PROVE Typed
  <2>1. r.id \in Variants
    BY <1>1, <1>13 DEF DeleteVariant, Goes, Refers, r
  <2>2. [variant[r.id] EXCEPT !.state = "dead", !.active = FALSE] \in Variant
    BY <1>1, <2>1 DEF Variant, State
  <2>3. variant' \in [Variants -> Variant]
    BY <1>1, <1>13, <2>1, <2>2 DEF DeleteVariant, r
  <2> QED BY <1>1, <1>13, <2>3 DEF DeleteVariant
<1>14. Typed
  BY <1>4, <1>5, <1>6, <1>7, <1>8, <1>9, <1>10, <1>11, <1>12, <1>13
<1>15. Moves /\ Counted'
  BY <1>2, <1>3, EndMoves, StillCounted DEF desk, money, others, rates, Moves
<1>16. TypeOK'
  BY <1>3, <1>14, <1>15 DEF TypeInv, TypeOK, Moves, desk, offers, money, others, rates
<1> QED BY <1>3, <1>15, <1>16 DEF TypeInv, Moves

\* ReplaceTriggers changes what other requests have seen, and nothing else of them.
LEMMA ReplacedMoves ==
  ASSUME TypeInv, NEW p \in Procs, req[p].op = "updateOffer", req' = Replaced(p), rules' = rules
  PROVE  /\ Moves
         /\ req'[p] = [req[p] EXCEPT !.at = "replaced"]
         /\ \A q \in Procs \ {p} : \E seen \in SUBSET Ids : req'[q] = [req[q] EXCEPT !.seen = seen]
<1>1. req \in [Procs -> Request] /\ \A q \in Procs : Refers(req[q])
  BY DEF TypeInv, TypeOK
<1>2. DOMAIN req' = Procs /\ req'[p] = [req[p] EXCEPT !.at = "replaced"]
  BY DEF Replaced
<1>3. ASSUME NEW q \in Procs \ {p}
      PROVE  \E seen \in SUBSET Ids : req'[q] = [req[q] EXCEPT !.seen = seen]
  <2>1. req[q] \in Request /\ req[q].seen \in SUBSET Ids
    BY <1>1 DEF Request
  <2>2. CASE Goes(q, "updateOffer", "cleared") /\ req[q].id = req[p].id
    <3>1. req'[q] = [req[q] EXCEPT !.seen = req[q].seen \ req[p].seen]
      BY <2>2 DEF Replaced
    <3> QED BY <2>1, <3>1
  <2>3. CASE ~(Goes(q, "updateOffer", "cleared") /\ req[q].id = req[p].id)
    <3>1. req'[q] = req[q] /\ req[q] = [req[q] EXCEPT !.seen = req[q].seen]
      BY <2>1, <2>3 DEF Replaced, Request
    <3> QED BY <2>1, <3>1
  <2> QED BY <2>2, <2>3
<1>4. ASSUME NEW q \in Procs
      PROVE  req'[q] \in Request /\ Refers(req[q])' /\ (q \in Pending' => q \in Pending)
  <2>1. req[q] \in Request /\ Refers(req[q])
    BY <1>1
  <2>2. CASE q = p
    BY <1>2, <2>1, <2>2 DEF Request, Refers, Pending
  <2>3. CASE q # p
    <3>1. PICK seen \in SUBSET Ids : req'[q] = [req[q] EXCEPT !.seen = seen]
      BY <1>3, <2>3
    <3>2. req'[q] \in Request /\ Refers(req[q])'
      BY <2>1, <3>1 DEF Request, Refers
    <3>3. req[q] = Idle => req'[q] = Idle
      BY <2>3 DEF Replaced, Goes, Idle
    <3> QED BY <3>1, <3>2, <3>3, <2>1 DEF Pending, Request
  <2> QED BY <2>2, <2>3
<1>5. req' = [q \in Procs |-> req'[q]]
  BY DEF Replaced
<1>6. Pending' \subseteq Pending
  BY <1>4 DEF Pending
<1> QED BY <1>2, <1>3, <1>4, <1>5, <1>6 DEF Moves

\* Only offers are written.
LEMMA OfferWrites ==
  ASSUME TypeInv, NEW p \in Procs,
         \/ CreateOffer(p) \/ ClearTriggers(p) \/ ReplaceTriggers(p) \/ ReplaceFails(p)
         \/ UpdateOffer(p) \/ ToggleOffer(p) \/ DeleteOffer(p)
  PROVE  TypeInv' /\ UNCHANGED <<desk, catalog, money, others>>
<1> DEFINE r == req[p]
<1>1. /\ r \in Request /\ Refers(r)
      /\ offer \in [Offers -> Offer] /\ asked \in [Offers -> Terms]
  BY DEF TypeInv, TypeOK
<1> HIDE DEF r
<1>2. UNCHANGED <<desk, catalog, money, others>>
  BY DEF CreateOffer, ClearTriggers, ReplaceTriggers, ReplaceFails, UpdateOffer, ToggleOffer, DeleteOffer, End
<1> DEFINE Typed == Moves /\ offer' \in [Offers -> Offer] /\ asked' \in [Offers -> Terms]
<1>3. rules' = rules
  BY <1>2 DEF others, rates
<1>4. ASSUME CreateOffer(p) PROVE Typed
  <2>1. r.id \in Coupons \cup {None} /\ r.to \in Rewards /\ r.set \in SUBSET Products
    BY <1>1, <1>4 DEF CreateOffer, Goes, Refers, r
  <2>2. /\ [state |-> "live", active |-> TRUE, coupon |-> r.id, reward |-> r.to, triggers |-> r.set] \in Offer
        /\ [reward |-> r.to, triggers |-> r.set, sent |-> r.set] \in Terms
    BY <2>1 DEF Offer, State, Terms
  <2>3. offer' \in [Offers -> Offer] /\ asked' \in [Offers -> Terms]
    <3>1. CASE UNCHANGED offers
      BY <1>1, <3>1 DEF offers
    <3>2. CASE ~UNCHANGED offers
      <4>1. PICK o \in Offers :
              /\ offer' = [offer EXCEPT ![o] = [state |-> "live", active |-> TRUE, coupon |-> r.id,
                                                reward |-> r.to, triggers |-> r.set]]
              /\ asked' = [asked EXCEPT ![o] = [reward |-> r.to, triggers |-> r.set, sent |-> r.set]]
        BY <1>1, <1>4, <3>2 DEF CreateOffer, Unused, r
      <4> QED BY <1>1, <2>2, <4>1
    <3> QED BY <3>1, <3>2
  <2>4. Moves
    BY <1>3, <1>4, EndMoves DEF CreateOffer
  <2> QED BY <2>3, <2>4
<1>5. ASSUME ClearTriggers(p) PROVE Typed
  <2>1. r.id \in Offers /\ r.op = "updateOffer" /\ r.at = "read"
    BY <1>1, <1>5 DEF ClearTriggers, Goes, Refers, r
  <2>2. PICK seen \in SUBSET Ids : req' = [req EXCEPT ![p] = [r EXCEPT !.at = "cleared", !.seen = seen]]
    <3>1. offer[r.id].triggers \in SUBSET Ids
      BY <1>1, <2>1, NamesAreIds DEF Offer
    <3> QED BY <1>5, <3>1 DEF ClearTriggers, r
  <2> DEFINE s == [r EXCEPT !.at = "cleared", !.seen = seen]
  <2>3. s \in Request /\ Refers(s)
    BY <1>1, <2>1 DEF Request, Refers
  <2>4. p \in Pending
    BY <2>1 DEF Pending, Idle, r
  <2>5. req' = [req EXCEPT ![p] = s]
    BY <2>2
  <2> HIDE DEF s
  <2>6. Moves
    BY <1>3, <2>3, <2>4, <2>5, RequestMoves
  <2> QED BY <1>1, <1>5, <2>6 DEF ClearTriggers, offers
<1>6. ASSUME ReplaceTriggers(p) PROVE Typed
  <2>1. r.id \in Offers /\ r.op = "updateOffer" /\ r.set \in SUBSET Products
    BY <1>1, <1>6 DEF ReplaceTriggers, Goes, Refers, r
  <2>2. offer[r.id].triggers \in SUBSET Products
    BY <1>1, <2>1 DEF Offer
  <2>3. [offer[r.id] EXCEPT !.triggers = (offer[r.id].triggers \ r.seen) \cup r.set] \in Offer
    BY <1>1, <2>1, <2>2 DEF Offer
  <2>4. offer' \in [Offers -> Offer]
    BY <1>1, <1>6, <2>1, <2>3 DEF ReplaceTriggers, r
  <2>5. Moves
    BY <1>3, <1>6, <2>1, ReplacedMoves DEF ReplaceTriggers, r
  <2>6. asked' \in [Offers -> Terms]
    <3> DEFINE row == [asked[r.id] EXCEPT !.sent = IF r.on THEN r.set ELSE asked[r.id].sent]
    <3>1. row \in Terms
      BY <1>1, <2>1 DEF Terms
    <3>2. asked' = [asked EXCEPT ![r.id] = row]
      BY <1>1, <1>6, <2>1 DEF ReplaceTriggers, Asked, r
    <3> HIDE DEF row
    <3> QED BY <1>1, <2>1, <3>1, <3>2
  <2> QED BY <2>4, <2>5, <2>6
<1>7. ASSUME ReplaceFails(p) PROVE Typed
  BY <1>1, <1>3, <1>7, EndMoves DEF ReplaceFails, offers
<1>8. ASSUME UpdateOffer(p) PROVE Typed
  <2>1. r.id \in Offers /\ r.to \in Rewards \cup {None} /\ r.set \in SUBSET Products
    BY <1>1, <1>8 DEF UpdateOffer, Goes, Refers, r
  <2>2. PICK w \in Rewards : offer' = [offer EXCEPT ![r.id] = [offer[r.id] EXCEPT !.reward = w]]
    <3>1. offer[r.id].reward \in Rewards
      BY <1>1, <2>1 DEF Offer
    <3> QED BY <1>1, <1>8, <2>1, <3>1 DEF UpdateOffer, r
  <2>3. PICK row \in Terms : asked' = [asked EXCEPT ![r.id] = row]
    <3> DEFINE new == [asked[r.id] EXCEPT !.reward = IF r.to = None THEN asked[r.id].reward ELSE r.to,
                                          !.triggers = IF r.on THEN r.set ELSE asked[r.id].triggers]
    <3>1. new \in Terms
      BY <1>1, <2>1 DEF Terms
    <3>2. asked' = [asked EXCEPT ![r.id] = new]
      BY <1>1, <1>8, <2>1 DEF UpdateOffer, Terms, r
    <3> QED BY <3>1, <3>2
  <2>4. \A x \in Rewards : [offer[r.id] EXCEPT !.reward = x] \in Offer
    BY <1>1, <2>1 DEF Offer
  <2>5. offer' \in [Offers -> Offer] /\ asked' \in [Offers -> Terms]
    BY <1>1, <2>1, <2>2, <2>3, <2>4
  <2> QED BY <1>3, <1>8, <2>5, EndMoves DEF UpdateOffer
<1>9. ASSUME ToggleOffer(p) PROVE Typed
  <2>1. r.id \in Offers /\ r.on \in BOOLEAN
    BY <1>1, <1>9 DEF ToggleOffer, Goes, Refers, Request, r
  <2>2. [offer[r.id] EXCEPT !.active = r.on] \in Offer
    BY <1>1, <2>1 DEF Offer
  <2>3. offer' \in [Offers -> Offer]
    BY <1>1, <1>9, <2>1, <2>2 DEF ToggleOffer, r
  <2> QED BY <1>1, <1>3, <1>9, <2>3, EndMoves DEF ToggleOffer
<1>10. ASSUME DeleteOffer(p) PROVE Typed
  <2>1. r.id \in Offers
    BY <1>1, <1>10 DEF DeleteOffer, Goes, Refers, r
  <2>2. [offer[r.id] EXCEPT !.state = "dead", !.active = FALSE] \in Offer
    <3>1. offer[r.id] \in Offer /\ "dead" \in State /\ FALSE \in BOOLEAN
      BY <1>1, <2>1 DEF State
    <3> QED BY ONLY <3>1 DEF Offer
  <2>3. offer' = [offer EXCEPT ![r.id] = [offer[r.id] EXCEPT !.state = "dead", !.active = FALSE]]
    BY <1>1, <1>10, <2>1 DEF DeleteOffer, r
  <2>4. offer' \in [Offers -> Offer]
    BY <1>1, <2>1, <2>2, <2>3
  <2> QED BY <1>1, <1>3, <1>10, <2>4, EndMoves DEF DeleteOffer
<1>11. Typed
  BY <1>4, <1>5, <1>6, <1>7, <1>8, <1>9, <1>10
<1>12. Counted'
  BY <1>2, <1>11, StillCounted DEF desk, money, others, rates, Moves
<1>13. TypeOK'
  BY <1>2, <1>11 DEF TypeInv, TypeOK, Moves, desk, catalog, money, others, rates
<1> QED BY <1>2, <1>11, <1>12, <1>13 DEF TypeInv, Moves

\* Only plans, profiles and accounts are written.
LEMMA MoneyWrites ==
  ASSUME TypeInv, NEW p \in Procs, CreatePlan(p) \/ CreateBilling(p) \/ CreatePayoutAccount(p)
  PROVE  TypeInv' /\ UNCHANGED <<desk, catalog, offers, others>>
<1> DEFINE r == req[p]
<1>1. /\ r \in Request /\ Refers(r) /\ plans \in 0..MaxRequests /\ billing \in [Stores -> BOOLEAN]
      /\ account \in SUBSET Accounts /\ primary \in SUBSET account
      /\ made \in 0..MaxRequests /\ owner.stores \in Nat /\ MaxRequests \in Nat
  BY BackOfficeAssumption DEF TypeInv, TypeOK, Owner
<1> HIDE DEF r
<1>2. UNCHANGED <<desk, catalog, offers, others>>
  BY DEF CreatePlan, CreateBilling, CreatePayoutAccount, End
<1>3. rules' = rules /\ owner' = owner /\ made' = made
  BY <1>2 DEF others, rates, desk
<1> DEFINE Typed == /\ Moves /\ Counted' /\ plans' \in 0..MaxRequests /\ billing' \in [Stores -> BOOLEAN]
                    /\ account' \in SUBSET Accounts /\ primary' \in SUBSET account'
<1>4. ASSUME CreatePlan(p) PROVE Typed
  <2> DEFINE s == [r EXCEPT !.at = "replaced"]
  <2>1. r.op = "getBillingProfile" /\ r.at = "read"
    BY <1>4 DEF CreatePlan, Goes, r
  <2>2. s \in Request /\ Refers(s) /\ s.at = "replaced"
    BY <1>1, <2>1 DEF Request, Refers
  <2>3. p \in Pending /\ req' = [req EXCEPT ![p] = s]
    BY <1>4, <2>1 DEF Pending, Idle, CreatePlan, r
  <2> HIDE DEF s
  <2>4. Moves /\ Pending' \subseteq Pending \ {p}
    BY <1>3, <2>2, <2>3, RequestMoves
  <2>5. Cardinality(Pending)' + 1 <= Cardinality(Pending)
    BY <2>3, <2>4, OneLessPending
  <2>6. plans' \in {plans, plans + 1}
    BY <1>4 DEF CreatePlan
  <2>7. plans' \in Nat /\ plans' + owner.stores + Cardinality(Pending)' <= made
    BY <1>1, <2>5, <2>6, PendingIsFinite DEF TypeInv, Counted
  <2>8. plans' \in 0..MaxRequests
    BY <1>1, <2>7, PendingIsFinite
  <2>9. Counted'
    BY <1>3, <2>7 DEF Counted
  <2> QED BY <1>1, <1>4, <2>4, <2>8, <2>9 DEF CreatePlan
<1>5. ASSUME CreateBilling(p) \/ CreatePayoutAccount(p) PROVE Typed
  <2>1. End(p) /\ plans' = plans
    BY <1>5 DEF CreateBilling, CreatePayoutAccount
  <2>2. Moves /\ Counted'
    BY <1>3, <2>1, EndMoves, StillCounted DEF Moves
  <2>3. billing' \in [Stores -> BOOLEAN]
    BY <1>1, <1>5 DEF CreateBilling, CreatePayoutAccount
  <2>4. account' \in SUBSET Accounts /\ primary' \in SUBSET account'
    BY <1>1, <1>5 DEF CreateBilling, CreatePayoutAccount
  <2> QED BY <1>1, <2>1, <2>2, <2>3, <2>4
<1>6. Typed
  BY <1>4, <1>5
<1>7. TypeOK'
  BY <1>2, <1>6 DEF TypeInv, TypeOK, Moves, desk, catalog, offers, others, rates
<1> QED BY <1>2, <1>6, <1>7 DEF TypeInv, Moves

\* What the rules of a tier say of the store, as resolve finds them.
Fair(i) == /\ rules[i].scope.store # "other"
           /\ rules[i].scope.store = None => rules[i].scope.zone # "other"

LEMMA TierRulesAreFair ==
  ASSUME NEW tier \in Tier, NEW c, NEW i \in TierRules(tier, c)
  PROVE  i \in DOMAIN rules /\ rules[i].now /\ Fair(i)
  BY DEF TierRules, Tier, Fair, None

\* A set of rules has a newest one.
LEMMA NewestOfSome ==
  ASSUME TypeOK, NEW S \in SUBSET DOMAIN rules, S # {}
  PROVE  \E i \in S : \A j \in S : j <= i
<1>1. PICK n \in Nat : DOMAIN rules = 1..n
  BY LenProperties DEF TypeOK
<1> DEFINE Ages == {k \in Nat : n - k \in S}
<1>2. PICK a \in S : TRUE
  OBVIOUS
<1>3. n - a \in Ages
  BY <1>1, <1>2
<1>4. PICK k \in Ages : \A m \in Ages : <<m, k>> \notin OpToRel(<, Nat)
  BY <1>3, NatLessThanWellFounded, WFMin
<1>5. \A m \in Ages : k <= m
  <2>1. \A m \in Ages : ~(m < k)
    BY <1>4 DEF OpToRel
  <2>2. k \in Nat /\ Ages \subseteq Nat
    BY <1>4
  <2> HIDE DEF Ages
  <2> QED BY <2>1, <2>2
<1>6. \A j \in S : n - j \in Ages
  BY <1>1
<1>7. \A j \in S : j <= n - k
  BY <1>1, <1>5, <1>6
<1> QED BY <1>4, <1>7

\* Only exceptions, the owner, rules and the rate are written.
LEMMA OtherWrites ==
  ASSUME TypeInv, NEW p \in Procs,
         \/ SetException(p) \/ DeleteHourException(p) \/ CreateStoreByAdmin(p)
         \/ ResolveTier(p) \/ ApplyEffectiveRateToStore(p)
  PROVE  TypeInv' /\ UNCHANGED <<desk, catalog, offers, money, rules>>
<1> DEFINE r == req[p]
<1>1. /\ r \in Request /\ Refers(r) /\ owner \in Owner
      /\ exception \in [Dates -> State] /\ refused \in SUBSET Dates
      /\ rate \in {0} \cup DOMAIN rules /\ plans \in Nat /\ made \in 0..MaxRequests /\ MaxRequests \in Nat
  BY BackOfficeAssumption DEF TypeInv, TypeOK
<1> HIDE DEF r
<1>2. UNCHANGED <<desk, catalog, offers, money, rules>>
  BY DEF SetException, DeleteHourException, CreateStoreByAdmin, ResolveTier, ApplyEffectiveRateToStore,
         End, rates, others
<1>3. plans' = plans /\ made' = made /\ rules' = rules
  BY <1>2 DEF money, desk
<1> DEFINE Typed == /\ Moves /\ Counted' /\ owner' \in Owner
                    /\ exception' \in [Dates -> State] /\ refused' \in SUBSET Dates
                    /\ rate' \in {0} \cup DOMAIN rules
<1>4. ASSUME SetException(p) \/ DeleteHourException(p) PROVE Typed
  <2>1. r.id \in Dates /\ owner' = owner /\ rate' = rate /\ End(p)
    BY <1>1, <1>4 DEF SetException, DeleteHourException, Goes, Refers, r, rates
  <2>2. exception' \in [Dates -> State] /\ refused' \in SUBSET Dates
    BY <1>1, <1>4, <2>1 DEF SetException, DeleteHourException, State, r
  <2>3. Moves /\ Counted'
    BY <1>3, <2>1, EndMoves, StillCounted DEF Moves
  <2> QED BY <1>1, <2>1, <2>2, <2>3
<1>5. ASSUME CreateStoreByAdmin(p) PROVE Typed
  <2>1. End(p) /\ UNCHANGED <<exception, refused, rate>> /\ p \in Pending
    BY <1>5 DEF CreateStoreByAdmin, Goes, Pending, Idle, rates
  <2>2. Moves /\ Pending' \subseteq Pending \ {p}
    BY <1>3, <2>1, EndMoves
  <2>3. Cardinality(Pending)' + 1 <= Cardinality(Pending)
    BY <2>1, <2>2, OneLessPending
  <2>4. \/ owner' = owner
        \/ owner' = [owner EXCEPT !.role = "STORE_OWNER", !.stores = owner.stores + 1]
    BY <1>5 DEF CreateStoreByAdmin
  <2>5. owner'.stores \in {owner.stores, owner.stores + 1} /\ owner.stores \in Nat
    <3>1. owner.stores \in Nat /\ owner \in [role : {None, "CUSTOMER", "STORE_OWNER"}, stores : Nat, newcomer : BOOLEAN]
      BY <1>1 DEF Owner
    <3>2. CASE owner' = owner
      BY <3>1, <3>2
    <3>3. CASE owner' = [owner EXCEPT !.role = "STORE_OWNER", !.stores = owner.stores + 1]
      BY <3>1, <3>3
    <3> QED BY <2>4, <3>2, <3>3
  <2>6. owner'.stores \in Nat /\ plans + owner'.stores + Cardinality(Pending)' <= made
    BY <1>1, <2>3, <2>5, PendingIsFinite DEF TypeInv, Counted
  <2>7. owner'.stores \in 0..MaxRequests
    BY <1>1, <2>6, PendingIsFinite
  <2>8. owner' \in Owner
    BY <1>1, <2>4, <2>7 DEF Owner
  <2>9. Counted'
    BY <1>3, <2>6 DEF Counted
  <2> QED BY <1>1, <2>1, <2>2, <2>8, <2>9
<1>6. ASSUME ResolveTier(p) PROVE Typed
  <2>1. UNCHANGED <<exception, refused, owner, rate>>
    BY <1>6 DEF ResolveTier, others, rates
  <2>2. PICK tier \in Tier, i \in {0} \cup DOMAIN rules : req' = [req EXCEPT ![p] = [r EXCEPT !.at = tier, !.rule = i]]
    <3> DEFINE t == NextTier[r.at]
               found == TierRules(t, r.to)
    <3>1. t \in Tier
      BY <1>6 DEF ResolveTier, NextTier, Tier, r
    <3>2. found \in SUBSET DOMAIN rules
      BY <3>1, TierRulesAreFair
    <3>3. found # {} => (CHOOSE i \in found : \A j \in found : j <= i) \in found
      BY <3>2, NewestOfSome DEF TypeInv
    <3> DEFINE i == IF found = {} THEN 0 ELSE CHOOSE k \in found : \A j \in found : j <= k
    <3>4. req' = [req EXCEPT ![p] = [r EXCEPT !.at = t, !.rule = i]]
      <4>1. req' = [req EXCEPT ![p].at = t, ![p].rule = i]
        BY <1>6 DEF ResolveTier, r
      <4> HIDE DEF t, found, i
      <4> QED BY <1>1, <4>1 DEF Request, r
    <3>5. i \in {0} \cup DOMAIN rules
      BY <3>2, <3>3
    <3> HIDE DEF t, found, i
    <3> QED BY <3>1, <3>4, <3>5
  <2> DEFINE s == [r EXCEPT !.at = tier, !.rule = i]
  <2>3. r.op = "approveStore" /\ r.at # "replaced"
    BY <1>6 DEF ResolveTier, NextTier, r
  <2>4. i \in Nat
    BY LenProperties DEF TypeInv, TypeOK
  <2>5. s \in Request /\ Refers(s) /\ p \in Pending
    <3>1. s \in Request
      BY <1>1, <2>4 DEF Request
    <3>2. Refers(s)
      BY <1>1, <2>3 DEF Request, Refers
    <3>3. p \in Pending
      BY <2>3 DEF Pending, Idle, r
    <3> QED BY <3>1, <3>2, <3>3
  <2>6. req' = [req EXCEPT ![p] = s]
    BY <2>2
  <2> HIDE DEF s
  <2>7. Moves
    BY <1>3, <2>5, <2>6, RequestMoves
  <2>8. Counted'
    BY <1>3, <2>1, <2>7, StillCounted DEF Moves
  <2> QED BY <1>1, <2>1, <2>7, <2>8
<1>7. ASSUME ApplyEffectiveRateToStore(p) PROVE Typed
  <2>1. UNCHANGED <<exception, refused, owner>> /\ rate' \in {rate, r.rule} /\ End(p)
    BY <1>7 DEF ApplyEffectiveRateToStore, r
  <2>2. Moves /\ Counted'
    BY <1>3, <2>1, EndMoves, StillCounted DEF Moves
  <2>3. r.rule \in {0} \cup DOMAIN rules
    BY <1>1 DEF Refers
  <2> QED BY <1>1, <2>1, <2>2, <2>3
<1>8. Typed
  BY <1>4, <1>5, <1>6, <1>7
<1>9. TypeOK'
  BY <1>2, <1>8 DEF TypeInv, TypeOK, Moves, desk, catalog, offers, money
<1> QED BY <1>2, <1>8, <1>9 DEF TypeInv, Moves

LEMMA BegunKeepsTypes ==
  ASSUME TypeInv, NEW p \in Procs, NEW r \in Request, Refers(r), Begun(p, r)
  PROVE  TypeInv'
<1>1. /\ req \in [Procs -> Request] /\ \A q \in Procs : Refers(req[q])
      /\ made \in 0..MaxRequests /\ MaxRequests \in Nat /\ plans \in Nat /\ owner.stores \in Nat
  BY BackOfficeAssumption DEF TypeInv, TypeOK, Owner
<1>2. UNCHANGED <<ops, died, catalog, offers, money, others>> /\ made < MaxRequests /\ made' = made + 1
  BY DEF Begun
<1>3. req' = [req EXCEPT ![p] = r] /\ rules' = rules /\ plans' = plans /\ owner' = owner
  BY DEF Begun, others, rates, money
<1>4. req' \in [Procs -> Request] /\ \A q \in Procs : Refers(req[q])'
  BY <1>1, <1>3 DEF Refers
<1>5. Pending' \subseteq Pending \cup {p}
  BY <1>1, <1>3 DEF Pending
<1>6. Cardinality(Pending)' <= Cardinality(Pending) + 1
  BY <1>5, OneMorePending
<1>7. Counted'
  BY <1>1, <1>2, <1>3, <1>6, PendingIsFinite DEF TypeInv, Counted
<1>8. made' \in 0..MaxRequests
  BY <1>1, <1>2
<1>9. overlapped' \in BOOLEAN
  BY DEF Begun, TypeInv, TypeOK
<1>10. TypeOK'
  BY <1>2, <1>4, <1>8, <1>9 DEF TypeInv, TypeOK, catalog, offers, money, others, rates
<1> QED BY <1>4, <1>7, <1>10 DEF TypeInv

\* A rule is added after those there are.
LEMMA RuleIsAdded ==
  ASSUME TypeInv, NEW p \in Procs, CreateCommissionRule(p)
  PROVE  /\ rules' \in Seq(Rule) /\ DOMAIN rules \subseteq DOMAIN rules'
         /\ \A i \in DOMAIN rules : rules'[i] = rules[i]
<1>1. PICK scope \in RuleScopes, now \in BOOLEAN : rules' = Append(rules, [scope |-> scope, now |-> now])
  BY DEF CreateCommissionRule
<1>2. rules \in Seq(Rule) /\ [scope |-> scope, now |-> now] \in Rule
  BY BackOfficeAssumption DEF TypeInv, TypeOK, Rule
<1>3. /\ rules' \in Seq(Rule) /\ Len(rules') = Len(rules) + 1
      /\ \A i \in 1..Len(rules) : rules'[i] = rules[i]
  BY <1>1, <1>2, AppendProperties
<1>4. DOMAIN rules = 1..Len(rules) /\ DOMAIN rules' = 1..Len(rules') /\ Len(rules) \in Nat
  BY <1>2, <1>3, LenProperties
<1> QED BY <1>3, <1>4

LEMMA RuleKeepsTypes ==
  ASSUME TypeInv, NEW p \in Procs, CreateCommissionRule(p)
  PROVE  TypeInv'
<1>1. /\ req \in [Procs -> Request] /\ \A q \in Procs : Refers(req[q])
      /\ made \in 0..MaxRequests /\ MaxRequests \in Nat /\ plans \in Nat /\ owner.stores \in Nat
      /\ rate \in {0} \cup DOMAIN rules
  BY BackOfficeAssumption DEF TypeInv, TypeOK, Owner
<1>2. /\ UNCHANGED <<req, died, ops, rate, exception, refused, owner, catalog, offers, money>>
      /\ made < MaxRequests /\ made' = made + 1 /\ overlapped' \in BOOLEAN
  BY DEF CreateCommissionRule, TypeInv, TypeOK
<1>3. plans' = plans /\ Pending' = Pending /\ owner' = owner /\ req' = req
  BY <1>2 DEF Pending, money
<1>4. \A q \in Procs : Refers(req[q])'
  BY <1>1, <1>3, RuleIsAdded DEF Refers
<1>5. Counted'
  BY <1>1, <1>2, <1>3, PendingIsFinite DEF TypeInv, Counted
<1>6. made' \in 0..MaxRequests /\ rate' \in {0} \cup DOMAIN rules'
  BY <1>1, <1>2, RuleIsAdded
<1>7. TypeOK'
  BY <1>2, <1>6, RuleIsAdded DEF TypeInv, TypeOK, catalog, offers, money
<1> QED BY <1>4, <1>5, <1>7 DEF TypeInv

LEMMA DieKeepsTypes ==
  ASSUME TypeInv, NEW p \in Procs, Die(p)
  PROVE  TypeInv'
<1>1. /\ req' = [req EXCEPT ![p] = Idle] /\ died' = TRUE
      /\ UNCHANGED <<made, overlapped, ops, catalog, offers, money, others>>
  BY DEF Die
<1>2. rules' = rules /\ plans' = plans /\ owner' = owner
  BY <1>1 DEF others, rates, money
<1>3. Moves
  BY <1>1, <1>2, IdleRefers, RequestMoves
<1>4. Counted'
  BY <1>1, <1>2, <1>3, StillCounted DEF Moves
<1>5. TypeOK'
  BY <1>1, <1>3 DEF TypeInv, TypeOK, Moves, catalog, offers, money, others, rates
<1> QED BY <1>3, <1>4, <1>5 DEF TypeInv, Moves

LEMMA AsksAreFresh ==
  ASSUME TypeOK, NEW p \in Procs, Asks(p)
  PROVE  Fresh(p) \/ CreateCommissionRule(p)
  BY CatalogAsks, OtherAsks DEF Asks

LEMMA InitTypeInv == Init => TypeInv
<1> SUFFICES ASSUME Init PROVE TypeInv
  OBVIOUS
<1>1. req \in [Procs -> Request] /\ made = 0 /\ \A p \in Procs : req[p] = Idle
  BY IdleRefers DEF Init
<1>2. made \in 0..MaxRequests /\ plans \in 0..MaxRequests /\ MaxRequests \in Nat
  BY BackOfficeAssumption DEF Init
<1>3. /\ category \in [Categories -> Category] /\ vertical \in Categories
      /\ product \in [Products -> Product] /\ variant \in [Variants -> Variant]
  BY BackOfficeAssumption DEF Init
<1>4. offer \in [Offers -> Offer] /\ asked \in [Offers -> Terms]
  <2>1. (CHOOSE r \in Rewards : TRUE) \in Rewards
    BY BackOfficeAssumption
  <2>2. [state |-> "none", active |-> FALSE, coupon |-> None, reward |-> CHOOSE r \in Rewards : TRUE, triggers |-> {}] \in Offer
    BY <2>1 DEF Offer, State
  <2>3. offer \in [Offers -> Offer]
    BY <2>2 DEF Init
  <2>4. asked = [o \in Offers |-> [reward |-> offer[o].reward, triggers |-> {}, sent |-> {}]]
    BY DEF Init
  <2> QED BY <2>3, <2>4 DEF Offer, Terms
<1>5. /\ billing \in [Stores -> BOOLEAN] /\ account \in SUBSET Accounts /\ primary \in SUBSET account
      /\ exception \in [Dates -> State] /\ refused \in SUBSET Dates
  BY DEF Init, State
<1>6. rules \in Seq(Rule) /\ rate = 0
  <2>1. [scope |-> [store |-> None, zone |-> None, category |-> None, city |-> None], now |-> TRUE] \in Rule
    BY DEF Rule, Scope
  <2> QED BY <2>1 DEF Init
<1>7. owner \in Owner /\ owner.stores = 0
  <2>1. PICK newcomer \in BOOLEAN :
          owner = [role |-> IF newcomer THEN None ELSE "CUSTOMER", stores |-> 0, newcomer |-> newcomer]
    BY DEF Init
  <2>2. 0 \in 0..MaxRequests
    BY <1>2
  <2> QED BY <2>1, <2>2 DEF Owner
<1>8. ops \in Desks /\ overlapped \in BOOLEAN /\ died \in BOOLEAN
  BY DEF Init
<1>9. TypeOK
  BY <1>1, <1>2, <1>3, <1>4, <1>5, <1>6, <1>7, <1>8 DEF TypeOK
<1>10. Counted
  <2>1. Pending = {}
    BY <1>1 DEF Pending
  <2>2. Cardinality(Pending) = 0
    BY <2>1, FS_EmptySet
  <2>3. plans = 0
    BY DEF Init
  <2> QED BY <1>1, <1>7, <2>2, <2>3 DEF Counted
<1>11. \A p \in Procs : Refers(req[p])
  BY <1>1, IdleRefers
<1> QED BY <1>9, <1>10, <1>11 DEF TypeInv

LEMMA NextTypeInv == TypeInv /\ [Next]_vars => TypeInv'
<1> SUFFICES ASSUME TypeInv, [Next]_vars PROVE TypeInv'
  OBVIOUS
<1>1. ASSUME NEW p \in Procs, Asks(p) PROVE TypeInv'
  BY <1>1, AsksAreFresh, BegunKeepsTypes, RuleKeepsTypes DEF Fresh, TypeInv
<1>2. ASSUME NEW p \in Procs, Writes(p) PROVE TypeInv'
  BY <1>2, CatalogWrites, OfferWrites, MoneyWrites, OtherWrites DEF Writes
<1>3. CASE UNCHANGED vars
  BY <1>3 DEF TypeInv, TypeOK, Counted, Pending, Refers, vars, desk, catalog, offers, money, others, rates
<1> QED BY <1>1, <1>2, <1>3, DieKeepsTypes DEF Next

\* However requests of owners and admins overlap, and wherever they die: the tables keep
\* their types, so no request writes a row that refers to one of the wrong table, and no
\* more plans and stores are made than requests.
THEOREM BackOfficeTypeCorrect == Spec => []TypeOK
<1>1. TypeInv => TypeOK
  BY DEF TypeInv
<1> QED BY <1>1, InitTypeInv, NextTypeInv, PTL DEF Spec

-------------------------------------------------------------------------------
(* Products *)

\* Only products that exist are switched on.
ActiveIsLive == \A x \in Products : product[x].active => product[x].state = "live"

LEMMA CatalogKeepsActive ==
  ASSUME TypeInv, ActiveIsLive, NEW p \in Procs,
         \/ CreateCategory(p) \/ UpdateCategory(p) \/ DeleteCategory(p) \/ UpdateStoreByAdmin(p)
         \/ CreateProduct(p) \/ UpdateProduct(p) \/ DeleteProduct(p)
         \/ CreateVariant(p) \/ UpdateVariant(p) \/ DeleteVariant(p)
  PROVE  ActiveIsLive'
<1>1. product \in [Products -> Product] /\ \A x \in Products : product[x].active => product[x].state = "live"
  BY DEF TypeInv, TypeOK, ActiveIsLive
<1>2. ASSUME UNCHANGED product PROVE ActiveIsLive'
  BY <1>1, <1>2 DEF ActiveIsLive
<1>3. ASSUME DeleteCategory(p) PROVE ActiveIsLive'
  <2>1. CASE product' = Moved(req[p].id, req[p].to)
    <3>1. ASSUME NEW x \in Products
          PROVE  product'[x].active = product[x].active /\ product'[x].state = product[x].state
      BY <1>1, <2>1 DEF Moved, Product
    <3> QED BY <1>1, <3>1 DEF ActiveIsLive
  <2> QED BY <1>2, <1>3, <2>1 DEF DeleteCategory
<1>4. ASSUME CreateProduct(p) PROVE ActiveIsLive'
  <2>1. PICK x \in Products : product' = [product EXCEPT ![x] = [state |-> "live", active |-> TRUE, category |-> req[p].to]]
    BY <1>1, <1>4 DEF CreateProduct, Unused
  <2> QED BY <1>1, <2>1 DEF ActiveIsLive
<1>5. ASSUME UpdateProduct(p) PROVE ActiveIsLive'
  <2> DEFINE x == req[p].id
  <2>1. x \in Products
    BY <1>5 DEF UpdateProduct, Goes, TypeInv, Refers
  <2>2. CASE product[x].state # "live"
    BY <1>2, <1>5, <2>2 DEF UpdateProduct
  <2>3. CASE product[x].state = "live"
    <3> DEFINE row == Changed(product[x], req[p])
    <3>1. row.state = "live"
      BY <1>1, <2>1, <2>3 DEF Changed, Switched, Product
    <3>2. product' = [product EXCEPT ![x] = row]
      BY <1>1, <1>5, <2>1, <2>3 DEF UpdateProduct
    <3> HIDE DEF row, x
    <3> QED BY <1>1, <2>1, <3>1, <3>2 DEF ActiveIsLive
  <2> QED BY <2>2, <2>3
<1>6. ASSUME DeleteProduct(p) PROVE ActiveIsLive'
  <2> DEFINE x == req[p].id
             row == [product[x] EXCEPT !.state = "dead", !.active = FALSE]
  <2>1. x \in Products
    BY <1>6 DEF DeleteProduct, Goes, TypeInv, Refers
  <2>2. product' = product \/ product' = [product EXCEPT ![x] = row]
    BY <1>1, <1>6, <2>1 DEF DeleteProduct
  <2>3. ~row.active
    BY <1>1, <2>1 DEF Product
  <2> HIDE DEF row, x
  <2> QED BY <1>1, <1>2, <2>1, <2>2, <2>3 DEF ActiveIsLive
<1>7. ASSUME \/ CreateCategory(p) \/ UpdateCategory(p) \/ UpdateStoreByAdmin(p)
             \/ CreateVariant(p) \/ UpdateVariant(p) \/ DeleteVariant(p)
      PROVE  ActiveIsLive'
  BY <1>2, <1>7 DEF CreateCategory, UpdateCategory, UpdateStoreByAdmin, CreateVariant, UpdateVariant, DeleteVariant
<1> QED BY <1>3, <1>4, <1>5, <1>6, <1>7

LEMMA NextKeepsActive == TypeInv /\ ActiveIsLive /\ [Next]_vars => ActiveIsLive'
<1> SUFFICES ASSUME TypeInv, ActiveIsLive, [Next]_vars PROVE ActiveIsLive'
  OBVIOUS
<1>1. ASSUME UNCHANGED catalog PROVE ActiveIsLive'
  BY <1>1 DEF ActiveIsLive, catalog
<1>2. ASSUME NEW p \in Procs, Asks(p) \/ Die(p) PROVE UNCHANGED catalog
  BY <1>2, AsksAreFresh DEF Fresh, Begun, CreateCommissionRule, Die, TypeInv
<1>3. ASSUME NEW p \in Procs, Writes(p) PROVE ActiveIsLive'
  BY <1>1, <1>3, CatalogKeepsActive, OfferWrites, MoneyWrites, OtherWrites DEF Writes
<1> QED BY <1>1, <1>2, <1>3 DEF Next, vars

\* However requests overlap, and wherever they die: the cart accepts variants of live
\* products only, though addItem looks at isActive and not at deletedAt of the product.
THEOREM SellableProductsAreLive == Spec => []SellableIsLive
<1>1. Init => ActiveIsLive
  BY BackOfficeAssumption DEF Init, ActiveIsLive
<1>2. TypeInv /\ ActiveIsLive => SellableIsLive
  <2> SUFFICES ASSUME TypeInv, ActiveIsLive, NEW v \in Accepted
               PROVE  product[variant[v].product].state = "live"
    BY DEF SellableIsLive
  <2>1. v \in Variants /\ product[variant[v].product].active
    BY DEF Accepted, Live, TypeInv, TypeOK
  <2>2. variant[v].product \in Products
    BY <2>1 DEF TypeInv, TypeOK, Variant
  <2> QED BY <2>1, <2>2 DEF ActiveIsLive
<1> QED BY <1>1, <1>2, InitTypeInv, NextTypeInv, NextKeepsActive, PTL DEF Spec

-------------------------------------------------------------------------------
(* Requests that run by themselves *)

\* What find-or-create is to keep, while nothing overlaps.
Single ==
  /\ plans <= 1 /\ (primary = {} \/ \E a \in Accounts : primary = {a})
  /\ owner.stores = IF owner.role = "STORE_OWNER" THEN 1 ELSE 0
  /\ \A d \in refused : exception[d] = "dead"

Alone ==
  ~overlapped =>
    /\ \A p, q \in Procs : req[p] # Idle /\ req[q] # Idle => p = q
    /\ \A p \in Procs : req[p] # Idle => Current(req[p])
    /\ Single

\* A phone number that nobody has used yet: whoever looked found nobody.
Newcomer ==
  owner.newcomer =>
    /\ \/ owner.role = None /\ owner.stores = 0
       \/ owner.role = "STORE_OWNER" /\ owner.stores = 1
    /\ \A p \in Procs : req[p].op = "createStoreByAdmin" => req[p].to = None

LEMMA WriterIsBusy ==
  ASSUME NEW p \in Procs, Writes(p)
  PROVE  req[p] # Idle
<1>1. req[p].op # "idle"
  <2>1. CASE \/ CreateCategory(p) \/ UpdateCategory(p) \/ DeleteCategory(p) \/ UpdateStoreByAdmin(p)
             \/ CreateProduct(p) \/ UpdateProduct(p) \/ DeleteProduct(p)
             \/ CreateVariant(p) \/ UpdateVariant(p) \/ DeleteVariant(p)
    BY <2>1 DEF CreateCategory, UpdateCategory, DeleteCategory, UpdateStoreByAdmin, CreateProduct, UpdateProduct,
                DeleteProduct, CreateVariant, UpdateVariant, DeleteVariant, Goes
  <2>2. CASE \/ CreateOffer(p) \/ ClearTriggers(p) \/ ReplaceTriggers(p) \/ ReplaceFails(p)
             \/ UpdateOffer(p) \/ ToggleOffer(p) \/ DeleteOffer(p)
    BY <2>2 DEF CreateOffer, ClearTriggers, ReplaceTriggers, ReplaceFails, UpdateOffer, ToggleOffer, DeleteOffer, Goes
  <2>3. CASE \/ CreatePlan(p) \/ CreateBilling(p) \/ CreatePayoutAccount(p)
             \/ SetException(p) \/ DeleteHourException(p) \/ CreateStoreByAdmin(p)
    BY <2>3 DEF CreatePlan, CreateBilling, CreatePayoutAccount, SetException, DeleteHourException,
                CreateStoreByAdmin, Goes
  <2>4. CASE ResolveTier(p) \/ ApplyEffectiveRateToStore(p)
    BY <2>4 DEF ResolveTier, ApplyEffectiveRateToStore
  <2> QED BY <2>1, <2>2, <2>3, <2>4 DEF Writes
<1> QED BY <1>1 DEF Idle

LEMMA WritesKeepDesk ==
  ASSUME TypeInv, NEW p \in Procs, Writes(p)
  PROVE  UNCHANGED <<made, overlapped, died, ops>>
  BY CatalogWrites, OfferWrites, MoneyWrites, OtherWrites DEF Writes, desk

\* Requests that do not run stay idle.
LEMMA IdleStaysIdle ==
  ASSUME TypeInv, NEW p \in Procs, NEW q \in Procs \ {p}, req[q] = Idle, Writes(p) \/ Die(p)
  PROVE  req'[q] = Idle
<1>1. req \in [Procs -> Request]
  BY DEF TypeInv, TypeOK
<1>2. CASE ReplaceTriggers(p)
  BY <1>2 DEF ReplaceTriggers, Replaced, Goes, Idle
<1>3. CASE ~ReplaceTriggers(p)
  BY <1>1, <1>3 DEF Writes, CreateCategory, UpdateCategory, DeleteCategory, UpdateStoreByAdmin, CreateProduct,
         UpdateProduct, DeleteProduct, CreateVariant, UpdateVariant, DeleteVariant, CreateOffer, ClearTriggers,
         ReplaceFails, UpdateOffer, ToggleOffer, DeleteOffer, CreatePlan, CreateBilling, CreatePayoutAccount,
         SetException, DeleteHourException, CreateStoreByAdmin, ResolveTier, ApplyEffectiveRateToStore, End, Die
<1> QED BY <1>2, <1>3

\* A write that found what it read to be so still.
LEMMA AloneWriteKeepsSingle ==
  ASSUME TypeInv, NEW p \in Procs, Writes(p), Current(req[p]), Single
  PROVE  Single' /\ (req'[p] # Idle => Current(req[p])')
<1> DEFINE r == req[p]
<1>1. req \in [Procs -> Request] /\ r \in Request /\ Refers(r) /\ owner \in Owner /\ plans \in Nat
      /\ exception \in [Dates -> State]
  BY BackOfficeAssumption DEF TypeInv, TypeOK
<1> HIDE DEF r
<1>2. ASSUME UNCHANGED <<money, others>> PROVE Single'
  BY <1>2 DEF Single, money, others
<1>3. ASSUME End(p) PROVE req'[p] = Idle
  BY <1>1, <1>3 DEF End
<1>4. CASE \/ CreateCategory(p) \/ UpdateCategory(p) \/ DeleteCategory(p) \/ UpdateStoreByAdmin(p)
           \/ CreateProduct(p) \/ UpdateProduct(p) \/ DeleteProduct(p)
           \/ CreateVariant(p) \/ UpdateVariant(p) \/ DeleteVariant(p)
  BY <1>1, <1>2, <1>4, CatalogWrites
<1>5. CASE \/ CreateOffer(p) \/ ClearTriggers(p) \/ ReplaceTriggers(p) \/ ReplaceFails(p)
           \/ UpdateOffer(p) \/ ToggleOffer(p) \/ DeleteOffer(p)
  <2>1. Single'
    BY <1>2, <1>5, OfferWrites
  <2>2. CASE ClearTriggers(p)
    <3>1. req'[p].op = "updateOffer"
      BY <1>1, <2>2 DEF ClearTriggers, Goes, Request
    <3> QED BY <2>1, <3>1 DEF Current
  <2>3. CASE ReplaceTriggers(p)
    <3>1. req'[p].op = "updateOffer"
      BY <1>1, <2>3 DEF ReplaceTriggers, Replaced, Goes, Request, r
    <3> QED BY <2>1, <3>1 DEF Current
  <2> QED BY <1>3, <1>5, <2>1, <2>2, <2>3 DEF CreateOffer, ReplaceFails, UpdateOffer, ToggleOffer, DeleteOffer
<1>6. CASE CreatePlan(p)
  <2>1. r.op = "getBillingProfile" /\ r.at = "read" /\ (r.on <=> plans > 0)
    BY <1>6 DEF CreatePlan, Goes, Current, r
  <2>2. plans' <= 1
    <3>1. CASE r.on
      BY <1>6, <3>1 DEF CreatePlan, Single, r
    <3>2. CASE ~r.on
      <4>1. plans = 0 /\ plans' = plans + 1
        BY <1>1, <1>6, <2>1, <3>2 DEF CreatePlan, r
      <4> QED BY <4>1
    <3> QED BY <3>1, <3>2
  <2>3. UNCHANGED <<primary, owner, refused, exception>>
    BY <1>6 DEF CreatePlan, others
  <2>4. req'[p].op = "getBillingProfile" /\ req'[p].at = "replaced"
    BY <1>1, <1>6, <2>1 DEF CreatePlan, Request, r
  <2>5. Single'
    BY <2>2, <2>3 DEF Single
  <2> QED BY <2>4, <2>5 DEF Current
<1>7. CASE CreateBilling(p)
  BY <1>3, <1>7 DEF CreateBilling, Single, others
<1>8. CASE CreatePayoutAccount(p)
  <2>1. r.seen = primary
    BY <1>8 DEF CreatePayoutAccount, Goes, Current, r
  <2>2. PICK a \in Accounts : primary' = {a}
    BY <1>8, <2>1 DEF CreatePayoutAccount, r
  <2>3. UNCHANGED <<plans, owner, refused, exception>> /\ End(p)
    BY <1>8 DEF CreatePayoutAccount, others
  <2> QED BY <1>3, <2>2, <2>3 DEF Single
<1>9. CASE SetException(p)
  <2>1. r.id \in Dates /\ (r.on <=> exception[r.id] = "live")
    BY <1>1, <1>9 DEF SetException, Goes, Refers, Current, r
  <2>2. UNCHANGED <<plans, primary, owner>> /\ End(p)
    BY <1>9 DEF SetException, money
  <2>3. \A d \in refused' : exception'[d] = "dead"
    <3>1. CASE r.on
      BY <1>9, <2>1, <3>1 DEF SetException, Single, r
    <3>2. CASE ~r.on /\ exception[r.id] # "none"
      <4>1. exception[r.id] = "dead" /\ refused' = refused \cup {r.id} /\ exception' = exception
        BY <1>1, <1>9, <2>1, <3>2 DEF SetException, State, r
      <4> QED BY <4>1 DEF Single
    <3>3. CASE ~r.on /\ exception[r.id] = "none"
      <4>1. exception' = [exception EXCEPT ![r.id] = "live"] /\ refused' = refused
        BY <1>9, <3>3 DEF SetException, r
      <4>2. r.id \notin refused
        BY <3>3 DEF Single
      <4> QED BY <1>1, <4>1, <4>2 DEF Single, TypeInv, TypeOK
    <3> QED BY <3>1, <3>2, <3>3
  <2> QED BY <1>3, <2>2, <2>3 DEF Single
<1>10. CASE DeleteHourException(p)
  <2>1. r.id \in Dates
    BY <1>1, <1>10 DEF DeleteHourException, Goes, Refers, r
  <2>2. UNCHANGED <<plans, primary, owner, refused>> /\ End(p)
    BY <1>10 DEF DeleteHourException, money
  <2>3. exception' = [exception EXCEPT ![r.id] = "dead"]
    BY <1>10 DEF DeleteHourException, r
  <2>4. \A d \in refused' : exception'[d] = "dead"
    BY <1>1, <2>1, <2>2, <2>3 DEF Single, TypeInv, TypeOK
  <2> QED BY <1>3, <2>2, <2>4 DEF Single
<1>11. CASE CreateStoreByAdmin(p)
  <2>1. r.to = owner.role /\ (owner.role = "STORE_OWNER" => owner.stores = 0)
    BY <1>11 DEF CreateStoreByAdmin, Goes, Current, r
  <2>2. owner.role # "STORE_OWNER" /\ owner.stores = 0
    BY <2>1 DEF Single
  <2>3. UNCHANGED <<plans, primary, refused, exception>> /\ End(p)
    BY <1>11 DEF CreateStoreByAdmin, money
  <2>4. owner' = [owner EXCEPT !.role = "STORE_OWNER", !.stores = owner.stores + 1]
    BY <1>11, <2>1 DEF CreateStoreByAdmin, r
  <2>5. owner'.role = "STORE_OWNER" /\ owner'.stores = 1
    BY <1>1, <2>2, <2>4 DEF Owner
  <2> QED BY <1>3, <2>3, <2>5 DEF Single
<1>12. CASE ResolveTier(p)
  <2>1. Single' /\ vertical' = vertical
    BY <1>2, <1>12 DEF ResolveTier, catalog
  <2>2. req'[p].op = "approveStore" /\ req'[p].to = r.to /\ r.op = "approveStore"
    BY <1>1, <1>12 DEF ResolveTier, Request, r
  <2>3. r.to = vertical
    BY <2>2 DEF Current, r
  <2> QED BY <2>1, <2>2, <2>3 DEF Current
<1>13. CASE ApplyEffectiveRateToStore(p)
  BY <1>3, <1>13 DEF ApplyEffectiveRateToStore, Single, money
<1> QED BY <1>4, <1>5, <1>6, <1>7, <1>8, <1>9, <1>10, <1>11, <1>12, <1>13 DEF Writes

\* A step under which nothing overlaps: the requests of all others are idle.
LEMMA OthersAreIdle ==
  ASSUME TypeInv, Alone, ~overlapped', NEW p \in Procs, Asks(p) \/ Writes(p) \/ Die(p)
  PROVE  /\ ~overlapped
         /\ \A q \in Procs \ {p} : req[q] = Idle /\ req'[q] = Idle
<1>1. req \in [Procs -> Request]
  BY DEF TypeInv, TypeOK
<1>2. CASE Asks(p)
  <2>1. ~overlapped /\ \A q \in Procs : req[q] = Idle
    BY <1>2, AsksAreFresh DEF Fresh, Begun, CreateCommissionRule, TypeInv
  <2>2. \A q \in Procs \ {p} : req'[q] = req[q]
    BY <1>1, <1>2, AsksAreFresh DEF Fresh, Begun, CreateCommissionRule, TypeInv
  <2> QED BY <2>1, <2>2
<1>3. CASE Writes(p) \/ Die(p)
  <2>1. ~overlapped
    BY <1>3, WritesKeepDesk DEF Die
  <2>2. req[p] # Idle
    BY <1>3, WriterIsBusy DEF Die
  <2>3. \A q \in Procs \ {p} : req[q] = Idle
    BY <2>1, <2>2 DEF Alone
  <2> QED BY <1>3, <2>1, <2>3, IdleStaysIdle
<1> QED BY <1>2, <1>3

LEMMA NextAlone == TypeInv /\ Alone /\ [Next]_vars => Alone'
<1> SUFFICES ASSUME TypeInv, Alone, [Next]_vars, ~overlapped'
             PROVE  /\ \A p, q \in Procs : req'[p] # Idle /\ req'[q] # Idle => p = q
                    /\ \A p \in Procs : req'[p] # Idle => Current(req[p])'
                    /\ Single'
  BY DEF Alone
<1>1. req \in [Procs -> Request]
  BY DEF TypeInv, TypeOK
<1>2. CASE UNCHANGED vars
  BY <1>2 DEF Alone, Current, Single, vars, desk, money, others, catalog
<1>3. ASSUME NEW p \in Procs, Asks(p) \/ Writes(p) \/ Die(p)
      PROVE  Single' /\ (req'[p] # Idle => Current(req[p])')
  <2>1. Single /\ (req[p] # Idle => Current(req[p]))
    BY <1>3, OthersAreIdle DEF Alone
  <2>2. CASE Fresh(p)
    <3>1. PICK r \in Request : Current(r) /\ Begun(p, r)
      BY <2>2 DEF Fresh
    <3>2. req'[p] = r /\ UNCHANGED <<catalog, money, others>>
      BY <1>1, <3>1 DEF Begun
    <3> QED BY <2>1, <3>1, <3>2 DEF Single, Current, catalog, money, others
  <2>3. CASE CreateCommissionRule(p)
    BY <2>1, <2>3 DEF CreateCommissionRule, Single, Current, catalog, money
  <2>4. CASE Die(p)
    <3>1. req'[p] = Idle /\ UNCHANGED <<money, others>>
      BY <1>1, <2>4 DEF Die
    <3> QED BY <2>1, <3>1 DEF Single, money, others
  <2>5. CASE Writes(p)
    BY <2>1, <2>5, WriterIsBusy, AloneWriteKeepsSingle
  <2> QED BY <1>3, <2>2, <2>3, <2>4, <2>5, AsksAreFresh DEF TypeInv
<1>4. ASSUME NEW p \in Procs, Asks(p) \/ Writes(p) \/ Die(p)
      PROVE  \A q \in Procs \ {p} : req'[q] = Idle
  BY <1>4, OthersAreIdle
<1> QED BY <1>2, <1>3, <1>4 DEF Next

LEMMA InitAlone == Init => Alone
<1> SUFFICES ASSUME Init PROVE Alone
  OBVIOUS
<1>1. \A p \in Procs : req[p] = Idle
  BY DEF Init
<1>2. owner.stores = 0 /\ owner.role \in {None, "CUSTOMER"}
  BY DEF Init
<1>3. plans = 0 /\ primary = {} /\ refused = {}
  BY DEF Init
<1>4. Single
  BY <1>2, <1>3 DEF Single, None
<1> QED BY <1>1, <1>4 DEF Alone

LEMMA NextNewcomer == TypeInv /\ Newcomer /\ [Next]_vars => Newcomer'
<1> SUFFICES ASSUME TypeInv, Newcomer, [Next]_vars PROVE Newcomer'
  OBVIOUS
<1>1. req \in [Procs -> Request] /\ owner \in Owner
  BY DEF TypeInv, TypeOK
<1>2. ASSUME NEW p \in Procs, End(p), owner' = owner
      PROVE  Newcomer'
  BY <1>1, <1>2 DEF End, Newcomer, Idle
<1>3. ASSUME owner' = owner,
             \A q \in Procs : req'[q].op = "createStoreByAdmin" =>
               req[q].op = "createStoreByAdmin" /\ req'[q].to = req[q].to
      PROVE  Newcomer'
  BY <1>3 DEF Newcomer
<1>4. ASSUME NEW p \in Procs, Fresh(p) PROVE Newcomer'
  <2>1. PICK r \in Request : Current(r) /\ Begun(p, r)
    BY <1>4 DEF Fresh
  <2>2. owner' = owner /\ req' = [req EXCEPT ![p] = r]
    BY <2>1 DEF Begun, others
  <2>3. r.op = "createStoreByAdmin" => r.to = owner.role /\ (owner.role = "STORE_OWNER" => owner.stores = 0)
    BY <2>1 DEF Current
  <2>4. owner.newcomer /\ r.op = "createStoreByAdmin" => r.to = None
    BY <2>3 DEF Newcomer
  <2> QED BY <1>1, <2>2, <2>4 DEF Newcomer
<1>5. ASSUME NEW p \in Procs, CreateStoreByAdmin(p) PROVE Newcomer'
  <2>1. End(p) /\ (owner.newcomer => req[p].to = None)
    BY <1>5 DEF CreateStoreByAdmin, Goes, Newcomer
  <2>2. owner'.newcomer = owner.newcomer
    BY <1>1, <1>5 DEF CreateStoreByAdmin, Owner
  <2>3. CASE owner' = owner
    BY <1>2, <2>1, <2>3
  <2>4. CASE owner' # owner
    <3>1. /\ owner' = [owner EXCEPT !.role = "STORE_OWNER", !.stores = owner.stores + 1]
          /\ req[p].to = None => owner.role = None
      BY <1>5, <2>4 DEF CreateStoreByAdmin
    <3>2. owner.newcomer => owner.stores = 0
      BY <2>1, <3>1 DEF Newcomer, None
    <3>3. owner.newcomer => owner'.role = "STORE_OWNER" /\ owner'.stores = 1
      BY <1>1, <3>1, <3>2 DEF Owner
    <3>4. \A q \in Procs : req'[q].op = "createStoreByAdmin" => req'[q] = req[q]
      BY <1>1, <2>1 DEF End, Idle
    <3> QED BY <2>2, <3>3, <3>4 DEF Newcomer
  <2> QED BY <2>3, <2>4
<1>6. ASSUME NEW p \in Procs, ReplaceTriggers(p) PROVE Newcomer'
  <2>1. owner' = owner
    BY <1>6 DEF ReplaceTriggers, others
  <2>2. req[p].op = "updateOffer" /\ req' = Replaced(p) /\ rules' = rules
    BY <1>6 DEF ReplaceTriggers, Goes, others, rates
  <2>3. ASSUME NEW q \in Procs PROVE req'[q].op = req[q].op /\ req'[q].to = req[q].to
    <3>1. req[q] \in Request
      BY <1>1
    <3>2. CASE q = p
      BY <2>2, <3>1, <3>2, ReplacedMoves DEF Request
    <3>3. CASE q # p
      <4>1. PICK seen \in SUBSET Ids : req'[q] = [req[q] EXCEPT !.seen = seen]
        BY <2>2, <3>3, ReplacedMoves
      <4> QED BY <3>1, <4>1 DEF Request
    <3> QED BY <3>2, <3>3
  <2> QED BY <1>3, <2>1, <2>3
<1>7. ASSUME NEW p \in Procs, ClearTriggers(p) \/ CreatePlan(p) \/ ResolveTier(p) PROVE Newcomer'
  <2>1. owner' = owner /\ req[p].op # "createStoreByAdmin"
    BY <1>7 DEF ClearTriggers, CreatePlan, ResolveTier, others, Goes
  <2>2. \A q \in Procs : req'[q].op = req[q].op /\ (q # p => req'[q] = req[q])
    BY <1>1, <1>7 DEF ClearTriggers, CreatePlan, ResolveTier, Request
  <2> QED BY <1>3, <2>1, <2>2
<1>8. ASSUME NEW p \in Procs, Writes(p),
             ~(CreateStoreByAdmin(p) \/ ReplaceTriggers(p) \/ ClearTriggers(p) \/ CreatePlan(p) \/ ResolveTier(p))
      PROVE  End(p) /\ owner' = owner
  BY <1>8 DEF Writes, CreateCategory, UpdateCategory, DeleteCategory, UpdateStoreByAdmin, CreateProduct,
         UpdateProduct, DeleteProduct, CreateVariant, UpdateVariant, DeleteVariant, CreateOffer,
         ReplaceFails, UpdateOffer, ToggleOffer, DeleteOffer, CreateBilling, CreatePayoutAccount,
         SetException, DeleteHourException, ApplyEffectiveRateToStore, others
<1>9. ASSUME NEW p \in Procs, Die(p) PROVE Newcomer'
  BY <1>1, <1>3, <1>9 DEF Die, others, Idle
<1>10. CASE UNCHANGED vars
  BY <1>10 DEF Newcomer, vars, others
<1>11. ASSUME NEW p \in Procs, CreateCommissionRule(p) PROVE Newcomer'
  BY <1>3, <1>11 DEF CreateCommissionRule
<1> QED BY <1>2, <1>4, <1>5, <1>6, <1>7, <1>8, <1>9, <1>10, <1>11, AsksAreFresh DEF Next, TypeInv

\* Find-or-create makes one row: for any number of requests that do not overlap, and
\* wherever they die, the stores share one default plan, a store has one primary payout
\* account, an owner one store, and an exception is refused only for a date that had one
\* and was deleted; a phone number that nobody has used yet gets one store at most however
\* many admins enter it at once.
THEOREM RowsAreMadeOnce == Spec => []OneRowEach
<1>1. Init => Newcomer
  <2> SUFFICES ASSUME Init PROVE Newcomer
    OBVIOUS
  <2>1. owner.stores = 0 /\ (owner.newcomer => owner.role = None) /\ \A p \in Procs : req[p].op = "idle"
    BY DEF Init, Idle
  <2> QED BY <2>1 DEF Newcomer
<1>2. TypeInv /\ Alone /\ Newcomer => OneRowEach
  <2> SUFFICES ASSUME TypeInv, Alone, Newcomer PROVE OneRowEach
    OBVIOUS
  <2>1. owner.stores \in Nat
    BY DEF TypeInv, TypeOK, Owner
  <2>2. owner.newcomer => owner.stores <= 1
    BY <2>1 DEF Newcomer
  <2>3. ~overlapped => Cardinality(primary) <= 1
    BY FS_EmptySet, FS_Singleton DEF Alone, Single
  <2>4. ~overlapped => owner.stores <= 1
    BY <2>1 DEF Alone, Single
  <2> QED BY <2>2, <2>3, <2>4 DEF OneRowEach, Alone, Single, TypeInv
<1> QED BY <1>1, <1>2, InitTypeInv, NextTypeInv, InitAlone, NextAlone, NextNewcomer, PTL DEF Spec

-------------------------------------------------------------------------------
(* Offers *)

\* Offer o has the reward of the last update that was done and the triggers last sent.
Matches(o) == offer[o].reward = asked[o].reward /\ offer[o].triggers = asked[o].sent

\* The reward and the triggers of offer o are one update's.
Whole(o) == asked[o].sent = asked[o].triggers

\* p is about to write the row of offer o, whose triggers it has replaced.
HalfDone(p, o) == Goes(p, "updateOffer", "replaced") /\ req[p].id = o

\* Without overlap every offer matches and a request that is to delete triggers has seen all
\* of them; until a request has ended half-way, every offer is whole but one whose triggers
\* were replaced and whose row was not written yet.
OfferInv ==
  ~overlapped =>
    /\ \A o \in Offers : Matches(o)
    /\ \A p \in Procs : Goes(p, "updateOffer", "cleared") =>
         req[p].seen = IF req[p].on THEN offer[req[p].id].triggers ELSE {}
    /\ ~died => /\ \A o \in Offers : Whole(o) \/ \E p \in Procs : HalfDone(p, o)
                /\ \A p \in Procs : Goes(p, "updateOffer", "replaced") =>
                     asked[req[p].id].sent = IF req[p].on THEN req[p].set ELSE asked[req[p].id].triggers

\* A request that runs by itself and has not replaced triggers found every offer whole.
LEMMA QuietOffersAreWhole ==
  ASSUME OfferInv, ~overlapped, ~died, NEW p \in Procs, ~Goes(p, "updateOffer", "replaced"),
         \A q \in Procs \ {p} : req[q] = Idle
  PROVE  \A o \in Offers : Whole(o)
  BY DEF OfferInv, HalfDone, Goes, Idle

\* A step after which every offer is as it is to be and no request is half-way.
LEMMA QuietStep ==
  ASSUME NEW p \in Procs, \A o \in Offers : Matches(o)', ~died' => \A o \in Offers : Whole(o)',
         \A q \in Procs \ {p} : req'[q] = Idle,
         ~(req'[p].op = "updateOffer" /\ req'[p].at \in {"cleared", "replaced"})
  PROVE  OfferInv'
  BY DEF OfferInv, Goes, Idle

LEMMA OfferWriteStep ==
  ASSUME TypeInv, OfferInv, ~overlapped, NEW p \in Procs, died' = died,
         \A q \in Procs \ {p} : req[q] = Idle /\ req'[q] = Idle,
         \/ CreateOffer(p) \/ ClearTriggers(p) \/ ReplaceTriggers(p) \/ ReplaceFails(p)
         \/ UpdateOffer(p) \/ ToggleOffer(p) \/ DeleteOffer(p)
  PROVE  OfferInv'
<1> DEFINE r == req[p]
<1>1. /\ req \in [Procs -> Request] /\ r \in Request /\ Refers(r)
      /\ offer \in [Offers -> Offer] /\ asked \in [Offers -> Terms]
  BY DEF TypeInv, TypeOK
<1>2. \A o \in Offers : Matches(o)
  BY DEF OfferInv
<1>3. ASSUME ~died', ~Goes(p, "updateOffer", "replaced") PROVE \A o \in Offers : Whole(o)
  BY <1>3, QuietOffersAreWhole
<1> HIDE DEF r
<1>4. ASSUME End(p) PROVE req'[p].op = "idle"
  BY <1>1, <1>4 DEF End, Idle
<1>5. CASE CreateOffer(p)
  <2>1. ~Goes(p, "updateOffer", "replaced")
    BY <1>5 DEF CreateOffer, Goes
  <2>2. (\A o \in Offers : Matches(o)') /\ (~died' => \A o \in Offers : Whole(o)')
    <3>1. CASE UNCHANGED offers
      BY <1>2, <1>3, <2>1, <3>1 DEF Matches, Whole, offers
    <3>2. CASE ~UNCHANGED offers
      <4>1. PICK o \in Offers :
              /\ offer' = [offer EXCEPT ![o] = [state |-> "live", active |-> TRUE, coupon |-> r.id,
                                                reward |-> r.to, triggers |-> r.set]]
              /\ asked' = [asked EXCEPT ![o] = [reward |-> r.to, triggers |-> r.set, sent |-> r.set]]
        BY <1>1, <1>5, <3>2 DEF CreateOffer, Unused, r
      <4> QED BY <1>1, <1>2, <1>3, <2>1, <4>1 DEF Matches, Whole
    <3> QED BY <3>1, <3>2
  <2> QED BY <1>4, <1>5, <2>2, QuietStep DEF CreateOffer
<1>6. CASE ClearTriggers(p)
  <2>1. r.op = "updateOffer" /\ r.at = "read" /\ r.id \in Offers
    BY <1>1, <1>6 DEF ClearTriggers, Goes, Refers, r
  <2>2. UNCHANGED offers
    BY <1>6 DEF ClearTriggers
  <2>3. /\ req'[p].op = "updateOffer" /\ req'[p].at = "cleared" /\ req'[p].id = r.id /\ req'[p].on = r.on
        /\ req'[p].seen = IF r.on THEN offer[r.id].triggers ELSE {}
    BY <1>1, <1>6, <2>1 DEF ClearTriggers, Request, r
  <2>4. (\A o \in Offers : Matches(o)') /\ (~died' => \A o \in Offers : Whole(o)')
    BY <1>2, <1>3, <2>1, <2>2 DEF Matches, Whole, Goes, offers, r
  <2>5. offer'[r.id].triggers = offer[r.id].triggers
    BY <2>2 DEF offers
  <2> QED BY <2>3, <2>4, <2>5 DEF OfferInv, Goes, Idle
<1>7. CASE ReplaceTriggers(p)
  <2>1. r.op = "updateOffer" /\ r.at = "cleared" /\ r.id \in Offers
    BY <1>1, <1>7 DEF ReplaceTriggers, Goes, Refers, r
  <2>2. r.seen = IF r.on THEN offer[r.id].triggers ELSE {}
    BY <2>1 DEF OfferInv, Goes, r
  <2>3. /\ req'[p].op = "updateOffer" /\ req'[p].at = "replaced" /\ req'[p].id = r.id /\ req'[p].on = r.on
        /\ req'[p].set = r.set
    BY <1>1, <1>7, <2>1 DEF ReplaceTriggers, Replaced, Request, r
  <2>4. /\ offer'[r.id].reward = offer[r.id].reward
        /\ offer'[r.id].triggers = IF r.on THEN r.set ELSE offer[r.id].triggers
        /\ \A o \in Offers \ {r.id} : offer'[o] = offer[o]
    <3>1. CASE ~r.on
      BY <1>7, <3>1 DEF ReplaceTriggers, r
    <3>2. CASE r.on
      <4>1. offer[r.id].triggers \ r.seen = {}
        BY <2>2, <3>2
      <4>2. offer' = [offer EXCEPT ![r.id].triggers = (offer[r.id].triggers \ r.seen) \cup r.set]
        BY <1>7, <3>2 DEF ReplaceTriggers, r
      <4>3. offer[r.id] \in Offer
        BY <1>1, <2>1
      <4> QED BY <1>1, <2>1, <3>2, <4>1, <4>2, <4>3 DEF Offer
    <3> QED BY <3>1, <3>2
  <2>5. /\ asked'[r.id].reward = asked[r.id].reward /\ asked'[r.id].triggers = asked[r.id].triggers
        /\ asked'[r.id].sent = IF r.on THEN r.set ELSE asked[r.id].sent
        /\ \A o \in Offers \ {r.id} : asked'[o] = asked[o]
    BY <1>1, <1>7, <2>1 DEF ReplaceTriggers, Asked, Terms, r
  <2>6. \A o \in Offers : Matches(o)'
    <3>1. ASSUME NEW o \in Offers, o # r.id PROVE Matches(o)'
      BY <1>2, <2>4, <2>5, <3>1 DEF Matches
    <3>2. ASSUME NEW o \in Offers, o = r.id PROVE Matches(o)'
      BY <1>2, <2>4, <2>5, <3>2 DEF Matches
    <3> QED BY <3>1, <3>2
  <2>7. ASSUME ~died'
        PROVE  /\ \A o \in Offers : Whole(o)' \/ HalfDone(p, o)'
               /\ asked'[r.id].sent = IF r.on THEN r.set ELSE asked'[r.id].triggers
    <3>1. \A o \in Offers : Whole(o)
      BY <1>3, <2>1, <2>7 DEF Goes, r
    <3>2. \A o \in Offers \ {r.id} : Whole(o)'
      BY <2>5, <3>1 DEF Whole
    <3>3. \A o \in Offers : o = r.id => HalfDone(p, o)'
      BY <2>3 DEF HalfDone, Goes
    <3> QED BY <2>1, <2>5, <3>1, <3>2, <3>3 DEF Whole
  <2>8. \A q \in Procs : req'[q].op = "updateOffer" => q = p
    BY DEF Idle
  <2> QED BY <2>3, <2>6, <2>7, <2>8 DEF OfferInv, Goes
<1>8. CASE ReplaceFails(p)
  <2>1. r.op = "updateOffer" /\ r.at = "cleared" /\ r.on /\ r.set \cap (offer[r.id].triggers \ r.seen) # {}
    BY <1>8 DEF ReplaceFails, Goes, r
  <2>2. r.seen = offer[r.id].triggers
    BY <2>1 DEF OfferInv, Goes, r
  <2> QED BY <2>1, <2>2
<1>9. CASE UpdateOffer(p)
  <2>1. r.op = "updateOffer" /\ r.at = "replaced" /\ r.id \in Offers
    BY <1>1, <1>9 DEF UpdateOffer, Goes, Refers, r
  <2> DEFINE w == IF r.to = None THEN offer[r.id].reward ELSE r.to
  <2>2. offer' = [offer EXCEPT ![r.id] = [offer[r.id] EXCEPT !.reward = w]]
    BY <1>1, <1>9, <2>1 DEF UpdateOffer, r
  <2>3. offer[r.id] \in Offer /\ Matches(r.id)
    BY <1>1, <1>2, <2>1
  <2>4. /\ asked'[r.id].reward = w /\ asked'[r.id].sent = asked[r.id].sent
        /\ asked'[r.id].triggers = IF r.on THEN r.set ELSE asked[r.id].triggers
        /\ \A o \in Offers \ {r.id} : asked'[o] = asked[o]
    BY <1>1, <1>9, <2>1, <2>3 DEF UpdateOffer, Terms, Matches, r
  <2> HIDE DEF w
  <2>5. /\ offer'[r.id].reward = w /\ offer'[r.id].triggers = offer[r.id].triggers
        /\ \A o \in Offers \ {r.id} : offer'[o] = offer[o]
    BY <1>1, <2>1, <2>2, <2>3 DEF Offer
  <2>6. \A o \in Offers : Matches(o)'
    <3>1. ASSUME NEW o \in Offers, o # r.id PROVE Matches(o)'
      BY <1>2, <2>4, <2>5, <3>1 DEF Matches
    <3>2. ASSUME NEW o \in Offers, o = r.id PROVE Matches(o)'
      BY <2>3, <2>4, <2>5, <3>2 DEF Matches
    <3> QED BY <3>1, <3>2
  <2>7. ASSUME ~died' PROVE \A o \in Offers : Whole(o)'
    <3>1. asked[r.id].sent = IF r.on THEN r.set ELSE asked[r.id].triggers
      BY <2>1, <2>7 DEF OfferInv, Goes, r
    <3>2. \A o \in Offers \ {r.id} : Whole(o)
      <4>1. \A o \in Offers \ {r.id}, q \in Procs : ~HalfDone(q, o)
        BY <2>1 DEF HalfDone, Goes, Idle, r
      <4> QED BY <2>7, <4>1 DEF OfferInv
    <3>3. ASSUME NEW o \in Offers, o = r.id PROVE Whole(o)'
      BY <2>4, <3>1, <3>3 DEF Whole
    <3> QED BY <2>4, <3>2, <3>3 DEF Whole
  <2> QED BY <1>4, <1>9, <2>6, <2>7, QuietStep DEF UpdateOffer
<1>10. CASE ToggleOffer(p) \/ DeleteOffer(p)
  <2>1. r.id \in Offers /\ ~Goes(p, "updateOffer", "replaced")
    BY <1>1, <1>10 DEF ToggleOffer, DeleteOffer, Goes, Refers, r
  <2>2. \A o \in Offers : offer'[o].reward = offer[o].reward /\ offer'[o].triggers = offer[o].triggers
    BY <1>1, <1>10, <2>1 DEF ToggleOffer, DeleteOffer, Offer, r
  <2>3. asked' = asked
    BY <1>10 DEF ToggleOffer, DeleteOffer
  <2>4. (\A o \in Offers : Matches(o)') /\ (~died' => \A o \in Offers : Whole(o)')
    BY <1>2, <1>3, <2>1, <2>2, <2>3 DEF Matches, Whole
  <2> QED BY <1>4, <1>10, <2>4, QuietStep DEF ToggleOffer, DeleteOffer
<1> QED BY <1>5, <1>6, <1>7, <1>8, <1>9, <1>10

LEMMA NextOfferInv == TypeInv /\ Alone /\ OfferInv /\ [Next]_vars => OfferInv'
<1> SUFFICES ASSUME TypeInv, Alone, OfferInv, [Next]_vars PROVE OfferInv'
  OBVIOUS
<1>1. req \in [Procs -> Request]
  BY DEF TypeInv, TypeOK
<1>2. CASE UNCHANGED vars
  BY <1>2 DEF OfferInv, Matches, Whole, HalfDone, Goes, vars, desk, offers
<1>3. ASSUME overlapped' PROVE OfferInv'
  BY <1>3 DEF OfferInv
<1>4. ASSUME NEW p \in Procs, Asks(p) \/ Writes(p) \/ Die(p), ~overlapped'
      PROVE  OfferInv'
  <2>1. ~overlapped /\ \A q \in Procs \ {p} : req[q] = Idle /\ req'[q] = Idle
    BY <1>4, OthersAreIdle, AsksAreFresh, WritesKeepDesk DEF Fresh, Begun, CreateCommissionRule, Die, TypeInv
  <2>2. \A o \in Offers : Matches(o)
    BY <2>1 DEF OfferInv
  <2>3. ASSUME ~died, ~Goes(p, "updateOffer", "replaced") PROVE \A o \in Offers : Whole(o)
    BY <2>1, <2>3, QuietOffersAreWhole
  <2>4. ASSUME UNCHANGED offers, died' \/ died' = died, died' \/ ~Goes(p, "updateOffer", "replaced"),
               req'[p].op # "updateOffer" \/ req'[p].at = "read"
        PROVE  OfferInv'
    <3>1. \A o \in Offers : Matches(o)'
      BY <2>2, <2>4 DEF Matches, offers
    <3>2. ~died' => \A o \in Offers : Whole(o)'
      BY <2>3, <2>4 DEF Whole, offers
    <3> QED BY <2>1, <2>4, <3>1, <3>2, QuietStep
  <2>5. CASE Fresh(p)
    <3>1. PICK r \in Request : r.at = "read" /\ Begun(p, r)
      BY <2>5 DEF Fresh
    <3>2. req'[p] = r /\ UNCHANGED <<offers, died>> /\ req[p] = Idle
      BY <1>1, <3>1 DEF Begun
    <3>3. ~Goes(p, "updateOffer", "replaced")
      BY <3>2 DEF Goes, Idle
    <3> QED BY <2>4, <3>1, <3>2, <3>3
  <2>6. CASE CreateCommissionRule(p)
    BY <2>1, <2>6 DEF CreateCommissionRule, OfferInv, Matches, Whole, HalfDone, Goes, offers
  <2>7. CASE Die(p)
    <3>1. UNCHANGED offers /\ died' /\ req'[p].op # "updateOffer"
      BY <1>1, <2>7 DEF Die, Idle
    <3> QED BY <2>4, <3>1
  <2>8. ASSUME Writes(p) PROVE died' = died
    BY <2>8, WritesKeepDesk, TypeInv DEF desk
  <2>9. CASE \/ CreateOffer(p) \/ ClearTriggers(p) \/ ReplaceTriggers(p) \/ ReplaceFails(p)
             \/ UpdateOffer(p) \/ ToggleOffer(p) \/ DeleteOffer(p)
    BY <2>1, <2>8, <2>9, OfferWriteStep DEF Writes
  <2>10. CASE \/ CreateCategory(p) \/ UpdateCategory(p) \/ DeleteCategory(p) \/ UpdateStoreByAdmin(p)
              \/ CreateProduct(p) \/ UpdateProduct(p) \/ DeleteProduct(p)
              \/ CreateVariant(p) \/ UpdateVariant(p) \/ DeleteVariant(p)
    <3>1. UNCHANGED offers /\ req'[p].op = "idle"
      BY <1>1, <2>10, CatalogWrites DEF Idle
    <3>2. req[p].op # "updateOffer"
      BY <2>10 DEF CreateCategory, UpdateCategory, DeleteCategory, UpdateStoreByAdmin, CreateProduct, UpdateProduct,
                   DeleteProduct, CreateVariant, UpdateVariant, DeleteVariant, Goes
    <3> QED BY <2>4, <2>8, <2>10, <3>1, <3>2 DEF Goes, Writes
  <2>11. CASE CreatePlan(p) \/ ResolveTier(p)
    <3>1. UNCHANGED offers /\ req[p].op # "updateOffer"
      BY <2>11 DEF CreatePlan, ResolveTier, Goes
    <3>2. req'[p].op = req[p].op
      BY <1>1, <2>11 DEF CreatePlan, ResolveTier, Request
    <3> QED BY <2>4, <2>8, <2>11, <3>1, <3>2 DEF Goes, Writes
  <2>12. CASE \/ CreateBilling(p) \/ CreatePayoutAccount(p) \/ SetException(p) \/ DeleteHourException(p)
              \/ CreateStoreByAdmin(p) \/ ApplyEffectiveRateToStore(p)
    <3>1. UNCHANGED offers /\ req[p].op # "updateOffer" /\ End(p)
      BY <2>12 DEF CreateBilling, CreatePayoutAccount, SetException, DeleteHourException, CreateStoreByAdmin,
                   ApplyEffectiveRateToStore, Goes
    <3>2. req'[p].op = "idle"
      BY <1>1, <3>1 DEF End, Idle
    <3> QED BY <2>4, <2>8, <2>12, <3>1, <3>2 DEF Goes, Writes
  <2> QED BY <1>4, <2>5, <2>6, <2>7, <2>9, <2>10, <2>11, <2>12, AsksAreFresh DEF Writes, TypeInv
<1> QED BY <1>2, <1>3, <1>4 DEF Next

\* For any number of offers, triggers and requests that do not overlap, and wherever they
\* end: updateOffer, whose two transactions write an offer's triggers and its row, leaves the
\* reward of the last update that was done and all the triggers of the last one that got
\* through its first transaction, and those of one update unless one has ended in between.
THEOREM OffersAreAsAsked == Spec => []OfferAsAsked
<1>1. Init => OfferInv
  <2> SUFFICES ASSUME Init PROVE OfferInv
    OBVIOUS
  <2>1. \A p \in Procs : req[p].op = "idle"
    BY DEF Init, Idle
  <2>2. offer = [o \in Offers |-> [state |-> "none", active |-> FALSE, coupon |-> None,
                                   reward |-> CHOOSE r \in Rewards : TRUE, triggers |-> {}]]
    BY DEF Init
  <2>3. asked = [o \in Offers |-> [reward |-> offer[o].reward, triggers |-> {}, sent |-> {}]]
    BY DEF Init
  <2>4. ASSUME NEW o \in Offers PROVE Matches(o) /\ Whole(o)
    <3>1. offer[o].triggers = {}
      BY <2>2
    <3>2. asked[o].reward = offer[o].reward /\ asked[o].triggers = {} /\ asked[o].sent = {}
      BY <2>3
    <3> QED BY <3>1, <3>2 DEF Matches, Whole
  <2> QED BY <2>1, <2>4 DEF OfferInv, Goes
<1>2. OfferInv => OfferAsAsked
  BY DEF OfferInv, OfferAsAsked, Matches, Whole, HalfDone, Goes, Idle
<1> QED BY <1>1, <1>2, InitTypeInv, NextTypeInv, InitAlone, NextAlone, NextOfferInv, PTL DEF Spec

\* For any number of offers, triggers and requests, however they overlap and wherever they
\* end: an offer for some products does not become one for all of them, between the two
\* steps of a replacement or after it, unless an update asks for no triggers.
THEOREM OffersOpenOnlyWhenAsked == Spec => OffersStayNarrow
<1>1. TypeInv /\ [Next]_vars =>
        [\A o \in Offers :
           offer[o].state # "none" /\ offer[o].triggers # {} /\ offer'[o].triggers = {} =>
             \E p \in Procs : req[p].op = "updateOffer" /\ req[p].id = o /\ req[p].on /\ req[p].set = {}]_vars
  <2> SUFFICES ASSUME TypeInv, Next, NEW o \in Offers, offer[o].state # "none",
                      offer[o].triggers # {}, offer'[o].triggers = {}
               PROVE  \E p \in Procs : req[p].op = "updateOffer" /\ req[p].id = o /\ req[p].on /\ req[p].set = {}
    OBVIOUS
  <2>1. offer \in [Offers -> Offer] /\ offer'[o].triggers # offer[o].triggers
    BY DEF TypeInv, TypeOK
  <2>2. PICK p \in Procs : Asks(p) \/ Writes(p) \/ Die(p)
    BY DEF Next
  <2>3. offer' # offer
    BY <2>1
  <2>4. \/ CreateOffer(p) \/ ClearTriggers(p) \/ ReplaceTriggers(p) \/ ReplaceFails(p)
        \/ UpdateOffer(p) \/ ToggleOffer(p) \/ DeleteOffer(p)
    BY <2>2, <2>3, AsksAreFresh, CatalogWrites, MoneyWrites, OtherWrites
       DEF Fresh, Begun, CreateCommissionRule, Die, Writes, offers, TypeInv
  <2> DEFINE r == req[p]
  <2>5. Refers(r)
    BY DEF TypeInv
  <2> HIDE DEF r
  <2>6. ~CreateOffer(p)
    <3> SUFFICES ASSUME CreateOffer(p) PROVE FALSE
      OBVIOUS
    <3>1. PICK x \in Offers : offer[x].state = "none" /\ \E row : row.triggers = r.set /\ offer' = [offer EXCEPT ![x] = row]
      BY <2>1, <2>3 DEF CreateOffer, Unused, offers, r
    <3> QED BY <2>1, <3>1
  <2>7. ASSUME UpdateOffer(p) \/ ToggleOffer(p) \/ DeleteOffer(p) PROVE FALSE
    <3>1. r.id \in Offers
      BY <2>5, <2>7 DEF UpdateOffer, ToggleOffer, DeleteOffer, Goes, Refers, r
    <3> QED BY <2>1, <2>7, <3>1 DEF UpdateOffer, ToggleOffer, DeleteOffer, Offer, r
  <2>8. ReplaceTriggers(p)
    BY <2>3, <2>4, <2>6, <2>7 DEF ClearTriggers, ReplaceFails, offers
  <2>9. r.op = "updateOffer" /\ r.id \in Offers /\ r.on
    BY <2>3, <2>5, <2>8 DEF ReplaceTriggers, Goes, Refers, r
  <2>10. offer' = [offer EXCEPT ![r.id].triggers = (offer[r.id].triggers \ r.seen) \cup r.set]
    BY <2>8, <2>9 DEF ReplaceTriggers, r
  <2>11. r.id = o /\ r.set = {}
    BY <2>1, <2>9, <2>10 DEF Offer
  <2> QED BY <2>9, <2>11 DEF r
<1> QED BY <1>1, InitTypeInv, NextTypeInv, PTL DEF Spec, OffersStayNarrow

-------------------------------------------------------------------------------
(* Commission rates *)

Rank(at) == IF at = "read" THEN 5 ELSE IF at = "store" THEN 4 ELSE IF at = "zone" THEN 3
            ELSE IF at = "category" THEN 2 ELSE IF at = "city" THEN 1 ELSE 0

Suits(i) == rules[i].now /\ Fits(rules[i].scope)
Width(i) == Narrowness(rules[i].scope)

\* No rule that is narrower than the tiers still to be asked suits the store, or the rule
\* that was found is the best.
Searched(r) ==
  /\ r.at \in {"read"} \cup Tier
  /\ r.rule = 0 => \A i \in DOMAIN rules : Suits(i) => Width(i) < Rank(r.at)
  /\ r.rule # 0 => \A i \in DOMAIN rules :
                     Suits(i) => Width(i) < Width(r.rule) \/ (Width(i) = Width(r.rule) /\ i <= r.rule)

SearchInv == ~overlapped => \A p \in Procs : req[p].op = "approveStore" => Searched(req[p])
FairInv   == \A p \in Procs : req[p].op = "approveStore" /\ req[p].rule # 0 => Fair(req[p].rule)

LEMMA WidthType ==
  ASSUME NEW i
  PROVE  Width(i) \in 0..4
  BY DEF Width, Narrowness

LEMMA TierWidth ==
  ASSUME TypeInv, NEW tier \in Tier, NEW c \in Categories, NEW i \in TierRules(tier, c)
  PROVE  Width(i) = Rank(tier)
<1> DEFINE s == rules[i].scope
<1>1. c # None
  BY BackOfficeAssumption
<1>2. CASE tier = "store"
  BY <1>2 DEF TierRules, Width, Narrowness, Rank, None
<1>3. CASE tier = "zone"
  BY <1>3 DEF TierRules, Width, Narrowness, Rank, None
<1>4. CASE tier = "category"
  <2>1. s.category = c /\ s.zone = None /\ s.store = None
    BY <1>4 DEF TierRules
  <2> QED BY <1>1, <1>4, <2>1 DEF Width, Narrowness, Rank
<1>5. CASE tier = "city"
  <2>1. s.city = "ours" /\ s.category = None /\ s.zone = None /\ s.store = None
    BY <1>5 DEF TierRules
  <2> QED BY <1>5, <2>1 DEF Width, Narrowness, Rank, None
<1>6. CASE tier = "global"
  <2>1. s.city = None /\ s.category = None /\ s.zone = None /\ s.store = None
    BY <1>6 DEF TierRules
  <2> QED BY <1>6, <2>1 DEF Width, Narrowness, Rank
<1> QED BY <1>2, <1>3, <1>4, <1>5, <1>6 DEF Tier

\* A tier finds every rule of its rank that suits the store.
LEMMA TierFindsAll ==
  ASSUME TypeInv, NEW tier \in Tier, NEW i \in DOMAIN rules, Suits(i), Width(i) = Rank(tier)
  PROVE  i \in TierRules(tier, vertical)
<1> DEFINE s == rules[i].scope
<1>1. rules[i] \in Rule
  BY LenProperties DEF TypeInv, TypeOK
<1>2. /\ s.store \in {"ours", "other", None} /\ s.zone \in {"ours", "other", None}
      /\ s.city \in {"ours", "other", None} /\ s.category \in Categories \cup {None}
  BY <1>1 DEF Rule, Scope, Site
<1>3. /\ rules[i].now /\ s.store \in {"ours", None} /\ s.zone \in {"ours", None} /\ s.city \in {"ours", None}
      /\ s.category \in {None, vertical}
  BY <1>2 DEF Suits, Fits
<1>4. Narrowness(s) = Rank(tier)
  BY DEF Width
<1> HIDE DEF s
<1>5. CASE tier = "store"
  <2>1. s.store # None
    BY <1>4, <1>5 DEF Narrowness, Rank
  <2> QED BY <1>3, <1>5, <2>1 DEF TierRules, s
<1>6. CASE tier = "zone"
  <2>1. s.store = None /\ s.zone # None
    BY <1>4, <1>6 DEF Narrowness, Rank
  <2> QED BY <1>3, <1>6, <2>1 DEF TierRules, s
<1>7. CASE tier = "category"
  <2>1. s.store = None /\ s.zone = None /\ s.category # None
    BY <1>4, <1>7 DEF Narrowness, Rank
  <2> QED BY <1>3, <1>7, <2>1 DEF TierRules, s
<1>8. CASE tier = "city"
  <2>1. s.store = None /\ s.zone = None /\ s.category = None /\ s.city # None
    BY <1>4, <1>8 DEF Narrowness, Rank
  <2> QED BY <1>3, <1>8, <2>1 DEF TierRules, s
<1>9. CASE tier = "global"
  <2>1. s.store = None /\ s.zone = None /\ s.category = None /\ s.city = None
    BY <1>4, <1>9 DEF Narrowness, Rank
  <2> QED BY <1>3, <1>9, <2>1 DEF TierRules, s
<1> QED BY <1>5, <1>6, <1>7, <1>8, <1>9 DEF Tier

\* What ResolveTier does to the request.
LEMMA TierIsAsked ==
  ASSUME TypeInv, NEW p \in Procs, ResolveTier(p)
  PROVE  \E tier \in Tier, i \in {0} \cup DOMAIN rules :
           /\ req'[p] = [req[p] EXCEPT !.at = tier, !.rule = i]
           /\ Rank(tier) = Rank(req[p].at) - 1
           /\ LET found == TierRules(tier, req[p].to) IN
              /\ i = 0 => found = {}
              /\ i # 0 => i \in found /\ \A j \in found : j <= i
<1> DEFINE r == req[p]
           tier == NextTier[r.at]
           found == TierRules(tier, r.to)
           i == IF found = {} THEN 0 ELSE CHOOSE k \in found : \A j \in found : j <= k
<1>1. req \in [Procs -> Request] /\ r \in Request
  BY DEF TypeInv, TypeOK
<1>2. tier \in Tier /\ Rank(tier) = Rank(r.at) - 1
  BY DEF ResolveTier, NextTier, Tier, Rank
<1>3. found \in SUBSET DOMAIN rules
  BY <1>2, TierRulesAreFair
<1>4. found # {} => i \in found /\ \A j \in found : j <= i
  BY <1>3, NewestOfSome DEF TypeInv
<1>5. 0 \notin DOMAIN rules
  BY LenProperties DEF TypeInv, TypeOK
<1>6. req' = [req EXCEPT ![p].at = tier, ![p].rule = i]
  BY DEF ResolveTier
<1>7. i = 0 => found = {}
  BY <1>3, <1>4, <1>5
<1>8. i # 0 => found # {}
  OBVIOUS
<1>9. i \in {0} \cup DOMAIN rules
  BY <1>3, <1>4, <1>7
<1> HIDE DEF i, tier
<1>10. req'[p] = [r EXCEPT !.at = tier, !.rule = i]
  BY <1>1, <1>6 DEF Request
<1> QED BY <1>2, <1>4, <1>7, <1>8, <1>9, <1>10

\* No other write leaves an approval under way, and none touches another request's.
LEMMA OnlyResolveGoesOn ==
  ASSUME TypeInv, NEW p \in Procs, Writes(p), ~ResolveTier(p)
  PROVE  req'[p].op # "approveStore"
<1>1. req \in [Procs -> Request]
  BY DEF TypeInv, TypeOK
<1>2. ASSUME End(p) PROVE req'[p].op # "approveStore"
  BY <1>1, <1>2 DEF End, Idle
<1>3. CASE ClearTriggers(p) \/ CreatePlan(p)
  BY <1>1, <1>3 DEF ClearTriggers, CreatePlan, Goes, Request
<1>4. CASE ReplaceTriggers(p)
  BY <1>1, <1>4 DEF ReplaceTriggers, Replaced, Goes, Request
<1>5. ASSUME ~(ClearTriggers(p) \/ CreatePlan(p) \/ ReplaceTriggers(p)) PROVE End(p)
  BY <1>5 DEF Writes, CreateCategory, UpdateCategory, DeleteCategory, UpdateStoreByAdmin, CreateProduct,
         UpdateProduct, DeleteProduct, CreateVariant, UpdateVariant, DeleteVariant, CreateOffer,
         ReplaceFails, UpdateOffer, ToggleOffer, DeleteOffer, CreateBilling, CreatePayoutAccount,
         SetException, DeleteHourException, CreateStoreByAdmin, ApplyEffectiveRateToStore
<1> QED BY <1>2, <1>3, <1>4, <1>5

LEMMA OthersKeepOn ==
  ASSUME TypeInv, NEW p \in Procs, Asks(p) \/ Writes(p) \/ Die(p), NEW q \in Procs \ {p}
  PROVE  req'[q].op = req[q].op /\ req'[q].rule = req[q].rule
<1>1. req \in [Procs -> Request] /\ req[q] \in Request
  BY DEF TypeInv, TypeOK
<1>2. CASE ReplaceTriggers(p)
  <2>1. req[p].op = "updateOffer" /\ req' = Replaced(p) /\ rules' = rules
    BY <1>2 DEF ReplaceTriggers, Goes, others, rates
  <2>2. PICK seen \in SUBSET Ids : req'[q] = [req[q] EXCEPT !.seen = seen]
    BY <2>1, ReplacedMoves
  <2> QED BY <1>1, <2>2 DEF Request
<1>3. CASE Asks(p)
  BY <1>1, <1>3, AsksAreFresh DEF Fresh, Begun, CreateCommissionRule, TypeInv
<1>4. CASE Writes(p) /\ ~ReplaceTriggers(p)
  BY <1>1, <1>4 DEF Writes, CreateCategory, UpdateCategory, DeleteCategory, UpdateStoreByAdmin, CreateProduct,
         UpdateProduct, DeleteProduct, CreateVariant, UpdateVariant, DeleteVariant, CreateOffer, ClearTriggers,
         ReplaceFails, UpdateOffer, ToggleOffer, DeleteOffer, CreatePlan, CreateBilling, CreatePayoutAccount,
         SetException, DeleteHourException, CreateStoreByAdmin, ResolveTier, ApplyEffectiveRateToStore, End
<1>5. CASE Die(p)
  BY <1>1, <1>5 DEF Die
<1> QED BY <1>2, <1>3, <1>4, <1>5

LEMMA NextFairInv == TypeInv /\ FairInv /\ [Next]_vars => FairInv'
<1> SUFFICES ASSUME TypeInv, FairInv, [Next]_vars PROVE FairInv'
  OBVIOUS
<1>1. req \in [Procs -> Request]
  BY DEF TypeInv, TypeOK
<1>2. CASE UNCHANGED vars
  BY <1>2 DEF FairInv, Fair, vars, others, rates
<1>3. ASSUME NEW p \in Procs, Asks(p) \/ Writes(p) \/ Die(p), NEW q \in Procs,
             req'[q].op = "approveStore", req'[q].rule # 0
      PROVE  Fair(req[q].rule)'
  <2>1. \A i \in DOMAIN rules : rules'[i] = rules[i]
    BY <1>3, AsksAreFresh, RuleIsAdded, CatalogWrites, OfferWrites, MoneyWrites, OtherWrites
       DEF Fresh, Begun, Die, Writes, others, rates, TypeInv
  <2>2. \A i \in DOMAIN rules : Fair(i) => rules'[i].scope.store # "other" /\
                                  (rules'[i].scope.store = None => rules'[i].scope.zone # "other")
    BY <2>1 DEF Fair
  <2>3. CASE req[q].op = "approveStore" /\ req'[q].rule = req[q].rule
    <3>1. req[q].rule \in DOMAIN rules /\ Fair(req[q].rule)
      BY <1>3, <2>3 DEF FairInv, TypeInv, Refers
    <3> QED BY <2>2, <2>3, <3>1 DEF Fair
  <2>4. CASE q # p
    BY <1>3, <2>3, <2>4, OthersKeepOn
  <2>5. CASE q = p /\ Fresh(p)
    <3>1. PICK r \in Request : r.rule = 0 /\ Begun(p, r)
      BY <2>5 DEF Fresh
    <3>2. req'[p] = r
      BY <1>1, <3>1 DEF Begun
    <3> QED BY <1>3, <2>5, <3>1, <3>2
  <2>6. CASE q = p /\ CreateCommissionRule(p)
    BY <1>3, <2>3, <2>6 DEF CreateCommissionRule
  <2>7. CASE q = p /\ ResolveTier(p)
    <3>1. PICK tier \in Tier, i \in {0} \cup DOMAIN rules :
            /\ req'[p] = [req[p] EXCEPT !.at = tier, !.rule = i]
            /\ i # 0 => i \in TierRules(tier, req[p].to)
      BY <2>7, TierIsAsked
    <3>2. req[p] \in Request /\ req'[p].rule = i
      BY <1>1, <3>1 DEF Request
    <3>3. i \in DOMAIN rules /\ Fair(i)
      BY <1>3, <2>7, <3>1, <3>2, TierRulesAreFair
    <3> QED BY <2>2, <2>7, <3>2, <3>3 DEF Fair
  <2>8. CASE q = p /\ Writes(p) /\ ~ResolveTier(p)
    BY <1>3, <2>8, OnlyResolveGoesOn
  <2>9. CASE q = p /\ Die(p)
    BY <1>1, <1>3, <2>9 DEF Die, Idle
  <2> QED BY <1>3, <2>4, <2>5, <2>6, <2>7, <2>8, <2>9, AsksAreFresh DEF TypeInv
<1> QED BY <1>2, <1>3 DEF Next, FairInv

LEMMA SearchedStays ==
  ASSUME NEW r, Searched(r), UNCHANGED <<rules, vertical>>
  PROVE  /\ r.at \in {"read"} \cup Tier
         /\ r.rule = 0 => \A i \in DOMAIN rules' : Suits(i)' => Width(i)' < Rank(r.at)
         /\ r.rule # 0 => \A i \in DOMAIN rules' :
              Suits(i)' => \/ Width(i)' < Narrowness(rules'[r.rule].scope)
                           \/ Width(i)' = Narrowness(rules'[r.rule].scope) /\ i <= r.rule
  BY DEF Searched, Suits, Width, Fits

LEMMA ResolveSearches ==
  ASSUME TypeInv, NEW p \in Procs, ResolveTier(p), Searched(req[p]), req[p].to = vertical
  PROVE  Searched(req[p])'
<1>1. PICK tier \in Tier, n \in {0} \cup DOMAIN rules :
        /\ req'[p] = [req[p] EXCEPT !.at = tier, !.rule = n]
        /\ Rank(tier) = Rank(req[p].at) - 1
        /\ n = 0 => TierRules(tier, vertical) = {}
        /\ n # 0 => n \in TierRules(tier, vertical) /\ \A j \in TierRules(tier, vertical) : j <= n
  BY TierIsAsked
<1>2. req[p] \in Request /\ vertical \in Categories
  BY DEF TypeInv, TypeOK
<1>3. req'[p].at = tier /\ req'[p].rule = n
  BY <1>1, <1>2 DEF Request
<1>4. rules' = rules /\ vertical' = vertical
  BY DEF ResolveTier, others, rates, catalog
<1>5. \A i \in DOMAIN rules : Suits(i) => Width(i) < Rank(req[p].at)
  BY DEF ResolveTier, Searched
<1>6. Rank(tier) \in Int /\ Rank(req[p].at) \in Int
  BY DEF Rank
<1>7. \A i \in DOMAIN rules : Suits(i) /\ Width(i) = Rank(tier) => i \in TierRules(tier, vertical)
  BY TierFindsAll
<1>8. \A i \in DOMAIN rules : Suits(i) => Width(i) < Rank(tier) \/ (Width(i) = Rank(tier) /\ i \in TierRules(tier, vertical))
  BY <1>1, <1>5, <1>6, <1>7, WidthType
<1>9. Searched([req[p] EXCEPT !.at = tier, !.rule = n])
  <2> DEFINE r == [req[p] EXCEPT !.at = tier, !.rule = n]
  <2>1. r.at = tier /\ r.rule = n
    BY <1>2 DEF Request
  <2> HIDE DEF r
  <2>2. CASE n = 0
    BY <1>1, <1>8, <2>1, <2>2 DEF Searched
  <2>3. CASE n # 0
    <3>1. Width(n) = Rank(tier)
      BY <1>1, <1>2, <2>3, TierWidth
    <3> QED BY <1>1, <1>8, <2>1, <2>3, <3>1 DEF Searched
  <2> QED BY <2>2, <2>3
<1> QED BY <1>1, <1>3, <1>4, <1>9, SearchedStays DEF Searched, Suits, Width, Fits

LEMMA NextSearchInv == TypeInv /\ Alone /\ SearchInv /\ [Next]_vars => SearchInv'
<1> SUFFICES ASSUME TypeInv, Alone, SearchInv, [Next]_vars, ~overlapped',
                    NEW q \in Procs, req'[q].op = "approveStore"
             PROVE  Searched(req[q])'
  BY DEF SearchInv
<1>1. req \in [Procs -> Request]
  BY DEF TypeInv, TypeOK
<1>2. CASE UNCHANGED vars
  BY <1>2 DEF SearchInv, Searched, Suits, Width, Fits, vars, desk, others, rates, catalog
<1>3. ASSUME NEW p \in Procs, Asks(p) \/ Writes(p) \/ Die(p)
      PROVE  Searched(req[q])'
  <2>1. ~overlapped /\ q = p
    BY <1>3, OthersAreIdle DEF Idle
  <2>2. CASE Fresh(p)
    <3>1. PICK r \in Request : r.rule = 0 /\ r.at = "read" /\ Begun(p, r)
      BY <2>2 DEF Fresh
    <3>2. req'[p] = r
      BY <1>1, <3>1 DEF Begun
    <3>3. \A i : Width(i)' < 5
      BY DEF Width, Narrowness
    <3> QED BY <2>1, <3>1, <3>2, <3>3 DEF Searched, Rank
  <2>3. CASE CreateCommissionRule(p)
    <3>1. req'[p] = Idle
      BY <2>1, <2>3 DEF CreateCommissionRule
    <3> QED BY <2>1, <3>1 DEF Idle
  <2>4. CASE ResolveTier(p)
    <3>1. req[p].op = "approveStore" /\ req[p] # Idle
      BY <2>4 DEF ResolveTier, Idle
    <3>2. Searched(req[p]) /\ Current(req[p])
      BY <2>1, <3>1 DEF SearchInv, Alone
    <3>3. req[p].to = vertical
      BY <3>1, <3>2 DEF Current
    <3> QED BY <2>1, <2>4, <3>2, <3>3, ResolveSearches
  <2>5. CASE Writes(p) /\ ~ResolveTier(p)
    BY <2>1, <2>5, OnlyResolveGoesOn
  <2>6. CASE Die(p)
    BY <1>1, <2>1, <2>6 DEF Die, Idle
  <2> QED BY <1>3, <2>2, <2>3, <2>4, <2>5, <2>6, AsksAreFresh DEF TypeInv
<1> QED BY <1>2, <1>3 DEF Next

\* The rate is written by the last step of an approval.
LEMMA RateIsApplied ==
  ASSUME TypeInv, [Next]_vars, rate' # rate
  PROVE  \E p \in Procs : ApplyEffectiveRateToStore(p) /\ req[p].rule # 0 /\ rate' = req[p].rule
<1>1. ASSUME NEW p \in Procs, Asks(p) \/ Die(p) PROVE FALSE
  BY <1>1, AsksAreFresh DEF Fresh, Begun, CreateCommissionRule, Die, others, rates, TypeInv
<1>2. ASSUME NEW p \in Procs, Writes(p) PROVE ApplyEffectiveRateToStore(p)
  <2>1. UNCHANGED others => FALSE
    BY DEF others, rates
  <2>2. CASE SetException(p) \/ DeleteHourException(p) \/ CreateStoreByAdmin(p) \/ ResolveTier(p)
    BY <2>1, <2>2 DEF SetException, DeleteHourException, CreateStoreByAdmin, ResolveTier, rates
  <2> QED BY <1>2, <2>1, <2>2, CatalogWrites, OfferWrites, MoneyWrites DEF Writes
<1>3. CASE UNCHANGED vars
  BY <1>3 DEF vars, others, rates
<1>4. PICK p \in Procs : ApplyEffectiveRateToStore(p)
  BY <1>1, <1>2, <1>3 DEF Next
<1> QED BY <1>4 DEF ApplyEffectiveRateToStore

\* For any number of rules, however they are created while the tiers are asked: a store is
\* never approved with the rate of another store's or another zone's rule; where requests do
\* not overlap, the rule is the narrowest of those in force that fit, and of these the newest.
THEOREM RatesAreAsRuled == Spec => RateAsRuled
<1>1. Init => FairInv /\ SearchInv
  <2> SUFFICES ASSUME Init PROVE FairInv /\ SearchInv
    OBVIOUS
  <2>1. \A p \in Procs : req[p].op = "idle"
    BY DEF Init, Idle
  <2> QED BY <2>1 DEF FairInv, SearchInv
<1> DEFINE Step == rate' # rate =>
                     LET applied == rules[rate'].scope IN
                     /\ applied.store # "other" /\ (applied.store = None => applied.zone # "other")
                     /\ ~overlapped' => BestRule
<1>2. TypeInv /\ FairInv /\ SearchInv /\ [Next]_vars => Step
  <2> SUFFICES ASSUME TypeInv, FairInv, SearchInv, [Next]_vars, rate' # rate PROVE Step
    OBVIOUS
  <2>1. PICK p \in Procs : ApplyEffectiveRateToStore(p) /\ req[p].rule # 0 /\ rate' = req[p].rule
    BY RateIsApplied
  <2>2. Fair(rate') /\ req[p].op = "approveStore"
    BY <2>1 DEF FairInv, ApplyEffectiveRateToStore
  <2>3. overlapped' = overlapped
    BY <2>1, WritesKeepDesk DEF Writes
  <2>4. ~overlapped' => Searched(req[p])
    BY <2>2, <2>3 DEF SearchInv
  <2>5. ~overlapped' => BestRule
    BY <2>1, <2>4 DEF Searched, Suits, Width, BestRule
  <2> QED BY <2>2, <2>5 DEF Fair
<1>3. TypeInv /\ FairInv /\ SearchInv /\ [Next]_vars => [Step]_vars
  BY <1>2
<1> QED BY <1>1, <1>3, InitTypeInv, NextTypeInv, InitAlone, NextAlone, NextFairInv, NextSearchInv, PTL
        DEF Spec, RateAsRuled
===============================================================================
