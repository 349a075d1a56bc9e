----------------------------- MODULE MCBackOffice -----------------------------
(* TLC definitions for BackOffice. *)
EXTENDS BackOffice, TLC

Symmetry == Permutations(Procs)

\* The groups of operations that share tables.
CatalogDesk == {"createCategory", "createStoreCategory", "updateCategory", "deleteCategory",
                "deleteStoreCategory", "updateStoreByAdmin", "createProduct", "updateProduct",
                "deleteProduct", "createVariant", "updateVariant", "deleteVariant"}

AllDesks == {CatalogDesk,
             {"createOffer", "updateOffer", "toggleOffer", "deleteOffer"},
             {"getBillingProfile"}, {"createPayoutAccount"},
             {"createHourException", "deleteHourException"}, {"createStoreByAdmin"},
             {"createCommissionRule", "approveStore", "updateStoreByAdmin"}}

\* Scopes the admin's page can send, and two for stores: one of every tier that is the store's,
\* one that is not, and those in which a category and a place disagree.
For(z, c, ct) == [store |-> None, zone |-> z, category |-> c, city |-> ct]

Scopes == {For(None, None, None), For(None, None, "ours"), For(None, None, "other"),
           For(None, "g", None), For(None, "h", None), For(None, "g", "other"), For("ours", None, "ours"),
           For("ours", "h", "ours"), For("other", "g", "other")}
            \cup [store : {"ours", "other"}, zone : {None}, category : {None}, city : {None}]

\* Two verticals, a category of the store under its vertical, one product in it.
SmallShop ==
  [category |-> "g" :> [state |-> "live", parent |-> None, own |-> FALSE]
       @@ "h" :> [state |-> "live", parent |-> None, own |-> FALSE]
       @@ "c" :> [state |-> "live", parent |-> "g", own |-> TRUE]
       @@ "d" :> [state |-> "none", parent |-> None, own |-> FALSE],
     vertical |-> "g",
   product |-> "x" :> [state |-> "live", active |-> TRUE, category |-> "c"]
       @@ "y" :> [state |-> "none", active |-> FALSE, category |-> "c"],
   variant |-> "u" :> [state |-> "live", active |-> TRUE, product |-> "x"]
       @@ "v" :> [state |-> "none", active |-> FALSE, product |-> "x"]]
===============================================================================
