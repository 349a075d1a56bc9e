----------------------------- MODULE MCShopClient -----------------------------
(* TLC definitions for ShopClient. *)
EXTENDS ShopClient, TLC

\* Two stores that sell one variant each.
TwoStores == "a1" :> "a" @@ "b1" :> "b"
===============================================================================
