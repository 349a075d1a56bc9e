----------------------------- MODULE MCStorefront -----------------------------
(* TLC definitions for Storefront. *)
EXTENDS Storefront, TLC

Products   == "u" :> "x" @@ "v" :> "y" @@ "w" :> "y"
Categories == "x" :> "g" @@ "y" :> "h"
Prices     == "u" :> 333 @@ "v" :> 125 @@ "w" :> 0
Week       == 0 :> "mon" @@ 1 :> "tue" @@ 2 :> "mon"

\* Slots: 00:00, 01:00, 05:30, 18:00.
DayAndNight == {[kind |-> "closed", open |-> 0, close |-> 0], [kind |-> "always", open |-> 0, close |-> 0],
                [kind |-> "window", open |-> 2, close |-> 2], [kind |-> "window", open |-> 0, close |-> 3],
                [kind |-> "window", open |-> 3, close |-> 1]}

Plain == [reward |-> "FLAT_OFF", value |-> 0, capped |-> FALSE, cap |-> 0, free |-> 1,
          entireStore |-> FALSE, minimum |-> 0, products |-> {}, categories |-> {}, quantity |-> 0,
          coupon |-> FALSE, channels |-> {"APP", "POS"}]

\* Percentages that do not divide, with and without a cap, one above a hundred and one below zero;
\* a flat amount above the cheapest basket; triggers of every kind; a free item; a coupon; one that
\* is for the counter only.
SmallBook == {
  [Plain EXCEPT !.reward = "PERCENT_OFF", !.value = 15, !.entireStore = TRUE],
  [Plain EXCEPT !.reward = "PERCENT_OFF", !.value = 120, !.products = {"x"}],
  [Plain EXCEPT !.reward = "PERCENT_OFF", !.value = 50, !.capped = TRUE, !.cap = 100, !.products = {"y"}],
  [Plain EXCEPT !.value = 200, !.categories = {"h"}],
  [Plain EXCEPT !.value = 70, !.minimum = 300, !.channels = {"POS"}],
  [Plain EXCEPT !.reward = "FREE_ITEM", !.value = 125, !.products = {"y"}, !.quantity = 3],
  [Plain EXCEPT !.reward = "FREE_SHIPPING"],
  [Plain EXCEPT !.reward = "PERCENT_OFF", !.value = -10],
  [Plain EXCEPT !.value = 300, !.entireStore = TRUE, !.coupon = TRUE]}
===============================================================================
