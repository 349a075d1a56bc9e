---------------------------- MODULE MCCartService ----------------------------
(* TLC definitions for CartService: store "a" sells "a1", store "b" sells "b1". *)
EXTENDS CartService, TLC

OneOfEach  == [v \in {"a1", "b1"} |-> IF v = "a1" THEN "a" ELSE "b"]
TwoInStock == [v \in Variants |-> 2]
OneInStock == [v \in Variants |-> 1]
Symmetry   == Permutations(Procs) \cup Permutations(Keys)
===============================================================================
