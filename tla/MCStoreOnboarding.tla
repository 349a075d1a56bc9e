--------------------------- MODULE MCStoreOnboarding ---------------------------
(* TLC definitions for StoreOnboarding. *)
EXTENDS StoreOnboarding, TLC

Symmetry == Permutations(Procs) \cup Permutations(RequiredTypes)
===============================================================================
