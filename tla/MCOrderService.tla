---------------------------- MODULE MCOrderService ----------------------------
(* TLC definitions for OrderService. *)
EXTENDS OrderService, TLC

\* Orders and requests are interchangeable.
Symmetry == Permutations(Orders) \cup Permutations(Procs)
\* What the owner enters on the inventory screen: a correction up or down.
UpAndDown == {-1, 1}
===============================================================================
