------------------------------ MODULE MCIdentity ------------------------------
(* TLC definitions for Identity. *)
EXTENDS Identity, TLC

Row(role) == [role |-> role, blocked |-> FALSE]

\* A newcomer, and a customer blocked by hand.
NewOrBlocked == {Row("NONE"), [Row("CUSTOMER") EXCEPT !.blocked = TRUE]}

===============================================================================
