------------------------------- MODULE OrderBook -------------------------------
(***************************************************************************)
(* What order handling promises, with no requests, locks or counters: a    *)
(* book of orders and a shelf.  There is no reservation counter; what is   *)
(* promised is what the open orders ask for.                               *)
(***************************************************************************)
EXTENDS Integers, FiniteSets

CONSTANTS Orders, Variants

VARIABLES
  status,   \* status[o]
  items,    \* items[o][v]: units of v that o asks for
  onHand    \* onHand[v]: units of v on the shelf

vars == <<status, items, onHand>>

Open == {"PLACED", "ACCEPTED", "PREPARING", "READY_FOR_PICKUP", "OUT_FOR_DELIVERY"}

\* The only ways an order moves while it is open.
Progress == {<<"PLACED", "ACCEPTED">>, <<"ACCEPTED", "PREPARING">>,
             <<"PREPARING", "READY_FOR_PICKUP">>, <<"PREPARING", "OUT_FOR_DELIVERY">>,
             <<"READY_FOR_PICKUP", "OUT_FOR_DELIVERY">>}

Promised(v) ==
  Cardinality(UNION {{o} \X (1..items[o][v]) : o \in {x \in Orders : status[x] \in Open}})

Init ==
  /\ status = [o \in Orders |-> "NONE"]
  /\ items \in [Orders -> {[v \in Variants |-> 0]}]
  /\ onHand \in [Variants -> Nat]

\* A customer orders what nobody else was promised.
Place(o) ==
  /\ status[o] = "NONE"
  /\ \A v \in Variants : items'[o][v] <= onHand[v] - Promised(v)
  /\ \A x \in Orders \ {o} : items'[x] = items[x]
  /\ status' = [status EXCEPT ![o] = "PLACED"]
  /\ UNCHANGED onHand

Advance(o) ==
  /\ \E next \in Open :
       /\ <<status[o], next>> \in Progress
       /\ status' = [status EXCEPT ![o] = next]
  /\ UNCHANGED <<items, onHand>>

\* An order that ends without a sale frees what it was promised.
CallOff(o) ==
  /\ \/ status[o] \in {"PLACED", "ACCEPTED"} /\ status' = [status EXCEPT ![o] = "REJECTED"]
     \/ status[o] \in Open /\ status' = [status EXCEPT ![o] = "CANCELLED"]
  /\ UNCHANGED <<items, onHand>>

\* A delivered order takes exactly its items off the shelf.
Deliver(o) ==
  /\ status[o] \in {"READY_FOR_PICKUP", "OUT_FOR_DELIVERY"}
  /\ status' = [status EXCEPT ![o] = "COMPLETED"]
  /\ onHand' = [v \in Variants |-> onHand[v] - items[o][v]]
  /\ UNCHANGED items

Restock(v) ==
  /\ \E n \in 1..(onHand'[v]) : onHand' = [onHand EXCEPT ![v] = @ + n]
  /\ UNCHANGED <<status, items>>

Next ==
  \/ \E o \in Orders : Place(o) \/ Advance(o) \/ CallOff(o) \/ Deliver(o)
  \/ \E v \in Variants : Restock(v)

Spec == Init /\ [][Next]_vars
==============================================================================
