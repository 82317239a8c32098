----------------------------- MODULE Inventory ------------------------------
(***************************************************************************)
(* What checkout and cancellation promise about the stock, with no request *)
(* and no transaction in sight: an order takes everything it lists from    *)
(* the shelf or does not come into being, a cancellation puts everything   *)
(* back and closes the order and its delivery, both in one step.           *)
(* Checkout.tla implements this specification.                             *)
(***************************************************************************)
EXTENDS Integers

CONSTANTS Products, Buyers, Orders, None

VARIABLES stock, owner, items, ostatus, dstatus

vars == <<stock, owner, items, ostatus, dstatus>>

Init ==
    /\ stock \in [Products -> Nat]
    /\ owner = [o \in Orders |-> None]
    /\ items = [o \in Orders |-> [p \in Products |-> 0]]
    /\ ostatus = [o \in Orders |-> "AWAITING_PAYMENT"]
    /\ dstatus = [o \in Orders |-> "SCHEDULED"]

\* A buyer orders a non-empty list of products the shelf holds.
Place(o) ==
    /\ owner[o] = None
    /\ owner'[o] \in Buyers
    /\ owner' = [owner EXCEPT ![o] = owner'[o]]
    /\ items' = [items EXCEPT ![o] = items'[o]]
    /\ \E p \in Products : items'[o][p] > 0
    /\ \A p \in Products : items'[o][p] \in 0..stock[p]
    /\ stock' = [p \in Products |-> stock[p] - items'[o][p]]
    /\ ostatus' = [ostatus EXCEPT ![o] = "AWAITING_PAYMENT"]
    /\ dstatus' = [dstatus EXCEPT ![o] = "SCHEDULED"]

Cancel(o) ==
    /\ owner[o] # None
    /\ stock' = [p \in Products |-> stock[p] + items[o][p]]
    /\ ostatus' = [ostatus EXCEPT ![o] = "CANCELLED"]
    /\ dstatus' = [dstatus EXCEPT ![o] = "CANCELLED"]
    /\ UNCHANGED <<owner, items>>

\* An administrator moves an order or its delivery along ...
Handle(o) ==
    /\ owner[o] # None
    /\ \/ ostatus' = [ostatus EXCEPT ![o] = ostatus'[o]] /\ UNCHANGED dstatus
       \/ dstatus' = [dstatus EXCEPT ![o] = dstatus'[o]] /\ UNCHANGED ostatus
    /\ UNCHANGED <<stock, owner, items>>

\* ... or counts the shelf.
Count(p) ==
    /\ stock'[p] \in Nat
    /\ stock' = [stock EXCEPT ![p] = stock'[p]]
    /\ UNCHANGED <<owner, items, ostatus, dstatus>>

Next ==
    \/ \E o \in Orders : Place(o) \/ Cancel(o) \/ Handle(o)
    \/ \E p \in Products : Count(p)

Spec == Init /\ [][Next]_vars
=============================================================================
