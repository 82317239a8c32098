-------------------------------- MODULE Fees --------------------------------
(***************************************************************************)
(* What a delivery costs: delivery-zones.service.ts (quote), the fee part  *)
(* of checkout.service.ts, and the zone shown with addresses, profiles,    *)
(* orders, payments and the answer of a checkout.                          *)
(*                                                                         *)
(* The same rule is written six times: the price of the zone of the        *)
(* address's neighbourhood, else the default fee.  Checkout applies it in  *)
(* three statements before its transaction, a page in three or four, while *)
(* administrators change zones and the default and the buyer changes       *)
(* addresses.  quote is what the others are compared with.  Neighbourhoods *)
(* are compared trimmed, as every route stores and asks them.              *)
(***************************************************************************)
EXTENDS Naturals, FiniteSets

CONSTANTS
    Zones, Neighborhoods, Addresses,   \* addresses of one buyer
    Orders, Requests,
    Prices,
    None

ASSUME FeesAssumption ==
    /\ Prices \subseteq Nat
    /\ None \notin Nat \cup Zones \cup Neighborhoods \cup Addresses \cup Orders

VARIABLES
    zone,      \* the table of zones; the neighbourhood is unique
    prefs,     \* defaultDeliveryFee of the preferences, None without a row
    place,     \* neighbourhoods of the addresses, None for no such address
    default,   \* the addresses that are marked as default
    order,     \* fee and delivery of the orders
    req,       \* checkouts and pages under way
    seen       \* history: neighbourhoods, fees and changes of the tariff (two or
               \* more are not told apart) since a request began

tables == <<zone, prefs, place, default>>
vars == <<tables, order, req, seen>>

Zone == [near: Neighborhoods \cup {None}, price: Nat]     \* None: no such zone
NoZone == [near |-> None, price |-> 0]

Order == [fee: Nat \cup {None},
          deliveryFee: Nat \cup {None},                  \* None: no delivery
          dest: Addresses \cup {None},
          open: BOOLEAN]      \* neither cancelled nor on the way nor delivered
NoOrder == [fee |-> None, deliveryFee |-> None, dest |-> None, open |-> FALSE]

\* A checkout ends at "order" and goes on as the receipt of its order; a page
\* ends at "shown".
Request == [kind: {"checkout", "receipt", "page"},
            pc: {"idle", "address", "zone", "near", "prefs", "order", "shown"},
            address: Addresses \cup {None},
            zone: Zones \cup {None},                      \* zone asked for
            near: Neighborhoods \cup {None},              \* as read
            fee: Nat \cup {None},
            pickup: BOOLEAN]
Idle == [kind |-> "checkout", pc |-> "idle", address |-> None, zone |-> None,
         near |-> None, fee |-> None, pickup |-> FALSE]

Seen == [nears: SUBSET Neighborhoods, offers: SUBSET Nat, changes: 0..2]
Nothing == [nears |-> {}, offers |-> {}, changes |-> 0]

FeesTypeOK ==
    /\ zone \in [Zones -> Zone]
    /\ \A y, z \in Zones : zone[y].near = zone[z].near /\ zone[y].near # None => y = z
    /\ prefs \in Nat \cup {None}
    /\ place \in [Addresses -> Neighborhoods \cup {None}]
    /\ default \subseteq Addresses
    /\ order \in [Orders -> Order]
    /\ req \in [Requests -> Request]
    /\ seen \in [Requests -> Seen]

Init ==
    /\ zone = [z \in Zones |-> NoZone]
    /\ prefs \in Prices \cup {None}
    /\ place = [a \in Addresses |-> None]
    /\ default = {}
    /\ order = [o \in Orders |-> NoOrder]
    /\ req = [r \in Requests |-> Idle]
    /\ seen = [r \in Requests |-> Nothing]

-----------------------------------------------------------------------------
(* The rule, as quote states it.                                           *)

Existing == {a \in Addresses : place[a] # None}

DefaultFee == IF prefs = None THEN 0 ELSE prefs

ZonesAt(n) == {z \in Zones : n # None /\ zone[z].near = n}
PriceAt(n, otherwise) ==
    IF ZonesAt(n) = {} THEN otherwise ELSE zone[CHOOSE z \in ZonesAt(n) : TRUE].price

\* GET delivery-zones/quote by zone, neighbourhood and address: the route is
\* public, so it has no buyer whose default address it could take.  None: 404.
Quote(z, n, a) ==
    IF z # None
      THEN IF zone[z].near = None THEN None ELSE zone[z].price
      ELSE IF n # None /\ ZonesAt(n) # {} THEN PriceAt(n, DefaultFee)
           ELSE IF a = None THEN DefaultFee ELSE PriceAt(place[a], DefaultFee)

-----------------------------------------------------------------------------
(* Checkout.                                                               *)

Goto(r, state) ==
    /\ req' = [req EXCEPT ![r] = state]
    /\ UNCHANGED <<tables, order>>

\* STORE_PICKUP costs nothing.
CheckoutPickup(r) ==
    /\ req[r].pc = "idle"
    /\ Goto(r, [Idle EXCEPT !.pc = "order", !.fee = 0, !.pickup = TRUE])

\* The address asked for; a zone asked for as well is looked up by its id.
CheckoutAddress(r, a, z) ==
    /\ req[r].pc = "idle"
    /\ place[a] # None
    /\ Goto(r, [Idle EXCEPT !.pc = IF z = None THEN "near" ELSE "zone",
                            !.address = a, !.near = place[a], !.zone = z])

CheckoutZoneOnly(r, z) ==
    /\ req[r].pc = "idle"
    /\ Goto(r, [Idle EXCEPT !.pc = "zone", !.zone = z])

\* Neither asked for: a default address, or none.
CheckoutDefault(r) ==
    /\ req[r].pc = "idle"
    /\ IF default = {} THEN Goto(r, [Idle EXCEPT !.pc = "prefs"])
       ELSE \E a \in default :
              Goto(r, [Idle EXCEPT !.pc = "near", !.address = a, !.near = place[a]])

CheckoutZoneById(r) ==
    LET z == req[r].zone
    IN  /\ req[r].kind = "checkout" /\ req[r].pc = "zone"
        /\ Goto(r, IF zone[z].near = None THEN Idle      \* 404
                   ELSE [req[r] EXCEPT !.pc = "order", !.fee = zone[z].price])

\* Mutant of CheckoutZoneByNeighborhood: no zone there is free of charge.
CheckoutZoneOrFree(r) ==
    LET n == req[r].near
    IN  /\ req[r].kind = "checkout" /\ req[r].pc = "near"
        /\ Goto(r, [req[r] EXCEPT !.pc = "order", !.fee = PriceAt(n, 0)])

CheckoutZoneByNeighborhood(r) ==
    LET n == req[r].near
    IN  /\ req[r].kind = "checkout" /\ req[r].pc = "near"
        /\ Goto(r, IF ZonesAt(n) = {} THEN [req[r] EXCEPT !.pc = "prefs"]
                   ELSE [req[r] EXCEPT !.pc = "order", !.fee = PriceAt(n, 0)])

CheckoutPrefs(r) ==
    /\ req[r].kind = "checkout" /\ req[r].pc = "prefs"
    /\ Goto(r, [req[r] EXCEPT !.pc = "order", !.fee = DefaultFee])

\* What is left of a checkout once its order is committed: the zone of the
\* delivery's address, or else the zone asked for.  A zone found by its price
\* has the price that was charged.
Receipt(q) ==
    IF q.address # None
      THEN [Idle EXCEPT !.kind = "receipt", !.pc = "address", !.address = q.address]
    ELSE IF q.zone # None
      THEN [Idle EXCEPT !.kind = "receipt", !.pc = "zone", !.zone = q.zone]
    ELSE Idle

\* order.create with its delivery; an address deleted meanwhile violates the
\* foreign key.
CheckoutOrder(r) ==
    LET a == req[r].address
    IN  /\ req[r].pc = "order"
        /\ IF a # None /\ place[a] = None
             THEN UNCHANGED order /\ req' = [req EXCEPT ![r] = Idle]
             ELSE /\ \E o \in Orders :
                        /\ order[o] = NoOrder
                        /\ order' = [order EXCEPT ![o] = [fee |-> req[r].fee,
                                 deliveryFee |-> req[r].fee, dest |-> a, open |-> TRUE]]
                  /\ req' = [req EXCEPT ![r] = Receipt(req[r])]
        /\ UNCHANGED tables

\* The request was answered, or the process died.
Leave(r) ==
    /\ req[r].pc # "idle"
    /\ Goto(r, Idle)

-----------------------------------------------------------------------------
(* Pages: each statement is one step.                                      *)

\* The page of an address, or of a profile with any default address.  The
\* list of addresses also reads the default fee where it needs none.
PageOfAddress(r, a) ==
    /\ req[r].pc = "idle"
    /\ place[a] # None
    /\ Goto(r, [Idle EXCEPT !.kind = "page", !.pc = "near", !.address = a,
                            !.near = place[a]])

\* The page of an order, or the breakdown of its payment; without an address
\* it shows no zone.
PageOfOrder(r, o) ==
    /\ req[r].pc = "idle"
    /\ order[o].dest # None
    /\ Goto(r, [Idle EXCEPT !.kind = "page", !.pc = "address", !.address = order[o].dest])

PageAddress(r) ==
    LET a == req[r].address
    IN  /\ req[r].pc = "address"
        /\ Goto(r, IF place[a] = None THEN Idle
                   ELSE [req[r] EXCEPT !.pc = "near", !.near = place[a]])

\* Mutant of PageZone: where there is no zone the delivery is shown as free.
PageZoneOrFree(r) ==
    LET q == req[r]
    IN  /\ q.kind # "checkout" /\ q.pc = "near"
        /\ Goto(r, [q EXCEPT !.pc = "shown", !.fee = PriceAt(q.near, 0)])

\* A receipt leaves out the default fee, it shows no zone then.
PageZone(r) ==
    LET q == req[r]
    IN  /\ q.kind # "checkout" /\ q.pc = "near"
        /\ Goto(r, IF ZonesAt(q.near) # {}
                     THEN [q EXCEPT !.pc = "shown", !.fee = PriceAt(q.near, 0)]
                   ELSE IF q.kind = "receipt" THEN Idle
                   ELSE [q EXCEPT !.pc = "prefs"])

\* No zone is shown as long as preferences were never saved.
PagePrefs(r) ==
    /\ req[r].kind = "page" /\ req[r].pc = "prefs"
    /\ Goto(r, IF prefs = None THEN Idle
               ELSE [req[r] EXCEPT !.pc = "shown", !.fee = prefs])

\* The receipt of an order without an address.
ReceiptZone(r) ==
    LET z == req[r].zone
    IN  /\ req[r].kind = "receipt" /\ req[r].pc = "zone"
        /\ Goto(r, IF zone[z].near = None THEN Idle
                   ELSE [req[r] EXCEPT !.pc = "shown", !.fee = zone[z].price])

-----------------------------------------------------------------------------
(* Tables.                                                                 *)

\* upsertDelivery: another address, the same fee.  A delivery that is missing
\* is created with the fee of the order.
EditDelivery(o, a) ==
    /\ order[o].open
    /\ a \in Existing \cup {None}
    /\ order' = [order EXCEPT ![o].dest = a,
                  ![o].deliveryFee = IF @ = None THEN order[o].fee ELSE @]
    /\ UNCHANGED <<tables, req>>

\* An administrator writes any status of the order or of its delivery, or
\* the buyer cancels.
WriteStatus(o) ==
    /\ order[o].fee # None
    /\ order' = [order EXCEPT ![o].open = ~order[o].open]
    /\ UNCHANGED <<tables, req>>

\* Mutant of WriteZone: the neighbourhood is not unique.
WriteZoneAnywhere(z, n, p) ==
    /\ zone' = [zone EXCEPT ![z] = [near |-> n, price |-> p]]
    /\ UNCHANGED <<prefs, place, default, order, req>>

\* create or update: a second zone of a neighbourhood is a CONFLICT.
WriteZone(z, n, p) ==
    /\ ZonesAt(n) \subseteq {z}
    /\ zone' = [zone EXCEPT ![z] = [near |-> n, price |-> p]]
    /\ UNCHANGED <<prefs, place, default, order, req>>

RemoveZone(z) ==
    /\ zone[z].near # None
    /\ zone' = [zone EXCEPT ![z] = NoZone]
    /\ UNCHANGED <<prefs, place, default, order, req>>

UpdatePreferences(p) ==
    /\ prefs' = p
    /\ UNCHANGED <<zone, place, default, order, req>>

\* Create or update an address (the marks are in Addresses.tla).
WriteAddress(a, n) ==
    /\ place' = [place EXCEPT ![a] = n]
    /\ UNCHANGED <<zone, prefs, default, order, req>>

MarkDefault(D) ==
    /\ D \subseteq Existing
    /\ default' = D
    /\ UNCHANGED <<zone, prefs, place, order, req>>

RemoveAddress(a) ==
    /\ place[a] # None
    /\ place' = [place EXCEPT ![a] = None]
    /\ default' = default \ {a}
    /\ order' = [o \in Orders |-> IF order[o].dest = a
                                    THEN [order[o] EXCEPT !.dest = None] ELSE order[o]]
    /\ UNCHANGED <<zone, prefs, req>>

-----------------------------------------------------------------------------
CheckoutStep(r) ==
    \/ CheckoutPickup(r)
    \/ \E a \in Addresses, z \in Zones \cup {None} : CheckoutAddress(r, a, z)
    \/ \E z \in Zones : CheckoutZoneOnly(r, z)
    \/ CheckoutDefault(r)
    \/ CheckoutZoneById(r)
    \/ CheckoutZoneByNeighborhood(r)
    \/ CheckoutPrefs(r)
    \/ CheckoutOrder(r)

PageStep(r) ==
    \/ \E a \in Addresses : PageOfAddress(r, a)
    \/ \E o \in Orders : PageOfOrder(r, o)
    \/ PageAddress(r)
    \/ PageZone(r)
    \/ PagePrefs(r)
    \/ ReceiptZone(r)

TariffStep ==
    \/ \E z \in Zones : \/ \E n \in Neighborhoods, p \in Prices : WriteZone(z, n, p)
                        \/ RemoveZone(z)
    \/ \E p \in Prices : UpdatePreferences(p)

BuyerStep ==
    \/ \E o \in Orders : \/ \E a \in Addresses \cup {None} : EditDelivery(o, a)
                         \/ WriteStatus(o)
    \/ \E a \in Addresses : \/ \E n \in Neighborhoods : WriteAddress(a, n)
                            \/ RemoveAddress(a)
    \/ \E D \in SUBSET Addresses : MarkDefault(D)

\* What quote answers for the same zone, or for the neighbourhoods that the
\* address had since the request began.
Offers(z, nears) ==
    IF z # None THEN {Quote(z, None, None)} \ {None}
    ELSE IF nears = {} THEN {Quote(None, None, None)}
    ELSE {Quote(None, n, None) : n \in nears}

Observe ==
    seen' = [r \in Requests |->
        LET now == req'[r]
            nears == seen[r].nears \cup (IF now.address = None THEN {}
                                         ELSE {place[now.address]} \ {None})
        IN  IF now.pc = "idle" THEN Nothing
            ELSE [nears |-> nears,
                  offers |-> seen[r].offers \cup Offers(now.zone, nears),
                  changes |-> IF <<zone, prefs>>' = <<zone, prefs>> \/ seen[r].changes = 2
                                THEN seen[r].changes ELSE seen[r].changes + 1]]

Next ==
    /\ \/ \E r \in Requests : CheckoutStep(r) \/ PageStep(r) \/ Leave(r)
       \/ TariffStep
       \/ BuyerStep
    /\ Observe

Spec == Init /\ [][Next]_vars

-----------------------------------------------------------------------------
(* Properties that hold.                                                   *)

\* The fee that a checkout is about to charge is one that quote would have
\* answered, for the zone asked for or for a neighbourhood that the address
\* had, at some moment since the request began, if no more than one change
\* of zones and default fee ran meanwhile; the buyer's edits of the address
\* do not matter (checkout.service.ts:92-157, delivery-zones.service.ts:100-163).
FeeInForce ==
    \A r \in Requests :
        req[r].pc = "order" /\ ~req[r].pickup /\ seen[r].changes <= 1
          => req[r].fee \in seen[r].offers

\* The price of the zone that a page or the answer of a checkout shows is one
\* that quote would have answered for the neighbourhood of the address, or for
\* the zone asked for, at some moment since the page was asked for, under the
\* same condition: none of the copies of the rule prices a neighbourhood in
\* its own way, whatever is written between its statements
\* (addresses.service.ts:37-63, auth.service.ts:457-478, orders.service.ts:6-27,
\* payments.service.ts:88-109, checkout.service.ts:289-312;
\* delivery-zones.service.ts:104-163).
PagesInForce ==
    \A r \in Requests :
        req[r].pc = "shown" /\ seen[r].changes <= 1 => req[r].fee \in seen[r].offers
=============================================================================
