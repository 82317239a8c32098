----------------------------- MODULE FeesProofs -----------------------------
(* Theorems about Fees.tla, for every value of its constants.              *)
EXTENDS Fees, TLAPS

-----------------------------------------------------------------------------
(* The inductive invariant.                                                *)

\* What a request under way has read, against what quote answered since it
\* began.  A request that found no zone and goes on to the default fee is
\* right when there is no zone still, or when quote has answered that
\* default already.
Fits(r) ==
    LET q == req[r]
        s == seen[r]
    IN  /\ q.pc = "idle" => s = Nothing
        /\ q.pc = "zone" => q.zone \in Zones /\ ~q.pickup
        /\ q.pc = "address" => q.address \in Addresses /\ q.zone = None
        /\ q.pc = "near" => q.near # None
        /\ q.pc \in {"near", "prefs"} =>
             /\ q.zone = None
             /\ q.near = None => q.address = None /\ s.nears = {}
             /\ q.near # None => q.near \in s.nears
        /\ q.pc = "prefs" /\ s.changes <= 1 =>
             ZonesAt(q.near) = {} \/ (s.changes = 1 /\ DefaultFee \in s.offers)
        /\ (q.pc = "order" /\ ~q.pickup) \/ q.pc = "shown" =>
             (s.changes <= 1 => q.fee \in s.offers)

AllFit == \A r \in Requests : Fits(r)
Marked == default \subseteq Existing

Inv == FeesTypeOK /\ Marked /\ AllFit

LEMMA Types ==
  ASSUME Inv
  PROVE  /\ zone \in [Zones -> Zone] /\ prefs \in Nat \cup {None}
         /\ place \in [Addresses -> Neighborhoods \cup {None}]
         /\ default \subseteq Addresses
         /\ order \in [Orders -> Order]
         /\ req \in [Requests -> Request] /\ seen \in [Requests -> Seen]
  BY DEF Inv, FeesTypeOK

LEMMA IdleTyped == Idle \in Request /\ Idle.pc = "idle" /\ Nothing \in Seen
  BY DEF Idle, Request, Nothing, Seen

LEMMA InitInv == Init => Inv
<1> SUFFICES ASSUME Init PROVE Inv
  OBVIOUS
<1>1. FeesTypeOK
  <2>1. zone \in [Zones -> Zone]
        /\ \A y, z \in Zones : zone[y].near = zone[z].near /\ zone[y].near # None => y = z
    BY DEF Init, NoZone, Zone
  <2>2. order \in [Orders -> Order]
    BY DEF Init, NoOrder, Order
  <2>3. req \in [Requests -> Request] /\ seen \in [Requests -> Seen]
    BY IdleTyped DEF Init
  <2>4. prefs \in Nat \cup {None}
    BY FeesAssumption DEF Init
  <2> QED  BY <2>1, <2>2, <2>3, <2>4 DEF Init, FeesTypeOK
<1>2. Marked
  BY DEF Init, Marked
<1>3. AllFit
  BY IdleTyped DEF Init, AllFit, Fits
<1> QED  BY <1>1, <1>2, <1>3 DEF Inv

-----------------------------------------------------------------------------
(* What quote answers.                                                     *)

LEMMA PriceTyped ==
  ASSUME Inv, NEW n, NEW otherwise \in Nat
  PROVE  PriceAt(n, otherwise) \in Nat
<1>1. CASE ZonesAt(n) = {}
  BY <1>1 DEF PriceAt
<1>2. CASE ZonesAt(n) # {}
  <2>1. (CHOOSE z \in ZonesAt(n) : TRUE) \in Zones
    BY <1>2 DEF ZonesAt
  <2> QED  BY <1>2, <2>1, Types DEF PriceAt, Zone
<1> QED  BY <1>1, <1>2

LEMMA DefaultTyped ==
  ASSUME Inv
  PROVE  DefaultFee \in Nat
  BY Types DEF DefaultFee

LEMMA OffersTyped ==
  ASSUME Inv, NEW z \in Zones \cup {None}, NEW nears \in SUBSET Neighborhoods
  PROVE  Offers(z, nears) \subseteq Nat
<1>1. CASE z # None
  BY <1>1, Types DEF Offers, Quote, Zone
<1>2. CASE z = None
  <2>1. Quote(None, None, None) \in Nat
    BY DefaultTyped DEF Quote
  <2>2. \A n \in nears : Quote(None, n, None) \in Nat
    BY DefaultTyped, PriceTyped DEF Quote
  <2> QED  BY <1>2, <2>1, <2>2 DEF Offers
<1> QED  BY <1>1, <1>2

\* Without a zone the default is what quote answers.
LEMMA DefaultOffered ==
  ASSUME Inv, NEW n, NEW nears \in SUBSET Neighborhoods,
         ZonesAt(n) = {}, n = None => nears = {}, n # None => n \in nears
  PROVE  DefaultFee \in Offers(None, nears)
  BY DEF Offers, Quote, ZonesAt

-----------------------------------------------------------------------------
(* The history.                                                            *)

Nears(r) == seen[r].nears \cup (IF req'[r].address = None THEN {}
                                ELSE {place[req'[r].address]} \ {None})
Changed == <<zone, prefs>>' # <<zone, prefs>>

LEMMA Observed ==
  ASSUME Inv, Observe, NEW r \in Requests, req' \in [Requests -> Request]
  PROVE  /\ req'[r].pc = "idle" => seen'[r] = Nothing
         /\ req'[r].pc # "idle" =>
              /\ seen'[r].nears = Nears(r)
              /\ seen'[r].offers = seen[r].offers \cup Offers(req'[r].zone, Nears(r))
              /\ seen'[r].changes = IF ~Changed \/ seen[r].changes = 2
                                      THEN seen[r].changes ELSE seen[r].changes + 1
         /\ seen'[r] \in Seen
         /\ Nears(r) \in SUBSET Neighborhoods
<1>1. req'[r] \in Request /\ seen[r] \in Seen
  BY Types
<1>2. Nears(r) \in SUBSET Neighborhoods
  BY <1>1, Types DEF Nears, Request, Seen
<1>3. seen[r].offers \cup Offers(req'[r].zone, Nears(r)) \subseteq Nat
  <2>1. req'[r].zone \in Zones \cup {None} /\ seen[r].offers \subseteq Nat
    BY <1>1 DEF Request, Seen
  <2> QED  BY <1>2, <2>1, OffersTyped
<1>4. seen[r].changes \in 0..2
  BY <1>1 DEF Seen
<1> DEFINE offers == seen[r].offers \cup Offers(req'[r].zone, Nears(r))
           changes == IF ~Changed \/ seen[r].changes = 2
                        THEN seen[r].changes ELSE seen[r].changes + 1
<1>5. seen'[r] = IF req'[r].pc = "idle" THEN Nothing
                 ELSE [nears |-> Nears(r), offers |-> offers, changes |-> changes]
  BY DEF Observe, Nears, Changed
<1>6. changes \in 0..2
  BY <1>4
<1>7. offers \subseteq Nat
  BY <1>3
<1> HIDE DEF offers, changes
<1>8. seen'[r] \in Seen
  BY <1>2, <1>5, <1>6, <1>7, IdleTyped DEF Seen
<1>9. req'[r].pc # "idle" => /\ seen'[r].nears = Nears(r)
                             /\ seen'[r].offers = offers
                             /\ seen'[r].changes = changes
  BY <1>5
<1> QED  BY <1>2, <1>5, <1>8, <1>9 DEF offers, changes

LEMMA SeenTyped ==
  ASSUME Inv, Observe, req' \in [Requests -> Request]
  PROVE  seen' \in [Requests -> Seen]
<1>1. \A r \in Requests : seen'[r] \in Seen
  BY Observed
<1> QED  BY <1>1 DEF Observe

\* A request that waits while others take a step; no step changes zones and
\* preferences together.
LEMMA Waiting ==
  ASSUME Inv, Observe, NEW r \in Requests, req' \in [Requests -> Request],
         req'[r] = req[r], zone' = zone \/ prefs' = prefs
  PROVE  Fits(r)'
<1>1. Fits(r) /\ req[r] \in Request /\ seen[r] \in Seen
  BY Types DEF Inv, AllFit
<1>2. CASE req[r].pc = "idle"
  BY <1>2, Observed DEF Fits
<1>3. CASE req[r].pc # "idle"
  <2> DEFINE n == req[r].near
             more == Offers(req[r].zone, Nears(r))
  <2>1. /\ seen'[r].nears = Nears(r)
        /\ seen'[r].offers = seen[r].offers \cup more
        /\ seen'[r].changes = IF ~Changed \/ seen[r].changes = 2
                                THEN seen[r].changes ELSE seen[r].changes + 1
        /\ Nears(r) \in SUBSET Neighborhoods
    BY <1>3, Observed
  <2>2. seen[r].changes \in 0..2 /\ seen[r].nears \subseteq Nears(r)
    BY <1>1 DEF Seen, Nears
  <2>3. seen'[r].changes \in 0..2 /\ seen[r].changes <= seen'[r].changes
    BY <2>1, <2>2
  <2>4. req[r].pc \in {"near", "prefs"} =>
           /\ req[r].zone = None
           /\ n = None => req[r].address = None /\ seen'[r].nears = {}
           /\ n # None => n \in seen'[r].nears
    BY <1>1, <2>1, <2>2 DEF Fits, Nears
  <2>5. ASSUME req[r].pc = "prefs", seen'[r].changes <= 1
        PROVE  ZonesAt(n)' = {} \/ (seen'[r].changes = 1 /\ DefaultFee' \in seen'[r].offers)
    <3>1. seen[r].changes <= 1
      BY <2>2, <2>3, <2>5
    <3>2. ZonesAt(n) = {} \/ (seen[r].changes = 1 /\ DefaultFee \in seen[r].offers)
      BY <1>1, <2>5, <3>1 DEF Fits
    <3>3. ZonesAt(n) = {} => DefaultFee \in more
      BY <2>1, <2>4, <2>5, DefaultOffered
    <3>4. CASE ~Changed
      <4>1. ZonesAt(n)' = ZonesAt(n) /\ DefaultFee' = DefaultFee
        BY <3>4 DEF Changed, ZonesAt, DefaultFee
      <4> QED  BY <2>1, <3>2, <3>4, <4>1
    <3>5. CASE Changed
      <4>1. seen[r].changes = 0 /\ seen'[r].changes = 1
        BY <2>1, <2>2, <2>5, <3>5
      <4>2. ZonesAt(n) = {}
        BY <3>2, <4>1
      <4>3. CASE zone' = zone
        BY <4>2, <4>3 DEF ZonesAt
      <4>4. CASE prefs' = prefs
        BY <2>1, <3>3, <4>1, <4>2, <4>4 DEF DefaultFee
      <4> QED  BY <4>3, <4>4
    <3> QED  BY <3>4, <3>5
  <2>6. ASSUME (req[r].pc = "order" /\ ~req[r].pickup) \/ req[r].pc = "shown",
               seen'[r].changes <= 1
        PROVE  req[r].fee \in seen'[r].offers
    <3>1. seen[r].changes <= 1
      BY <2>2, <2>3, <2>6
    <3> QED  BY <1>1, <2>1, <2>6, <3>1 DEF Fits
  <2>7. req[r].pc = "zone" => req[r].zone \in Zones /\ ~req[r].pickup
    BY <1>1 DEF Fits
  <2>8. /\ req[r].pc = "near" => req[r].near # None
        /\ req[r].pc = "address" => req[r].address \in Addresses /\ req[r].zone = None
    BY <1>1 DEF Fits
  <2> QED  BY <1>3, <2>4, <2>5, <2>6, <2>7, <2>8 DEF Fits
<1> QED  BY <1>2, <1>3

-----------------------------------------------------------------------------
(* Checkout.                                                               *)

\* A statement of a checkout that leaves the request in state q.
LEMMA GotoInv ==
  ASSUME Inv, Observe, NEW r \in Requests, NEW q \in Request,
         req' = [req EXCEPT ![r] = q], UNCHANGED tables,
         order' \in [Orders -> Order],
         req'[r] = q => Fits(r)'
  PROVE  Inv'
<1>1. req' \in [Requests -> Request] /\ req'[r] = q
  BY Types
<1>2. seen' \in [Requests -> Seen]
  BY <1>1, SeenTyped
<1>3. AllFit'
  <2> SUFFICES ASSUME NEW x \in Requests PROVE Fits(x)'
    BY DEF AllFit
  <2>1. CASE x = r
    BY <1>1, <2>1
  <2>2. CASE x # r
    <3>1. req'[x] = req[x] /\ zone' = zone
      BY <2>2, Types DEF tables
    <3> QED  BY <1>1, <3>1, Waiting
  <2> QED  BY <2>1, <2>2
<1>4. FeesTypeOK'
  BY <1>1, <1>2 DEF Inv, FeesTypeOK, tables
<1>5. Marked'
  BY DEF Inv, Marked, Existing, tables
<1> QED  BY <1>3, <1>4, <1>5 DEF Inv

\* The same for a statement that writes nothing.
LEMMA ReadInv ==
  ASSUME Inv, Observe, NEW r \in Requests, NEW q \in Request, Goto(r, q),
         req'[r] = q => Fits(r)'
  PROVE  Inv'
<1>1. order' \in [Orders -> Order]
  BY Types DEF Goto
<1> QED  BY <1>1, GotoInv DEF Goto

LEMMA IdleInv ==
  ASSUME Inv, Observe, NEW r \in Requests, Goto(r, Idle)
  PROVE  Inv'
<1>1. req' \in [Requests -> Request] /\ req'[r] = Idle
  BY Types, IdleTyped DEF Goto
<1>2. Fits(r)'
  BY <1>1, Observed, IdleTyped DEF Fits
<1> QED  BY <1>2, IdleTyped, ReadInv

LEMMA PickupInv ==
  ASSUME Inv, Observe, NEW r \in Requests, CheckoutPickup(r)
  PROVE  Inv'
<1> DEFINE q == [Idle EXCEPT !.pc = "order", !.fee = 0, !.pickup = TRUE]
<1>1. q \in Request /\ q.pc = "order" /\ q.pickup
  BY DEF Idle, Request
<1>2. Goto(r, q)
  BY DEF CheckoutPickup
<1> HIDE DEF q
<1>3. req'[r] = q => Fits(r)'
  BY <1>1 DEF Fits
<1> QED  BY <1>1, <1>2, <1>3, ReadInv

\* The request begins in state q: with a zone, or with an address or its
\* neighbourhood.
LEMMA BeginInv ==
  ASSUME Inv, Observe, NEW r \in Requests, req[r].pc = "idle",
         NEW q \in Request, Goto(r, q), q.pc \in {"address", "zone", "near", "prefs"},
         q.pc = "address" => q.address \in Addresses /\ q.zone = None,
         q.pc = "zone" => q.zone \in Zones /\ ~q.pickup,
         q.pc = "near" => /\ q.zone = None
                          /\ q.address \in Addresses /\ q.near # None
                          /\ place[q.address] = q.near,
         q.pc = "prefs" => q.zone = None /\ q.address = None /\ q.near = None
  PROVE  Inv'
<1>1. req' \in [Requests -> Request] /\ req'[r] = q
  BY Types DEF Goto
<1>2. Fits(r) /\ seen[r] = Nothing
  BY DEF Inv, AllFit, Fits
<1>3. seen'[r].nears = Nears(r)
  BY <1>1, Observed
<1>4. q.pc = "near" => q.near \in seen'[r].nears
  BY <1>1, <1>3, FeesAssumption DEF Nears
<1>5. q.pc = "prefs" => seen'[r].nears = {}
  BY <1>1, <1>2, <1>3 DEF Nears, Nothing
<1>6. q.pc = "prefs" => ZonesAt(q.near)' = {}
  BY DEF ZonesAt
<1>7. Fits(r)'
  BY <1>1, <1>4, <1>5, <1>6 DEF Fits
<1> QED  BY <1>7, ReadInv

LEMMA CheckoutBeginInv ==
  ASSUME Inv, Observe, NEW r \in Requests, req[r].pc = "idle",
         \/ \E a \in Addresses, z \in Zones \cup {None} : CheckoutAddress(r, a, z)
         \/ \E z \in Zones : CheckoutZoneOnly(r, z)
         \/ CheckoutDefault(r)
  PROVE  Inv'
<1>2. ASSUME NEW a \in Addresses, NEW z \in Zones \cup {None}, CheckoutAddress(r, a, z)
      PROVE  Inv'
  <2> DEFINE q == [Idle EXCEPT !.pc = IF z = None THEN "near" ELSE "zone",
                               !.address = a, !.near = place[a], !.zone = z]
  <2>1. /\ q \in Request /\ q.pc = (IF z = None THEN "near" ELSE "zone")
        /\ q.address = a /\ q.near = place[a] /\ q.zone = z /\ ~q.pickup
    BY Types DEF Idle, Request
  <2>2. Goto(r, q) /\ place[a] # None
    BY <1>2 DEF CheckoutAddress
  <2> HIDE DEF q
  <2> QED  BY <2>1, <2>2, BeginInv
<1>3. ASSUME NEW z \in Zones, CheckoutZoneOnly(r, z)
      PROVE  Inv'
  <2> DEFINE q == [Idle EXCEPT !.pc = "zone", !.zone = z]
  <2>1. q \in Request /\ q.pc = "zone" /\ q.zone = z /\ ~q.pickup
    BY DEF Idle, Request
  <2>2. Goto(r, q)
    BY <1>3 DEF CheckoutZoneOnly
  <2> HIDE DEF q
  <2> QED  BY <2>1, <2>2, BeginInv
<1>4. CASE CheckoutDefault(r)
  <2>1. CASE default = {}
    <3> DEFINE q == [Idle EXCEPT !.pc = "prefs"]
    <3>1. /\ q \in Request /\ q.pc = "prefs"
          /\ q.zone = None /\ q.address = None /\ q.near = None
      BY DEF Idle, Request
    <3>2. Goto(r, q)
      BY <1>4, <2>1 DEF CheckoutDefault
    <3> HIDE DEF q
    <3> QED  BY <3>1, <3>2, BeginInv
  <2>2. CASE default # {}
    <3>1. PICK a \in default :
            Goto(r, [Idle EXCEPT !.pc = "near", !.address = a, !.near = place[a]])
      BY <1>4, <2>2 DEF CheckoutDefault
    <3> DEFINE q == [Idle EXCEPT !.pc = "near", !.address = a, !.near = place[a]]
    <3>2. a \in Addresses /\ place[a] # None
      BY DEF Inv, Marked, Existing
    <3>3. /\ q \in Request /\ q.pc = "near" /\ q.zone = None
          /\ q.address = a /\ q.near = place[a]
      BY <3>2, Types DEF Idle, Request
    <3>4. Goto(r, q)
      BY <3>1
    <3> HIDE DEF q
    <3> QED  BY <3>2, <3>3, <3>4, BeginInv
  <2> QED  BY <2>1, <2>2
<1> QED  BY <1>2, <1>3, <1>4

\* A fee that quote answers at this moment, in the last state of a request.
LEMMA PricedInv ==
  ASSUME Inv, Observe, NEW r \in Requests, NEW p \in Nat, NEW last \in {"order", "shown"},
         Goto(r, [req[r] EXCEPT !.pc = last, !.fee = p]),
         seen'[r].changes <= 1 => p \in seen'[r].offers
  PROVE  Inv'
<1> DEFINE q == [req[r] EXCEPT !.pc = last, !.fee = p]
<1>1. q \in Request /\ q.pc \in {"order", "shown"} /\ q.fee = p
  BY Types DEF Request
<1>2. Goto(r, q)
  OBVIOUS
<1> HIDE DEF q
<1>3. req'[r] = q => Fits(r)'
  BY <1>1 DEF Fits
<1> QED  BY <1>1, <1>2, <1>3, ReadInv

\* What the history makes of such a step.
LEMMA PricedSeen ==
  ASSUME Inv, Observe, NEW r \in Requests, NEW p \in Nat, NEW last \in {"order", "shown"},
         Goto(r, [req[r] EXCEPT !.pc = last, !.fee = p])
  PROVE  /\ seen'[r].offers = seen[r].offers \cup Offers(req[r].zone, Nears(r))
         /\ seen'[r].changes = seen[r].changes
         /\ Nears(r) = seen[r].nears \cup (IF req[r].address = None THEN {}
                                           ELSE {place[req[r].address]} \ {None})
         /\ Nears(r) \in SUBSET Neighborhoods
<1> DEFINE q == [req[r] EXCEPT !.pc = last, !.fee = p]
<1>1. /\ q \in Request /\ q.pc \in {"order", "shown"}
      /\ q.zone = req[r].zone /\ q.address = req[r].address
  BY Types DEF Request
<1>2. Goto(r, q)
  OBVIOUS
<1> HIDE DEF q
<1>3. req' \in [Requests -> Request] /\ req'[r] = q
  BY <1>1, <1>2, Types DEF Goto
<1>4. ~Changed
  BY <1>2 DEF Goto, Changed, tables
<1> QED  BY <1>1, <1>3, <1>4, Observed DEF Nears

\* The zone asked for, as a checkout and its receipt read it.
LEMMA ZonePricedInv ==
  ASSUME Inv, Observe, NEW r \in Requests, req[r].pc = "zone",
         zone[req[r].zone].near # None, NEW last \in {"order", "shown"},
         Goto(r, [req[r] EXCEPT !.pc = last, !.fee = zone[req[r].zone].price])
  PROVE  Inv'
<1> DEFINE z == req[r].zone
           p == zone[z].price
<1>1. z \in Zones
  BY DEF Inv, AllFit, Fits
<1>2. p \in Nat
  BY <1>1, Types DEF Zone
<1>3. Quote(z, None, None) = p /\ p # None /\ z # None
  BY <1>1, <1>2, FeesAssumption DEF Quote
<1>4. p \in Offers(z, Nears(r))
  BY <1>3 DEF Offers
<1> HIDE DEF p
<1>5. Goto(r, [req[r] EXCEPT !.pc = last, !.fee = p])
  BY DEF p
<1> QED  BY <1>2, <1>4, <1>5, PricedSeen, PricedInv

\* The zone of the neighbourhood that was read.
LEMMA NearPricedInv ==
  ASSUME Inv, Observe, NEW r \in Requests, req[r].pc = "near",
         ZonesAt(req[r].near) # {}, NEW last \in {"order", "shown"},
         Goto(r, [req[r] EXCEPT !.pc = last, !.fee = PriceAt(req[r].near, 0)])
  PROVE  Inv'
<1> DEFINE n == req[r].near
           p == PriceAt(n, 0)
<1>1. n # None /\ n \in seen[r].nears /\ req[r].zone = None
  BY DEF Inv, AllFit, Fits
<1>2. p \in Nat
  BY PriceTyped
<1>3. Quote(None, n, None) = p
  BY <1>1 DEF Quote, PriceAt
<1> HIDE DEF p
<1>4. Goto(r, [req[r] EXCEPT !.pc = last, !.fee = p])
  BY DEF p
<1>5. n \in Nears(r)
  BY <1>1 DEF Nears
<1>6. p \in Offers(None, Nears(r))
  BY <1>3, <1>5 DEF Offers
<1>7. seen'[r].offers = seen[r].offers \cup Offers(None, Nears(r))
  BY <1>1, <1>2, <1>4, PricedSeen
<1> QED  BY <1>2, <1>4, <1>6, <1>7, PricedInv

\* No zone there, so the default fee is read next.
LEMMA NearDefaultInv ==
  ASSUME Inv, Observe, NEW r \in Requests, req[r].pc = "near",
         ZonesAt(req[r].near) = {}, Goto(r, [req[r] EXCEPT !.pc = "prefs"])
  PROVE  Inv'
<1> DEFINE n == req[r].near
           q == [req[r] EXCEPT !.pc = "prefs"]
<1>1. /\ n # None /\ n \in seen[r].nears
      /\ req[r].zone = None /\ req[r] \in Request
  BY Types DEF Inv, AllFit, Fits
<1>2. q \in Request /\ q.pc = "prefs" /\ q.zone = None /\ q.near = n
  BY <1>1 DEF Request
<1>3. Goto(r, q)
  OBVIOUS
<1> HIDE DEF q
<1>4. req' \in [Requests -> Request] /\ req'[r] = q
  BY <1>2, <1>3, Types DEF Goto
<1>5. n \in seen'[r].nears
  BY <1>1, <1>2, <1>4, Observed DEF Nears
<1>6. ZonesAt(req[r].near)' = {}
  BY <1>2, <1>3, <1>4 DEF Goto, tables, ZonesAt
<1>7. Fits(r)'
  BY <1>1, <1>2, <1>4, <1>5, <1>6 DEF Fits
<1> QED  BY <1>2, <1>3, <1>7, ReadInv

\* The default fee.
LEMMA DefaultPricedInv ==
  ASSUME Inv, Observe, NEW r \in Requests, req[r].pc = "prefs",
         NEW last \in {"order", "shown"},
         Goto(r, [req[r] EXCEPT !.pc = last, !.fee = DefaultFee])
  PROVE  Inv'
<1> DEFINE n == req[r].near
<1>1. Fits(r) /\ req[r] \in Request /\ DefaultFee \in Nat /\ req[r].zone = None
  BY Types, DefaultTyped DEF Inv, AllFit, Fits
<1>2. /\ seen'[r].offers = seen[r].offers \cup Offers(None, Nears(r))
      /\ seen'[r].changes = seen[r].changes
      /\ Nears(r) = seen[r].nears \cup (IF req[r].address = None THEN {}
                                        ELSE {place[req[r].address]} \ {None})
      /\ Nears(r) \in SUBSET Neighborhoods
  BY <1>1, PricedSeen
<1>3. n = None => Nears(r) = {}
  BY <1>1, <1>2 DEF Fits
<1>4. n # None => n \in Nears(r)
  BY <1>1, <1>2 DEF Fits
<1>5. ZonesAt(n) = {} => DefaultFee \in Offers(None, Nears(r))
  BY <1>2, <1>3, <1>4, DefaultOffered
<1>6. seen[r].changes <= 1 =>
        ZonesAt(n) = {} \/ (seen[r].changes = 1 /\ DefaultFee \in seen[r].offers)
  BY <1>1 DEF Fits
<1>7. seen'[r].changes <= 1 => DefaultFee \in seen'[r].offers
  BY <1>2, <1>5, <1>6
<1> QED  BY <1>1, <1>7, PricedInv

LEMMA OrderInv ==
  ASSUME Inv, Observe, NEW r \in Requests, CheckoutOrder(r)
  PROVE  Inv'
<1> DEFINE a == req[r].address
           fee == req[r].fee
           next == req'[r]
<1>1. fee \in Nat \cup {None} /\ a \in Addresses \cup {None}
  BY Types DEF Request
<1>2. order' \in [Orders -> Order]
  <2>1. CASE order' = order
    BY <2>1, Types
  <2>2. CASE \E o \in Orders :
               order' = [order EXCEPT ![o] = [fee |-> fee, deliveryFee |-> fee,
                                              dest |-> a, open |-> TRUE]]
    <3>1. [fee |-> fee, deliveryFee |-> fee, dest |-> a, open |-> TRUE] \in Order
      BY <1>1 DEF Order
    <3> HIDE DEF a, fee
    <3> QED  BY <2>2, <3>1, Types
  <2> QED  BY <2>1, <2>2 DEF CheckoutOrder
<1>3. UNCHANGED tables
  BY DEF CheckoutOrder
<1>4. ASSUME NEW q \in Request, req' = [req EXCEPT ![r] = q],
             q.pc = "idle"
               \/ (q.pc = "address" /\ q.address \in Addresses /\ q.zone = None)
               \/ (q.pc = "zone" /\ q.zone \in Zones /\ ~q.pickup)
      PROVE  Inv'
  <2>1. req' \in [Requests -> Request] /\ req'[r] = q
    BY <1>4, Types
  <2>2. q.pc = "idle" => seen'[r] = Nothing
    BY <2>1, Observed
  <2>3. Fits(r)'
    BY <1>4, <2>1, <2>2 DEF Fits
  <2> QED  BY <1>2, <1>3, <1>4, <2>3, GotoInv
<1>5. CASE req' = [req EXCEPT ![r] = Idle]
  BY <1>4, <1>5, IdleTyped
<1>6. CASE req' = [req EXCEPT ![r] = Receipt(req[r])]
  <2> DEFINE q == Receipt(req[r])
  <2>1. /\ req[r].address \in Addresses \cup {None}
        /\ req[r].zone \in Zones \cup {None}
    BY Types DEF Request
  <2>2. /\ q \in Request
        /\ \/ q.pc = "idle"
           \/ q.pc = "address" /\ q.address \in Addresses /\ q.zone = None
           \/ q.pc = "zone" /\ q.zone \in Zones /\ ~q.pickup
    BY <2>1 DEF Receipt, Idle, Request
  <2> HIDE DEF q
  <2>3. req' = [req EXCEPT ![r] = q]
    BY <1>6 DEF q
  <2> QED  BY <1>4, <2>2, <2>3
<1> QED  BY <1>5, <1>6 DEF CheckoutOrder

LEMMA CheckoutInv ==
  ASSUME Inv, Observe, NEW r \in Requests, CheckoutStep(r)
  PROVE  Inv'
<1>1. CASE \/ \E a \in Addresses, z \in Zones \cup {None} : CheckoutAddress(r, a, z)
           \/ \E z \in Zones : CheckoutZoneOnly(r, z)
           \/ CheckoutDefault(r)
  <2>1. req[r].pc = "idle"
    BY <1>1 DEF CheckoutAddress, CheckoutZoneOnly, CheckoutDefault
  <2> QED  BY <1>1, <2>1, CheckoutBeginInv
<1>2. CASE CheckoutZoneById(r)
  <2>1. req[r].pc = "zone"
    BY <1>2 DEF CheckoutZoneById
  <2>2. CASE zone[req[r].zone].near = None
    BY <1>2, <2>2, IdleInv DEF CheckoutZoneById
  <2>3. CASE zone[req[r].zone].near # None
    <3>1. Goto(r, [req[r] EXCEPT !.pc = "order", !.fee = zone[req[r].zone].price])
      BY <1>2, <2>3 DEF CheckoutZoneById
    <3> QED  BY <2>1, <2>3, <3>1, ZonePricedInv
  <2> QED  BY <2>2, <2>3
<1>3. CASE CheckoutZoneByNeighborhood(r)
  <2>1. req[r].pc = "near"
    BY <1>3 DEF CheckoutZoneByNeighborhood
  <2>2. CASE ZonesAt(req[r].near) = {}
    <3>1. Goto(r, [req[r] EXCEPT !.pc = "prefs"])
      BY <1>3, <2>2 DEF CheckoutZoneByNeighborhood
    <3> QED  BY <2>1, <2>2, <3>1, NearDefaultInv
  <2>3. CASE ZonesAt(req[r].near) # {}
    <3>1. Goto(r, [req[r] EXCEPT !.pc = "order", !.fee = PriceAt(req[r].near, 0)])
      BY <1>3, <2>3 DEF CheckoutZoneByNeighborhood
    <3> QED  BY <2>1, <2>3, <3>1, NearPricedInv
  <2> QED  BY <2>2, <2>3
<1>4. CASE CheckoutPrefs(r)
  <2>1. /\ req[r].pc = "prefs"
        /\ Goto(r, [req[r] EXCEPT !.pc = "order", !.fee = DefaultFee])
    BY <1>4 DEF CheckoutPrefs
  <2> QED  BY <2>1, DefaultPricedInv
<1> QED  BY <1>1, <1>2, <1>3, <1>4, PickupInv, OrderInv DEF CheckoutStep

-----------------------------------------------------------------------------
(* Pages.                                                                  *)

LEMMA PageBeginInv ==
  ASSUME Inv, Observe, NEW r \in Requests,
         \/ \E a \in Addresses : PageOfAddress(r, a)
         \/ \E o \in Orders : PageOfOrder(r, o)
  PROVE  Inv'
<1>1. ASSUME NEW a \in Addresses, PageOfAddress(r, a)
      PROVE  Inv'
  <2> DEFINE q == [Idle EXCEPT !.kind = "page", !.pc = "near", !.address = a,
                               !.near = place[a]]
  <2>1. /\ q \in Request /\ q.pc = "near" /\ q.zone = None
        /\ q.address = a /\ q.near = place[a]
    BY Types DEF Idle, Request
  <2>2. Goto(r, q) /\ place[a] # None /\ req[r].pc = "idle"
    BY <1>1 DEF PageOfAddress
  <2> HIDE DEF q
  <2> QED  BY <2>1, <2>2, BeginInv
<1>2. ASSUME NEW o \in Orders, PageOfOrder(r, o)
      PROVE  Inv'
  <2> DEFINE a == order[o].dest
             q == [Idle EXCEPT !.kind = "page", !.pc = "address", !.address = a]
  <2>1. a \in Addresses /\ req[r].pc = "idle" /\ Goto(r, q)
    BY <1>2, Types DEF PageOfOrder, Order
  <2> HIDE DEF a
  <2>2. q \in Request /\ q.pc = "address" /\ q.address = a /\ q.zone = None
    BY <2>1 DEF Idle, Request
  <2> HIDE DEF q
  <2> QED  BY <2>1, <2>2, BeginInv
<1> QED  BY <1>1, <1>2

\* The address is read only now; its neighbourhood is seen at this moment.
LEMMA PageAddressInv ==
  ASSUME Inv, Observe, NEW r \in Requests, PageAddress(r)
  PROVE  Inv'
<1> DEFINE a == req[r].address
           q == [req[r] EXCEPT !.pc = "near", !.near = place[a]]
<1>1. /\ req[r].pc = "address" /\ a \in Addresses /\ req[r].zone = None
      /\ req[r] \in Request
  BY Types DEF PageAddress, Inv, AllFit, Fits
<1>2. CASE place[a] = None
  BY <1>2, IdleInv DEF PageAddress
<1>3. CASE place[a] # None
  <2>1. Goto(r, q)
    BY <1>3 DEF PageAddress
  <2>2. /\ q \in Request /\ q.pc = "near" /\ q.zone = None /\ q.address = a
        /\ q.near = place[a]
    BY <1>1, Types DEF Request
  <2> HIDE DEF q
  <2>3. req' \in [Requests -> Request] /\ req'[r] = q
    BY <2>1, <2>2, Types DEF Goto
  <2>4. q.near \in Nears(r)
    BY <1>1, <1>3, <2>2, <2>3, FeesAssumption DEF Nears
  <2>5. seen'[r].nears = Nears(r)
    BY <2>2, <2>3, Observed
  <2>6. Fits(r)'
    BY <1>3, <2>2, <2>3, <2>4, <2>5 DEF Fits
  <2> QED  BY <2>1, <2>2, <2>6, ReadInv
<1> QED  BY <1>2, <1>3

LEMMA PageInv ==
  ASSUME Inv, Observe, NEW r \in Requests, PageStep(r)
  PROVE  Inv'
<1>1. CASE PageZone(r)
  <2>1. req[r].pc = "near"
    BY <1>1 DEF PageZone
  <2>2. CASE ZonesAt(req[r].near) # {}
    <3>1. Goto(r, [req[r] EXCEPT !.pc = "shown", !.fee = PriceAt(req[r].near, 0)])
      BY <1>1, <2>2 DEF PageZone
    <3> QED  BY <2>1, <2>2, <3>1, NearPricedInv
  <2>3. CASE ZonesAt(req[r].near) = {} /\ req[r].kind = "receipt"
    BY <1>1, <2>3, IdleInv DEF PageZone
  <2>4. CASE ZonesAt(req[r].near) = {} /\ req[r].kind # "receipt"
    <3>1. Goto(r, [req[r] EXCEPT !.pc = "prefs"])
      BY <1>1, <2>4 DEF PageZone
    <3> QED  BY <2>1, <2>4, <3>1, NearDefaultInv
  <2> QED  BY <2>2, <2>3, <2>4
<1>2. CASE PagePrefs(r)
  <2>1. CASE prefs = None
    BY <1>2, <2>1, IdleInv DEF PagePrefs
  <2>2. CASE prefs # None
    <3>1. DefaultFee = prefs
      BY <2>2 DEF DefaultFee
    <3>2. /\ req[r].pc = "prefs"
          /\ Goto(r, [req[r] EXCEPT !.pc = "shown", !.fee = DefaultFee])
      BY <1>2, <2>2, <3>1 DEF PagePrefs
    <3> QED  BY <3>2, DefaultPricedInv
  <2> QED  BY <2>1, <2>2
<1>3. CASE ReceiptZone(r)
  <2>1. req[r].pc = "zone"
    BY <1>3 DEF ReceiptZone
  <2>2. CASE zone[req[r].zone].near = None
    BY <1>3, <2>2, IdleInv DEF ReceiptZone
  <2>3. CASE zone[req[r].zone].near # None
    <3>1. Goto(r, [req[r] EXCEPT !.pc = "shown", !.fee = zone[req[r].zone].price])
      BY <1>3, <2>3 DEF ReceiptZone
    <3> QED  BY <2>1, <2>3, <3>1, ZonePricedInv
  <2> QED  BY <2>2, <2>3
<1> QED  BY <1>1, <1>2, <1>3, PageBeginInv, PageAddressInv DEF PageStep

-----------------------------------------------------------------------------
(* Tables.                                                                 *)

\* A step of no request: what is left to show is about the tables alone.
LEMMA TableInv ==
  ASSUME Inv, Observe, UNCHANGED req, zone' = zone \/ prefs' = prefs,
         zone' \in [Zones -> Zone],
         \A y, z \in Zones : zone'[y].near = zone'[z].near /\ zone'[y].near # None => y = z,
         prefs' \in Nat \cup {None},
         place' \in [Addresses -> Neighborhoods \cup {None}],
         default' \subseteq Addresses, Marked',
         order' \in [Orders -> Order]
  PROVE  Inv'
<1>1. req' \in [Requests -> Request]
  BY Types
<1>2. seen' \in [Requests -> Seen]
  BY <1>1, SeenTyped
<1>3. AllFit'
  <2>1. \A r \in Requests : Fits(r)'
    BY <1>1, Waiting
  <2> QED  BY <2>1 DEF AllFit
<1>4. FeesTypeOK'
  BY <1>1, <1>2 DEF FeesTypeOK
<1> QED  BY <1>3, <1>4 DEF Inv

LEMMA TariffInv ==
  ASSUME Inv, Observe, TariffStep
  PROVE  Inv'
<1>1. ASSUME NEW z \in Zones, NEW row \in Zone, zone' = [zone EXCEPT ![z] = row],
             row.near = None \/ ZonesAt(row.near) \subseteq {z},
             UNCHANGED <<prefs, place, default, order, req>>
      PROVE  Inv'
  <2>1. zone' \in [Zones -> Zone]
    BY <1>1, Types
  <2>2. \A x, y \in Zones : zone'[x].near = zone'[y].near /\ zone'[x].near # None => x = y
    <3>1. \A x, y \in Zones : zone[x].near = zone[y].near /\ zone[x].near # None => x = y
      BY DEF Inv, FeesTypeOK
    <3>2. \A x \in Zones : zone[x].near = row.near /\ row.near # None => x = z
      BY <1>1 DEF ZonesAt
    <3> QED  BY <1>1, <3>1, <3>2, Types
  <2>3. Marked'
    BY <1>1 DEF Inv, Marked, Existing
  <2> QED  BY <1>1, <2>1, <2>2, <2>3, Types, TableInv
<1>2. ASSUME NEW z \in Zones, NEW n \in Neighborhoods, NEW p \in Prices, WriteZone(z, n, p)
      PROVE  Inv'
  <2>1. [near |-> n, price |-> p] \in Zone
    BY FeesAssumption DEF Zone
  <2>2. /\ zone' = [zone EXCEPT ![z] = [near |-> n, price |-> p]]
        /\ ZonesAt(n) \subseteq {z}
        /\ UNCHANGED <<prefs, place, default, order, req>>
    BY <1>2 DEF WriteZone
  <2> QED  BY <1>1, <2>1, <2>2
<1>3. ASSUME NEW z \in Zones, RemoveZone(z)
      PROVE  Inv'
  <2>1. NoZone \in Zone /\ NoZone.near = None
    BY DEF NoZone, Zone
  <2>2. /\ zone' = [zone EXCEPT ![z] = NoZone]
        /\ UNCHANGED <<prefs, place, default, order, req>>
    BY <1>3 DEF RemoveZone
  <2> QED  BY <1>1, <2>1, <2>2
<1>4. ASSUME NEW p \in Prices, UpdatePreferences(p)
      PROVE  Inv'
  <2>1. prefs' \in Nat /\ UNCHANGED <<zone, place, default, order, req>>
    BY <1>4, FeesAssumption DEF UpdatePreferences
  <2>2. \A y, z \in Zones : zone[y].near = zone[z].near /\ zone[y].near # None => y = z
    BY DEF Inv, FeesTypeOK
  <2>3. Marked'
    BY <2>1 DEF Inv, Marked, Existing
  <2> QED  BY <2>1, <2>2, <2>3, Types, TableInv
<1> QED  BY <1>2, <1>3, <1>4 DEF TariffStep

LEMMA BuyerInv ==
  ASSUME Inv, Observe, BuyerStep
  PROVE  Inv'
<1>1. \A y, z \in Zones : zone[y].near = zone[z].near /\ zone[y].near # None => y = z
  BY DEF Inv, FeesTypeOK
<1>2. ASSUME UNCHANGED <<zone, prefs, req>>,
             place' \in [Addresses -> Neighborhoods \cup {None}],
             default' \subseteq Addresses, Marked',
             order' \in [Orders -> Order]
      PROVE  Inv'
  BY <1>1, <1>2, Types, TableInv
<1>3. ASSUME NEW row \in Order, NEW a \in Addresses \cup {None}
      PROVE  /\ [row EXCEPT !.dest = a] \in Order
             /\ [row EXCEPT !.open = ~row.open] \in Order
             /\ [row EXCEPT !.dest = a,
                   !.deliveryFee = IF @ = None THEN row.fee ELSE @] \in Order
  BY DEF Order
<1>4. ASSUME NEW o \in Orders, NEW a \in Addresses \cup {None}, EditDelivery(o, a)
      PROVE  Inv'
  <2>1. UNCHANGED <<zone, prefs, place, default, req>> /\ Marked'
    BY <1>4 DEF EditDelivery, tables, Inv, Marked, Existing
  <2>2. order' = [order EXCEPT ![o].dest = a,
                    ![o].deliveryFee = IF @ = None THEN order[o].fee ELSE @]
        /\ order[o] \in Order
    BY <1>4, Types DEF EditDelivery
  <2>3. order' \in [Orders -> Order]
    BY <1>3, <2>2, Types
  <2> QED  BY <1>2, <2>1, <2>3, Types
<1>5. ASSUME NEW o \in Orders, WriteStatus(o)
      PROVE  Inv'
  <2>1. UNCHANGED <<zone, prefs, place, default, req>> /\ Marked'
    BY <1>5 DEF WriteStatus, tables, Inv, Marked, Existing
  <2>2. order' = [order EXCEPT ![o].open = ~order[o].open] /\ order[o] \in Order
    BY <1>5, Types DEF WriteStatus
  <2>3. order' \in [Orders -> Order]
    BY <1>3, <2>2, Types
  <2> QED  BY <1>2, <2>1, <2>3, Types
<1>6. ASSUME NEW a \in Addresses, NEW n \in Neighborhoods, WriteAddress(a, n)
      PROVE  Inv'
  <2>1. /\ place' = [place EXCEPT ![a] = n] /\ n # None
        /\ UNCHANGED <<zone, prefs, default, order, req>>
    BY <1>6, FeesAssumption DEF WriteAddress
  <2>2. Marked' /\ place' \in [Addresses -> Neighborhoods \cup {None}]
    BY <2>1, Types DEF Inv, Marked, Existing
  <2> QED  BY <1>2, <2>1, <2>2, Types
<1>7. ASSUME NEW a \in Addresses, RemoveAddress(a)
      PROVE  Inv'
  <2>1. /\ place' = [place EXCEPT ![a] = None] /\ default' = default \ {a}
        /\ UNCHANGED <<zone, prefs, req>>
    BY <1>7 DEF RemoveAddress
  <2>2. /\ Marked' /\ default' \subseteq Addresses
        /\ place' \in [Addresses -> Neighborhoods \cup {None}]
    BY <2>1, Types DEF Inv, Marked, Existing
  <2>3. order' \in [Orders -> Order]
    <3>1. order' = [o \in Orders |-> IF order[o].dest = a
                                       THEN [order[o] EXCEPT !.dest = None] ELSE order[o]]
      BY <1>7 DEF RemoveAddress
    <3> QED  BY <1>3, <3>1, Types
  <2> QED  BY <1>2, <2>1, <2>2, <2>3
<1>8. ASSUME NEW D \in SUBSET Addresses, MarkDefault(D)
      PROVE  Inv'
  <2>1. Marked' /\ UNCHANGED <<zone, prefs, place, order, req>> /\ default' \subseteq Addresses
    BY <1>8 DEF MarkDefault, Marked, Existing
  <2> QED  BY <1>2, <2>1, Types
<1> QED  BY <1>4, <1>6, <1>7, <1>8, <1>5 DEF BuyerStep

-----------------------------------------------------------------------------
LEMMA NextInv == Inv /\ [Next]_vars => Inv'
<1> SUFFICES ASSUME Inv, [Next]_vars PROVE Inv'
  OBVIOUS
<1>1. CASE UNCHANGED vars
  BY <1>1 DEF vars, tables, Inv, FeesTypeOK, Marked, Existing, AllFit, Fits,
              ZonesAt, DefaultFee
<1>2. ASSUME NEW r \in Requests, Observe, Leave(r)
      PROVE  Inv'
  BY <1>2, IdleInv DEF Leave
<1> QED  BY <1>1, <1>2, CheckoutInv, PageInv, TariffInv, BuyerInv DEF Next

\* Every reachable state satisfies the inductive invariant, which the theorems
\* below read off.
THEOREM Invariant == Spec => []Inv
  BY InitInv, NextInv, PTL DEF Spec

\* The type invariant, and no two zones of one neighbourhood.
THEOREM FeesTyped == Spec => []FeesTypeOK
<1>1. Inv => FeesTypeOK
  BY DEF Inv
<1> QED  BY <1>1, Invariant, PTL

\* With at most one change of the tariff meanwhile, a checkout charges what
\* quote has answered since it began, although zone and default fee are read
\* one after the other.
THEOREM FeesWereInForce == Spec => []FeeInForce
<1>1. Inv => FeeInForce
  BY DEF Inv, AllFit, Fits, FeeInForce
<1> QED  BY <1>1, Invariant, PTL

\* The same for the zones that the pages and the answer of a checkout show:
\* none of them prices a neighbourhood in a way of its own.
THEOREM PagesWereInForce == Spec => []PagesInForce
<1>1. Inv => PagesInForce
  BY DEF Inv, AllFit, Fits, PagesInForce
<1> QED  BY <1>1, Invariant, PTL

=============================================================================
