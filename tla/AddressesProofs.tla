-------------------------- MODULE AddressesProofs ---------------------------
(* Theorems about Addresses.tla, for every value of its constants.         *)
EXTENDS Addresses, FiniteSetTheorems, TLAPS

-----------------------------------------------------------------------------
(* The inductive invariant: what a request knows of addresses that it saw  *)
(* earlier, in the tables rw of addresses and ord of orders.               *)

\* The address was written once, and if it is still there it is of b.
Known(a, b, rw) == rw[a].state # "new" /\ (rw[a].state = "live" => rw[a].buyer = b)

Knows(q, rw, ord) ==
    /\ q.pc # "idle" => q.buyer \in Buyers
    /\ q.pc \in {"count", "linked", "delete", "promote", "snapshot", "clear", "set"} =>
         q.address \in Addresses
    /\ q.pc \in {"count", "linked", "delete", "promote", "snapshot", "clear", "set",
                 "place", "edit"} =>
         (q.address # None => Known(q.address, q.buyer, rw))
    /\ q.pc \in {"clear", "set"} => \A a \in q.rows : Known(a, q.buyer, rw)
    /\ q.pc = "dest" => q.address \in Addresses
    /\ q.pc \in {"dest", "edit"} => q.order \in Orders /\ ord[q.order].buyer = q.buyer

AllKnow == \A r \in Requests : Knows(req[r], row, order)

Inv == AddressesTypeOK /\ DeliveryToOwnAddress /\ AllKnow

LEMMA Types ==
  ASSUME Inv
  PROVE  /\ row \in [Addresses -> Row] /\ order \in [Orders -> Order]
         /\ req \in [Requests -> Request] /\ rushed \subseteq Buyers /\ broken \subseteq Buyers
  BY DEF Inv, AddressesTypeOK

LEMMA IdleKnows == Idle \in Request /\ \A rw, ord : Knows(Idle, rw, ord)
<1>1. Idle \in Request
  BY DEF Idle, Request
<1>2. \A rw, ord : Knows(Idle, rw, ord)
  BY DEF Idle, Knows
<1> QED  BY <1>1, <1>2

LEMMA InitInv == Init => Inv
<1> SUFFICES ASSUME Init PROVE Inv
  OBVIOUS
<1>1. NoRow \in Row
  BY DEF NoRow, Row
<1>2. NoOrder \in Order
  BY DEF NoOrder, Order, OrderStatus, DeliveryStatus
<1>3. AddressesTypeOK
  BY <1>1, <1>2, IdleKnows DEF Init, AddressesTypeOK
<1>4. DeliveryToOwnAddress
  BY DEF Init, DeliveryToOwnAddress, NoOrder
<1>5. AllKnow
  BY IdleKnows DEF Init, AllKnow
<1> QED  BY <1>3, <1>4, <1>5 DEF Inv

-----------------------------------------------------------------------------
(* Steps.                                                                  *)

\* Addresses come and go but never change hands; nor do orders.
Later(rw, rw2, ord, ord2) ==
    /\ \A a \in Addresses : rw[a].state # "new" =>
         /\ rw2[a].state # "new"
         /\ rw2[a].state = "live" => rw[a].state = "live" /\ rw2[a].buyer = rw[a].buyer
    /\ \A o \in Orders : ord[o].buyer # None => ord2[o].buyer = ord[o].buyer

LEMMA KnowsLater ==
  ASSUME NEW q \in Request, NEW rw, NEW rw2, NEW ord, NEW ord2,
         Knows(q, rw, ord), Later(rw, rw2, ord, ord2)
  PROVE  Knows(q, rw2, ord2)
<1>1. ASSUME NEW a \in Addresses, NEW b, Known(a, b, rw)
      PROVE  Known(a, b, rw2)
  BY <1>1 DEF Known, Later
<1>2. q.rows \subseteq Addresses /\ q.address \in Addresses \cup {None}
  BY DEF Request
<1>3. \A b : b \in Buyers => b # None
  BY AddressesAssumption
<1>4. q.pc \in {"dest", "edit"} => ord2[q.order].buyer = q.buyer
  BY <1>3 DEF Knows, Later
<1> HIDE DEF Known
<1>5. q.pc \in {"count", "linked", "delete", "promote", "snapshot", "clear", "set",
                 "place", "edit"} =>
         (q.address # None => Known(q.address, q.buyer, rw2))
  BY <1>1, <1>2 DEF Knows
<1>6. q.pc \in {"clear", "set"} => \A a \in q.rows : Known(a, q.buyer, rw2)
  BY <1>1, <1>2 DEF Knows
<1> QED  BY <1>4, <1>5, <1>6 DEF Knows

\* A step of one request.
LEMMA StepInv ==
  ASSUME Inv, NEW r \in Requests, NEW q \in Request, req' = [req EXCEPT ![r] = q],
         Knows(q, row', order'), Later(row, row', order, order'),
         row' \in [Addresses -> Row], order' \in [Orders -> Order],
         rushed' \subseteq Buyers, broken' \subseteq Buyers, DeliveryToOwnAddress'
  PROVE  Inv'
<1>1. req' \in [Requests -> Request]
  BY Types
<1>2. ASSUME NEW x \in Requests
      PROVE  Knows(req'[x], row', order')
  <2>1. CASE x = r
    BY <2>1, Types
  <2>2. CASE x # r
    <3>1. req'[x] = req[x] /\ req[x] \in Request /\ Knows(req[x], row, order)
      BY <2>2, Types DEF Inv, AllKnow
    <3> QED  BY <3>1, KnowsLater
  <2> QED  BY <2>1, <2>2
<1> QED  BY <1>1, <1>2 DEF Inv, AddressesTypeOK, AllKnow

LEMMA SameTables ==
  ASSUME UNCHANGED <<row, order>>
  PROVE  Later(row, row', order, order')
  BY DEF Later

\* A statement that writes nothing.
LEMMA GotoInv ==
  ASSUME Inv, NEW r \in Requests, NEW q \in Request, Goto(r, q),
         Knows(q, row, order), UNCHANGED <<row, order>>
  PROVE  Inv'
<1>1. DeliveryToOwnAddress'
  BY DEF Inv, DeliveryToOwnAddress, Own, Live
<1> QED  BY <1>1, SameTables, StepInv, Types DEF Goto

\* The first statement of a request.
LEMMA BeginInv ==
  ASSUME Inv, NEW r \in Requests, NEW b \in Buyers, NEW q \in Request, NEW s,
         Begin(r, b, s), q = [s EXCEPT !.buyer = b],
         Knows(q, row, order), UNCHANGED <<row, order>>
  PROVE  Inv'
<1>1. DeliveryToOwnAddress'
  BY DEF Inv, DeliveryToOwnAddress, Own, Live
<1>2. rushed' \subseteq Buyers /\ broken' \subseteq Buyers
  BY Types DEF Begin
<1>3. req' = [req EXCEPT ![r] = q]
  BY DEF Begin
<1> QED  BY <1>1, <1>2, <1>3, SameTables, StepInv, Types

LEMMA OwnKnown ==
  ASSUME Inv, NEW b, NEW a \in Own(b)
  PROVE  a \in Addresses /\ Known(a, b, row)
  BY DEF Own, Live, Known

LEMMA RoutesInv ==
  ASSUME Inv, NEW r \in Requests, NEW b \in Buyers,
         AddressRoutes(r, b) \/ DeliveryRoutes(r, b)
  PROVE  Inv'
<1>1. CASE CreateCount(r, b)
  <2> DEFINE d == Own(b) = {}
             s == [Idle EXCEPT !.pc = "create", !.default = d]
             q == [s EXCEPT !.buyer = b]
  <2>1. d \in BOOLEAN
    OBVIOUS
  <2>2. Begin(r, b, s) /\ UNCHANGED <<row, order>>
    BY <1>1 DEF CreateCount
  <2> HIDE DEF d
  <2>3. q \in Request /\ q.pc = "create" /\ q.buyer = b
    BY <2>1 DEF Idle, Request
  <2>4. q = [s EXCEPT !.buyer = b]
    OBVIOUS
  <2> HIDE DEF q, s
  <2>5. Knows(q, row, order)
    BY <2>3 DEF Knows
  <2> QED  BY <2>2, <2>3, <2>4, <2>5, BeginInv
<1>2. ASSUME NEW a \in Addresses, RemoveFind(r, b, a)
      PROVE  Inv'
  <2> DEFINE d == row[a].default
             s == [Idle EXCEPT !.pc = "count", !.address = a, !.default = d]
             q == [s EXCEPT !.buyer = b]
  <2>1. d \in BOOLEAN
    BY Types DEF Row
  <2>2. Begin(r, b, s) /\ UNCHANGED <<row, order>> /\ a \in Own(b)
    BY <1>2 DEF RemoveFind
  <2> HIDE DEF d
  <2>3. q \in Request /\ q.pc = "count" /\ q.buyer = b /\ q.address = a
    BY <2>1 DEF Idle, Request
  <2>4. q = [s EXCEPT !.buyer = b]
    OBVIOUS
  <2> HIDE DEF q, s
  <2>5. Knows(q, row, order)
    BY <2>2, <2>3, OwnKnown DEF Knows
  <2> QED  BY <2>2, <2>3, <2>4, <2>5, BeginInv
<1>3. ASSUME NEW a \in Addresses, SetDefaultFind(r, b, a)
      PROVE  Inv'
  <2> DEFINE s == [Idle EXCEPT !.pc = "snapshot", !.address = a]
             q == [s EXCEPT !.buyer = b]
  <2>1. Begin(r, b, s) /\ UNCHANGED <<row, order>> /\ a \in Own(b)
    BY <1>3 DEF SetDefaultFind
  <2>2. q \in Request /\ q.pc = "snapshot" /\ q.buyer = b /\ q.address = a
    BY DEF Idle, Request
  <2>3. q = [s EXCEPT !.buyer = b]
    OBVIOUS
  <2> HIDE DEF q, s
  <2>4. Knows(q, row, order)
    BY <2>1, <2>2, OwnKnown DEF Knows
  <2> QED  BY <2>1, <2>2, <2>3, <2>4, BeginInv
<1>4. ASSUME NEW a \in Addresses \cup {None}, CheckoutAddress(r, b, a)
      PROVE  Inv'
  <2> DEFINE s == [Idle EXCEPT !.pc = "place", !.address = a]
             q == [s EXCEPT !.buyer = b]
  <2>1. Begin(r, b, s) /\ UNCHANGED <<row, order>> /\ a \in Own(b) \cup {None}
    BY <1>4 DEF CheckoutAddress
  <2>2. q \in Request /\ q.pc = "place" /\ q.buyer = b /\ q.address = a
    BY DEF Idle, Request
  <2>3. q = [s EXCEPT !.buyer = b]
    OBVIOUS
  <2> HIDE DEF q, s
  <2>4. Knows(q, row, order)
    BY <2>1, <2>2, OwnKnown DEF Knows
  <2> QED  BY <2>1, <2>2, <2>3, <2>4, BeginInv
<1>5. ASSUME NEW a \in Addresses \cup {None}, NEW o \in Orders, UpsertRead(r, b, o, a)
      PROVE  Inv'
  <2> DEFINE p == IF a = None THEN "edit" ELSE "dest"
             s == [Idle EXCEPT !.pc = p, !.order = o, !.address = a]
             q == [s EXCEPT !.buyer = b]
  <2>1. Begin(r, b, s) /\ UNCHANGED <<row, order>> /\ order[o].buyer = b
    BY <1>5 DEF UpsertRead
  <2>2. p \in {"edit", "dest"} /\ (a = None <=> p = "edit")
    OBVIOUS
  <2> HIDE DEF p
  <2>3. q \in Request /\ q.pc = p /\ q.buyer = b /\ q.address = a /\ q.order = o
    BY <2>2 DEF Idle, Request
  <2>4. q = [s EXCEPT !.buyer = b]
    OBVIOUS
  <2> HIDE DEF q, s
  <2>5. Knows(q, row, order)
    BY <2>1, <2>2, <2>3 DEF Knows
  <2> QED  BY <2>1, <2>3, <2>4, <2>5, BeginInv
<1> QED  BY <1>1, <1>2, <1>3, <1>4, <1>5 DEF AddressRoutes, DeliveryRoutes

-----------------------------------------------------------------------------
(* Statements that write nothing.                                          *)

\* A request that goes on with less knowledge than it has, or ends.
LEMMA GoOn ==
  ASSUME Inv, NEW r \in Requests, Goto(r, Idle), UNCHANGED <<row, order>>
  PROVE  Inv'
BY IdleKnows, GotoInv

LEMMA RemovalReadsInv ==
  ASSUME Inv, NEW r \in Requests,
         RemoveCount(r) \/ RemoveLinked(r) \/ RemovePick(r)
  PROVE  Inv'
<1>0. req[r] \in Request /\ Knows(req[r], row, order)
  BY Types DEF Inv, AllKnow
<1>1. CASE RemoveCount(r)
  <2> DEFINE p == IF Cardinality(Own(req[r].buyer)) = 1 THEN "linked" ELSE "delete"
             q == [req[r] EXCEPT !.pc = p]
  <2>1. p \in {"linked", "delete"}
    OBVIOUS
  <2>2. req[r].pc = "count" /\ Goto(r, q) /\ UNCHANGED <<row, order>>
    BY <1>1 DEF RemoveCount
  <2> HIDE DEF p
  <2>3. /\ q \in Request /\ q.pc = p /\ q.buyer = req[r].buyer
        /\ q.address = req[r].address
    BY <1>0, <2>1 DEF Request
  <2> HIDE DEF q
  <2>4. Knows(q, row, order)
    BY <1>0, <2>1, <2>2, <2>3 DEF Knows
  <2> QED  BY <2>2, <2>3, <2>4, GotoInv
<1>2. CASE RemoveLinked(r)
  <2>1. CASE Goto(r, Idle)
    BY <1>2, <2>1, GoOn DEF RemoveLinked
  <2>2. CASE Goto(r, [req[r] EXCEPT !.pc = "delete"])
    <3> DEFINE q == [req[r] EXCEPT !.pc = "delete"]
    <3>1. req[r].pc = "linked" /\ Goto(r, q) /\ UNCHANGED <<row, order>>
      BY <1>2, <2>2 DEF RemoveLinked
    <3>2. /\ q \in Request /\ q.pc = "delete" /\ q.buyer = req[r].buyer
          /\ q.address = req[r].address
      BY <1>0 DEF Request
    <3> HIDE DEF q
    <3>3. Knows(q, row, order)
      BY <1>0, <3>1, <3>2 DEF Knows
    <3> QED  BY <3>1, <3>2, <3>3, GotoInv
  <2> QED  BY <1>2, <2>1, <2>2 DEF RemoveLinked
<1>3. CASE RemovePick(r)
  <2>1. CASE Own(req[r].buyer) = {}
    BY <1>3, <2>1, GoOn DEF RemovePick
  <2>2. CASE Own(req[r].buyer) # {}
    <3>1. PICK a \in Own(req[r].buyer) :
                  Goto(r, [req[r] EXCEPT !.pc = "promote", !.address = a])
      BY <1>3, <2>2 DEF RemovePick
    <3> DEFINE q == [req[r] EXCEPT !.pc = "promote", !.address = a]
    <3>2. req[r].pc = "pick" /\ Goto(r, q) /\ UNCHANGED <<row, order>>
      BY <1>3, <3>1 DEF RemovePick
    <3>3. a \in Addresses /\ Known(a, req[r].buyer, row)
      BY OwnKnown
    <3>4. /\ q \in Request /\ q.pc = "promote" /\ q.buyer = req[r].buyer
          /\ q.address = a
      BY <1>0, <3>3 DEF Request
    <3> HIDE DEF q
    <3>5. Knows(q, row, order)
      BY <1>0, <3>2, <3>3, <3>4 DEF Knows
    <3> QED  BY <3>2, <3>4, <3>5, GotoInv
  <2> QED  BY <2>1, <2>2
<1> QED  BY <1>1, <1>2, <1>3

LEMMA DefaultReadsInv ==
  ASSUME Inv, NEW r \in Requests, DefaultSnapshot(r) \/ DefaultClear(r)
  PROVE  Inv'
<1>0. req[r] \in Request /\ Knows(req[r], row, order)
  BY Types DEF Inv, AllKnow
<1>1. CASE DefaultSnapshot(r)
  <2> DEFINE rows == Defaults(req[r].buyer)
             q == [req[r] EXCEPT !.pc = "clear", !.rows = rows]
  <2>1. req[r].pc = "snapshot" /\ Goto(r, q) /\ UNCHANGED <<row, order>>
    BY <1>1 DEF DefaultSnapshot
  <2>2. rows \subseteq Addresses /\ \A a \in rows : Known(a, req[r].buyer, row)
    BY OwnKnown DEF Defaults
  <2> HIDE DEF rows
  <2>3. /\ q \in Request /\ q.pc = "clear" /\ q.buyer = req[r].buyer
        /\ q.address = req[r].address /\ q.rows = rows
    BY <1>0, <2>2 DEF Request
  <2> HIDE DEF q
  <2>4. Knows(q, row, order)
    BY <1>0, <2>1, <2>2, <2>3 DEF Knows
  <2> QED  BY <2>1, <2>3, <2>4, GotoInv
<1>2. CASE DefaultClear(r)
  <2> DEFINE rows == {a \in req[r].rows : Live(a) /\ row[a].default}
             q == [req[r] EXCEPT !.pc = "set", !.rows = rows]
  <2>1. req[r].pc = "clear" /\ Goto(r, q) /\ UNCHANGED <<row, order>>
    BY <1>2 DEF DefaultClear
  <2>2. rows \subseteq req[r].rows
    OBVIOUS
  <2> HIDE DEF rows
  <2>3. /\ q \in Request /\ q.pc = "set" /\ q.buyer = req[r].buyer
        /\ q.address = req[r].address /\ q.rows = rows
    BY <1>0, <2>2 DEF Request
  <2> HIDE DEF q
  <2>4. Knows(q, row, order)
    BY <1>0, <2>1, <2>2, <2>3 DEF Knows
  <2> QED  BY <2>1, <2>3, <2>4, GotoInv
<1> QED  BY <1>1, <1>2

LEMMA UpsertAddressInv ==
  ASSUME Inv, NEW r \in Requests, UpsertAddress(r)
  PROVE  Inv'
<1>0. req[r] \in Request /\ Knows(req[r], row, order)
  BY Types DEF Inv, AllKnow
<1>1. CASE req[r].address \notin Own(req[r].buyer)
  BY <1>1, GoOn DEF UpsertAddress
<1>2. CASE req[r].address \in Own(req[r].buyer)
  <2> DEFINE q == [req[r] EXCEPT !.pc = "edit"]
  <2>1. req[r].pc = "dest" /\ Goto(r, q) /\ UNCHANGED <<row, order>>
    BY <1>2 DEF UpsertAddress
  <2>2. Known(req[r].address, req[r].buyer, row)
    BY <1>2, OwnKnown
  <2>3. /\ q \in Request /\ q.pc = "edit" /\ q.buyer = req[r].buyer
        /\ q.address = req[r].address /\ q.order = req[r].order
    BY <1>0 DEF Request
  <2> HIDE DEF q
  <2>4. Knows(q, row, order)
    BY <1>0, <2>1, <2>2, <2>3 DEF Knows
  <2> QED  BY <2>1, <2>3, <2>4, GotoInv
<1> QED  BY <1>1, <1>2

-----------------------------------------------------------------------------
(* Statements that write.                                                  *)

\* A request ends with a statement on the table of addresses.
LEMMA RowsInv ==
  ASSUME Inv, NEW r \in Requests, Goto(r, Idle), UNCHANGED order,
         row' \in [Addresses -> Row],
         \A a \in Addresses :
            /\ row[a].state # "new" =>
                 row'[a].state = row[a].state /\ row'[a].buyer = row[a].buyer
            /\ row'[a].state = "new" => row[a].state = "new"
  PROVE  Inv'
<1>1. Later(row, row', order, order')
  BY DEF Later
<1>2. DeliveryToOwnAddress'
  <2> SUFFICES ASSUME NEW o \in Orders, order[o].dest # None
               PROVE  order[o].dest \in Own(order[o].buyer)'
    BY DEF DeliveryToOwnAddress
  <2>1. order[o].dest \in Own(order[o].buyer)
    BY DEF Inv, DeliveryToOwnAddress
  <2> QED  BY <2>1 DEF Own, Live
<1> QED  BY <1>1, <1>2, IdleKnows, StepInv, Types DEF Goto

LEMMA CreateWriteInv ==
  ASSUME Inv, NEW r \in Requests, CreateWrite(r)
  PROVE  Inv'
<1>0. req[r] \in Request /\ Knows(req[r], row, order) /\ req[r].pc = "create"
  BY Types DEF Inv, AllKnow, CreateWrite
<1> DEFINE new == [buyer |-> req[r].buyer, state |-> "live", default |-> req[r].default]
<1>1. PICK a \in Addresses : row[a].state = "new" /\ row' = [row EXCEPT ![a] = new]
  BY DEF CreateWrite
<1>2. new \in Row /\ new.state = "live"
  BY <1>0 DEF Row, Request
<1> HIDE DEF new
<1>3. row' \in [Addresses -> Row]
  BY <1>1, <1>2, Types
<1>4. \A x \in Addresses : x # a => row'[x] = row[x]
  BY <1>1, Types
<1>5. row'[a] = new
  BY <1>1, Types
<1> QED  BY <1>1, <1>2, <1>3, <1>4, <1>5, RowsInv DEF CreateWrite

LEMMA RemovePromoteInv ==
  ASSUME Inv, NEW r \in Requests, RemovePromote(r)
  PROVE  Inv'
<1>0. req[r] \in Request /\ Knows(req[r], row, order) /\ req[r].pc = "promote"
  BY Types DEF Inv, AllKnow, RemovePromote
<1> DEFINE a == req[r].address
<1>1. a \in Addresses
  BY <1>0 DEF Knows
<1>2. CASE Live(a)
  <2> DEFINE w == [row[a] EXCEPT !.default = TRUE]
  <2>1. row' = [row EXCEPT ![a] = w]
    BY <1>2 DEF RemovePromote
  <2>2. w \in Row /\ w.state = row[a].state /\ w.buyer = row[a].buyer
    BY <1>1, Types DEF Row
  <2> HIDE DEF w, a
  <2>3. row' \in [Addresses -> Row]
    BY <2>1, <2>2, Types
  <2>4. \A x \in Addresses : row'[x].state = row[x].state /\ row'[x].buyer = row[x].buyer
    BY <1>1, <2>1, <2>2, Types
  <2> QED  BY <2>3, <2>4, RowsInv DEF RemovePromote
<1>3. CASE ~Live(a)
  BY <1>3, RowsInv, Types DEF RemovePromote
<1> QED  BY <1>2, <1>3

LEMMA DefaultSetInv ==
  ASSUME Inv, NEW r \in Requests, DefaultSet(r)
  PROVE  Inv'
<1> DEFINE a == req[r].address
           w(x) == IF x = a THEN [row[x] EXCEPT !.default = TRUE]
                   ELSE IF x \in req[r].rows THEN [row[x] EXCEPT !.default = FALSE]
                   ELSE row[x]
<1>1. CASE Live(a)
  <2>1. row' = [x \in Addresses |-> w(x)]
    BY <1>1 DEF DefaultSet
  <2>2. \A x \in Addresses :
          w(x) \in Row /\ w(x).state = row[x].state /\ w(x).buyer = row[x].buyer
    BY Types DEF Row
  <2> HIDE DEF w
  <2>3. row' \in [Addresses -> Row]
    BY <2>1, <2>2
  <2>4. \A x \in Addresses : row'[x].state = row[x].state /\ row'[x].buyer = row[x].buyer
    BY <2>1, <2>2
  <2>5. Goto(r, Idle) /\ UNCHANGED order
    BY DEF DefaultSet
  <2> QED  BY <2>3, <2>4, <2>5, RowsInv
<1>2. CASE ~Live(a)
  BY <1>2, RowsInv, Types DEF DefaultSet
<1> QED  BY <1>1, <1>2

LEMMA RemoveDeleteInv ==
  ASSUME Inv, NEW r \in Requests, RemoveDelete(r)
  PROVE  Inv'
<1>0. req[r] \in Request /\ Knows(req[r], row, order) /\ req[r].pc = "delete"
  BY Types DEF Inv, AllKnow, RemoveDelete
<1> DEFINE a == req[r].address
           gone == [NoRow EXCEPT !.state = "gone"]
<1>1. a \in Addresses
  BY <1>0 DEF Knows
<1>2. CASE ~Live(a)
  BY <1>2, GoOn DEF RemoveDelete
<1>3. CASE Live(a)
  <2>1. row' = [row EXCEPT ![a] = gone] /\ Unlink(a)
    BY <1>3 DEF RemoveDelete
  <2>2. gone \in Row /\ gone.state = "gone"
    BY DEF NoRow, Row
  <2> HIDE DEF gone
  <2>3. row' \in [Addresses -> Row]
    BY <2>1, <2>2, Types
  <2> DEFINE w(o) == IF order[o].dest = a THEN [order[o] EXCEPT !.dest = None]
                     ELSE order[o]
  <2>4. order' = [o \in Orders |-> w(o)]
    BY <2>1 DEF Unlink
  <2>5. \A o \in Orders : /\ w(o) \in Order /\ w(o).buyer = order[o].buyer
                          /\ w(o).dest = IF order[o].dest = a THEN None
                                         ELSE order[o].dest
    BY Types DEF Order
  <2> HIDE DEF w
  <2>6. order' \in [Orders -> Order]
    BY <2>4, <2>5
  <2>7. Later(row, row', order, order')
    BY <1>1, <2>1, <2>2, <2>4, <2>5, Types DEF Later
  <2>8. DeliveryToOwnAddress'
    <3> SUFFICES ASSUME NEW o \in Orders, order'[o].dest # None
                 PROVE  order'[o].dest \in Own(order[o].buyer)'
      BY <2>4, <2>5 DEF DeliveryToOwnAddress
    <3>1. order'[o].dest = order[o].dest /\ order[o].dest # a /\ order[o].dest # None
      BY <2>4, <2>5
    <3>2. order[o].dest \in Own(order[o].buyer)
      BY <3>1 DEF Inv, DeliveryToOwnAddress
    <3>3. row'[order[o].dest] = row[order[o].dest]
      BY <2>1, <3>1, <3>2, Types DEF Own
    <3>4. order'[o].buyer = order[o].buyer
      BY <2>4, <2>5
    <3> QED  BY <3>1, <3>2, <3>3, <3>4 DEF Own, Live
  <2>9. \E q \in Request : Goto(r, q) /\ Knows(q, row', order')
    <3>1. CASE Goto(r, Idle)
      BY <3>1, IdleKnows
    <3>2. CASE Goto(r, [req[r] EXCEPT !.pc = "pick"])
      <4> DEFINE q == [req[r] EXCEPT !.pc = "pick"]
      <4>1. q \in Request /\ q.pc = "pick" /\ q.buyer = req[r].buyer /\ Goto(r, q)
        BY <1>0, <3>2 DEF Request
      <4> HIDE DEF q
      <4>2. Knows(q, row', order')
        BY <1>0, <4>1 DEF Knows
      <4> QED  BY <4>1, <4>2
    <3> QED  BY <1>3, <3>1, <3>2 DEF RemoveDelete
  <2> QED  BY <2>3, <2>6, <2>7, <2>8, <2>9, StepInv, Types DEF Goto
<1> QED  BY <1>2, <1>3

\* A statement on one order x, the last of a request or on its own.
LEMMA OrderInv ==
  ASSUME Inv, NEW x \in Orders, NEW w \in Order, order' = [order EXCEPT ![x] = w],
         UNCHANGED row,
         order[x].buyer # None => w.buyer = order[x].buyer,
         w.dest # None => w.dest \in Own(w.buyer)
  PROVE  /\ order' \in [Orders -> Order] /\ row' \in [Addresses -> Row]
         /\ Later(row, row', order, order')
         /\ DeliveryToOwnAddress'
<1>1. order' \in [Orders -> Order] /\ row' \in [Addresses -> Row]
  BY Types
<1>2. order'[x] = w /\ \A o \in Orders : o # x => order'[o] = order[o]
  BY Types
<1>3. Later(row, row', order, order')
  BY <1>2 DEF Later
<1>4. DeliveryToOwnAddress'
  <2> SUFFICES ASSUME NEW o \in Orders, order'[o].dest # None
               PROVE  order'[o].dest \in Own(order'[o].buyer)
    BY DEF DeliveryToOwnAddress, Own, Live
  <2>1. CASE o = x
    BY <1>2, <2>1
  <2>2. CASE o # x
    BY <1>2, <2>2 DEF Inv, DeliveryToOwnAddress
  <2> QED  BY <2>1, <2>2
<1> QED  BY <1>1, <1>3, <1>4

LEMMA KnownLiveOwn ==
  ASSUME NEW a \in Addresses, NEW b, Known(a, b, row), Live(a)
  PROVE  a \in Own(b)
BY DEF Known, Own, Live

LEMMA CheckoutPlaceInv ==
  ASSUME Inv, NEW r \in Requests, CheckoutPlace(r)
  PROVE  Inv'
<1>0. req[r] \in Request /\ Knows(req[r], row, order) /\ req[r].pc = "place"
  BY Types DEF Inv, AllKnow, CheckoutPlace
<1> DEFINE a == req[r].address
<1>1. CASE a # None /\ ~Live(a)
  BY <1>1, GoOn DEF CheckoutPlace
<1>2. CASE ~(a # None /\ ~Live(a))
  <2> DEFINE w == [NoOrder EXCEPT !.buyer = req[r].buyer, !.dest = a]
  <2>1. PICK o \in Orders : order[o].buyer = None /\ order' = [order EXCEPT ![o] = w]
    BY <1>2 DEF CheckoutPlace
  <2>2. w \in Order /\ w.buyer = req[r].buyer /\ w.dest = a
    BY <1>0 DEF NoOrder, Order, OrderStatus, DeliveryStatus, Request
  <2> HIDE DEF w
  <2>3. a # None => a \in Own(req[r].buyer)
    BY <1>0, <1>2, KnownLiveOwn DEF Knows, Request
  <2>4. UNCHANGED row /\ Goto(r, Idle)
    BY DEF CheckoutPlace
  <2>5. /\ order' \in [Orders -> Order] /\ row' \in [Addresses -> Row]
        /\ Later(row, row', order, order')
        /\ DeliveryToOwnAddress'
    BY <2>1, <2>2, <2>3, <2>4, OrderInv
  <2> QED  BY <2>4, <2>5, IdleKnows, StepInv, Types DEF Goto
<1> QED  BY <1>1, <1>2

LEMMA UpsertWriteInv ==
  ASSUME Inv, NEW r \in Requests, UpsertWrite(r)
  PROVE  Inv'
<1>0. req[r] \in Request /\ Knows(req[r], row, order) /\ req[r].pc = "edit"
  BY Types DEF Inv, AllKnow, UpsertWrite
<1> DEFINE a == req[r].address
           o == req[r].order
<1>1. CASE a # None /\ ~Live(a)
  BY <1>1, GoOn DEF UpsertWrite
<1>2. CASE ~(a # None /\ ~Live(a))
  <2> DEFINE w == [order[o] EXCEPT !.dest = a]
  <2>1. order' = [order EXCEPT ![o] = w] /\ UNCHANGED row /\ Goto(r, Idle)
    BY <1>2 DEF UpsertWrite
  <2>2. o \in Orders /\ order[o].buyer = req[r].buyer
    BY <1>0 DEF Knows
  <2>3. w \in Order /\ w.buyer = order[o].buyer /\ w.dest = a
    BY <1>0, <2>2, Types DEF Order, Request
  <2> HIDE DEF w
  <2>4. a # None => a \in Own(req[r].buyer)
    BY <1>0, <1>2, KnownLiveOwn DEF Knows, Request
  <2> HIDE DEF a, o
  <2>5. /\ order' \in [Orders -> Order] /\ row' \in [Addresses -> Row]
        /\ Later(row, row', order, order')
        /\ DeliveryToOwnAddress'
    BY <2>1, <2>2, <2>3, <2>4, OrderInv
  <2> QED  BY <2>1, <2>5, IdleKnows, StepInv, Types DEF Goto
<1> QED  BY <1>1, <1>2

\* A statement on one order that no request of a buyer makes.
LEMMA OtherOrderInv ==
  ASSUME Inv, NEW x \in Orders, NEW w \in Order, order' = [order EXCEPT ![x] = w],
         UNCHANGED <<row, req, rushed, broken>>,
         w.buyer = order[x].buyer, w.dest = order[x].dest
  PROVE  Inv'
<1>1. w.dest # None => w.dest \in Own(w.buyer)
  BY DEF Inv, DeliveryToOwnAddress
<1>2. /\ order' \in [Orders -> Order] /\ row' \in [Addresses -> Row]
      /\ Later(row, row', order, order')
      /\ DeliveryToOwnAddress'
  BY <1>1, OrderInv
<1>3. AddressesTypeOK'
  BY <1>2, Types DEF AddressesTypeOK
<1>4. AllKnow'
  <2> SUFFICES ASSUME NEW r \in Requests PROVE Knows(req[r], row', order')
    BY DEF AllKnow
  <2>1. req[r] \in Request /\ Knows(req[r], row, order)
    BY Types DEF Inv, AllKnow
  <2> QED  BY <1>2, <2>1, KnowsLater
<1> QED  BY <1>2, <1>3, <1>4 DEF Inv

LEMMA StatusesInv ==
  ASSUME Inv, NEW o \in Orders,
         \/ \E s \in OrderMoves : OrderStatusWrite(o, s)
         \/ \E s \in DeliveryMoves : DeliveryStatusWrite(o, s)
  PROVE  Inv'
<1>0. order[o] \in Order
  BY Types
<1>1. ASSUME NEW s \in OrderMoves, OrderStatusWrite(o, s)
      PROVE  Inv'
  <2> DEFINE d == order[o].reopened \/ order[o].status \notin Pending
             w == [order[o] EXCEPT !.status = s, !.reopened = d]
  <2>1. d \in BOOLEAN /\ s \in OrderStatus
    BY AddressesAssumption
  <2>2. order' = [order EXCEPT ![o] = w] /\ UNCHANGED <<row, req, rushed, broken>>
    BY <1>1 DEF OrderStatusWrite
  <2> HIDE DEF d
  <2>3. w \in Order /\ w.buyer = order[o].buyer /\ w.dest = order[o].dest
    BY <1>0, <2>1 DEF Order
  <2> HIDE DEF w
  <2> QED  BY <2>2, <2>3, OtherOrderInv
<1>2. ASSUME NEW s \in DeliveryMoves, DeliveryStatusWrite(o, s)
      PROVE  Inv'
  <2> DEFINE w == [order[o] EXCEPT !.dstatus = s]
  <2>1. s \in DeliveryStatus
    BY AddressesAssumption
  <2>2. order' = [order EXCEPT ![o] = w] /\ UNCHANGED <<row, req, rushed, broken>>
    BY <1>2 DEF DeliveryStatusWrite
  <2>3. w \in Order /\ w.buyer = order[o].buyer /\ w.dest = order[o].dest
    BY <1>0, <2>1 DEF Order
  <2> HIDE DEF w
  <2> QED  BY <2>2, <2>3, OtherOrderInv
<1> QED  BY <1>1, <1>2

LEMMA DieInv ==
  ASSUME Inv, NEW r \in Requests, Die(r)
  PROVE  Inv'
<1>0. req[r] \in Request /\ Knows(req[r], row, order)
  BY Types DEF Inv, AllKnow
<1>1. req[r].pc \in {"pick", "promote"} => req[r].buyer \in Buyers
  BY <1>0 DEF Knows
<1>2. broken' \subseteq Buyers /\ rushed' \subseteq Buyers
  BY <1>1, Types DEF Die
<1>3. UNCHANGED <<row, order>> /\ req' = [req EXCEPT ![r] = Idle]
  BY DEF Die
<1>4. DeliveryToOwnAddress'
  BY <1>3 DEF Inv, DeliveryToOwnAddress, Own, Live
<1> QED  BY <1>2, <1>3, <1>4, IdleKnows, SameTables, StepInv, Types

LEMMA NextInv == Inv /\ [Next]_vars => Inv'
<1> SUFFICES ASSUME Inv, [Next]_vars PROVE Inv'
  OBVIOUS
<1>1. CASE \E r \in Requests, b \in Buyers : AddressRoutes(r, b) \/ DeliveryRoutes(r, b)
  BY <1>1, RoutesInv
<1>2. ASSUME NEW r \in Requests,
             \/ CreateWrite(r)
             \/ RemoveCount(r) \/ RemoveLinked(r) \/ RemoveDelete(r)
             \/ RemovePick(r) \/ RemovePromote(r)
             \/ DefaultSnapshot(r) \/ DefaultClear(r) \/ DefaultSet(r)
             \/ CheckoutPlace(r)
             \/ UpsertAddress(r) \/ UpsertWrite(r)
             \/ Die(r)
      PROVE  Inv'
  BY <1>2, CreateWriteInv, RemovalReadsInv, RemoveDeleteInv, RemovePromoteInv,
     DefaultReadsInv, DefaultSetInv, CheckoutPlaceInv, UpsertAddressInv,
     UpsertWriteInv, DieInv
<1>3. CASE \E o \in Orders : \/ \E s \in OrderMoves : OrderStatusWrite(o, s)
                           \/ \E s \in DeliveryMoves : DeliveryStatusWrite(o, s)
  BY <1>3, StatusesInv
<1>4. CASE UNCHANGED vars
  <2>1. DeliveryToOwnAddress'
    BY <1>4 DEF vars, Inv, DeliveryToOwnAddress, Own, Live
  <2>2. AddressesTypeOK' /\ AllKnow'
    BY <1>4 DEF vars, Inv, AddressesTypeOK, AllKnow
  <2> QED  BY <2>1, <2>2 DEF Inv
<1> QED  BY <1>1, <1>2, <1>3, <1>4 DEF Next

-----------------------------------------------------------------------------
(* Default addresses.                                                      *)

\* What DefaultLostByRemovalOnly says of one step and one buyer.
LostByRemoval(b) ==
    Defaults(b) # {} /\ Defaults(b)' = {}
      => \E a \in Defaults(b) : row'[a].state = "gone"

\* Steps that take the mark from no address.
LEMMA DefaultsKept ==
  ASSUME NEW b,
         \A a \in Addresses : Live(a) /\ row[a].buyer = b /\ row[a].default
            => row'[a] = row[a] \/ row'[a] = [row[a] EXCEPT !.default = TRUE]
               \/ row'[a].state = "gone",
         row \in [Addresses -> Row]
  PROVE  LostByRemoval(b)
<1> SUFFICES ASSUME NEW a \in Defaults(b), row'[a].state # "gone"
             PROVE  a \in Defaults(b)'
  BY DEF LostByRemoval
<1>1. a \in Addresses /\ Live(a) /\ row[a].buyer = b /\ row[a].default /\ row[a] \in Row
  BY DEF Defaults, Own
<1>2. row'[a] = row[a] \/ row'[a] = [row[a] EXCEPT !.default = TRUE]
  BY <1>1
<1>3. row'[a].state = "live" /\ row'[a].buyer = b /\ row'[a].default
  BY <1>1, <1>2 DEF Live, Row
<1> QED  BY <1>1, <1>3 DEF Defaults, Own, Live

LEMMA DefaultSetKeeps ==
  ASSUME Inv, NEW r \in Requests, DefaultSet(r), NEW b \in Buyers
  PROVE  LostByRemoval(b)
<1> DEFINE a == req[r].address
           c == req[r].buyer
           rows == req[r].rows
<1>0. /\ a \in Addresses /\ Known(a, c, row)
      /\ \A x \in rows : Known(x, c, row)
  BY AddressesAssumption DEF Inv, AllKnow, Knows, DefaultSet
<1>1. CASE ~Live(a)
  BY <1>1, DefaultsKept, Types DEF DefaultSet
<1>2. CASE Live(a)
  <2>0. row' = [x \in Addresses |->
                  IF x = a THEN [row[x] EXCEPT !.default = TRUE]
                  ELSE IF x \in rows THEN [row[x] EXCEPT !.default = FALSE]
                  ELSE row[x]]
    BY <1>2 DEF DefaultSet
  <2> HIDE DEF a, c, rows
  <2>1. CASE b = c
    <3>1. row'[a] = [row[a] EXCEPT !.default = TRUE] /\ row[a] \in Row
      BY <1>0, <2>0, Types
    <3>2. row'[a].state = "live" /\ row'[a].buyer = b /\ row'[a].default
      BY <1>0, <1>2, <2>1, <3>1 DEF Live, Known, Row
    <3>3. a \in Defaults(b)'
      BY <1>0, <3>2 DEF Defaults, Own, Live
    <3> QED  BY <3>3 DEF LostByRemoval
  <2>2. CASE b # c
    <3>1. ASSUME NEW x \in Addresses, Live(x), row[x].buyer = b
          PROVE  x # a /\ x \notin rows
      BY <1>0, <2>2, <3>1 DEF Known, Live
    <3>2. \A x \in Addresses : Live(x) /\ row[x].buyer = b => row'[x] = row[x]
      BY <2>0, <3>1
    <3> QED  BY <3>2, DefaultsKept, Types
  <2> QED  BY <2>1, <2>2
<1> QED  BY <1>1, <1>2

LEMMA OthersKeep ==
  ASSUME Inv, NEW r \in Requests, NEW b \in Buyers,
         CreateWrite(r) \/ RemoveDelete(r) \/ RemovePromote(r)
  PROVE  LostByRemoval(b)
<1>1. CASE CreateWrite(r)
  <2>1. \A a \in Addresses : Live(a) => row'[a] = row[a]
    BY <1>1, Types DEF CreateWrite, Live
  <2> QED  BY <2>1, DefaultsKept, Types
<1>2. CASE RemoveDelete(r)
  <2> DEFINE gone == [NoRow EXCEPT !.state = "gone"]
  <2>1. row' = row \/ \E a \in Addresses : row' = [row EXCEPT ![a] = gone]
    BY <1>2 DEF RemoveDelete, Inv, AllKnow, Knows
  <2>2. gone.state = "gone"
    BY DEF NoRow
  <2> HIDE DEF gone
  <2>3. \A a \in Addresses : row'[a] = row[a] \/ row'[a].state = "gone"
    BY <2>1, <2>2, Types
  <2> QED  BY <2>3, DefaultsKept, Types
<1>3. CASE RemovePromote(r)
  <2>1. \A a \in Addresses : row'[a] = row[a] \/ row'[a] = [row[a] EXCEPT !.default = TRUE]
    BY <1>3, Types DEF RemovePromote
  <2> QED  BY <2>1, DefaultsKept, Types
<1> QED  BY <1>1, <1>2, <1>3

LEMMA StepLosesNoDefault ==
  ASSUME Inv, [Next]_vars, NEW b \in Buyers
  PROVE  LostByRemoval(b)
<1>1. CASE UNCHANGED row
  BY <1>1, DefaultsKept, Types
<1>2. CASE \E r \in Requests : \/ CreateWrite(r) \/ RemoveDelete(r)
                              \/ RemovePromote(r) \/ DefaultSet(r)
  BY <1>2, DefaultSetKeeps, OthersKeep
<1>3. \/ UNCHANGED row
      \/ \E r \in Requests : \/ CreateWrite(r) \/ RemoveDelete(r)
                             \/ RemovePromote(r) \/ DefaultSet(r)
  BY DEF Next, vars, AddressRoutes, DeliveryRoutes, CreateCount, RemoveFind,
         SetDefaultFind, CheckoutAddress, UpsertRead, RemoveCount, RemoveLinked,
         RemovePick, DefaultSnapshot, DefaultClear, CheckoutPlace, UpsertAddress,
         UpsertWrite, Die, OrderStatusWrite, DeliveryStatusWrite
<1> QED  BY <1>1, <1>2, <1>3

-----------------------------------------------------------------------------
(* Theorems.                                                               *)

LEMMA SpecInv == Spec => []Inv
<1> QED  BY InitInv, NextInv, PTL DEF Spec

\* Rows, orders and the local variables of the requests keep their types
\* through every interleaving of address requests, checkouts and edits of
\* deliveries (addresses.service.ts, checkout.service.ts, orders.service.ts).
THEOREM AddressesTyped == Spec => []AddressesTypeOK
<1>1. Inv => AddressesTypeOK
  BY DEF Inv
<1> QED  BY <1>1, SpecInv, PTL

\* Whatever requests run at one time, an order is delivered to an existing
\* address of its own buyer or to none: addresses never change hands, so what
\* checkout and upsertDelivery saw is still true of the address if it is
\* there when they write it (checkout.service.ts:93-247,
\* orders.service.ts:314-427).
THEOREM DeliveriesGoToOwn == Spec => []DeliveryToOwnAddress
<1>1. Inv => DeliveryToOwnAddress
  BY DEF Inv
<1> QED  BY <1>1, SpecInv, PTL

\* Only a deletion takes the last default address of a buyer away; setDefault,
\* whose rows are found before the locks are granted, never does, because all
\* its rows are of one buyer (addresses.service.ts:199-208).
THEOREM DefaultsLostByRemoval == Spec => DefaultLostByRemovalOnly
<1>1. Inv /\ [Next]_vars
        => [\A b \in Buyers :
              Defaults(b) # {} /\ Defaults(b)' = {}
                => \E a \in Defaults(b) : row'[a].state = "gone"]_vars
  BY StepLosesNoDefault DEF LostByRemoval
<1> QED  BY <1>1, SpecInv, PTL DEF Spec, DefaultLostByRemovalOnly

-----------------------------------------------------------------------------
(* Buyers who do one thing at a time: what their request has read is still *)
(* so, since nobody else changes their addresses.                          *)

\* Addresses that orders of b wait for that were pending all along.
Awaited(b) ==
    {a \in Addresses : \E o \in Orders :
        order[o].buyer = b /\ order[o].dest = a /\ ~order[o].reopened
          /\ order[o].status \in Pending}

\* A request q against the addresses, default ones and awaited ones of its
\* buyer.
Doing(q, own, defaults, awaited) ==
    /\ q.pc = "create" => (q.default <=> own = {})
    /\ q.pc \in {"count", "linked", "delete"} =>
         q.address \in own /\ (q.default <=> q.address \in defaults)
    /\ q.pc \in {"pick", "promote"} => defaults = {}
    /\ q.pc \in {"promote", "snapshot", "clear", "set"} => q.address \in own
    /\ q.pc \in {"clear", "set"} => q.rows = defaults
    /\ q.pc = "delete" => own # {q.address} \/ q.address \notin awaited

AtMostOne(S) == \A x, y \in S : x = y
Promoting(q) == q.pc \in {"pick", "promote"}

Alone(b) ==
    /\ \A r, s \in Requests : req[r].buyer = b /\ req[s].buyer = b => r = s
    /\ \A r \in Requests :
          req[r].buyer = b => Doing(req[r], Own(b), Defaults(b), Awaited(b))
    /\ AtMostOne(Defaults(b))
    /\ Own(b) = {} \/ Defaults(b) # {} \/ b \in broken
         \/ \E r \in Requests : req[r].buyer = b /\ Promoting(req[r])

Steady ==
    /\ \A r \in Requests : req[r].pc = "idle" => req[r].buyer = None
    /\ \A b \in Buyers \ rushed : Alone(b)

\* A step that only others make leaves a buyer alone ...
LEMMA AloneStays ==
  ASSUME NEW b \in Buyers, Alone(b), Own(b)' = Own(b), Defaults(b)' = Defaults(b),
         Awaited(b)' \subseteq Awaited(b), broken \subseteq broken',
         \A r \in Requests : req[r].buyer = b \/ req'[r].buyer = b => req'[r] = req[r]
  PROVE  Alone(b)'
<1>1. \A r, s \in Requests : req'[r].buyer = b /\ req'[s].buyer = b => r = s
  BY DEF Alone
<1>2. ASSUME NEW r \in Requests, req'[r].buyer = b
      PROVE  Doing(req'[r], Own(b)', Defaults(b)', Awaited(b)')
  <2>1. req'[r] = req[r] /\ Doing(req[r], Own(b), Defaults(b), Awaited(b))
    BY <1>2 DEF Alone
  <2> QED  BY <2>1 DEF Doing
<1>3. AtMostOne(Defaults(b)')
  BY DEF Alone
<1>4. Own(b)' = {} \/ Defaults(b)' # {} \/ b \in broken'
        \/ \E r \in Requests : req'[r].buyer = b /\ Promoting(req'[r])
  <2>1. ASSUME NEW r \in Requests, req[r].buyer = b, Promoting(req[r])
        PROVE  req'[r].buyer = b /\ Promoting(req'[r])
    BY <2>1
  <2> QED  BY <2>1 DEF Alone
<1> QED  BY <1>1, <1>2, <1>3, <1>4 DEF Alone, Doing, AtMostOne, Promoting

\* ... and so does a step of its only request, which goes on as q.
LEMMA OnlyRequest ==
  ASSUME NEW b \in Buyers, NEW r \in Requests, NEW q,
         \A s \in Requests : req'[s] = IF s = r THEN q ELSE req[s],
         \A s \in Requests : s # r => req[s].buyer # b,
         Doing(q, Own(b)', Defaults(b)', Awaited(b)'), AtMostOne(Defaults(b)'),
         Own(b)' = {} \/ Defaults(b)' # {} \/ b \in broken'
           \/ (q.buyer = b /\ Promoting(q))
  PROVE  Alone(b)'
<1>1. \A s, t \in Requests : req'[s].buyer = b /\ req'[t].buyer = b => s = t
  OBVIOUS
<1>2. \A s \in Requests : req'[s].buyer = b =>
        Doing(req'[s], Own(b)', Defaults(b)', Awaited(b)')
  OBVIOUS
<1>3. Own(b)' = {} \/ Defaults(b)' # {} \/ b \in broken'
        \/ \E s \in Requests : req'[s].buyer = b /\ Promoting(req'[s])
  OBVIOUS
<1> QED  BY <1>1, <1>2, <1>3 DEF Alone, Doing, AtMostOne, Promoting

\* What a request of c may do to the tables: others keep what is theirs.
Yours(rw, c) == rw.state = "live" => rw.buyer = c

OwnTables(c) ==
    /\ \A x \in Addresses : row'[x] = row[x] \/ (Yours(row[x], c) /\ Yours(row'[x], c))
    /\ \A o \in Orders : \/ order'[o] = order[o]
                         \/ order'[o].buyer = c
                         \/ order'[o].dest = None

LEMMA OthersAlone ==
  ASSUME NEW b \in Buyers, NEW c, b # c, OwnTables(c)
  PROVE  Own(b)' = Own(b) /\ Defaults(b)' = Defaults(b) /\ Awaited(b)' \subseteq Awaited(b)
<1>1. \A x \in Addresses : x \in Own(b)' <=> x \in Own(b)
  BY DEF OwnTables, Yours, Own, Live
<1>2. \A x \in Addresses : x \in Defaults(b)' <=> x \in Defaults(b)
  BY DEF OwnTables, Yours, Defaults, Own, Live
<1>3. Own(b)' = Own(b)
  BY <1>1 DEF Own
<1>4. Defaults(b)' = Defaults(b)
  BY <1>2 DEF Defaults, Own
<1>5. ASSUME NEW a \in Awaited(b)'
      PROVE  a \in Awaited(b)
  <2>1. PICK o \in Orders : order'[o].buyer = b /\ order'[o].dest = a /\ ~order'[o].reopened
                           /\ order'[o].status \in Pending
    BY <1>5 DEF Awaited
  <2>2. a \in Addresses /\ a # None
    BY <1>5, AddressesAssumption DEF Awaited
  <2>3. order'[o] = order[o]
    BY <2>1, <2>2 DEF OwnTables
  <2> QED  BY <2>1, <2>2, <2>3 DEF Awaited
<1> QED  BY <1>3, <1>4, <1>5

\* A step of a request of c: only what c has read has to be looked at.
LEMMA RequestSteady ==
  ASSUME Inv, Steady, NEW r \in Requests, NEW c \in Buyers, req[r].buyer = c,
         NEW q \in Request, req' = [req EXCEPT ![r] = q],
         q = Idle \/ (q.buyer = c /\ q.pc # "idle"), rushed' = rushed, broken \subseteq broken',
         OwnTables(c),
         c \notin rushed =>
           /\ Doing(q, Own(c)', Defaults(c)', Awaited(c)')
           /\ AtMostOne(Defaults(c)')
           /\ Own(c)' = {} \/ Defaults(c)' # {} \/ c \in broken' \/ Promoting(q)
  PROVE  Steady'
<1>1. \A s \in Requests : req'[s] = IF s = r THEN q ELSE req[s]
  BY Types
<1>2. \A s \in Requests : req'[s].pc = "idle" => req'[s].buyer = None
  BY <1>1 DEF Steady, Idle
<1>3. Idle.buyer = None /\ ~Promoting(Idle) /\ None \notin Buyers
  BY AddressesAssumption DEF Idle, Promoting
<1>4. ASSUME NEW b \in Buyers \ rushed
      PROVE  Alone(b)'
  <2>1. Alone(b)
    BY DEF Steady
  <2>2. CASE b = c
    <3>1. \A s \in Requests : s # r => req[s].buyer # b
      BY <2>1, <2>2 DEF Alone
    <3>2. /\ Doing(q, Own(b)', Defaults(b)', Awaited(b)')
          /\ AtMostOne(Defaults(b)')
          /\ Own(b)' = {} \/ Defaults(b)' # {} \/ b \in broken' \/ Promoting(q)
      BY <2>2
    <3>3. \A s \in Requests : req'[s] = IF s = r THEN q ELSE req[s]
      BY <1>1
    <3>4. Doing(q, Own(b)', Defaults(b)', Awaited(b)') /\ AtMostOne(Defaults(b)')
      BY <3>2
    <3>5. Own(b)' = {} \/ Defaults(b)' # {} \/ b \in broken'
            \/ (q.buyer = b /\ Promoting(q))
      BY <3>2, <1>3, <2>2
    <3> QED  BY <3>1, <3>3, <3>4, <3>5, OnlyRequest
  <2>3. CASE b # c
    <3>1. \A s \in Requests : req[s].buyer = b \/ req'[s].buyer = b => req'[s] = req[s]
      BY <1>1, <1>3, <2>3
    <3> QED  BY <2>1, <2>3, <3>1, OthersAlone, AloneStays
  <2> QED  BY <2>2, <2>3
<1> QED  BY <1>2, <1>4 DEF Steady

\* A first statement: its buyer has no other request, or is rushed from now on.
LEMMA BeginSteady ==
  ASSUME Inv, Steady, NEW r \in Requests, NEW b \in Buyers, NEW q \in Request, NEW s,
         Begin(r, b, s), q = [s EXCEPT !.buyer = b], q.buyer = b, q.pc # "idle",
         UNCHANGED <<row, order>>, Doing(q, Own(b), Defaults(b), Awaited(b))
  PROVE  Steady'
<1>1. \A t \in Requests : req'[t] = IF t = r THEN q ELSE req[t]
  BY Types DEF Begin
<1>2. req[r].buyer = None /\ None \notin Buyers
  BY AddressesAssumption DEF Begin, Steady
<1>3. \A t \in Requests : req'[t].pc = "idle" => req'[t].buyer = None
  BY <1>1 DEF Steady
<1>4. rushed \subseteq rushed' /\ (Busy(b) => b \in rushed') /\ broken' = broken
  BY DEF Begin
<1>5. \A c \in Buyers : Own(c)' = Own(c) /\ Defaults(c)' = Defaults(c)
                        /\ Awaited(c)' = Awaited(c)
  BY DEF Own, Live, Defaults, Awaited
<1>6. ASSUME NEW c \in Buyers \ rushed'
      PROVE  Alone(c)'
  <2>1. Alone(c)
    BY <1>4 DEF Steady
  <2>2. CASE c = b
    <3>1. \A t \in Requests : req[t].buyer # c
      BY <1>4, <2>2 DEF Busy
    <3>2. /\ Doing(q, Own(c)', Defaults(c)', Awaited(c)')
          /\ AtMostOne(Defaults(c)')
      BY <1>5, <2>1, <2>2 DEF Alone
    <3>3. Own(c)' = {} \/ Defaults(c)' # {} \/ c \in broken'
            \/ (q.buyer = c /\ Promoting(q))
      BY <1>4, <1>5, <2>1, <3>1 DEF Alone
    <3>4. \A t \in Requests : t # r => req[t].buyer # c
      BY <3>1
    <3>5. c \in Buyers
      OBVIOUS
    <3>6. \A t \in Requests : req'[t] = IF t = r THEN q ELSE req[t]
      BY <1>1
    <3> QED  BY ONLY <3>2, <3>3, <3>4, <3>5, <3>6, OnlyRequest
  <2>3. CASE c # b
    <3>1. \A t \in Requests : req[t].buyer = c \/ req'[t].buyer = c => req'[t] = req[t]
      BY <1>1, <1>2, <2>3
    <3> QED  BY <1>4, <1>5, <2>1, <3>1, AloneStays
  <2> QED  BY <2>2, <2>3
<1> QED  BY <1>3, <1>6 DEF Steady

LEMMA RoutesSteady ==
  ASSUME Inv, Steady, NEW r \in Requests, NEW b \in Buyers,
         AddressRoutes(r, b) \/ DeliveryRoutes(r, b)
  PROVE  Steady'
<1>1. CASE CreateCount(r, b)
  <2> DEFINE d == Own(b) = {}
             s == [Idle EXCEPT !.pc = "create", !.default = d]
             q == [s EXCEPT !.buyer = b]
  <2>1. d \in BOOLEAN /\ (d <=> Own(b) = {})
    OBVIOUS
  <2>2. Begin(r, b, s) /\ UNCHANGED <<row, order>>
    BY <1>1 DEF CreateCount
  <2> HIDE DEF d
  <2>3. q \in Request /\ q.pc = "create" /\ q.buyer = b /\ q.default = d
    BY <2>1 DEF Idle, Request
  <2>4. q = [s EXCEPT !.buyer = b]
    OBVIOUS
  <2> HIDE DEF q, s
  <2>5. Doing(q, Own(b), Defaults(b), Awaited(b))
    BY <2>1, <2>3 DEF Doing
  <2> QED  BY <2>2, <2>3, <2>4, <2>5, BeginSteady
<1>2. ASSUME NEW a \in Addresses, RemoveFind(r, b, a)
      PROVE  Steady'
  <2> DEFINE d == row[a].default
             s == [Idle EXCEPT !.pc = "count", !.address = a, !.default = d]
             q == [s EXCEPT !.buyer = b]
  <2>1. d \in BOOLEAN
    BY Types DEF Row
  <2>2. Begin(r, b, s) /\ UNCHANGED <<row, order>> /\ a \in Own(b)
    BY <1>2 DEF RemoveFind
  <2>3. d <=> a \in Defaults(b)
    BY <2>2 DEF Defaults
  <2> HIDE DEF d
  <2>4. /\ q \in Request /\ q.pc = "count" /\ q.buyer = b /\ q.address = a
        /\ q.default = d
    BY <2>1 DEF Idle, Request
  <2>5. q = [s EXCEPT !.buyer = b]
    OBVIOUS
  <2> HIDE DEF q, s
  <2>6. Doing(q, Own(b), Defaults(b), Awaited(b))
    BY <2>2, <2>3, <2>4 DEF Doing
  <2> QED  BY <2>2, <2>4, <2>5, <2>6, BeginSteady
<1>3. ASSUME NEW a \in Addresses, SetDefaultFind(r, b, a)
      PROVE  Steady'
  <2> DEFINE s == [Idle EXCEPT !.pc = "snapshot", !.address = a]
             q == [s EXCEPT !.buyer = b]
  <2>1. Begin(r, b, s) /\ UNCHANGED <<row, order>> /\ a \in Own(b)
    BY <1>3 DEF SetDefaultFind
  <2>2. q \in Request /\ q.pc = "snapshot" /\ q.buyer = b /\ q.address = a
    BY DEF Idle, Request
  <2>3. q = [s EXCEPT !.buyer = b]
    OBVIOUS
  <2> HIDE DEF q, s
  <2>4. Doing(q, Own(b), Defaults(b), Awaited(b))
    BY <2>1, <2>2 DEF Doing
  <2> QED  BY <2>1, <2>2, <2>3, <2>4, BeginSteady
<1>4. ASSUME NEW a \in Addresses \cup {None}, CheckoutAddress(r, b, a)
      PROVE  Steady'
  <2> DEFINE s == [Idle EXCEPT !.pc = "place", !.address = a]
             q == [s EXCEPT !.buyer = b]
  <2>1. Begin(r, b, s) /\ UNCHANGED <<row, order>>
    BY <1>4 DEF CheckoutAddress
  <2>2. q \in Request /\ q.pc = "place" /\ q.buyer = b
    BY DEF Idle, Request
  <2>3. q = [s EXCEPT !.buyer = b]
    OBVIOUS
  <2> HIDE DEF q, s
  <2>4. Doing(q, Own(b), Defaults(b), Awaited(b))
    BY <2>2 DEF Doing
  <2> QED  BY <2>1, <2>2, <2>3, <2>4, BeginSteady
<1>5. ASSUME NEW a \in Addresses \cup {None}, NEW o \in Orders, UpsertRead(r, b, o, a)
      PROVE  Steady'
  <2> DEFINE p == IF a = None THEN "edit" ELSE "dest"
             s == [Idle EXCEPT !.pc = p, !.order = o, !.address = a]
             q == [s EXCEPT !.buyer = b]
  <2>1. Begin(r, b, s) /\ UNCHANGED <<row, order>>
    BY <1>5 DEF UpsertRead
  <2>2. p \in {"edit", "dest"}
    OBVIOUS
  <2> HIDE DEF p
  <2>3. q \in Request /\ q.pc = p /\ q.buyer = b
    BY <2>2 DEF Idle, Request
  <2>4. q = [s EXCEPT !.buyer = b]
    OBVIOUS
  <2> HIDE DEF q, s
  <2>5. Doing(q, Own(b), Defaults(b), Awaited(b))
    BY <2>2, <2>3 DEF Doing
  <2> QED  BY <2>1, <2>2, <2>3, <2>4, <2>5, BeginSteady
<1> QED  BY <1>1, <1>2, <1>3, <1>4, <1>5 DEF AddressRoutes, DeliveryRoutes

-----------------------------------------------------------------------------
(* Later statements of a buyer's only request.                             *)

\* What the request of a buyer who has no other one knows.
LEMMA Sole ==
  ASSUME Steady, NEW r \in Requests, NEW c \in Buyers \ rushed, req[r].buyer = c
  PROVE  /\ Doing(req[r], Own(c), Defaults(c), Awaited(c))
         /\ AtMostOne(Defaults(c))
         /\ Own(c) = {} \/ Defaults(c) # {} \/ c \in broken \/ Promoting(req[r])
<1>1. Alone(c)
  BY DEF Steady
<1>2. \A s \in Requests : req[s].buyer = c => s = r
  BY <1>1 DEF Alone
<1> QED  BY <1>1, <1>2 DEF Alone

LEMMA IdleDoes == \A own, defaults, awaited : Doing(Idle, own, defaults, awaited)
BY DEF Idle, Doing

LEMMA Asking ==
  ASSUME Inv, NEW r \in Requests, req[r].pc # "idle"
  PROVE  req[r] \in Request /\ req[r].buyer \in Buyers /\ Knows(req[r], row, order)
BY Types DEF Inv, AllKnow, Knows

\* A statement that writes nothing.
LEMMA GotoSteady ==
  ASSUME Inv, Steady, NEW r \in Requests, NEW c \in Buyers, req[r].buyer = c,
         NEW q \in Request, Goto(r, q), q = Idle \/ (q.buyer = c /\ q.pc # "idle"),
         UNCHANGED <<row, order>>,
         c \notin rushed => Doing(q, Own(c), Defaults(c), Awaited(c)),
         c \notin rushed /\ Promoting(req[r]) => Promoting(q) \/ Own(c) = {}
  PROVE  Steady'
<1>1. OwnTables(c)
  BY DEF OwnTables
<1>2. Own(c)' = Own(c) /\ Defaults(c)' = Defaults(c) /\ Awaited(c)' = Awaited(c)
  BY DEF Own, Live, Defaults, Awaited
<1>3. req' = [req EXCEPT ![r] = q] /\ rushed' = rushed /\ broken' = broken
  BY DEF Goto
<1>4. c \notin rushed =>
        /\ Doing(q, Own(c)', Defaults(c)', Awaited(c)')
        /\ AtMostOne(Defaults(c)')
        /\ Own(c)' = {} \/ Defaults(c)' # {} \/ c \in broken' \/ Promoting(q)
  BY <1>2, <1>3, Sole
<1> QED  BY <1>1, <1>3, <1>4, RequestSteady

LEMMA RemovalReadsSteady ==
  ASSUME Inv, Steady, NEW r \in Requests,
         RemoveCount(r) \/ RemoveLinked(r) \/ RemovePick(r)
  PROVE  Steady'
<1> DEFINE c == req[r].buyer
<1>0. req[r] \in Request /\ c \in Buyers /\ Knows(req[r], row, order)
  BY Asking DEF RemoveCount, RemoveLinked, RemovePick
<1>1. CASE RemoveCount(r)
  <2> DEFINE p == IF Cardinality(Own(c)) = 1 THEN "linked" ELSE "delete"
             q == [req[r] EXCEPT !.pc = p]
  <2>1. p \in {"linked", "delete"}
    OBVIOUS
  <2>2. req[r].pc = "count" /\ Goto(r, q) /\ UNCHANGED <<row, order>>
    BY <1>1 DEF RemoveCount
  <2>3. p = "delete" => Own(c) # {req[r].address}
    BY FS_Singleton
  <2> HIDE DEF p
  <2>4. /\ q \in Request /\ q.pc = p /\ q.buyer = c
        /\ q.address = req[r].address /\ q.default = req[r].default
    BY <1>0, <2>1 DEF Request
  <2> HIDE DEF q, c
  <2>5. c \notin rushed => Doing(q, Own(c), Defaults(c), Awaited(c))
    BY <1>0, <2>1, <2>2, <2>3, <2>4, Sole DEF Doing, c
  <2>6. ~Promoting(req[r]) /\ q.pc # "idle"
    BY <2>1, <2>2, <2>4 DEF Promoting
  <2> QED  BY <1>0, <2>2, <2>4, <2>5, <2>6, GotoSteady DEF c
<1>2. CASE RemoveLinked(r)
  <2>1. req[r].pc = "linked" /\ ~Promoting(req[r]) /\ UNCHANGED <<row, order>>
    BY <1>2 DEF RemoveLinked, Promoting
  <2>2. CASE Goto(r, Idle)
    BY <1>0, <2>1, <2>2, IdleKnows, IdleDoes, GotoSteady
  <2>3. CASE ~LinkedPending(req[r].address, c) /\ Goto(r, [req[r] EXCEPT !.pc = "delete"])
    <3> DEFINE q == [req[r] EXCEPT !.pc = "delete"]
    <3>1. Goto(r, q)
      BY <2>3
    <3>2. /\ q \in Request /\ q.pc = "delete" /\ q.buyer = c
          /\ q.address = req[r].address /\ q.default = req[r].default
      BY <1>0 DEF Request
    <3>3. req[r].address \notin Awaited(c)
      BY <2>3 DEF LinkedPending, Awaited
    <3> HIDE DEF q, c
    <3>4. c \notin rushed => Doing(q, Own(c), Defaults(c), Awaited(c))
      BY <1>0, <2>1, <3>2, <3>3, Sole DEF Doing, c
    <3> QED  BY <1>0, <2>1, <3>1, <3>2, <3>4, GotoSteady DEF c
  <2> QED  BY <1>2, <2>2, <2>3 DEF RemoveLinked
<1>3. CASE RemovePick(r)
  <2>1. req[r].pc = "pick" /\ UNCHANGED <<row, order>>
    BY <1>3 DEF RemovePick
  <2>2. CASE Own(c) = {}
    <3>1. Goto(r, Idle)
      BY <1>3, <2>2 DEF RemovePick
    <3> QED  BY <1>0, <2>1, <2>2, <3>1, IdleKnows, IdleDoes, GotoSteady
  <2>3. CASE Own(c) # {}
    <3>1. PICK a \in Own(c) : Goto(r, [req[r] EXCEPT !.pc = "promote", !.address = a])
      BY <1>3, <2>3 DEF RemovePick
    <3> DEFINE q == [req[r] EXCEPT !.pc = "promote", !.address = a]
    <3>2. Goto(r, q)
      BY <3>1
    <3>3. q \in Request /\ q.pc = "promote" /\ q.buyer = c /\ q.address = a
      BY <1>0, <3>1 DEF Request, Own
    <3> HIDE DEF q, c
    <3>4. c \notin rushed => Doing(q, Own(c), Defaults(c), Awaited(c))
      BY <1>0, <2>1, <3>1, <3>3, Sole DEF Doing, c
    <3>5. Promoting(q) /\ q.pc # "idle"
      BY <3>3 DEF Promoting
    <3> QED  BY <1>0, <2>1, <3>2, <3>3, <3>4, <3>5, GotoSteady DEF c
  <2> QED  BY <2>2, <2>3
<1> QED  BY <1>1, <1>2, <1>3

LEMMA DefaultReadsSteady ==
  ASSUME Inv, Steady, NEW r \in Requests, DefaultSnapshot(r) \/ DefaultClear(r)
  PROVE  Steady'
<1> DEFINE c == req[r].buyer
<1>0. req[r] \in Request /\ c \in Buyers /\ Knows(req[r], row, order)
  BY Asking DEF DefaultSnapshot, DefaultClear
<1>1. CASE DefaultSnapshot(r)
  <2> DEFINE rows == Defaults(c)
             q == [req[r] EXCEPT !.pc = "clear", !.rows = rows]
  <2>1. req[r].pc = "snapshot" /\ Goto(r, q) /\ UNCHANGED <<row, order>>
    BY <1>1 DEF DefaultSnapshot
  <2>2. rows \subseteq Addresses /\ rows = Defaults(c)
    BY DEF Defaults, Own
  <2> HIDE DEF rows
  <2>3. /\ q \in Request /\ q.pc = "clear" /\ q.buyer = c
        /\ q.address = req[r].address /\ q.rows = rows
    BY <1>0, <2>2 DEF Request
  <2> HIDE DEF q, c
  <2>4. c \notin rushed => Doing(q, Own(c), Defaults(c), Awaited(c))
    BY <1>0, <2>1, <2>2, <2>3, Sole DEF Doing, c
  <2>5. ~Promoting(req[r]) /\ q.pc # "idle"
    BY <2>1, <2>3 DEF Promoting
  <2> QED  BY <1>0, <2>1, <2>3, <2>4, <2>5, GotoSteady DEF c
<1>2. CASE DefaultClear(r)
  <2> DEFINE rows == {a \in req[r].rows : Live(a) /\ row[a].default}
             q == [req[r] EXCEPT !.pc = "set", !.rows = rows]
  <2>1. req[r].pc = "clear" /\ Goto(r, q) /\ UNCHANGED <<row, order>>
    BY <1>2 DEF DefaultClear
  <2>2. rows \subseteq req[r].rows /\ (req[r].rows = Defaults(c) => rows = Defaults(c))
    BY DEF Defaults, Own
  <2> HIDE DEF rows
  <2>3. /\ q \in Request /\ q.pc = "set" /\ q.buyer = c
        /\ q.address = req[r].address /\ q.rows = rows
    BY <1>0, <2>2 DEF Request
  <2> HIDE DEF q, c
  <2>4. c \notin rushed => Doing(q, Own(c), Defaults(c), Awaited(c))
    BY <1>0, <2>1, <2>2, <2>3, Sole DEF Doing, c
  <2>5. ~Promoting(req[r]) /\ q.pc # "idle"
    BY <2>1, <2>3 DEF Promoting
  <2> QED  BY <1>0, <2>1, <2>3, <2>4, <2>5, GotoSteady DEF c
<1> QED  BY <1>1, <1>2

\* A statement on the table of addresses.
LEMMA RowsSteady ==
  ASSUME Inv, Steady, NEW r \in Requests, NEW c \in Buyers, req[r].buyer = c,
         Goto(r, Idle), UNCHANGED order,
         \A x \in Addresses : row'[x] = row[x] \/ (Yours(row[x], c) /\ Yours(row'[x], c)),
         c \notin rushed => AtMostOne(Defaults(c)'),
         c \notin rushed => Own(c)' = {} \/ Defaults(c)' # {} \/ c \in broken
  PROVE  Steady'
<1>1. OwnTables(c)
  BY DEF OwnTables
<1>2. req' = [req EXCEPT ![r] = Idle] /\ rushed' = rushed /\ broken' = broken
  BY DEF Goto
<1>3. c \notin rushed =>
        /\ Doing(Idle, Own(c)', Defaults(c)', Awaited(c)')
        /\ AtMostOne(Defaults(c)')
        /\ Own(c)' = {} \/ Defaults(c)' # {} \/ c \in broken' \/ Promoting(Idle)
  BY <1>2, IdleDoes
<1> QED  BY <1>1, <1>2, <1>3, IdleKnows, RequestSteady

LEMMA CreateWriteSteady ==
  ASSUME Inv, Steady, NEW r \in Requests, NEW c \in Buyers, req[r].buyer = c,
         CreateWrite(r)
  PROVE  Steady'
<1> DEFINE d == req[r].default
           new == [buyer |-> c, state |-> "live", default |-> d]
<1>0. /\ req[r] \in Request /\ req[r].pc = "create"
      /\ Goto(r, Idle) /\ UNCHANGED order
  BY Asking DEF CreateWrite
<1>1. PICK a \in Addresses : row[a].state = "new" /\ row' = [row EXCEPT ![a] = new]
  BY DEF CreateWrite
<1>2. new.state = "live" /\ new.buyer = c /\ new.default = d /\ d \in BOOLEAN
  BY <1>0 DEF Request
<1> HIDE DEF new, d
<1>3. /\ row'[a].state = "live" /\ row'[a].buyer = c /\ row'[a].default = d
      /\ \A x \in Addresses : x # a => row'[x] = row[x]
  BY <1>1, <1>2, Types
<1>4. \A x \in Addresses : row'[x] = row[x] \/ (Yours(row[x], c) /\ Yours(row'[x], c))
  BY <1>1, <1>3 DEF Yours
<1>5. Own(c)' = Own(c) \cup {a}
  BY <1>1, <1>3 DEF Own, Live
<1>6. Defaults(c)' = IF d THEN Defaults(c) \cup {a} ELSE Defaults(c)
  BY <1>1, <1>2, <1>3 DEF Defaults, Own, Live
<1>7. Defaults(c) \subseteq Own(c)
  BY DEF Defaults
<1>8. c \notin rushed =>
        /\ d <=> Own(c) = {}
        /\ AtMostOne(Defaults(c))
        /\ Own(c) = {} \/ Defaults(c) # {} \/ c \in broken
  BY <1>0, Sole DEF Doing, Promoting, d
<1>9. c \notin rushed => AtMostOne(Defaults(c)')
  BY <1>6, <1>7, <1>8 DEF AtMostOne
<1>10. c \notin rushed => Own(c)' = {} \/ Defaults(c)' # {} \/ c \in broken
  BY <1>6, <1>8
<1> QED  BY <1>0, <1>4, <1>9, <1>10, RowsSteady

LEMMA RemovePromoteSteady ==
  ASSUME Inv, Steady, NEW r \in Requests, NEW c \in Buyers, req[r].buyer = c,
         RemovePromote(r)
  PROVE  Steady'
<1> DEFINE a == req[r].address
<1>0. /\ req[r].pc = "promote" /\ Goto(r, Idle) /\ UNCHANGED order
      /\ row' = IF Live(a) THEN [row EXCEPT ![a] = [row[a] EXCEPT !.default = TRUE]]
                ELSE row
  BY DEF RemovePromote
<1>1. a \in Addresses /\ Known(a, c, row)
  BY <1>0, Asking, AddressesAssumption DEF Knows
<1>2. c \notin rushed => Defaults(c) = {} /\ a \in Own(c)
  BY <1>0, <1>1, Sole DEF Doing
<1> HIDE DEF a
<1>3. CASE ~Live(a)
  <2>1. row' = row /\ c \in rushed
    BY <1>0, <1>2, <1>3 DEF Own
  <2> QED  BY <1>0, <1>1, <2>1, RowsSteady
<1>4. CASE Live(a)
  <2>1. /\ row'[a].state = "live" /\ row'[a].buyer = c /\ row'[a].default
        /\ \A x \in Addresses : x # a => row'[x] = row[x]
    BY <1>0, <1>1, <1>4, Types DEF Live, Known, Row
  <2>2. \A x \in Addresses : row'[x] = row[x] \/ (Yours(row[x], c) /\ Yours(row'[x], c))
    BY <1>1, <1>4, <2>1 DEF Yours, Known, Live
  <2>3. c \notin rushed => Defaults(c)' = {a}
    BY <1>1, <1>2, <2>1 DEF Defaults, Own, Live
  <2>4. c \notin rushed => AtMostOne(Defaults(c)') /\ Defaults(c)' # {}
    BY <2>3 DEF AtMostOne
  <2> QED  BY <1>0, <1>1, <2>2, <2>4, RowsSteady
<1> QED  BY <1>3, <1>4

LEMMA DefaultSetSteady ==
  ASSUME Inv, Steady, NEW r \in Requests, NEW c \in Buyers, req[r].buyer = c,
         DefaultSet(r)
  PROVE  Steady'
<1> DEFINE a == req[r].address
           rows == req[r].rows
<1>0. /\ req[r].pc = "set" /\ Goto(r, Idle) /\ UNCHANGED order
      /\ row' = IF ~Live(a) THEN row
                ELSE [x \in Addresses |->
                       IF x = a THEN [row[x] EXCEPT !.default = TRUE]
                       ELSE IF x \in rows THEN [row[x] EXCEPT !.default = FALSE]
                       ELSE row[x]]
  BY DEF DefaultSet
<1>1. /\ a \in Addresses /\ Known(a, c, row)
      /\ \A x \in rows : Known(x, c, row)
  BY <1>0, Asking, AddressesAssumption DEF Knows
<1>2. c \notin rushed => rows = Defaults(c) /\ a \in Own(c)
  BY <1>0, <1>1, Sole DEF Doing
<1> HIDE DEF a, rows
<1>3. CASE ~Live(a)
  <2>1. row' = row /\ c \in rushed
    BY <1>0, <1>2, <1>3 DEF Own
  <2> QED  BY <1>0, <1>1, <2>1, RowsSteady
<1>4. CASE Live(a)
  <2>1. \A x \in Addresses : row[x] \in Row
    BY Types
  <2>2. row'[a].state = "live" /\ row'[a].buyer = c /\ row'[a].default
    BY <1>0, <1>1, <1>4, <2>1 DEF Live, Known, Row
  <2>3. \A x \in Addresses : x # a /\ x \notin rows => row'[x] = row[x]
    BY <1>0, <1>4
  <2>4. ASSUME NEW x \in Addresses, x \in rows, x # a
        PROVE  row'[x].state = row[x].state /\ row'[x].buyer = row[x].buyer
               /\ ~row'[x].default
    BY <1>0, <1>4, <2>1, <2>4 DEF Row
  <2>5. \A x \in Addresses : row'[x] = row[x] \/ (Yours(row[x], c) /\ Yours(row'[x], c))
    BY <1>1, <1>4, <2>2, <2>3, <2>4 DEF Yours, Known, Live
  <2>6. ASSUME c \notin rushed
        PROVE  Defaults(c)' = {a}
    <3>1. \A x \in Addresses : x \in Defaults(c)' <=> x = a
      BY <1>2, <2>2, <2>3, <2>4, <2>6 DEF Defaults, Own, Live
    <3>2. Defaults(c)' \subseteq Addresses
      BY DEF Defaults, Own
    <3> QED  BY <1>1, <3>1, <3>2
  <2>7. c \notin rushed => AtMostOne(Defaults(c)') /\ Defaults(c)' # {}
    BY <2>6 DEF AtMostOne
  <2> QED  BY <1>0, <1>1, <2>5, <2>7, RowsSteady
<1> QED  BY <1>3, <1>4

LEMMA RemoveDeleteSteady ==
  ASSUME Inv, Steady, NEW r \in Requests, NEW c \in Buyers, req[r].buyer = c,
         RemoveDelete(r)
  PROVE  Steady'
<1> DEFINE a == req[r].address
           gone == [NoRow EXCEPT !.state = "gone"]
           pick == [req[r] EXCEPT !.pc = "pick"]
<1>0. /\ req[r].pc = "delete"
      /\ IF Live(a)
           THEN /\ row' = [row EXCEPT ![a] = gone]
                /\ Unlink(a)
                /\ Goto(r, IF req[r].default THEN pick ELSE Idle)
           ELSE Goto(r, Idle) /\ UNCHANGED <<row, order>>
  BY DEF RemoveDelete
<1>1. /\ req[r] \in Request /\ a \in Addresses /\ Known(a, c, row)
  BY <1>0, Asking, AddressesAssumption DEF Knows
<1>2. c \notin rushed =>
        /\ a \in Own(c)
        /\ req[r].default <=> a \in Defaults(c)
        /\ AtMostOne(Defaults(c))
        /\ Own(c) = {} \/ Defaults(c) # {} \/ c \in broken
  BY <1>0, Sole DEF Doing, Promoting
<1>3. gone.state = "gone" /\ pick \in Request /\ pick.pc = "pick" /\ pick.buyer = c
  BY <1>1 DEF NoRow, Request
<1> HIDE DEF a, gone, pick
<1>4. CASE ~Live(a)
  <2>1. /\ Goto(r, Idle) /\ UNCHANGED <<row, order>>
        /\ ~Promoting(req[r])
    BY <1>0, <1>4 DEF Promoting
  <2> QED  BY <2>1, IdleKnows, IdleDoes, GotoSteady
<1>5. CASE Live(a)
  <2> DEFINE q == IF req[r].default THEN pick ELSE Idle
  <2>1. row'[a].state = "gone" /\ \A x \in Addresses : x # a => row'[x] = row[x]
    BY <1>0, <1>1, <1>3, <1>5, Types
  <2>2. /\ req' = [req EXCEPT ![r] = q] /\ rushed' = rushed /\ broken' = broken
    BY <1>0, <1>5 DEF Goto
  <2>3. \A o \in Orders : order'[o] = order[o] \/ order'[o].dest = None
    <3>1. ASSUME NEW o \in Orders
          PROVE  order'[o] = order[o] \/ order'[o].dest = None
      <4>1. order[o] \in Order
        BY Types
      <4>2. order'[o] = order[o] \/ order'[o] = [order[o] EXCEPT !.dest = None]
        BY <1>0, <1>5 DEF Unlink
      <4> QED  BY <4>1, <4>2 DEF Order
    <3> QED  BY <3>1
  <2>4. OwnTables(c)
    BY <1>1, <1>5, <2>1, <2>3 DEF OwnTables, Yours, Known, Live
  <2>5. Own(c)' = Own(c) \ {a}
    BY <1>1, <1>5, <2>1 DEF Own, Live
  <2>6. Defaults(c)' = Defaults(c) \ {a}
    BY <1>1, <1>5, <2>1 DEF Defaults, Own, Live
  <2>7. q \in Request /\ (q = Idle \/ (q.buyer = c /\ q.pc # "idle"))
    BY <1>3, IdleKnows
  <2>8. ASSUME c \notin rushed
        PROVE  /\ Doing(q, Own(c)', Defaults(c)', Awaited(c)')
               /\ AtMostOne(Defaults(c)')
               /\ Own(c)' = {} \/ Defaults(c)' # {} \/ c \in broken' \/ Promoting(q)
    <3>1. CASE req[r].default
      <4>1. q = pick /\ Defaults(c)' = {}
        BY <1>2, <2>6, <2>8, <3>1 DEF AtMostOne
      <4> HIDE DEF q
      <4> QED  BY <1>3, <4>1 DEF Doing, AtMostOne, Promoting
    <3>2. CASE ~req[r].default
      <4>1. q = Idle /\ Defaults(c)' = Defaults(c)
        BY <1>2, <2>6, <2>8, <3>2
      <4> HIDE DEF q
      <4> QED  BY <1>2, <2>2, <2>8, <4>1, IdleDoes
    <3> QED  BY <3>1, <3>2
  <2> HIDE DEF q
  <2> QED  BY <2>2, <2>4, <2>7, <2>8, RequestSteady
<1> QED  BY <1>4, <1>5

\* Statements on orders leave the addresses alone.
LEMMA OrdersSteady ==
  ASSUME Inv, Steady, NEW r \in Requests, NEW c \in Buyers, req[r].buyer = c,
         NEW q \in Request, Goto(r, q),
         q = Idle \/ (q.buyer = c /\ q.pc = "edit"), ~Promoting(req[r]),
         UNCHANGED row,
         \A o \in Orders : order'[o] = order[o] \/ order'[o].buyer = c
  PROVE  Steady'
<1>1. OwnTables(c)
  BY DEF OwnTables
<1>2. Own(c)' = Own(c) /\ Defaults(c)' = Defaults(c)
  BY DEF Own, Live, Defaults
<1>3. req' = [req EXCEPT ![r] = q] /\ rushed' = rushed /\ broken' = broken
  BY DEF Goto
<1>4. Doing(q, Own(c)', Defaults(c)', Awaited(c)') /\ (q = Idle \/ (q.buyer = c /\ q.pc # "idle"))
  BY IdleDoes DEF Doing
<1>5. c \notin rushed =>
        /\ Doing(q, Own(c)', Defaults(c)', Awaited(c)')
        /\ AtMostOne(Defaults(c)')
        /\ Own(c)' = {} \/ Defaults(c)' # {} \/ c \in broken' \/ Promoting(q)
  BY <1>2, <1>3, <1>4, Sole
<1> QED  BY <1>1, <1>3, <1>4, <1>5, RequestSteady

LEMMA DeliveriesSteady ==
  ASSUME Inv, Steady, NEW r \in Requests, NEW c \in Buyers, req[r].buyer = c,
         CheckoutPlace(r) \/ UpsertAddress(r) \/ UpsertWrite(r)
  PROVE  Steady'
<1>0. req[r] \in Request /\ Knows(req[r], row, order) /\ ~Promoting(req[r])
  BY Asking DEF CheckoutPlace, UpsertAddress, UpsertWrite, Promoting
<1>1. CASE CheckoutPlace(r)
  <2> DEFINE new == [NoOrder EXCEPT !.buyer = c, !.dest = req[r].address]
  <2>1. Goto(r, Idle) /\ UNCHANGED row
        /\ (order' = order \/ \E o \in Orders : order' = [order EXCEPT ![o] = new])
    BY <1>1 DEF CheckoutPlace
  <2>2. new.buyer = c
    BY DEF NoOrder
  <2> HIDE DEF new
  <2>3. \A o \in Orders : order'[o] = order[o] \/ order'[o].buyer = c
    BY <2>1, <2>2, Types
  <2> QED  BY <1>0, <2>1, <2>3, IdleKnows, OrdersSteady
<1>2. CASE UpsertAddress(r)
  <2>1. req[r].pc = "dest" /\ UNCHANGED <<row, order>>
    BY <1>2 DEF UpsertAddress
  <2>2. CASE Goto(r, Idle)
    BY <1>0, <2>1, <2>2, IdleKnows, OrdersSteady
  <2>3. CASE Goto(r, [req[r] EXCEPT !.pc = "edit"])
    <3> DEFINE q == [req[r] EXCEPT !.pc = "edit"]
    <3>1. Goto(r, q)
      BY <2>3
    <3>2. q \in Request /\ q.buyer = c /\ q.pc = "edit"
      BY <1>0 DEF Request
    <3> HIDE DEF q
    <3> QED  BY <1>0, <2>1, <3>1, <3>2, OrdersSteady
  <2> QED  BY <1>2, <2>2, <2>3 DEF UpsertAddress
<1>3. CASE UpsertWrite(r)
  <2> DEFINE o == req[r].order
             w == [order[o] EXCEPT !.dest = req[r].address]
  <2>1. /\ Goto(r, Idle) /\ UNCHANGED row
        /\ (order' = order \/ order' = [order EXCEPT ![o] = w])
    BY <1>3 DEF UpsertWrite
  <2>2. o \in Orders /\ order[o].buyer = c
    BY <1>0, <1>3 DEF UpsertWrite, Knows
  <2>3. w.buyer = c
    BY <2>2, Types DEF Order
  <2> HIDE DEF w, o
  <2>4. \A x \in Orders : order'[x] = order[x] \/ order'[x].buyer = c
    BY <2>1, <2>2, <2>3, Types
  <2> QED  BY <1>0, <2>1, <2>4, IdleKnows, OrdersSteady
<1> QED  BY <1>1, <1>2, <1>3

LEMMA DieSteady ==
  ASSUME Inv, Steady, NEW r \in Requests, NEW c \in Buyers, req[r].buyer = c, Die(r)
  PROVE  Steady'
<1>1. /\ UNCHANGED <<row, order>> /\ req' = [req EXCEPT ![r] = Idle]
      /\ rushed' = rushed /\ broken \subseteq broken'
      /\ Promoting(req[r]) => c \in broken'
  BY DEF Die, Promoting
<1>2. OwnTables(c)
  BY <1>1 DEF OwnTables
<1>3. Own(c)' = Own(c) /\ Defaults(c)' = Defaults(c)
  BY <1>1 DEF Own, Live, Defaults
<1>4. c \notin rushed =>
        /\ Doing(Idle, Own(c)', Defaults(c)', Awaited(c)')
        /\ AtMostOne(Defaults(c)')
        /\ Own(c)' = {} \/ Defaults(c)' # {} \/ c \in broken' \/ Promoting(Idle)
  BY <1>1, <1>3, Sole, IdleDoes
<1> QED  BY <1>1, <1>2, <1>4, IdleKnows, RequestSteady

\* A status is written: no more orders are awaited than before.
LEMMA StatusesSteady ==
  ASSUME Inv, Steady, NEW o \in Orders,
         \/ \E s \in OrderMoves : OrderStatusWrite(o, s)
         \/ \E s \in DeliveryMoves : DeliveryStatusWrite(o, s)
  PROVE  Steady'
<1>1. UNCHANGED <<row, req, rushed, broken>>
  BY DEF OrderStatusWrite, DeliveryStatusWrite
<1>2. order[o] \in Order /\ \A x \in Orders : x # o => order'[x] = order[x]
  BY Types DEF OrderStatusWrite, DeliveryStatusWrite
<1>3. /\ order'[o].buyer = order[o].buyer /\ order'[o].dest = order[o].dest
      /\ ~order'[o].reopened /\ order'[o].status \in Pending
           => ~order[o].reopened /\ order[o].status \in Pending
  <2>1. CASE \E s \in OrderMoves : OrderStatusWrite(o, s)
    <3>1. PICK s \in OrderMoves : OrderStatusWrite(o, s)
      BY <2>1
    <3> DEFINE t == order[o].reopened \/ order[o].status \notin Pending
               w == [order[o] EXCEPT !.status = s, !.reopened = t]
    <3>2. order' = [order EXCEPT ![o] = w]
      BY <3>1 DEF OrderStatusWrite
    <3>3. t \in BOOLEAN
      BY <1>2 DEF Order
    <3>4. t <=> order[o].reopened \/ order[o].status \notin Pending
      OBVIOUS
    <3> HIDE DEF t
    <3>5. w.buyer = order[o].buyer /\ w.dest = order[o].dest /\ w.reopened = t
      BY <1>2, <3>3 DEF Order
    <3> HIDE DEF w
    <3>6. order'[o] = w
      BY <3>2, Types
    <3> QED  BY <3>4, <3>5, <3>6
  <2>2. CASE \E s \in DeliveryMoves : DeliveryStatusWrite(o, s)
    <3>1. PICK s \in DeliveryMoves : DeliveryStatusWrite(o, s)
      BY <2>2
    <3>2. order'[o] = [order[o] EXCEPT !.dstatus = s]
      BY <3>1, Types DEF DeliveryStatusWrite
    <3> QED  BY <1>2, <3>2 DEF Order
  <2> QED  BY <2>1, <2>2
<1>4. ASSUME NEW b \in Buyers \ rushed
      PROVE  Alone(b)'
  <2>1. Alone(b)
    BY DEF Steady
  <2>2. Own(b)' = Own(b) /\ Defaults(b)' = Defaults(b)
    BY <1>1 DEF Own, Live, Defaults
  <2>3. Awaited(b)' \subseteq Awaited(b)
    BY <1>2, <1>3 DEF Awaited
  <2> QED  BY <1>1, <2>1, <2>2, <2>3, AloneStays
<1> QED  BY <1>1, <1>4 DEF Steady

LEMMA InitSteady == Init => Steady
<1> SUFFICES ASSUME Init PROVE Steady
  OBVIOUS
<1>1. \A r \in Requests : req[r].buyer = None
  BY DEF Init, Idle
<1>2. ASSUME NEW b \in Buyers
      PROVE  Alone(b)
  <2>1. \A r \in Requests : req[r].buyer # b
    BY <1>1, AddressesAssumption
  <2>2. Own(b) = {} /\ Defaults(b) = {}
    BY DEF Init, NoRow, Own, Live, Defaults
  <2> QED  BY <2>1, <2>2 DEF Alone, AtMostOne
<1> QED  BY <1>1, <1>2 DEF Steady

LEMMA NextSteady == Inv /\ Steady /\ [Next]_vars => Steady'
<1> SUFFICES ASSUME Inv, Steady, [Next]_vars PROVE Steady'
  OBVIOUS
<1>1. CASE \E r \in Requests, b \in Buyers : AddressRoutes(r, b) \/ DeliveryRoutes(r, b)
  BY <1>1, RoutesSteady
<1>2. ASSUME NEW r \in Requests,
             \/ CreateWrite(r)
             \/ RemoveCount(r) \/ RemoveLinked(r) \/ RemoveDelete(r)
             \/ RemovePick(r) \/ RemovePromote(r)
             \/ DefaultSnapshot(r) \/ DefaultClear(r) \/ DefaultSet(r)
             \/ CheckoutPlace(r)
             \/ UpsertAddress(r) \/ UpsertWrite(r)
             \/ Die(r)
      PROVE  Steady'
  <2>1. req[r].pc # "idle"
    BY <1>2 DEF CreateWrite, RemoveCount, RemoveLinked, RemoveDelete, RemovePick,
         RemovePromote, DefaultSnapshot, DefaultClear, DefaultSet, CheckoutPlace,
         UpsertAddress, UpsertWrite, Die
  <2>2. PICK c \in Buyers : req[r].buyer = c
    BY <2>1, Asking
  <2> QED  BY <1>2, <2>2, CreateWriteSteady, RemovalReadsSteady, RemoveDeleteSteady,
              RemovePromoteSteady, DefaultReadsSteady, DefaultSetSteady,
              DeliveriesSteady, DieSteady
<1>3. CASE \E o \in Orders : \/ \E s \in OrderMoves : OrderStatusWrite(o, s)
                           \/ \E s \in DeliveryMoves : DeliveryStatusWrite(o, s)
  BY <1>3, StatusesSteady
<1>4. CASE UNCHANGED vars
  <2>1. \A b \in Buyers : Own(b)' = Own(b) /\ Defaults(b)' = Defaults(b)
                          /\ Awaited(b)' = Awaited(b)
    BY <1>4 DEF vars, Own, Live, Defaults, Awaited
  <2>2. ASSUME NEW b \in Buyers \ rushed
        PROVE  Alone(b)'
    BY <1>4, <2>1, AloneStays DEF vars, Steady
  <2> QED  BY <1>4, <2>2 DEF vars, Steady
<1> QED  BY <1>1, <1>2, <1>3, <1>4 DEF Next

LEMMA SpecSteady == Spec => [](Inv /\ Steady)
<1> QED  BY InitInv, NextInv, InitSteady, NextSteady, PTL DEF Spec

LEMMA AtMostOneSize ==
  ASSUME NEW S, AtMostOne(S)
  PROVE  Cardinality(S) <= 1
<1>1. CASE S = {}
  BY <1>1, FS_EmptySet
<1>2. CASE S # {}
  <2>1. PICK x \in S : S = {x}
    BY <1>2 DEF AtMostOne
  <2>2. Cardinality({x}) = 1
    BY FS_Singleton
  <2> QED  BY <2>1, <2>2
<1> QED  BY <1>1, <1>2

\* A buyer who sends one request after the other has at most one default
\* address, and one while there are addresses, whatever the other buyers, the
\* checkouts and the administrators do meanwhile: what the request has read of
\* its addresses is still so when it writes (addresses.service.ts:79-208).
THEOREM OneDefaultEach == Spec => []OneDefault
<1>1. Inv /\ Steady => OneDefault
  <2> SUFFICES ASSUME Inv, Steady, NEW b \in Buyers \ rushed
               PROVE  /\ Cardinality(Defaults(b)) <= 1
                      /\ b \notin broken /\ ~Busy(b) /\ Own(b) # {} => Defaults(b) # {}
    BY DEF OneDefault
  <2>1. Alone(b)
    BY DEF Steady
  <2>2. Cardinality(Defaults(b)) <= 1
    BY <2>1, AtMostOneSize DEF Alone
  <2>3. b \notin broken /\ ~Busy(b) /\ Own(b) # {} => Defaults(b) # {}
    BY <2>1 DEF Alone, Busy
  <2> QED  BY <2>2, <2>3
<1> QED  BY <1>1, SpecSteady, PTL

\* Rows disappear by a removal only.
LEMMA GoneByRemoval ==
  ASSUME Inv, [Next]_vars, NEW a \in Addresses, Live(a), row'[a].state = "gone"
  PROVE  \E r \in Requests : /\ req[r].pc = "delete"
                             /\ req[r].address = a
                             /\ req[r].buyer = row[a].buyer
<1>1. \E r \in Requests : \/ CreateWrite(r) \/ RemoveDelete(r)
                          \/ RemovePromote(r) \/ DefaultSet(r)
  <2>1. row' # row
    BY DEF Live
  <2> QED  BY <2>1 DEF Next, vars, AddressRoutes, DeliveryRoutes, CreateCount, RemoveFind,
         SetDefaultFind, CheckoutAddress, UpsertRead, RemoveCount, RemoveLinked,
         RemovePick, DefaultSnapshot, DefaultClear, CheckoutPlace, UpsertAddress,
         UpsertWrite, Die, OrderStatusWrite, DeliveryStatusWrite
<1>2. PICK r \in Requests : \/ CreateWrite(r) \/ RemoveDelete(r)
                            \/ RemovePromote(r) \/ DefaultSet(r)
  BY <1>1
<1>3. row[a].state = "live" /\ row[a] \in Row
  BY Types DEF Live
<1>4. ~CreateWrite(r)
  BY <1>3, Types DEF CreateWrite
<1>5. ~RemovePromote(r)
  BY <1>3, Types DEF RemovePromote, Row
<1>6. ~DefaultSet(r)
  <2> SUFFICES ASSUME DefaultSet(r) PROVE FALSE
    OBVIOUS
  <2>1. \/ row'[a] = row[a]
        \/ row'[a] = [row[a] EXCEPT !.default = TRUE]
        \/ row'[a] = [row[a] EXCEPT !.default = FALSE]
    BY DEF DefaultSet
  <2> QED  BY <1>3, <2>1 DEF Row
<1>7. RemoveDelete(r)
  BY <1>2, <1>4, <1>5, <1>6
<1>8. req[r].pc = "delete" /\ req[r].address = a
  BY <1>3, <1>7, Types DEF RemoveDelete
<1>9. Known(a, req[r].buyer, row)
  BY <1>8, AddressesAssumption DEF Inv, AllKnow, Knows
<1> QED  BY <1>3, <1>8, <1>9 DEF Known

\* The only address of a buyer who sends one request after the other is not
\* deleted while an order that was pending all along goes there: between the
\* look at the pending orders and the deletion no request of the buyer can
\* bring another one, and the others only end orders
\* (addresses.service.ts:144-175).
THEOREM LastAddressIsKept == Spec => LastAddressKept
<1> DEFINE Kept ==
      \A b \in Buyers \ rushed, a \in Addresses, o \in Orders :
         Own(b) = {a} /\ row'[a].state = "gone"
           /\ order[o].buyer = b /\ order[o].dest = a /\ ~order[o].reopened
         => order[o].status \notin Pending
<1>1. Inv /\ Steady /\ [Next]_vars => Kept
  <2> SUFFICES ASSUME Inv, Steady, [Next]_vars,
                      NEW b \in Buyers \ rushed, NEW a \in Addresses, NEW o \in Orders,
                      Own(b) = {a}, row'[a].state = "gone",
                      order[o].buyer = b, order[o].dest = a, ~order[o].reopened
               PROVE  order[o].status \notin Pending
    OBVIOUS
  <2>1. Live(a) /\ row[a].buyer = b
    BY DEF Own
  <2>2. PICK r \in Requests : req[r].pc = "delete" /\ req[r].address = a /\ req[r].buyer = b
    BY <2>1, GoneByRemoval
  <2>3. Doing(req[r], Own(b), Defaults(b), Awaited(b))
    BY <2>2, Sole
  <2>4. a \notin Awaited(b)
    BY <2>2, <2>3 DEF Doing
  <2> QED  BY <2>4 DEF Awaited
<1>2. Inv /\ Steady /\ [Next]_vars => [Kept]_vars
  BY <1>1
<1> QED  BY <1>2, SpecSteady, PTL DEF Spec, LastAddressKept

=============================================================================
