------------------------------ MODULE Addresses ------------------------------
(***************************************************************************)
(* Addresses of buyers and the deliveries that go to them:                 *)
(* addresses.service.ts, the address part of checkout.service.ts and       *)
(* upsertDelivery of orders.service.ts.                                    *)
(*                                                                         *)
(* A step is one statement on the database.  Only setDefault uses a        *)
(* transaction: two statements under READ COMMITTED, that is, the first    *)
(* one finds its rows in a snapshot, waits for the row locks and then      *)
(* drops the rows that do not match any more, but looks for no new ones.   *)
(* What an address says (its neighbourhood and fee) is in Fees.tla.        *)
(***************************************************************************)
EXTENDS Naturals, FiniteSets

CONSTANTS
    Buyers,
    Addresses,      \* ids: random, never used twice
    Orders,
    Requests,       \* requests of buyers served at one time
    OrderMoves,     \* statuses that orders are given after the checkout
    DeliveryMoves,  \* statuses that deliveries are given
    None

OrderStatus == {"AWAITING_PAYMENT", "PAID", "PREPARING", "SHIPPING",
                "COMPLETED", "CANCELLED"}
DeliveryStatus == {"SCHEDULED", "ON_THE_WAY", "DELIVERED", "FAILED", "CANCELLED"}

ASSUME AddressesAssumption ==
    /\ None \notin Buyers \cup Addresses \cup Orders
    /\ OrderMoves \subseteq OrderStatus
    /\ DeliveryMoves \subseteq DeliveryStatus

VARIABLES
    row,       \* the table of addresses
    order,     \* orders, each with its delivery
    req,       \* local variables of the requests
    rushed,    \* history: buyers who had two requests under way at one time
    broken     \* history: buyers whose removal stopped before its last step

vars == <<row, order, req, rushed, broken>>

Row == [buyer: Buyers \cup {None}, default: BOOLEAN, state: {"new", "live", "gone"}]

Order ==
    [buyer: Buyers \cup {None},          \* None: not placed yet
     status: OrderStatus, dstatus: DeliveryStatus,
     dest: Addresses \cup {None},        \* delivery.addressId
     reopened: BOOLEAN]                  \* history: pending again after its end

Request ==
    [pc: {"idle", "create", "count", "linked", "delete", "pick", "promote",
          "snapshot", "clear", "set", "place", "dest", "edit"},
     buyer: Buyers \cup {None}, address: Addresses \cup {None},
     order: Orders \cup {None},
     default: BOOLEAN,                   \* isDefault as read or to be written
     rows: SUBSET Addresses]             \* rows of the first statement

NoRow == [buyer |-> None, default |-> FALSE, state |-> "new"]
NoOrder == [buyer |-> None, status |-> "AWAITING_PAYMENT", dstatus |-> "SCHEDULED",
            dest |-> None, reopened |-> FALSE]
Idle == [pc |-> "idle", buyer |-> None, address |-> None, order |-> None,
         default |-> FALSE, rows |-> {}]

AddressesTypeOK ==
    /\ row \in [Addresses -> Row]
    /\ order \in [Orders -> Order]
    /\ req \in [Requests -> Request]
    /\ rushed \subseteq Buyers
    /\ broken \subseteq Buyers

Init ==
    /\ row = [a \in Addresses |-> NoRow]
    /\ order = [o \in Orders |-> NoOrder]
    /\ req = [r \in Requests |-> Idle]
    /\ rushed = {}
    /\ broken = {}

Live(a) == row[a].state = "live"
Own(b) == {a \in Addresses : Live(a) /\ row[a].buyer = b}
Defaults(b) == {a \in Own(b) : row[a].default}
Busy(b) == \E r \in Requests : req[r].buyer = b

Pending == {"AWAITING_PAYMENT", "PAID", "PREPARING", "SHIPPING"}
LinkedPending(a, b) ==
    \E o \in Orders : /\ order[o].buyer = b
                      /\ order[o].dest = a
                      /\ order[o].status \in Pending

\* The first statement of a request of b.
Begin(r, b, state) ==
    /\ req[r].pc = "idle"
    /\ req' = [req EXCEPT ![r] = [state EXCEPT !.buyer = b]]
    /\ rushed' = IF Busy(b) THEN rushed \cup {b} ELSE rushed
    /\ UNCHANGED broken

Goto(r, state) ==
    /\ req' = [req EXCEPT ![r] = state]
    /\ UNCHANGED <<rushed, broken>>

\* Rows that an open transaction has updated.
LockedByOther(r, a) == \E s \in Requests \ {r} : req[s].pc = "set" /\ a \in req[s].rows

-----------------------------------------------------------------------------
(* Create and remove.                                                      *)

CreateCount(r, b) ==
    /\ Begin(r, b, [Idle EXCEPT !.pc = "create", !.default = Own(b) = {}])
    /\ UNCHANGED <<row, order>>

CreateWrite(r) ==
    /\ req[r].pc = "create"
    /\ \E a \in Addresses :
          /\ row[a].state = "new"
          /\ row' = [row EXCEPT ![a] = [buyer |-> req[r].buyer, state |-> "live",
                                        default |-> req[r].default]]
    /\ Goto(r, Idle)
    /\ UNCHANGED order

RemoveFind(r, b, a) ==
    /\ a \in Own(b)
    /\ Begin(r, b, [Idle EXCEPT !.pc = "count", !.address = a,
                                !.default = row[a].default])
    /\ UNCHANGED <<row, order>>

\* Mutant of RemoveCount: counts the other addresses, compares as before.
RemoveCountOthers(r) ==
    /\ req[r].pc = "count"
    /\ Goto(r, [req[r] EXCEPT !.pc =
            IF Cardinality(Own(req[r].buyer) \ {req[r].address}) = 1
              THEN "linked" ELSE "delete"])
    /\ UNCHANGED <<row, order>>

RemoveCount(r) ==
    /\ req[r].pc = "count"
    /\ Goto(r, [req[r] EXCEPT !.pc =
            IF Cardinality(Own(req[r].buyer)) = 1 THEN "linked" ELSE "delete"])
    /\ UNCHANGED <<row, order>>

\* ADDRESS_IN_USE, or on to the deletion.
RemoveLinked(r) ==
    /\ req[r].pc = "linked"
    /\ Goto(r, IF LinkedPending(req[r].address, req[r].buyer) THEN Idle
               ELSE [req[r] EXCEPT !.pc = "delete"])
    /\ UNCHANGED <<row, order>>

\* Deliveries to a deleted address go nowhere: onDelete SetNull.
Unlink(a) ==
    order' = [o \in Orders |-> IF order[o].dest = a
                                 THEN [order[o] EXCEPT !.dest = None] ELSE order[o]]

\* A row deleted meanwhile throws.
RemoveDelete(r) ==
    LET a == req[r].address
    IN  /\ req[r].pc = "delete"
        /\ ~LockedByOther(r, a)
        /\ IF Live(a)
             THEN /\ row' = [row EXCEPT ![a] = [NoRow EXCEPT !.state = "gone"]]
                  /\ Unlink(a)
                  /\ Goto(r, IF req[r].default THEN [req[r] EXCEPT !.pc = "pick"]
                             ELSE Idle)
             ELSE Goto(r, Idle) /\ UNCHANGED <<row, order>>

\* The first one by id, that is any: ids are random.
RemovePick(r) ==
    LET own == Own(req[r].buyer)
    IN  /\ req[r].pc = "pick"
        /\ IF own = {} THEN Goto(r, Idle)
           ELSE \E a \in own : Goto(r, [req[r] EXCEPT !.pc = "promote", !.address = a])
        /\ UNCHANGED <<row, order>>

RemovePromote(r) ==
    LET a == req[r].address
    IN  /\ req[r].pc = "promote"
        /\ ~LockedByOther(r, a)
        /\ row' = IF Live(a) THEN [row EXCEPT ![a] = [row[a] EXCEPT !.default = TRUE]]
                  ELSE row
        /\ Goto(r, Idle)
        /\ UNCHANGED order

-----------------------------------------------------------------------------
(* Set default.                                                            *)

SetDefaultFind(r, b, a) ==
    /\ a \in Own(b)
    /\ Begin(r, b, [Idle EXCEPT !.pc = "snapshot", !.address = a])
    /\ UNCHANGED <<row, order>>

\* Mutant of DefaultSnapshot: updateMany where isDefault, of every buyer.
DefaultSnapshotOfAll(r) ==
    /\ req[r].pc = "snapshot"
    /\ Goto(r, [req[r] EXCEPT !.pc = "clear",
                              !.rows = {a \in Addresses : Live(a) /\ row[a].default}])
    /\ UNCHANGED <<row, order>>

\* updateMany: the rows it matches.
DefaultSnapshot(r) ==
    /\ req[r].pc = "snapshot"
    /\ Goto(r, [req[r] EXCEPT !.pc = "clear", !.rows = Defaults(req[r].buyer)])
    /\ UNCHANGED <<row, order>>

\* Mutant of DefaultClear: the two updates are not one transaction.
DefaultClearCommitted(r) ==
    /\ req[r].pc = "clear"
    /\ \A a \in req[r].rows : ~LockedByOther(r, a)
    /\ row' = [a \in Addresses |-> IF a \in req[r].rows
                                     THEN [row[a] EXCEPT !.default = FALSE] ELSE row[a]]
    /\ Goto(r, [req[r] EXCEPT !.pc = "set", !.rows = {}])
    /\ UNCHANGED order

\* Their locks are granted and the condition is evaluated again.
DefaultClear(r) ==
    /\ req[r].pc = "clear"
    /\ \A a \in req[r].rows : ~LockedByOther(r, a)
    /\ Goto(r, [req[r] EXCEPT !.pc = "set",
                              !.rows = {a \in req[r].rows : Live(a) /\ row[a].default}])
    /\ UNCHANGED <<row, order>>

\* The second update and the commit; a row that is gone rolls both back.
DefaultSet(r) ==
    LET a == req[r].address
    IN  /\ req[r].pc = "set"
        /\ ~LockedByOther(r, a)
        /\ row' = IF ~Live(a) THEN row
                  ELSE [x \in Addresses |->
                         IF x = a THEN [row[x] EXCEPT !.default = TRUE]
                         ELSE IF x \in req[r].rows THEN [row[x] EXCEPT !.default = FALSE]
                         ELSE row[x]]
        /\ Goto(r, Idle)
        /\ UNCHANGED order

-----------------------------------------------------------------------------
(* Deliveries.                                                             *)

\* The address asked for, else a default one, else none (a zone only, or
\* pick-up in the store): read before the transaction.
CheckoutAddress(r, b, a) ==
    /\ a \in Own(b) \cup {None}
    /\ Begin(r, b, [Idle EXCEPT !.pc = "place", !.address = a])
    /\ UNCHANGED <<row, order>>

\* A deleted address violates the foreign key: the checkout is undone.
CheckoutPlace(r) ==
    LET a == req[r].address
    IN  /\ req[r].pc = "place"
        /\ IF a # None /\ ~Live(a) THEN UNCHANGED order
           ELSE \E o \in Orders :
                  /\ order[o].buyer = None
                  /\ order' = [order EXCEPT ![o] =
                                 [NoOrder EXCEPT !.buyer = req[r].buyer, !.dest = a]]
        /\ Goto(r, Idle)
        /\ UNCHANGED row

\* upsertDelivery reads order and delivery; every order has a delivery.
UpsertRead(r, b, o, a) ==
    /\ order[o].buyer = b
    /\ order[o].status # "CANCELLED"
    /\ order[o].dstatus \notin {"ON_THE_WAY", "DELIVERED"}
    /\ Begin(r, b, [Idle EXCEPT !.pc = IF a = None THEN "edit" ELSE "dest",
                                !.order = o, !.address = a])
    /\ UNCHANGED <<row, order>>

\* Mutant of UpsertAddress: whose address it is does not matter.
UpsertAnyAddress(r) ==
    /\ req[r].pc = "dest"
    /\ Goto(r, IF Live(req[r].address) THEN [req[r] EXCEPT !.pc = "edit"] ELSE Idle)
    /\ UNCHANGED <<row, order>>

UpsertAddress(r) ==
    /\ req[r].pc = "dest"
    /\ Goto(r, IF req[r].address \in Own(req[r].buyer)
                 THEN [req[r] EXCEPT !.pc = "edit"] ELSE Idle)
    /\ UNCHANGED <<row, order>>

\* delivery.update; the guards are not evaluated again.
UpsertWrite(r) ==
    LET a == req[r].address
        o == req[r].order
    IN  /\ req[r].pc = "edit"
        /\ order' = IF a # None /\ ~Live(a) THEN order
                    ELSE [order EXCEPT ![o] = [order[o] EXCEPT !.dest = a]]
        /\ Goto(r, Idle)
        /\ UNCHANGED row

\* Cancellations, payments and administrators (Checkout.tla, Payments.tla).
OrderStatusWrite(o, s) ==
    /\ order[o].buyer # None
    /\ order[o].status # s
    /\ order' = [order EXCEPT ![o] =
         [order[o] EXCEPT !.status = s,
                          !.reopened = @ \/ order[o].status \notin Pending]]
    /\ UNCHANGED <<row, req, rushed, broken>>

\* Mutant of DeliveryStatusWrite: the status goes to the column of the order.
DeliveryStatusToOrder(o, s) ==
    /\ order[o].buyer # None
    /\ order[o].dstatus # s
    /\ order' = [order EXCEPT ![o] = [order[o] EXCEPT !.status = s]]
    /\ UNCHANGED <<row, req, rushed, broken>>

DeliveryStatusWrite(o, s) ==
    /\ order[o].buyer # None
    /\ order[o].dstatus # s
    /\ order' = [order EXCEPT ![o] = [order[o] EXCEPT !.dstatus = s]]
    /\ UNCHANGED <<row, req, rushed, broken>>

\* A request ends at an await: an error of the database, a deadlock of two
\* transactions, a restart.
Die(r) ==
    /\ req[r].pc # "idle"
    /\ req' = [req EXCEPT ![r] = Idle]
    /\ broken' = IF req[r].pc \in {"pick", "promote"} THEN broken \cup {req[r].buyer}
                 ELSE broken
    /\ UNCHANGED <<row, order, rushed>>

-----------------------------------------------------------------------------
AddressRoutes(r, b) ==
    \/ CreateCount(r, b)
    \/ \E a \in Addresses : RemoveFind(r, b, a) \/ SetDefaultFind(r, b, a)

DeliveryRoutes(r, b) ==
    \E a \in Addresses \cup {None} :
        \/ CheckoutAddress(r, b, a)
        \/ \E o \in Orders : UpsertRead(r, b, o, a)

Next ==
    \/ \E r \in Requests, b \in Buyers : AddressRoutes(r, b) \/ DeliveryRoutes(r, b)
    \/ \E r \in Requests :
          \/ CreateWrite(r)
          \/ RemoveCount(r) \/ RemoveLinked(r) \/ RemoveDelete(r)
          \/ RemovePick(r) \/ RemovePromote(r)
          \/ DefaultSnapshot(r) \/ DefaultClear(r) \/ DefaultSet(r)
          \/ CheckoutPlace(r)
          \/ UpsertAddress(r) \/ UpsertWrite(r)
          \/ Die(r)
    \/ \E o \in Orders : \/ \E s \in OrderMoves : OrderStatusWrite(o, s)
                         \/ \E s \in DeliveryMoves : DeliveryStatusWrite(o, s)

Spec == Init /\ [][Next]_vars

-----------------------------------------------------------------------------
(* Properties that hold.                                                   *)

\* A delivery goes to an address that exists and belongs to the buyer of the
\* order, although checkout and upsertDelivery look at the address in an
\* earlier statement than the one that writes it, and it may be deleted in
\* between (checkout.service.ts:93-247, orders.service.ts:314-427).
DeliveryToOwnAddress ==
    \A o \in Orders : order[o].dest # None => order[o].dest \in Own(order[o].buyer)

\* A buyer who sends one request after the other never has two default
\* addresses, and has one whenever there are addresses and the last removal
\* was not cut short: nothing that other buyers do meanwhile matters
\* (addresses.service.ts:79-95, 175-188, 199-208).
OneDefault ==
    \A b \in Buyers \ rushed :
        /\ Cardinality(Defaults(b)) <= 1
        /\ b \notin broken /\ ~Busy(b) /\ Own(b) # {} => Defaults(b) # {}

\* Whatever runs at one time and wherever it stops, a buyer is left without
\* a default address only by the deletion of that address: setDefault never
\* shows the state between its two updates, also when its address is gone
\* (addresses.service.ts:199-208).
DefaultLostByRemovalOnly ==
    [][\A b \in Buyers :
         Defaults(b) # {} /\ Defaults(b)' = {}
           => \E a \in Defaults(b) : row'[a].state = "gone"]_vars

\* The only address of a buyer who sends one request after the other is not
\* deleted while a pending order goes there, whatever payments and
\* administrators do meanwhile, unless one of them reopens an order that had
\* ended (addresses.service.ts:144-175).
LastAddressKept ==
    [][\A b \in Buyers \ rushed, a \in Addresses, o \in Orders :
         Own(b) = {a} /\ row'[a].state = "gone"
           /\ order[o].buyer = b /\ order[o].dest = a /\ ~order[o].reopened
         => order[o].status \notin Pending]_vars
=============================================================================
