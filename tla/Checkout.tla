------------------------------ MODULE Checkout ------------------------------
(***************************************************************************)
(* Orders from the cart to their cancellation: checkout.service.ts,        *)
(* orders.service.ts (cancel), admin-orders.service.ts and                 *)
(* admin-deliveries.service.ts (updateStatus), over the carts of Cart.tla. *)
(*                                                                         *)
(* Checkout and cancel read first, outside any transaction, and then run   *)
(* one PostgreSQL transaction at READ COMMITTED.  Inside it every          *)
(* statement is a step: an UPDATE of a product row waits for the row lock, *)
(* keeps it to the end of the transaction, and what it writes stays        *)
(* invisible ("delta") until the commit.                                   *)
(***************************************************************************)
EXTENDS Cart, FiniteSetsExt

CONSTANTS
    Orders,       \* order ids
    Requests,     \* checkout and cancel requests being served at one time
    MaxReturns,   \* bound: how often the model cancels one order
    OrderMoves,   \* bound: the order statuses administrators set
    DeliveryMoves \* bound: the delivery statuses administrators set

ASSUME RequestsAssumption == None \notin Orders \cup Requests
ASSUME MaxReturnsAssumption == MaxReturns \in Nat

VARIABLES
    owner,        \* order.buyerId; None: the order does not exist (yet)
    items,        \* quantities of the order's items
    ostatus,      \* order.status
    dstatus,      \* delivery.status of the order's delivery
    req,          \* the local variables of the requests
    delta,        \* delta[r][p]: uncommitted change of p's stock by r
    lock,         \* lock[p]: the request whose transaction locks the row p
    returned,     \* history: how many commits gave an order's items back
    entered       \* history: the stock p would have if nothing were sold

orderVars == <<owner, items, ostatus, dstatus>>
txVars == <<req, delta, lock>>
history == <<returned, entered>>
shopVars == <<orderVars, txVars, history>>
vars == <<cartVars, shopVars>>

OrderStatus == {"AWAITING_PAYMENT", "PAID", "PREPARING", "SHIPPING",
                "COMPLETED", "CANCELLED"}
DeliveryStatus == {"SCHEDULED", "ON_THE_WAY", "DELIVERED", "FAILED",
                   "CANCELLED"}

ASSUME MovesAssumption ==
    OrderMoves \subseteq OrderStatus /\ DeliveryMoves \subseteq DeliveryStatus

(* "wanted" are the quantities the request works through, "todo" the       *)
(* products its loop has not reached, "cur" the product it read last.      *)
Request ==
    [pc: {"idle", "checkout", "decrement", "cancel", "restock"},
     buyer: Buyers \cup {None}, order: Orders \cup {None}, wanted: Lines,
     todo: SUBSET Products, cur: Products \cup {None}]

IdleRequest == [pc |-> "idle", buyer |-> None, order |-> None,
                wanted |-> NoLines, todo |-> {}, cur |-> None]

Placed == {o \in Orders : owner[o] # None}
ProductsOf(l) == {p \in Products : l[p] > 0}

TypeOK ==
    /\ CartTypeOK
    /\ owner \in [Orders -> Buyers \cup {None}]
    /\ items \in [Orders -> Lines]
    /\ ostatus \in [Orders -> OrderStatus]
    /\ dstatus \in [Orders -> DeliveryStatus]
    /\ req \in [Requests -> Request]
    /\ delta \in [Requests -> [Products -> Int]]
    /\ lock \in [Products -> Requests \cup {None}]
    /\ returned \in [Orders -> Nat]
    /\ entered \in [Products -> Int]

Init ==
    /\ CartInit
    /\ owner = [o \in Orders |-> None]
    /\ items = [o \in Orders |-> NoLines]
    /\ ostatus = [o \in Orders |-> "AWAITING_PAYMENT"]
    /\ dstatus = [o \in Orders |-> "SCHEDULED"]
    /\ req = [r \in Requests |-> IdleRequest]
    /\ delta = [r \in Requests |-> NoLines]
    /\ lock = [p \in Products |-> None]
    /\ returned = [o \in Orders |-> 0]
    /\ entered = stock

-----------------------------------------------------------------------------
(* The transaction.                                                        *)

\* Mutant of UpdateStock: no row lock.
UpdateWithoutWaiting(r, p, d) ==
    /\ lock' = [lock EXCEPT ![p] = r]
    /\ delta' = [delta EXCEPT ![r][p] = @ + d]

\* UPDATE product SET stock = stock + d: waits until the row is free.
UpdateStock(r, p, d) ==
    /\ lock[p] \in {None, r}
    /\ lock' = [lock EXCEPT ![p] = r]
    /\ delta' = [delta EXCEPT ![r][p] = @ + d]

\* Mutant of EndTransaction: the transaction that throws is left open.
LeaveTransactionOpen(r) ==
    /\ delta' = [delta EXCEPT ![r] = NoLines]
    /\ req' = [req EXCEPT ![r] = IdleRequest]
    /\ UNCHANGED lock

EndTransaction(r) ==
    /\ delta' = [delta EXCEPT ![r] = NoLines]
    /\ lock' = [p \in Products |-> IF lock[p] = r THEN None ELSE lock[p]]
    /\ req' = [req EXCEPT ![r] = IdleRequest]

CommitStock(r) == stock' = [p \in Products |-> stock[p] + delta[r][p]]

\* Mutant of Rollback: the statements do not run in one transaction.
AbortKeepsWrites(r) ==
    /\ req[r].pc # "idle"
    /\ EndTransaction(r)
    /\ CommitStock(r)
    /\ UNCHANGED <<live, cart, creq, orderVars, history>>

\* Nothing a transaction wrote survives when it does not commit.  Rollback
\* is the abort from outside: the victim of a deadlock, the time limit that
\* Prisma puts on interactive transactions, a crash of the process.
Rollback(r) ==
    /\ req[r].pc # "idle"
    /\ EndTransaction(r)
    /\ UNCHANGED <<cartVars, orderVars, history>>

\* The transaction whose row lock r waits for.
WaitsFor(r) ==
    IF req[r].pc \in {"decrement", "restock"} /\ lock[req[r].cur] # r
      THEN lock[req[r].cur] ELSE None

\* PostgreSQL rolls back a transaction that waits in a circle.
DeadlockVictim(r) ==
    /\ \E C \in SUBSET Requests : r \in C /\ {WaitsFor(s) : s \in C} = C
    /\ Rollback(r)

-----------------------------------------------------------------------------
(* POST /checkout.                                                         *)

\* The cart is read before the transaction starts (checkout.service.ts:26).
\* o is the fresh id that the order will get.
CheckoutReadCart(r, b, o) ==
    /\ req[r].pc = "idle"
    /\ o \notin Placed
    /\ \A s \in Requests : req[s].order # o
    /\ ProductsOf(cart[b]) # {}             \* else CART_EMPTY
    /\ req' = [req EXCEPT ![r] =
                 [IdleRequest EXCEPT !.pc = "checkout", !.buyer = b, !.order = o,
                    !.wanted = cart[b], !.todo = ProductsOf(cart[b])]]
    /\ UNCHANGED <<cartVars, orderVars, history, delta, lock>>

\* findUnique in the loop; the items come in the order the database likes.
CheckoutReadProduct(r, p) ==
    /\ req[r].pc = "checkout"
    /\ p \in req[r].todo
    /\ p \in live
    /\ stock[p] >= req[r].wanted[p]
    /\ req' = [req EXCEPT ![r] = [req[r] EXCEPT !.pc = "decrement", !.cur = p]]
    /\ UNCHANGED <<cartVars, orderVars, history, delta, lock>>

\* Mutant of CheckoutDecrement: update where id, trusting the comparison in
\* the loop.
DecrementUnchecked(r) ==
    LET p == req[r].cur
    IN  /\ req[r].pc = "decrement"
        /\ UpdateStock(r, p, -req[r].wanted[p])
        /\ req' = [req EXCEPT ![r] = [req[r] EXCEPT !.pc = "checkout", !.cur = None,
                                                   !.todo = req[r].todo \ {p}]]
        /\ UNCHANGED <<cartVars, orderVars, history>>

\* updateMany where id and stock >= quantity: the condition is evaluated on
\* the committed row once the lock is granted.
CheckoutDecrement(r) ==
    LET p == req[r].cur
        q == req[r].wanted[p]
    IN  /\ req[r].pc = "decrement"
        /\ p \in live
        /\ stock[p] >= q
        /\ UpdateStock(r, p, -q)
        /\ req' = [req EXCEPT ![r] = [req[r] EXCEPT !.pc = "checkout", !.cur = None,
                                                   !.todo = req[r].todo \ {p}]]
        /\ UNCHANGED <<cartVars, orderVars, history>>

\* A product that is gone or short of stock throws, at the read or, when it
\* was sold after the read, at the update (count 0): the transaction is
\* rolled back.
CheckoutInsufficient(r) ==
    /\ \E p \in req[r].todo :
          /\ p \notin live \/ stock[p] < req[r].wanted[p]
          /\ \/ req[r].pc = "checkout"
             \/ req[r].pc = "decrement" /\ req[r].cur = p /\ lock[p] = None
    /\ EndTransaction(r)
    /\ UNCHANGED <<cartVars, orderVars, history>>

\* order.create with items and delivery, cartItem.deleteMany, commit.
CheckoutCommit(r) ==
    LET o == req[r].order
    IN  /\ req[r].pc = "checkout"
        /\ req[r].todo = {}
        /\ owner' = [owner EXCEPT ![o] = req[r].buyer]
        /\ items' = [items EXCEPT ![o] = req[r].wanted]
        /\ ostatus' = [ostatus EXCEPT ![o] = "AWAITING_PAYMENT"]
        /\ dstatus' = [dstatus EXCEPT ![o] = "SCHEDULED"]
        /\ CommitStock(r)
        /\ DropRows({req[r].buyer}, Products)
        /\ EndTransaction(r)
        /\ UNCHANGED <<live, history>>

-----------------------------------------------------------------------------
(* PATCH /orders/:id/cancel.                                               *)

\* The order, its items and its delivery are read, and every guard is
\* evaluated, before the transaction starts (orders.service.ts:202-243).
CancelRead(r, o) ==
    /\ req[r].pc = "idle"
    /\ o \in Placed
    /\ returned[o] < MaxReturns
    /\ ostatus[o] \notin {"CANCELLED", "COMPLETED", "SHIPPING"}
    /\ dstatus[o] \notin {"ON_THE_WAY", "DELIVERED", "CANCELLED"}
    /\ req' = [req EXCEPT ![r] =
                 [IdleRequest EXCEPT !.pc = "cancel", !.order = o,
                    !.wanted = items[o], !.todo = ProductsOf(items[o])]]
    /\ UNCHANGED <<cartVars, orderVars, history, delta, lock>>

CancelNextItem(r, p) ==
    /\ req[r].pc = "cancel"
    /\ p \in req[r].todo
    /\ req' = [req EXCEPT ![r] = [req[r] EXCEPT !.pc = "restock", !.cur = p]]
    /\ UNCHANGED <<cartVars, orderVars, history, delta, lock>>

CancelRestock(r) ==
    LET p == req[r].cur
    IN  /\ req[r].pc = "restock"
        /\ UpdateStock(r, p, req[r].wanted[p])
        /\ req' = [req EXCEPT ![r] = [req[r] EXCEPT !.pc = "cancel", !.cur = None,
                                                   !.todo = req[r].todo \ {p}]]
        /\ UNCHANGED <<cartVars, orderVars, history>>

\* Mutant of CancelCommit: the delivery is forgotten.
CancelOrderOnly(r) ==
    LET o == req[r].order
    IN  /\ req[r].pc = "cancel"
        /\ req[r].todo = {}
        /\ ostatus' = [ostatus EXCEPT ![o] = "CANCELLED"]
        /\ returned' = [returned EXCEPT ![o] = @ + 1]
        /\ CommitStock(r)
        /\ EndTransaction(r)
        /\ UNCHANGED <<live, cart, creq, owner, items, dstatus, entered>>

\* order.update, delivery.update, commit.
CancelCommit(r) ==
    LET o == req[r].order
    IN  /\ req[r].pc = "cancel"
        /\ req[r].todo = {}
        /\ ostatus' = [ostatus EXCEPT ![o] = "CANCELLED"]
        /\ dstatus' = [dstatus EXCEPT ![o] = "CANCELLED"]
        /\ returned' = [returned EXCEPT ![o] = @ + 1]
        /\ CommitStock(r)
        /\ EndTransaction(r)
        /\ UNCHANGED <<live, cart, creq, owner, items, entered>>

-----------------------------------------------------------------------------
(* The administrators.  Both status handlers accept every status from any  *)
(* other one and write that column only.                                   *)

AdminSetOrderStatus(o, s) ==
    /\ o \in Placed
    /\ ostatus[o] # s
    /\ ostatus' = [ostatus EXCEPT ![o] = s]
    /\ UNCHANGED <<cartVars, owner, items, dstatus, txVars, history>>

\* Mutant of AdminSetDeliveryStatus: the status goes to the order's column.
DeliveryStatusToOrder(o, s) ==
    /\ o \in Placed
    /\ dstatus[o] # s
    /\ ostatus' = [ostatus EXCEPT ![o] = s]
    /\ UNCHANGED <<cartVars, owner, items, dstatus, txVars, history>>

AdminSetDeliveryStatus(o, s) ==
    /\ o \in Placed
    /\ dstatus[o] # s
    /\ dstatus' = [dstatus EXCEPT ![o] = s]
    /\ UNCHANGED <<cartVars, owner, items, ostatus, txVars, history>>

\* The product writes of Cart.tla wait for the row lock like any other.
AdminEditStock(p, n) ==
    /\ lock[p] = None
    /\ AdminSetStock(p, n)
    /\ entered' = [entered EXCEPT ![p] = @ + n - stock[p]]
    /\ UNCHANGED <<orderVars, txVars, returned>>

\* Mutant of AdminDeleteProduct: the deletion does not wait for the row.
DeleteWithoutWaiting(p) ==
    /\ \A o \in Placed : items[o][p] = 0
    /\ AdminRemoveProduct(p)
    /\ UNCHANGED shopVars

\* The foreign key of the order items keeps a product that was ordered.
AdminDeleteProduct(p) ==
    /\ lock[p] = None
    /\ \A o \in Placed : items[o][p] = 0
    /\ AdminRemoveProduct(p)
    /\ UNCHANGED shopVars

-----------------------------------------------------------------------------
RequestStep(r) ==
    \/ \E b \in Buyers, o \in Orders : CheckoutReadCart(r, b, o)
    \/ \E p \in Products : CheckoutReadProduct(r, p) \/ CancelNextItem(r, p)
    \/ \E o \in Orders : CancelRead(r, o)
    \/ CheckoutCommit(r)
    \/ CheckoutDecrement(r)
    \/ CheckoutInsufficient(r)
    \/ CancelRestock(r)
    \/ CancelCommit(r)

AdminStep ==
    \/ \E o \in Orders : \/ \E s \in OrderMoves : AdminSetOrderStatus(o, s)
                         \/ \E s \in DeliveryMoves : AdminSetDeliveryStatus(o, s)
    \/ \E p \in Products : \/ \E n \in StockFigures : AdminEditStock(p, n)
                           \/ AdminDeleteProduct(p)

Next ==
    \/ CartRequestStep /\ UNCHANGED shopVars
    \/ \E r \in Requests : RequestStep(r) \/ Rollback(r)
    \/ AdminStep

Spec == Init /\ [][Next]_vars

\* Fairness.  A request that can run does run; a row lock goes to the
\* waiters in turn, so one that is free again and again is granted (strong
\* fairness); and PostgreSQL breaks every circle of waiting transactions.
\* Buyers, administrators and outside aborts owe nothing.
Proceed(r) ==
    \/ \E p \in Products : CheckoutReadProduct(r, p) \/ CancelNextItem(r, p)
    \/ CheckoutInsufficient(r)
    \/ CheckoutCommit(r)
    \/ CancelCommit(r)

LockGranted(r) ==
    CheckoutDecrement(r) \/ CheckoutInsufficient(r) \/ CancelRestock(r)

FairSpec ==
    /\ Spec
    /\ \A r \in Requests : WF_vars(Proceed(r)) /\ SF_vars(LockGranted(r))
    /\ WF_vars(\E r \in Requests : DeadlockVictim(r))

-----------------------------------------------------------------------------
(* Properties that hold.                                                   *)

\* Whatever checkouts, cancellations and stock edits interleave, the stock
\* of a product never goes below zero, and never will by a change that is
\* still uncommitted: the second comparison in the UPDATE
\* (checkout.service.ts:206) counts, the first one (line 179) may be stale.
NeverOversold ==
    \A p \in Products :
        /\ stock[p] >= 0
        /\ \A r \in Requests : stock[p] + delta[r][p] >= 0

\* Every unit is accounted for: what is on the shelf and what orders took
\* and did not give back add up to what was entered.  An aborted checkout or
\* cancellation leaves no trace, a committed one moves exactly the items of
\* its order (checkout.service.ts:159-289, orders.service.ts:245-277).
StockLedger ==
    \A p \in Products :
        stock[p] + MapThenSumSet(LAMBDA o : items[o][p], Placed)
          = entered[p] + MapThenSumSet(LAMBDA o : returned[o] * items[o][p], Orders)

\* An order lists products that exist, although the deletion of a product
\* races with checkouts that read it, or took it from the stock and did not
\* commit yet (products-admin.service.ts:144-161, checkout.service.ts:169-247):
\* the foreign key protects committed orders only, and the row lock the rest.
OrderedProductsExist ==
    \A o \in Placed : ProductsOf(items[o]) \subseteq live

\* Checkout and cancellation are atomic: seen through the committed tables,
\* with requests, locks, uncommitted changes and carts hidden, this system
\* is the one of Inventory.tla.
Shelf == INSTANCE Inventory WITH
            stock <- stock, owner <- owner, items <- items,
            ostatus <- ostatus, dstatus <- dstatus
ImplementsInventory == Shelf!Spec

\* The requests under way, those that no row lock holds up, and those that
\* wait for each other in a circle.
Busy == {r \in Requests : req[r].pc # "idle"}
Ready(r) == req[r].pc \in {"decrement", "restock"} => lock[req[r].cur] = None
Circle(C) == C # {} /\ {WaitsFor(r) : r \in C} = C

\* Nobody waits in vain: while requests are under way, one of them is between
\* its updates or finds its row free, or some of them wait for each other in a
\* circle, which PostgreSQL breaks.  No lock is left by a transaction that has
\* ended, and none waits for itself (checkout.service.ts:159, 205,
\* orders.service.ts:245-251).
NoStandstill ==
    \/ Busy = {}
    \/ \E r \in Busy : Ready(r)
    \/ \E C \in SUBSET Busy : Circle(C)

\* Every checkout and every cancellation ends, also when two of them lock
\* the same products in opposite orders (the loops at checkout.service.ts:169
\* and orders.service.ts:246 run in the order of the rows).
RequestsEnd == \A r \in Requests : req[r].pc # "idle" ~> req[r].pc = "idle"

-----------------------------------------------------------------------------
(* The invariant that makes them hold, for every value of the constants:   *)
(* what a transaction has changed so far is exactly what its request has   *)
(* worked off, and only the holder of the row lock has changed a row.      *)

WorkedOff(x, p) == IF p \in x.todo THEN 0 ELSE x.wanted[p]

CheckoutInv(x, d) ==
    /\ x.buyer \in Buyers
    /\ x.order \in Orders \ Placed
    /\ x.todo \subseteq ProductsOf(x.wanted)
    /\ ProductsOf(x.wanted) # {}
    /\ \A p \in Products : d[p] = -WorkedOff(x, p)

CancelInv(x, d) ==
    /\ x.order \in Placed
    /\ x.wanted = items[x.order]
    /\ x.todo \subseteq ProductsOf(x.wanted)
    /\ \A p \in Products : d[p] = WorkedOff(x, p)

RequestInv(x, d) ==
    /\ x.pc = "idle" => x.order = None /\ d = NoLines
    /\ x.pc \in {"checkout", "decrement"} => CheckoutInv(x, d)
    /\ x.pc \in {"cancel", "restock"} => CancelInv(x, d)
    /\ x.pc \in {"decrement", "restock"} => x.cur \in x.todo

\* Two checkouts never create the same order.
FreshOrders ==
    \A r, s \in Requests :
        req[r].order = req[s].order /\ req[r].order \in Orders \ Placed => r = s

LockInv ==
    \A r \in Requests, p \in Products :
        delta[r][p] # 0 => lock[p] = r /\ p \in live

\* A transaction never holds more, or less, than its request asked for so
\* far: no interleaving loses track of an uncommitted change, lets two
\* transactions change the same row, or deletes a row that one of them has
\* changed (checkout.service.ts:169-223, orders.service.ts:246-251).
TransactionInv ==
    /\ \A r \in Requests : RequestInv(req[r], delta[r])
    /\ FreshOrders
    /\ LockInv

-----------------------------------------------------------------------------
(* Claims of the documentation that the code does not keep.                *)

\* An order is cancelled once: its items go back on the shelf once.
RestockedOnce == \A o \in Orders : returned[o] <= 1
=============================================================================
