-------------------------------- MODULE Cart --------------------------------
(***************************************************************************)
(* The buyer's cart (src/src/modules/cart/cart.service.ts) next to the two *)
(* writes an administrator makes to a product behind its back: a new stock *)
(* figure and the deletion of the product.                                 *)
(*                                                                         *)
(* Every database statement is one step.  A cart request that reads and    *)
(* then writes is therefore two or three steps, and what it read may be    *)
(* stale when it writes: no cart operation runs in a transaction.          *)
(***************************************************************************)
EXTENDS Integers

CONSTANTS
    Products,      \* product ids
    Buyers,        \* buyer ids
    CartRequests,  \* cart requests being served at the same time
    MaxStock,      \* bound: largest stock an administrator enters
    MaxQuantity,   \* bound: largest quantity one request asks for
    None           \* "no buyer", "no product", "no order", "nobody"

ASSUME MaxStockAssumption == MaxStock \in Nat
ASSUME MaxQuantityAssumption == MaxQuantity \in Nat
ASSUME NoneAssumption == None \notin Products \cup Buyers

VARIABLES
    live,    \* the products that have a row
    stock,   \* product.stock, as committed
    cart,    \* cart[b][p]: quantity of b's CartItem for p; 0: there is no row
    creq     \* the local variables of the cart requests

cartVars == <<live, stock, cart, creq>>

Lines == [Products -> Nat]      \* quantities per product
NoLines == [p \in Products |-> 0]
Quantities == 1..MaxQuantity
StockFigures == 0..MaxStock

(* What a request has in hand between two statements.  "row" says that the *)
(* CartItem id it read still names a row: ids are never reused, so a row   *)
(* that was deleted and created again is another row.                      *)
CartRequest ==
    [pc: {"idle", "lookup", "create", "write", "remove"},
     buyer: Buyers \cup {None}, product: Products \cup {None},
     added: Nat, quantity: Nat, available: Nat, row: BOOLEAN]

Idle == [pc |-> "idle", buyer |-> None, product |-> None,
         added |-> 0, quantity |-> 0, available |-> 0, row |-> FALSE]

CartTypeOK ==
    /\ live \subseteq Products
    /\ stock \in [Products -> Int]
    /\ cart \in [Buyers -> Lines]
    /\ creq \in [CartRequests -> CartRequest]

CartInit ==
    /\ live = Products
    /\ stock \in [Products -> StockFigures]
    /\ cart \in [Buyers -> [Products -> StockFigures]]   \* filled earlier
    /\ creq = [c \in CartRequests |-> Idle]

-----------------------------------------------------------------------------
(* Deleting cart rows takes the row away from every request that read it.  *)

DropRows(B, P) ==
    /\ cart' = [b \in Buyers |-> [p \in Products |->
                  IF b \in B /\ p \in P THEN 0 ELSE cart[b][p]]]
    /\ creq' = [c \in CartRequests |->
                  IF creq[c].buyer \in B /\ creq[c].product \in P
                    THEN [creq[c] EXCEPT !.row = FALSE] ELSE creq[c]]

-----------------------------------------------------------------------------
(* POST /cart/items: read the product, look the row up, then write.        *)

AddItem(c, b, p, q) ==
    /\ creq[c].pc = "idle"
    /\ p \in live
    /\ q <= stock[p]                        \* else INSUFFICIENT_STOCK
    /\ creq' = [creq EXCEPT ![c] =
                  [Idle EXCEPT !.pc = "lookup", !.buyer = b, !.product = p,
                               !.added = q, !.available = stock[p]]]
    /\ UNCHANGED <<live, stock, cart>>

\* Mutant of AddItemLookup: the sum is not compared with the stock again.
LookupUnchecked(c) ==
    LET r == creq[c]
        existing == cart[r.buyer][r.product]
    IN  /\ r.pc = "lookup"
        /\ creq' = [creq EXCEPT ![c] =
             IF existing = 0
               THEN [r EXCEPT !.pc = "create", !.quantity = r.added]
             ELSE [r EXCEPT !.pc = "write", !.row = TRUE,
                            !.quantity = existing + r.added]]
        /\ UNCHANGED <<live, stock, cart>>

\* Mutant of AddItemLookup: the existing quantity is taken off, not added.
LookupSubtracts(c) ==
    LET r == creq[c]
        existing == cart[r.buyer][r.product]
    IN  /\ r.pc = "lookup"
        /\ creq' = [creq EXCEPT ![c] =
             [r EXCEPT !.pc = IF existing = 0 THEN "create" ELSE "write",
                       !.row = existing # 0, !.quantity = r.added - existing]]
        /\ UNCHANGED <<live, stock, cart>>

AddItemLookup(c) ==
    LET r == creq[c]
        existing == cart[r.buyer][r.product]
    IN  /\ r.pc = "lookup"
        /\ creq' = [creq EXCEPT ![c] =
             IF existing = 0
               THEN [r EXCEPT !.pc = "create", !.quantity = r.added]
             ELSE IF existing + r.added > r.available
               THEN Idle                    \* INSUFFICIENT_STOCK
             ELSE [r EXCEPT !.pc = "write", !.row = TRUE,
                            !.quantity = existing + r.added]]
        /\ UNCHANGED <<live, stock, cart>>

\* Mutant of AddItemCreate: no foreign key from the cart to the product.
CreateUnconstrained(c) ==
    LET r == creq[c]
    IN  /\ r.pc = "create"
        /\ cart' = [cart EXCEPT ![r.buyer][r.product] = r.quantity]
        /\ creq' = [creq EXCEPT ![c] = Idle]
        /\ UNCHANGED <<live, stock>>

\* cartItem.create: the unique (buyer, product) key and the foreign key to
\* the product make it fail when another request was faster.
AddItemCreate(c) ==
    LET r == creq[c]
    IN  /\ r.pc = "create"
        /\ IF r.product \in live /\ cart[r.buyer][r.product] = 0
             THEN cart' = [cart EXCEPT ![r.buyer][r.product] = r.quantity]
             ELSE UNCHANGED cart
        /\ creq' = [creq EXCEPT ![c] = Idle]
        /\ UNCHANGED <<live, stock>>

-----------------------------------------------------------------------------
(* PATCH /cart/items/:id reads the row with its product, then writes the   *)
(* quantity; DELETE /cart/items/:id reads the row, then deletes it.        *)

UpdateItem(c, b, p, q) ==
    /\ creq[c].pc = "idle"
    /\ cart[b][p] > 0
    /\ q <= stock[p]                        \* else INSUFFICIENT_STOCK
    /\ creq' = [creq EXCEPT ![c] =
                  [Idle EXCEPT !.pc = "write", !.buyer = b, !.product = p,
                               !.quantity = q, !.row = TRUE]]
    /\ UNCHANGED <<live, stock, cart>>

\* cartItem.update where id, the last statement of addItem and updateItem:
\* an absolute quantity, and an error when the row is gone.
WriteQuantity(c) ==
    LET r == creq[c]
    IN  /\ r.pc = "write"
        /\ IF r.row THEN cart' = [cart EXCEPT ![r.buyer][r.product] = r.quantity]
                    ELSE UNCHANGED cart
        /\ creq' = [creq EXCEPT ![c] = Idle]
        /\ UNCHANGED <<live, stock>>

RemoveItem(c, b, p) ==
    /\ creq[c].pc = "idle"
    /\ cart[b][p] > 0
    /\ creq' = [creq EXCEPT ![c] =
                  [Idle EXCEPT !.pc = "remove", !.buyer = b, !.product = p,
                               !.row = TRUE]]
    /\ UNCHANGED <<live, stock, cart>>

RemoveRow(c) ==
    LET r == creq[c]
    IN  /\ r.pc = "remove"
        /\ cart' = IF r.row THEN [cart EXCEPT ![r.buyer][r.product] = 0] ELSE cart
        /\ creq' = [d \in CartRequests |->
             IF d = c THEN Idle
             ELSE IF r.row /\ creq[d].buyer = r.buyer /\ creq[d].product = r.product
               THEN [creq[d] EXCEPT !.row = FALSE]
             ELSE creq[d]]
        /\ UNCHANGED <<live, stock>>

\* DELETE /cart is one statement.
ClearCart(b) ==
    /\ \E p \in Products : cart[b][p] > 0
    /\ DropRows({b}, Products)
    /\ UNCHANGED <<live, stock>>

-----------------------------------------------------------------------------
(* The administrator's side: PATCH /admin/products/:id writes the stock    *)
(* figure of the form over whatever the column holds; DELETE cascades to   *)
(* the cart rows of the product.                                           *)

AdminSetStock(p, n) ==
    /\ p \in live
    /\ stock[p] # n
    /\ stock' = [stock EXCEPT ![p] = n]
    /\ UNCHANGED <<live, cart, creq>>

AdminRemoveProduct(p) ==
    /\ p \in live
    /\ live' = live \ {p}
    /\ DropRows(Buyers, {p})
    /\ UNCHANGED stock

-----------------------------------------------------------------------------
CartRequestStep ==
    \/ \E c \in CartRequests, b \in Buyers, p \in Products :
          \/ \E q \in Quantities : AddItem(c, b, p, q) \/ UpdateItem(c, b, p, q)
          \/ RemoveItem(c, b, p)
    \/ \E c \in CartRequests :
          AddItemLookup(c) \/ AddItemCreate(c) \/ WriteQuantity(c) \/ RemoveRow(c)
    \/ \E b \in Buyers : ClearCart(b)

CartNext ==
    \/ CartRequestStep
    \/ \E p \in Products : \/ \E n \in StockFigures : AdminSetStock(p, n)
                           \/ AdminRemoveProduct(p)

CartSpec == CartInit /\ [][CartNext]_cartVars

-----------------------------------------------------------------------------
(* Properties.                                                             *)

\* A product that was deleted stays out of every cart: the cascade empties
\* the lines, and requests that read the product or the line before the
\* deletion cannot bring one back (cart.service.ts:82, 98, 135).
DeletedStaysOut ==
    \A b \in Buyers, p \in Products : cart[b][p] > 0 => p \in live
=============================================================================
