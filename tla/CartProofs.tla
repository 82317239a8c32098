----------------------------- MODULE CartProofs -----------------------------
(* Theorems about Cart.tla and CartHistory.tla, for every value of their    *)
(* constants.                                                              *)
EXTENDS CartHistory, TLAPS

-----------------------------------------------------------------------------
(* Type correctness.                                                       *)

LEMMA CartInitTypeOK == CartInit => CartTypeOK
  BY MaxStockAssumption
     DEF CartInit, CartTypeOK, Lines, NoLines, StockFigures, CartRequest, Idle

\* A request that is past its first statement knows its buyer and product.
Addressed ==
    \A c \in CartRequests :
        creq[c].pc # "idle" => creq[c].buyer \in Buyers /\ creq[c].product \in Products

\* Deleting rows keeps carts carts and requests requests.
LEMMA DropRowsType ==
  ASSUME CartTypeOK, Addressed, NEW B, NEW P, DropRows(B, P)
  PROVE  /\ cart' \in [Buyers -> Lines]
         /\ creq' \in [CartRequests -> CartRequest]
         /\ Addressed'
<1>1. cart' \in [Buyers -> Lines]
  BY DEF CartTypeOK, DropRows, Lines
<1>2. ASSUME NEW c \in CartRequests
      PROVE  /\ creq'[c] \in CartRequest
             /\ creq'[c].pc = creq[c].pc
             /\ creq'[c].buyer = creq[c].buyer
             /\ creq'[c].product = creq[c].product
  <2>1. creq[c] \in CartRequest
    BY DEF CartTypeOK
  <2>2. creq'[c] \in {creq[c], [creq[c] EXCEPT !.row = FALSE]}
    BY DEF DropRows
  <2> QED  BY <2>1, <2>2 DEF CartRequest
<1>3. creq' = [c \in CartRequests |-> creq'[c]]
  BY DEF DropRows
<1> QED  BY <1>1, <1>2, <1>3 DEF Addressed

\* A request in hand is replaced by a request.
LEMMA ReplaceRequest ==
  ASSUME CartTypeOK, NEW c \in CartRequests, NEW new \in CartRequest,
         creq' = [creq EXCEPT ![c] = new]
  PROVE  creq' \in [CartRequests -> CartRequest]
  BY DEF CartTypeOK

LEMMA IdleType == Idle \in CartRequest
  BY DEF Idle, CartRequest

\* A line is replaced by a quantity.
LEMMA ReplaceLine ==
  ASSUME CartTypeOK, NEW b \in Buyers, NEW p \in Products, NEW n \in Nat
  PROVE  [cart EXCEPT ![b][p] = n] \in [Buyers -> Lines]
  BY DEF CartTypeOK, Lines

LEMMA CartRequestStepType ==
  ASSUME CartTypeOK, Addressed, CartRequestStep
  PROVE  CartTypeOK' /\ Addressed'
<1>1. ASSUME NEW c \in CartRequests, NEW b \in Buyers, NEW p \in Products,
             NEW q \in Quantities, AddItem(c, b, p, q)
      PROVE  CartTypeOK' /\ Addressed'
  <2> DEFINE new == [Idle EXCEPT !.pc = "lookup", !.buyer = b, !.product = p,
                                 !.added = q, !.available = stock[p]]
  <2>1. q \in Nat /\ stock[p] \in Nat
    BY <1>1, MaxQuantityAssumption DEF AddItem, CartTypeOK, Quantities
  <2>2. new \in CartRequest /\ new.buyer = b /\ new.product = p
    BY <2>1 DEF Idle, CartRequest
  <2> HIDE DEF new
  <2>3. creq' = [creq EXCEPT ![c] = new] /\ UNCHANGED <<live, stock, cart>>
    BY <1>1 DEF AddItem, new
  <2> QED  BY <2>2, <2>3, ReplaceRequest DEF CartTypeOK, Addressed
<1>2. ASSUME NEW c \in CartRequests, NEW b \in Buyers, NEW p \in Products,
             NEW q \in Quantities, UpdateItem(c, b, p, q)
      PROVE  CartTypeOK' /\ Addressed'
  <2> DEFINE new == [Idle EXCEPT !.pc = "write", !.buyer = b, !.product = p,
                                 !.quantity = q, !.row = TRUE]
  <2>1. q \in Nat
    BY MaxQuantityAssumption DEF Quantities
  <2>2. new \in CartRequest /\ new.buyer = b /\ new.product = p
    BY <2>1 DEF Idle, CartRequest
  <2> HIDE DEF new
  <2>3. creq' = [creq EXCEPT ![c] = new] /\ UNCHANGED <<live, stock, cart>>
    BY <1>2 DEF UpdateItem, new
  <2> QED  BY <2>2, <2>3, ReplaceRequest DEF CartTypeOK, Addressed
<1>3. ASSUME NEW c \in CartRequests, NEW b \in Buyers, NEW p \in Products,
             RemoveItem(c, b, p)
      PROVE  CartTypeOK' /\ Addressed'
  <2> DEFINE new == [Idle EXCEPT !.pc = "remove", !.buyer = b, !.product = p,
                                 !.row = TRUE]
  <2>1. new \in CartRequest /\ new.buyer = b /\ new.product = p
    BY DEF Idle, CartRequest
  <2> HIDE DEF new
  <2>2. creq' = [creq EXCEPT ![c] = new] /\ UNCHANGED <<live, stock, cart>>
    BY <1>3 DEF RemoveItem, new
  <2> QED  BY <2>1, <2>2, ReplaceRequest DEF CartTypeOK, Addressed
<1>4. ASSUME NEW c \in CartRequests, AddItemLookup(c)
      PROVE  CartTypeOK' /\ Addressed'
  <2> DEFINE r == creq[c]
             existing == cart[r.buyer][r.product]
             create == [r EXCEPT !.pc = "create", !.quantity = r.added]
             write == [r EXCEPT !.pc = "write", !.row = TRUE,
                                !.quantity = existing + r.added]
  <2>1. r \in CartRequest /\ r.buyer \in Buyers /\ r.product \in Products
    BY <1>4 DEF CartTypeOK, Addressed, AddItemLookup
  <2>2. existing \in Nat
    BY <2>1 DEF CartTypeOK, Lines
  <2>3. create \in CartRequest /\ create.buyer = r.buyer /\ create.product = r.product
    <3> HIDE DEF r
    <3> QED  BY <2>1 DEF CartRequest
  <2>4. write \in CartRequest /\ write.buyer = r.buyer /\ write.product = r.product
    <3>1. ASSUME NEW x \in CartRequest, NEW n \in Nat
          PROVE  LET y == [x EXCEPT !.pc = "write", !.row = TRUE, !.quantity = n]
                 IN  y \in CartRequest /\ y.buyer = x.buyer /\ y.product = x.product
      BY DEF CartRequest
    <3>2. existing + r.added \in Nat
      BY <2>1, <2>2 DEF CartRequest
    <3> HIDE DEF r, existing
    <3> QED  BY <2>1, <3>1, <3>2
  <2>5. PICK new \in {create, Idle, write} : creq' = [creq EXCEPT ![c] = new]
    BY <1>4 DEF AddItemLookup
  <2>6. new \in CartRequest
    BY <2>3, <2>4, IdleType
  <2>7. new.pc # "idle" => new.buyer \in Buyers /\ new.product \in Products
    <3> HIDE DEF create, write
    <3> QED  BY <2>1, <2>3, <2>4 DEF Idle
  <2> QED
    BY <1>4, <2>5, <2>6, <2>7, ReplaceRequest
       DEF AddItemLookup, CartTypeOK, Addressed
<1>5. ASSUME NEW c \in CartRequests, AddItemCreate(c) \/ WriteQuantity(c)
      PROVE  CartTypeOK' /\ Addressed'
  <2>1. creq[c].buyer \in Buyers /\ creq[c].product \in Products
        /\ creq[c].quantity \in Nat
    BY <1>5 DEF CartTypeOK, Addressed, CartRequest, AddItemCreate, WriteQuantity
  <2>2. cart' \in [Buyers -> Lines]
    BY <1>5, <2>1, ReplaceLine DEF CartTypeOK, AddItemCreate, WriteQuantity
  <2>3. creq' = [creq EXCEPT ![c] = Idle] /\ UNCHANGED <<live, stock>>
    BY <1>5 DEF AddItemCreate, WriteQuantity
  <2>4. Idle.pc = "idle"
    BY DEF Idle
  <2> QED  BY <2>2, <2>3, <2>4, IdleType, ReplaceRequest DEF CartTypeOK, Addressed
<1>6. ASSUME NEW c \in CartRequests, RemoveRow(c)
      PROVE  CartTypeOK' /\ Addressed'
  <2>1. creq[c].buyer \in Buyers /\ creq[c].product \in Products
    BY <1>6 DEF Addressed, RemoveRow
  <2>2. cart' \in [Buyers -> Lines]
    BY <1>6, <2>1, ReplaceLine DEF CartTypeOK, RemoveRow
  <2>3. ASSUME NEW d \in CartRequests
        PROVE  /\ creq'[d] \in CartRequest
               /\ creq'[d].pc # "idle" =>
                    creq'[d].buyer \in Buyers /\ creq'[d].product \in Products
    <3>1. creq[d] \in CartRequest /\ Idle.pc = "idle"
      BY DEF CartTypeOK, Idle
    <3>2. creq'[d] \in {Idle, creq[d], [creq[d] EXCEPT !.row = FALSE]}
      BY <1>6 DEF RemoveRow
    <3> QED  BY <3>1, <3>2, IdleType DEF Addressed, CartRequest
  <2>4. creq' = [d \in CartRequests |-> creq'[d]]
    BY <1>6 DEF RemoveRow
  <2> QED  BY <1>6, <2>2, <2>3, <2>4 DEF RemoveRow, CartTypeOK, Addressed
<1>7. ASSUME NEW b \in Buyers, ClearCart(b)
      PROVE  CartTypeOK' /\ Addressed'
  BY <1>7, DropRowsType DEF ClearCart, CartTypeOK
<1> QED
  BY <1>1, <1>2, <1>3, <1>4, <1>5, <1>6, <1>7 DEF CartRequestStep

LEMMA AdminStepType ==
  ASSUME CartTypeOK, Addressed, NEW p \in Products,
         \/ \E n \in StockFigures : AdminSetStock(p, n)
         \/ AdminRemoveProduct(p)
  PROVE  CartTypeOK' /\ Addressed'
<1>1. ASSUME NEW n \in StockFigures, AdminSetStock(p, n)
      PROVE  CartTypeOK' /\ Addressed'
  BY <1>1, MaxStockAssumption DEF AdminSetStock, StockFigures, CartTypeOK, Addressed
<1>2. CASE AdminRemoveProduct(p)
  BY <1>2, DropRowsType DEF AdminRemoveProduct, CartTypeOK
<1> QED  BY <1>1, <1>2

LEMMA CartStepType ==
  ASSUME CartTypeOK, Addressed, [CartNext]_cartVars
  PROVE  CartTypeOK' /\ Addressed'
<1>1. CASE CartNext
  BY <1>1, CartRequestStepType, AdminStepType DEF CartNext
<1>2. CASE UNCHANGED cartVars
  BY <1>2 DEF cartVars, CartTypeOK, Addressed
<1> QED  BY <1>1, <1>2

\* Every state of the cart module is well typed, and a cart request past its
\* first statement names a buyer and a product (cart.service.ts:44-163).
THEOREM CartTyped == CartSpec => [](CartTypeOK /\ Addressed)
<1>1. CartInit => CartTypeOK /\ Addressed
  BY CartInitTypeOK DEF CartInit, Addressed, Idle
<1>2. CartTypeOK /\ Addressed /\ [CartNext]_cartVars => (CartTypeOK /\ Addressed)'
  BY CartStepType
<1> QED  BY <1>1, <1>2, PTL DEF CartSpec

-----------------------------------------------------------------------------
(* A deleted product stays out.                                            *)

\* A request that still has hold of a row is about a product that exists.
RowsOfLive ==
    /\ \A c \in CartRequests :
          creq[c].row => creq[c].buyer \in Buyers /\ creq[c].product \in live
    /\ DeletedStaysOut

\* Dropping rows keeps it: the live products may lose exactly the ones whose
\* rows are dropped from every cart.
LEMMA DropRowsOfLive ==
  ASSUME CartTypeOK, RowsOfLive, NEW B, NEW P, DropRows(B, P),
         live' = live \/ (B = Buyers /\ live' = live \ P)
  PROVE  RowsOfLive'
<1>1. ASSUME NEW b \in Buyers, NEW p \in Products
      PROVE  cart'[b][p] = IF b \in B /\ p \in P THEN 0 ELSE cart[b][p]
  BY DEF DropRows
<1>2. ASSUME NEW c \in CartRequests
      PROVE  /\ creq'[c].buyer = creq[c].buyer
             /\ creq'[c].product = creq[c].product
             /\ creq'[c].row => creq[c].row
             /\ creq'[c].row => ~(creq[c].buyer \in B /\ creq[c].product \in P)
  <2>1. creq[c] \in CartRequest
    BY DEF CartTypeOK
  <2>2. creq'[c] = IF creq[c].buyer \in B /\ creq[c].product \in P
                     THEN [creq[c] EXCEPT !.row = FALSE] ELSE creq[c]
    BY DEF DropRows
  <2> QED  BY <2>1, <2>2 DEF CartRequest
<1> QED  BY <1>1, <1>2 DEF RowsOfLive, DeletedStaysOut, CartTypeOK, Lines

\* A statement that gives one request new variables and writes at most one
\* line, of a product that exists, keeps it too.
LEMMA RequestRowsOfLive ==
  ASSUME CartTypeOK, RowsOfLive, NEW c \in CartRequests, NEW new,
         new.row => new.buyer \in Buyers /\ new.product \in live,
         creq' = [creq EXCEPT ![c] = new], live' = live,
         \/ cart' = cart
         \/ \E b \in Buyers, p \in live, n \in Nat : cart' = [cart EXCEPT ![b][p] = n]
  PROVE  RowsOfLive'
<1>1. \A d \in CartRequests : creq'[d] = IF d = c THEN new ELSE creq[d]
  BY DEF CartTypeOK
<1>2. ASSUME NEW a \in Buyers, NEW q \in Products
      PROVE  cart'[a][q] > 0 => q \in live
  <2>1. cart[a][q] > 0 => q \in live
    BY DEF RowsOfLive, DeletedStaysOut
  <2>2. ASSUME NEW b \in Buyers, NEW p \in live, NEW n \in Nat,
               cart' = [cart EXCEPT ![b][p] = n]
        PROVE  cart'[a][q] = IF a = b /\ q = p THEN n ELSE cart[a][q]
    BY <2>2 DEF CartTypeOK, Lines
  <2> QED  BY <2>1, <2>2
<1> QED  BY <1>1, <1>2 DEF RowsOfLive, DeletedStaysOut

LEMMA CartRequestStepRows ==
  ASSUME CartTypeOK, Addressed, RowsOfLive, CartRequestStep
  PROVE  RowsOfLive'
<1>1. ASSUME NEW c \in CartRequests, NEW b \in Buyers, NEW p \in Products,
             NEW q \in Quantities, AddItem(c, b, p, q)
      PROVE  RowsOfLive'
  <2> DEFINE new == [Idle EXCEPT !.pc = "lookup", !.buyer = b, !.product = p,
                                 !.added = q, !.available = stock[p]]
  <2>1. ~ new.row
    BY DEF Idle
  <2>2. creq' = [creq EXCEPT ![c] = new] /\ UNCHANGED <<live, cart>>
    BY <1>1 DEF AddItem
  <2> HIDE DEF new
  <2> QED  BY <2>1, <2>2, RequestRowsOfLive
<1>2. ASSUME NEW c \in CartRequests, NEW b \in Buyers, NEW p \in Products,
             NEW q \in Quantities, UpdateItem(c, b, p, q)
      PROVE  RowsOfLive'
  <2> DEFINE new == [Idle EXCEPT !.pc = "write", !.buyer = b, !.product = p,
                                 !.quantity = q, !.row = TRUE]
  <2>1. new.buyer = b /\ new.product = p /\ p \in live
    BY <1>2 DEF Idle, UpdateItem, RowsOfLive, DeletedStaysOut
  <2>2. creq' = [creq EXCEPT ![c] = new] /\ UNCHANGED <<live, cart>>
    BY <1>2 DEF UpdateItem
  <2> HIDE DEF new
  <2> QED  BY <2>1, <2>2, RequestRowsOfLive
<1>3. ASSUME NEW c \in CartRequests, NEW b \in Buyers, NEW p \in Products,
             RemoveItem(c, b, p)
      PROVE  RowsOfLive'
  <2> DEFINE new == [Idle EXCEPT !.pc = "remove", !.buyer = b, !.product = p,
                                 !.row = TRUE]
  <2>1. new.buyer = b /\ new.product = p /\ p \in live
    BY <1>3 DEF Idle, RemoveItem, RowsOfLive, DeletedStaysOut
  <2>2. creq' = [creq EXCEPT ![c] = new] /\ UNCHANGED <<live, cart>>
    BY <1>3 DEF RemoveItem
  <2> HIDE DEF new
  <2> QED  BY <2>1, <2>2, RequestRowsOfLive
<1>4. ASSUME NEW c \in CartRequests, AddItemLookup(c)
      PROVE  RowsOfLive'
  <2> DEFINE r == creq[c]
             existing == cart[r.buyer][r.product]
             create == [r EXCEPT !.pc = "create", !.quantity = r.added]
             write == [r EXCEPT !.pc = "write", !.row = TRUE,
                                !.quantity = existing + r.added]
  <2>1. /\ r \in CartRequest /\ r.buyer \in Buyers /\ r.product \in Products
        /\ r.row => r.product \in live
    BY <1>4 DEF CartTypeOK, Addressed, AddItemLookup, RowsOfLive
  <2>2. existing # 0 => r.product \in live
    BY <2>1 DEF CartTypeOK, Lines, RowsOfLive, DeletedStaysOut
  <2>3. /\ create.row = r.row
        /\ create.buyer = r.buyer /\ create.product = r.product
        /\ write.buyer = r.buyer /\ write.product = r.product
    <3> HIDE DEF r, existing
    <3> QED  BY <2>1 DEF CartRequest
  <2>4. ~ Idle.row
    BY DEF Idle
  <2>5. PICK new : /\ \/ new = create
                      \/ new = Idle
                      \/ new = write /\ existing # 0
                   /\ creq' = [creq EXCEPT ![c] = new]
    BY <1>4 DEF AddItemLookup
  <2>6. UNCHANGED <<live, cart>>
    BY <1>4 DEF AddItemLookup
  <2> HIDE DEF create, write, existing
  <2>7. new.row => new.buyer \in Buyers /\ new.product \in live
    BY <2>1, <2>2, <2>3, <2>4, <2>5
  <2> QED  BY <2>5, <2>6, <2>7, RequestRowsOfLive
<1>5. ASSUME NEW c \in CartRequests, AddItemCreate(c) \/ WriteQuantity(c)
      PROVE  RowsOfLive'
  <2>1. /\ creq[c].buyer \in Buyers /\ creq[c].quantity \in Nat
        /\ creq[c].row => creq[c].product \in live
    BY <1>5 DEF CartTypeOK, Addressed, CartRequest, AddItemCreate, WriteQuantity,
                RowsOfLive
  <2>2. \/ cart' = cart
        \/ creq[c].product \in live
             /\ cart' = [cart EXCEPT ![creq[c].buyer][creq[c].product] = creq[c].quantity]
    BY <1>5, <2>1 DEF AddItemCreate, WriteQuantity
  <2>3. creq' = [creq EXCEPT ![c] = Idle] /\ live' = live
    BY <1>5 DEF AddItemCreate, WriteQuantity
  <2>4. ~ Idle.row
    BY DEF Idle
  <2> QED  BY <2>1, <2>2, <2>3, <2>4, RequestRowsOfLive
<1>6. ASSUME NEW c \in CartRequests, RemoveRow(c)
      PROVE  RowsOfLive'
  <2>1. creq[c].buyer \in Buyers /\ creq[c].product \in Products
    BY <1>6 DEF Addressed, RemoveRow
  <2>2. \A a \in Buyers, q \in Products : cart'[a][q] \in {0, cart[a][q]}
    BY <1>6, <2>1 DEF RemoveRow, CartTypeOK, Lines
  <2>3. ASSUME NEW d \in CartRequests, creq'[d].row
        PROVE  /\ creq[d].row
               /\ creq'[d].buyer = creq[d].buyer
               /\ creq'[d].product = creq[d].product
    <3>1. creq[d] \in CartRequest
      BY DEF CartTypeOK
    <3>2. creq'[d] \in {Idle, creq[d], [creq[d] EXCEPT !.row = FALSE]}
      BY <1>6 DEF RemoveRow
    <3>3. ~ Idle.row
      BY DEF Idle
    <3> QED  BY <2>3, <3>1, <3>2, <3>3 DEF CartRequest
  <2>4. live' = live
    BY <1>6 DEF RemoveRow
  <2> QED  BY <2>2, <2>3, <2>4 DEF RowsOfLive, DeletedStaysOut
<1>7. ASSUME NEW b \in Buyers, ClearCart(b)
      PROVE  RowsOfLive'
  BY <1>7, DropRowsOfLive DEF ClearCart
<1> QED
  BY <1>1, <1>2, <1>3, <1>4, <1>5, <1>6, <1>7 DEF CartRequestStep

LEMMA RowsStep ==
  ASSUME CartTypeOK, Addressed, RowsOfLive, [CartNext]_cartVars
  PROVE  RowsOfLive'
<1>1. CASE CartRequestStep
  BY <1>1, CartRequestStepRows
<1>2. ASSUME NEW p \in Products, NEW n \in StockFigures, AdminSetStock(p, n)
      PROVE  RowsOfLive'
  BY <1>2 DEF AdminSetStock, RowsOfLive, DeletedStaysOut
<1>3. ASSUME NEW p \in Products, AdminRemoveProduct(p)
      PROVE  RowsOfLive'
  BY <1>3, DropRowsOfLive DEF AdminRemoveProduct
<1>4. CASE UNCHANGED cartVars
  BY <1>4 DEF cartVars, RowsOfLive, DeletedStaysOut
<1> QED  BY <1>1, <1>2, <1>3, <1>4 DEF CartNext

LEMMA RowsInit == CartInit => RowsOfLive
  BY DEF CartInit, RowsOfLive, DeletedStaysOut, Idle

\* A deleted product never returns to a cart (cart.service.ts:82, 98, 135).
THEOREM DeletedProductsStayOut == CartSpec => []DeletedStaysOut
<1>1. CartTypeOK /\ Addressed /\ RowsOfLive /\ [CartNext]_cartVars => RowsOfLive'
  BY RowsStep
<1>2. RowsOfLive => DeletedStaysOut
  BY DEF RowsOfLive
<1> QED  BY <1>1, <1>2, RowsInit, CartTyped, PTL DEF CartSpec

-----------------------------------------------------------------------------
(* A line never exceeds the stock its product once had.                    *)

\* What a request compares or writes is a figure the stock of its product
\* once had.
Harmless(r) ==
    r.pc # "idle" =>
      /\ r.available <= peak[r.product]
      /\ r.added <= peak[r.product]
      /\ r.quantity <= peak[r.product]

Bounded ==
    /\ peak \in [Products -> Nat]
    /\ stock \in [Products -> Nat]
    /\ \A p \in Products : stock[p] <= peak[p]
    /\ \A c \in CartRequests : Harmless(creq[c])
    /\ LineWithinStock

\* Dropping rows raises no figure.
LEMMA DropRowsBounded ==
  ASSUME CartTypeOK, Bounded, NEW B, NEW P, DropRows(B, P), UNCHANGED <<stock, peak>>
  PROVE  Bounded'
<1>1. ASSUME NEW b \in Buyers, NEW p \in Products
      PROVE  cart'[b][p] = IF b \in B /\ p \in P THEN 0 ELSE cart[b][p]
  BY DEF DropRows
<1>2. ASSUME NEW c \in CartRequests
      PROVE  /\ creq'[c].pc = creq[c].pc
             /\ creq'[c].product = creq[c].product
             /\ creq'[c].available = creq[c].available
             /\ creq'[c].added = creq[c].added
             /\ creq'[c].quantity = creq[c].quantity
  <2>1. creq[c] \in CartRequest
    BY DEF CartTypeOK
  <2>2. creq'[c] = IF creq[c].buyer \in B /\ creq[c].product \in P
                     THEN [creq[c] EXCEPT !.row = FALSE] ELSE creq[c]
    BY DEF DropRows
  <2> QED  BY <2>1, <2>2 DEF CartRequest
<1>3. \A b \in Buyers, p \in Products : peak[p] \in Nat /\ cart[b][p] <= peak[p]
  BY DEF Bounded, LineWithinStock
<1>4. LineWithinStock'
  BY <1>1, <1>3 DEF LineWithinStock
<1> QED  BY <1>2, <1>4 DEF Bounded, Harmless

\* The step leaves the carts alone or writes one line.
OneLineWritten ==
    \/ cart' = cart
    \/ \E b \in Buyers, p \in Products, n \in Nat :
          n <= peak[p] /\ cart' = [cart EXCEPT ![b][p] = n]

\* A statement of a cart request, the deletions aside, gives one request
\* new variables and writes at most one line.
LEMMA RequestStepBounded ==
  ASSUME CartTypeOK, Bounded, NEW c \in CartRequests, NEW new, Harmless(new),
         creq' = [creq EXCEPT ![c] = new], UNCHANGED <<stock, peak>>,
         OneLineWritten
  PROVE  Bounded'
<1>1. \A d \in CartRequests : creq'[d] = IF d = c THEN new ELSE creq[d]
  BY DEF CartTypeOK
<1>2. ASSUME NEW a \in Buyers, NEW q \in Products
      PROVE  cart'[a][q] <= peak[q]
  <2>1. cart[a][q] <= peak[q]
    BY DEF Bounded, LineWithinStock
  <2>2. ASSUME NEW b \in Buyers, NEW p \in Products, NEW n \in Nat,
               n <= peak[p], cart' = [cart EXCEPT ![b][p] = n]
        PROVE  cart'[a][q] <= peak[q]
    <3>1. cart'[a][q] = IF a = b /\ q = p THEN n ELSE cart[a][q]
      BY <2>2 DEF CartTypeOK, Lines
    <3> QED  BY <2>1, <2>2, <3>1
  <2> QED  BY <2>1, <2>2 DEF OneLineWritten
<1> QED  BY <1>1, <1>2 DEF Harmless, Bounded, LineWithinStock

LEMMA IdleHarmless == Harmless(Idle)
  BY DEF Idle, Harmless

LEMMA CartRequestStepBounded ==
  ASSUME CartTypeOK, Addressed, Bounded, CartRequestStep, peak' = peak
  PROVE  Bounded'
<1>1. ASSUME NEW c \in CartRequests, NEW b \in Buyers, NEW p \in Products,
             NEW q \in Quantities, AddItem(c, b, p, q) \/ UpdateItem(c, b, p, q)
      PROVE  Bounded'
  <2> q \in Nat /\ stock[p] \in Nat /\ peak[p] \in Nat /\ q <= peak[p] /\ stock[p] <= peak[p]
    BY <1>1, MaxQuantityAssumption
       DEF AddItem, UpdateItem, CartTypeOK, Bounded, Quantities
  <2>1. CASE AddItem(c, b, p, q)
    <3> DEFINE new == [Idle EXCEPT !.pc = "lookup", !.buyer = b, !.product = p,
                                   !.added = q, !.available = stock[p]]
    <3>1. new.product = p /\ new.available = stock[p] /\ new.added = q /\ new.quantity = 0
      BY DEF Idle
    <3> HIDE DEF new
    <3>2. Harmless(new)
      BY <3>1 DEF Harmless
    <3>3. creq' = [creq EXCEPT ![c] = new] /\ UNCHANGED <<live, stock, cart>>
      BY <2>1 DEF AddItem, new
    <3> QED  BY <3>2, <3>3, RequestStepBounded DEF OneLineWritten
  <2>2. CASE UpdateItem(c, b, p, q)
    <3> DEFINE new == [Idle EXCEPT !.pc = "write", !.buyer = b, !.product = p,
                                   !.quantity = q, !.row = TRUE]
    <3>1. new.product = p /\ new.available = 0 /\ new.added = 0 /\ new.quantity = q
      BY DEF Idle
    <3> HIDE DEF new
    <3>2. Harmless(new)
      BY <3>1 DEF Harmless
    <3>3. creq' = [creq EXCEPT ![c] = new] /\ UNCHANGED <<live, stock, cart>>
      BY <2>2 DEF UpdateItem, new
    <3> QED  BY <3>2, <3>3, RequestStepBounded DEF OneLineWritten
  <2> QED  BY <1>1, <2>1, <2>2
<1>2. ASSUME NEW c \in CartRequests, NEW b \in Buyers, NEW p \in Products,
             RemoveItem(c, b, p)
      PROVE  Bounded'
  <2> DEFINE new == [Idle EXCEPT !.pc = "remove", !.buyer = b, !.product = p,
                                 !.row = TRUE]
  <2>1. new.product = p /\ new.available = 0 /\ new.added = 0 /\ new.quantity = 0
    BY DEF Idle
  <2> HIDE DEF new
  <2>2. Harmless(new)
    BY <2>1 DEF Harmless, Bounded
  <2>3. creq' = [creq EXCEPT ![c] = new] /\ UNCHANGED <<live, stock, cart>>
    BY <1>2 DEF RemoveItem, new
  <2> QED  BY <2>2, <2>3, RequestStepBounded DEF OneLineWritten
<1>3. ASSUME NEW c \in CartRequests, AddItemLookup(c)
      PROVE  Bounded'
  <2> DEFINE r == creq[c]
             existing == cart[r.buyer][r.product]
  <2>1. /\ r \in CartRequest /\ r.buyer \in Buyers /\ r.product \in Products
        /\ r.available <= peak[r.product] /\ r.added <= peak[r.product]
        /\ peak[r.product] \in Nat
    BY <1>3 DEF CartTypeOK, Addressed, AddItemLookup, Bounded, Harmless
  <2>2. existing \in Nat
    BY <2>1 DEF CartTypeOK, Lines
  <2>3. UNCHANGED <<live, stock, cart>>
    BY <1>3 DEF AddItemLookup
  <2>4. ASSUME NEW x \in CartRequest, NEW n \in Nat
        PROVE  LET y == [x EXCEPT !.pc = "write", !.row = TRUE, !.quantity = n]
                   z == [x EXCEPT !.pc = "create", !.quantity = n]
               IN  /\ y.product = x.product /\ z.product = x.product
                   /\ y.available = x.available /\ y.added = x.added /\ y.quantity = n
                   /\ z.available = x.available /\ z.added = x.added /\ z.quantity = n
    BY DEF CartRequest
  <2>5. CASE creq' = [creq EXCEPT ![c] = Idle]
    BY <2>3, <2>5, IdleHarmless, RequestStepBounded DEF OneLineWritten
  <2>6. CASE creq' = [creq EXCEPT ![c] =
                        [r EXCEPT !.pc = "create", !.quantity = r.added]]
    <3>1. r.added \in Nat
      BY <2>1 DEF CartRequest
    <3> HIDE DEF r
    <3> DEFINE new == [r EXCEPT !.pc = "create", !.quantity = r.added]
    <3>2. /\ new.available = r.available /\ new.added = r.added
          /\ new.quantity = r.added /\ new.product = r.product
      BY <2>1, <2>4, <3>1
    <3>3. creq' = [creq EXCEPT ![c] = new]
      BY <2>6
    <3> HIDE DEF new
    <3>4. Harmless(new)
      BY <2>1, <3>2 DEF Harmless
    <3> QED  BY <2>3, <3>3, <3>4, RequestStepBounded DEF OneLineWritten
  <2>7. CASE /\ existing # 0 /\ existing + r.added <= r.available
             /\ creq' = [creq EXCEPT ![c] = [r EXCEPT !.pc = "write", !.row = TRUE,
                                               !.quantity = existing + r.added]]
    <3>1. r.added \in Nat /\ r.available \in Nat
      BY <2>1 DEF CartRequest
    <3> DEFINE n == existing + r.added
    <3>2. n \in Nat /\ n <= peak[r.product]
      BY <2>1, <2>2, <2>7, <3>1
    <3> HIDE DEF r, n
    <3> DEFINE new == [r EXCEPT !.pc = "write", !.row = TRUE, !.quantity = n]
    <3>3. /\ new.available = r.available /\ new.added = r.added
          /\ new.quantity = n /\ new.product = r.product
      BY <2>1, <2>4, <3>2
    <3>4. creq' = [creq EXCEPT ![c] = new]
      BY <2>7 DEF n
    <3> HIDE DEF new
    <3>5. Harmless(new)
      BY <2>1, <3>2, <3>3 DEF Harmless
    <3> QED  BY <2>3, <3>4, <3>5, RequestStepBounded DEF OneLineWritten
  <2> QED
    <3>1. r.added \in Nat /\ r.available \in Nat
      BY <2>1 DEF CartRequest
    <3>2. CASE existing = 0
      <4>1. creq' = [creq EXCEPT ![c] =
                        [r EXCEPT !.pc = "create", !.quantity = r.added]]
        BY <1>3, <3>2 DEF AddItemLookup
      <4> QED  BY <2>6, <4>1
    <3>3. CASE existing # 0 /\ existing + r.added > r.available
      <4>1. creq' = [creq EXCEPT ![c] = Idle]
        BY <1>3, <3>3 DEF AddItemLookup
      <4> QED  BY <2>5, <4>1
    <3>4. CASE existing # 0 /\ ~(existing + r.added > r.available)
      <4>1. creq' = [creq EXCEPT ![c] = [r EXCEPT !.pc = "write", !.row = TRUE,
                                           !.quantity = existing + r.added]]
        BY <1>3, <3>4 DEF AddItemLookup
      <4>2. existing + r.added <= r.available
        BY <2>2, <3>1, <3>4
      <4> QED  BY <2>7, <3>4, <4>1, <4>2
    <3> QED  BY <3>2, <3>3, <3>4
<1>4. ASSUME NEW c \in CartRequests, AddItemCreate(c) \/ WriteQuantity(c)
      PROVE  Bounded'
  <2>1. /\ creq[c].buyer \in Buyers /\ creq[c].product \in Products
        /\ creq[c].quantity \in Nat /\ creq[c].quantity <= peak[creq[c].product]
    BY <1>4 DEF CartTypeOK, Addressed, CartRequest, AddItemCreate, WriteQuantity, Bounded,
                Harmless
  <2>2. \/ cart' = cart
        \/ cart' = [cart EXCEPT ![creq[c].buyer][creq[c].product] = creq[c].quantity]
    BY <1>4, <2>1 DEF AddItemCreate, WriteQuantity
  <2>4. creq' = [creq EXCEPT ![c] = Idle] /\ UNCHANGED <<live, stock>>
    BY <1>4 DEF AddItemCreate, WriteQuantity
  <2>5. OneLineWritten
    BY <2>1, <2>2 DEF OneLineWritten
  <2> QED  BY <2>4, <2>5, IdleHarmless, RequestStepBounded
<1>5. ASSUME NEW c \in CartRequests, RemoveRow(c)
      PROVE  Bounded'
  <2>1. /\ creq[c] \in CartRequest
        /\ creq[c].buyer \in Buyers /\ creq[c].product \in Products
    BY <1>5 DEF CartTypeOK, Addressed, RemoveRow
  <2>2. ASSUME NEW a \in Buyers, NEW q \in Products
        PROVE  cart'[a][q] \in {0, cart[a][q]}
    BY <1>5, <2>1 DEF RemoveRow, CartTypeOK, Lines
  <2>3. ASSUME NEW d \in CartRequests
        PROVE  \/ creq'[d].pc = "idle"
               \/ /\ creq'[d].pc = creq[d].pc /\ creq'[d].product = creq[d].product
                  /\ creq'[d].available = creq[d].available
                  /\ creq'[d].added = creq[d].added
                  /\ creq'[d].quantity = creq[d].quantity
    <3>1. creq[d] \in CartRequest
      BY DEF CartTypeOK
    <3>2. creq'[d] \in {Idle, creq[d], [creq[d] EXCEPT !.row = FALSE]}
      BY <1>5 DEF RemoveRow
    <3>3. Idle.pc = "idle"
      BY DEF Idle
    <3> QED  BY <3>1, <3>2, <3>3 DEF CartRequest
  <2>4. stock' = stock
    BY <1>5 DEF RemoveRow
  <2>5. LineWithinStock'
    BY <2>2 DEF Bounded, LineWithinStock
  <2> QED  BY <2>3, <2>4, <2>5 DEF Bounded, Harmless
<1>6. ASSUME NEW b \in Buyers, ClearCart(b)
      PROVE  Bounded'
  BY <1>6, DropRowsBounded DEF ClearCart
<1> QED
  BY <1>1, <1>2, <1>3, <1>4, <1>5, <1>6 DEF CartRequestStep

\* The requests leave the stock alone.
LEMMA StockStays ==
  ASSUME CartRequestStep
  PROVE  stock' = stock
  BY DEF CartRequestStep, AddItem, UpdateItem, RemoveItem, AddItemLookup, AddItemCreate,
         WriteQuantity, RemoveRow, ClearCart

\* A peak only rises, and stays where the stock does.
LEMMA PeakRises ==
  ASSUME Bounded, HistoryNext, stock' \in [Products -> Nat]
  PROVE  /\ peak' \in [Products -> Nat]
         /\ \A p \in Products : peak[p] <= peak'[p] /\ stock'[p] <= peak'[p]
         /\ stock' = stock => peak' = peak
<1>1. \A p \in Products : peak'[p] = IF stock'[p] > peak[p] THEN stock'[p] ELSE peak[p]
  BY DEF HistoryNext
<1>2. peak' \in [Products -> Nat]
  BY DEF HistoryNext, Bounded
<1>3. \A p \in Products : peak[p] <= peak'[p] /\ stock'[p] <= peak'[p]
  BY <1>1 DEF Bounded
<1>4. ASSUME stock' = stock PROVE peak' = peak
  <2>1. \A p \in Products : peak'[p] = peak[p]
    BY <1>1, <1>4 DEF Bounded
  <2> QED  BY <1>2, <2>1 DEF Bounded
<1> QED  BY <1>2, <1>3, <1>4

LEMMA BoundedStep ==
  ASSUME CartTypeOK, Addressed, Bounded, [HistoryNext]_historyVars
  PROVE  Bounded'
<1>1. CASE HistoryNext /\ CartRequestStep
  <2>1. stock' = stock
    BY <1>1, StockStays
  <2>2. peak' = peak
    BY <1>1, <2>1, PeakRises DEF Bounded
  <2> QED  BY <1>1, <2>2, CartRequestStepBounded
<1>2. ASSUME HistoryNext, NEW p \in Products, NEW n \in StockFigures, AdminSetStock(p, n)
      PROVE  Bounded'
  <2>1. stock' \in [Products -> Nat]
    BY <1>2, MaxStockAssumption DEF AdminSetStock, StockFigures, Bounded
  <2>2. /\ peak' \in [Products -> Nat]
        /\ \A q \in Products : peak[q] <= peak'[q] /\ stock'[q] <= peak'[q]
    BY <1>2, <2>1, PeakRises
  <2>3. UNCHANGED <<cart, creq>>
    BY <1>2 DEF AdminSetStock
  <2>4. ASSUME NEW c \in CartRequests PROVE Harmless(creq[c])'
    <3>1. creq[c] \in CartRequest /\ (creq[c].pc # "idle" => creq[c].product \in Products)
      BY DEF CartTypeOK, Addressed
    <3>2. /\ creq[c].available \in Nat /\ creq[c].added \in Nat /\ creq[c].quantity \in Nat
      BY <3>1 DEF CartRequest
    <3>3. Harmless(creq[c])
      BY DEF Bounded
    <3> QED  BY <2>2, <2>3, <3>1, <3>2, <3>3 DEF Harmless, Bounded
  <2>5. LineWithinStock'
    <3> SUFFICES ASSUME NEW b \in Buyers, NEW q \in Products PROVE cart'[b][q] <= peak'[q]
      BY DEF LineWithinStock
    <3>1. cart[b][q] \in Nat /\ cart[b][q] <= peak[q] /\ peak[q] \in Nat /\ peak'[q] \in Nat
      BY <2>2 DEF CartTypeOK, Lines, Bounded, LineWithinStock
    <3> QED  BY <2>2, <2>3, <3>1
  <2> QED  BY <2>1, <2>2, <2>4, <2>5 DEF Bounded
<1>3. ASSUME HistoryNext, NEW p \in Products, AdminRemoveProduct(p)
      PROVE  Bounded'
  <2>1. stock' = stock
    BY <1>3 DEF AdminRemoveProduct
  <2>2. peak' = peak
    BY <1>3, <2>1, PeakRises DEF Bounded
  <2> QED  BY <1>3, <2>1, <2>2, DropRowsBounded DEF AdminRemoveProduct
<1>4. CASE UNCHANGED historyVars
  BY <1>4 DEF historyVars, cartVars, Bounded, Harmless, LineWithinStock
<1> QED  BY <1>1, <1>2, <1>3, <1>4 DEF HistoryNext, CartNext

LEMMA BoundedInit == HistoryInit => Bounded
  BY MaxStockAssumption, IdleHarmless
     DEF HistoryInit, CartInit, Bounded, LineWithinStock, StockFigures

\* However many additions, updates and stock edits interleave, a cart line is
\* never for more than its product once had (cart.service.ts:52, 68, 125).
THEOREM LinesWithinStock == HistorySpec => []LineWithinStock
<1> DEFINE All == CartTypeOK /\ Addressed /\ Bounded
<1>1. HistoryInit => All
  BY BoundedInit, CartInitTypeOK DEF HistoryInit, CartInit, Addressed, Idle
<1>2. All /\ [HistoryNext]_historyVars => All'
  BY BoundedStep, CartStepType DEF HistoryNext, historyVars
<1>3. All => LineWithinStock
  BY DEF Bounded
<1> QED  BY <1>1, <1>2, <1>3, PTL DEF HistorySpec
=============================================================================
