--------------------------- MODULE CheckoutProofs ---------------------------
(* Theorems about Checkout.tla, for every value of its constants.          *)
EXTENDS Checkout, CartProofs, FiniteSetTheorems, WellFoundedInduction

-----------------------------------------------------------------------------
(* Sums over finite sets.  The ledger adds up over the orders, and the sum *)
(* of the community modules is a recursive function on subsets.  What it   *)
(* computes is proved here, from the fact that the subsets of a finite set *)
(* are well ordered by strict inclusion.                                   *)

\* Instead of an induction over finite sets: a family of subsets that with
\* each member has a smaller one is empty.
LEMMA Descent ==
  ASSUME NEW D, IsFiniteSet(D), NEW B \in SUBSET (SUBSET D),
         \A s \in B : \E t \in B : t \subseteq s /\ t # s
  PROVE  B = {}
<1> DEFINE R == StrictSubsetOrdering(D)
           F == FiniteSubsetsOf(D)
<1>1. IsWellFoundedOn(R, F)
  BY FS_StrictSubsetOrderingWellFounded
<1>2. B \subseteq F
  BY FS_Subset DEF FiniteSubsetsOf
<1>3. SUFFICES ASSUME B # {} PROVE FALSE
  OBVIOUS
<1>4. PICK s \in B : \A t \in B : ~ (<<t, s>> \in R)
  <2> HIDE DEF R, F
  <2> QED  BY <1>1, <1>2, <1>3, WFMin
<1> QED  BY <1>4 DEF StrictSubsetOrdering

\* The sum of the values of the function w over the set S.
Total(w, S) == MapThenSumSet(LAMBDA x : w[x], S)

\* The element that the sum takes first, and the equation of the recursion.
Pick(s) == CHOOSE y \in s : TRUE
Adds(g, w, D) ==
    \A s \in SUBSET D : g[s] = IF s = {} THEN 0 ELSE w[Pick(s)] + g[s \ {Pick(s)}]

Figures(w, D) == \A x \in D : w[x] \in Int

LEMMA PickIn ==
  ASSUME NEW s, s # {} PROVE Pick(s) \in s
  BY DEF Pick

\* The recursion has a solution: level by level of cardinality.
LEMMA AddsExists ==
  ASSUME NEW D, IsFiniteSet(D), NEW w, Figures(w, D)
  PROVE  \E g \in [SUBSET D -> Int] : Adds(g, w, D)
<1> DEFINE Part(g, s) == IF s = {} THEN 0 ELSE w[Pick(s)] + g[s \ {Pick(s)}]
           Upto(g, t) == \A s \in SUBSET D :
                            Cardinality(s) <= Cardinality(t) => g[s] = Part(g, s)
           B == {t \in SUBSET D : ~ \E g \in [SUBSET D -> Int] : Upto(g, t)}
<1>1. ASSUME NEW t \in SUBSET D PROVE IsFiniteSet(t) /\ Cardinality(t) \in Nat
  BY FS_Subset, FS_CardinalityType
<1>2. ASSUME NEW t \in B
      PROVE  \E v \in B : v \subseteq t /\ v # t
  <2>1. t # {}
    <3> DEFINE g == [s \in SUBSET D |-> 0]
    <3>1. ASSUME t = {} PROVE Upto(g, t)
      <4>1. \A s \in SUBSET D : Cardinality(s) <= Cardinality(t) => s = {}
        BY <1>1, <3>1, FS_EmptySet
      <4> QED  BY <4>1
    <3>2. g \in [SUBSET D -> Int]
      OBVIOUS
    <3> HIDE DEF g
    <3> QED  BY <3>1, <3>2
  <2> DEFINE u == t \ {Pick(t)}
  <2>2. u \in SUBSET D /\ Cardinality(u) = Cardinality(t) - 1 /\ u # t
    BY <1>1, <2>1, PickIn, FS_RemoveElement
  <2>3. SUFFICES ASSUME u \notin B PROVE FALSE
    BY <2>2
  <2>4. PICK g \in [SUBSET D -> Int] : Upto(g, u)
    BY <2>2, <2>3
  <2> DEFINE h == [s \in SUBSET D |-> Part(g, s)]
  <2>5. h \in [SUBSET D -> Int]
    <3>1. ASSUME NEW s \in SUBSET D PROVE Part(g, s) \in Int
      BY PickIn DEF Figures
    <3> QED  BY <3>1
  <2>6. ASSUME NEW s \in SUBSET D, Cardinality(s) <= Cardinality(t), s # {}
        PROVE  h[s] = Part(h, s)
    <3> DEFINE r == s \ {Pick(s)}
    <3>1. r \in SUBSET D /\ Cardinality(r) = Cardinality(s) - 1
      BY <1>1, <2>6, PickIn, FS_RemoveElement
    <3>2. Cardinality(r) <= Cardinality(u)
      BY <1>1, <2>2, <2>6, <3>1
    <3>3. h[r] = g[r]
      <4> HIDE DEF r
      <4> QED  BY <2>4, <3>1, <3>2
    <3>4. h[s] = w[Pick(s)] + g[r]
      BY <2>6
    <3> QED  BY <2>6, <3>3, <3>4
  <2>7. h[{}] = Part(h, {})
    OBVIOUS
  <2>8. Upto(h, t)
    <3> HIDE DEF h
    <3> QED  BY <2>6, <2>7
  <2> HIDE DEF h
  <2> QED  BY <2>5, <2>8
<1>3. B = {}
  <2>1. B \in SUBSET (SUBSET D)
    OBVIOUS
  <2> HIDE DEF B
  <2> QED  BY <1>2, <2>1, Descent
<1>4. PICK g \in [SUBSET D -> Int] : Upto(g, D)
  BY <1>3
<1>5. \A s \in SUBSET D : Cardinality(s) <= Cardinality(D)
  BY FS_Subset
<1> QED  BY <1>4, <1>5 DEF Adds

\* It has one solution, which depends on the values of the function only.
LEMMA AddsSame ==
  ASSUME NEW D, IsFiniteSet(D), NEW v, NEW w, \A x \in D : v[x] = w[x],
         NEW g, Adds(g, v, D), NEW h, Adds(h, w, D)
  PROVE  \A s \in SUBSET D : g[s] = h[s]
<1> DEFINE B == {s \in SUBSET D : g[s] # h[s]}
<1>1. ASSUME NEW s \in B
      PROVE  \E t \in B : t \subseteq s /\ t # s
  <2>1. s # {}
    BY DEF Adds
  <2>2. s \ {Pick(s)} \in SUBSET D /\ s \ {Pick(s)} # s /\ Pick(s) \in D
    BY <2>1, PickIn
  <2>3. SUFFICES ASSUME s \ {Pick(s)} \notin B PROVE FALSE
    BY <2>2
  <2> QED  BY <2>1, <2>2, <2>3 DEF Adds
<1>2. B = {}
  <2>1. B \in SUBSET (SUBSET D)
    OBVIOUS
  <2> HIDE DEF B
  <2> QED  BY <1>1, <2>1, Descent
<1> QED  BY <1>2 DEF B

\* Which element is taken first does not matter.
LEMMA AddsRemove ==
  ASSUME NEW D, IsFiniteSet(D), NEW w, Figures(w, D), NEW g, Adds(g, w, D),
         NEW s \in SUBSET D, NEW x \in s
  PROVE  g[s] = w[x] + g[s \ {x}]
<1>1. PICK h \in [SUBSET D -> Int] : Adds(h, w, D)
  BY AddsExists
<1>2. \A t \in SUBSET D : g[t] \in Int
  BY <1>1, AddsSame
<1> DEFINE B == {t \in SUBSET D : \E y \in t : g[t] # w[y] + g[t \ {y}]}
<1>3. ASSUME NEW t \in B PROVE \E u \in B : u \subseteq t /\ u # t
  <2> SUFFICES ASSUME \A u \in B : ~ (u \subseteq t /\ u # t) PROVE FALSE
    OBVIOUS
  <2>1. PICK y \in t : g[t] # w[y] + g[t \ {y}]
    OBVIOUS
  <2> DEFINE c == Pick(t)
             u == t \ {y}
  <2>2. c \in t /\ g[t] = w[c] + g[t \ {c}]
    BY PickIn DEF Adds
  <2>3. c # y
    BY <2>1, <2>2
  <2>4. c \in u /\ u \in SUBSET D /\ u \subseteq t /\ u # t
    BY <2>2, <2>3
  <2> HIDE DEF c
  <2>5. u \notin B
    BY <2>4
  <2>6. g[u] = w[c] + g[u \ {c}]
    BY <2>4, <2>5
  <2>7. t \ {c} \in SUBSET D /\ y \in t \ {c} /\ t \ {c} \subseteq t /\ t \ {c} # t
    BY <2>2, <2>3
  <2>8. t \ {c} \notin B
    BY <2>7
  <2>9. g[t \ {c}] = w[y] + g[(t \ {c}) \ {y}]
    BY <2>7, <2>8
  <2>10. (t \ {c}) \ {y} = u \ {c}
    OBVIOUS
  <2>11. w[c] \in Int /\ w[y] \in Int /\ g[u \ {c}] \in Int
    BY <1>2, <2>2, <2>4 DEF Figures
  <2>12. g[t] # w[y] + g[u]
    BY <2>1
  <2>13. g[t \ {c}] = w[y] + g[u \ {c}]
    BY <2>9, <2>10
  <2> HIDE DEF u
  <2> QED  BY <2>2, <2>6, <2>11, <2>12, <2>13
<1>4. B = {}
  <2>1. B \in SUBSET (SUBSET D)
    OBVIOUS
  <2> HIDE DEF B
  <2> QED  BY <1>3, <2>1, Descent
<1> QED  BY <1>2, <1>4

\* The function that MapThenSumSet chooses is that solution.
LEMMA ChosenAdds ==
  ASSUME NEW S, IsFiniteSet(S), NEW w, Figures(w, S), NEW f,
         f = CHOOSE h : h = [s \in SUBSET S |-> IF s = {} THEN 0
                               ELSE w[CHOOSE y \in s : TRUE] + h[s \ {CHOOSE y \in s : TRUE}]]
  PROVE  Adds(f, w, S)
<1> DEFINE Body(h) == [s \in SUBSET S |-> IF s = {} THEN 0
                          ELSE w[CHOOSE y \in s : TRUE] + h[s \ {CHOOSE y \in s : TRUE}]]
<1>1. f = CHOOSE h : h = Body(h)
  OBVIOUS
<1>2. PICK h \in [SUBSET S -> Int] : Adds(h, w, S)
  BY AddsExists
<1>3. h = Body(h)
  BY <1>2 DEF Adds, Pick
<1>4. f = Body(f)
  <2> HIDE DEF Body
  <2> QED  BY <1>1, <1>3
<1> QED  BY <1>4 DEF Adds, Pick

LEMMA TotalAdds ==
  ASSUME NEW S, IsFiniteSet(S), NEW w, Figures(w, S), NEW g, Adds(g, w, S)
  PROVE  Total(w, S) = g[S]
<1> DEFINE f == CHOOSE h : h = [s \in SUBSET S |-> IF s = {} THEN 0
                               ELSE w[CHOOSE y \in s : TRUE] + h[s \ {CHOOSE y \in s : TRUE}]]
<1>1. Total(w, S) = f[S]
  BY Zenon DEF Total, MapThenSumSet, MapThenFoldSet
<1>2. f = CHOOSE h : h = [s \in SUBSET S |-> IF s = {} THEN 0
                            ELSE w[CHOOSE y \in s : TRUE] + h[s \ {CHOOSE y \in s : TRUE}]]
  OBVIOUS
<1> HIDE DEF f
<1>3. Adds(f, w, S)
  BY <1>2, ChosenAdds
<1> QED  BY <1>1, <1>3, AddsSame

LEMMA TotalType ==
  ASSUME NEW S, IsFiniteSet(S), NEW w, Figures(w, S)
  PROVE  Total(w, S) \in Int
<1>1. PICK g \in [SUBSET S -> Int] : Adds(g, w, S)
  BY AddsExists
<1>2. Total(w, S) = g[S]
  BY <1>1, TotalAdds
<1> QED  BY <1>1, <1>2

LEMMA TotalEmpty ==
  ASSUME NEW w
  PROVE  Total(w, {}) = 0
<1>1. IsFiniteSet({}) /\ Figures(w, {})
  BY FS_EmptySet DEF Figures
<1>2. PICK g : Adds(g, w, {})
  BY <1>1, AddsExists
<1>3. g[{}] = 0
  BY <1>2 DEF Adds
<1> QED  BY <1>1, <1>2, <1>3, TotalAdds

LEMMA TotalSame ==
  ASSUME NEW S, IsFiniteSet(S), NEW v, NEW w, Figures(w, S), \A x \in S : v[x] = w[x]
  PROVE  Total(v, S) = Total(w, S)
<1>1. Figures(v, S)
  BY DEF Figures
<1>2. PICK g : Adds(g, v, S)
  BY <1>1, AddsExists
<1>3. PICK h : Adds(h, w, S)
  BY AddsExists
<1>4. g[S] = h[S]
  BY <1>2, <1>3, AddsSame
<1> QED  BY <1>1, <1>2, <1>3, <1>4, TotalAdds

LEMMA TotalRemove ==
  ASSUME NEW S, IsFiniteSet(S), NEW w, Figures(w, S), NEW x \in S
  PROVE  Total(w, S) = w[x] + Total(w, S \ {x})
<1> DEFINE T == S \ {x}
<1>1. PICK g \in [SUBSET S -> Int] : Adds(g, w, S)
  BY AddsExists
<1>2. T \in SUBSET S /\ IsFiniteSet(T)
  BY FS_RemoveElement
<1>3. Figures(w, T) /\ Adds(g, w, T)
  BY <1>1, <1>2 DEF Figures, Adds
<1>4. Total(w, S) = g[S] /\ Total(w, T) = g[T]
  BY <1>1, <1>2, <1>3, TotalAdds
<1>5. g[S] = w[x] + g[T]
  BY <1>1, AddsRemove
<1> QED  BY <1>4, <1>5

\* A change of one value changes the sum by as much.
LEMMA TotalChange ==
  ASSUME NEW S, IsFiniteSet(S), NEW v, NEW w, Figures(v, S), Figures(w, S), NEW x \in S,
         \A y \in S \ {x} : v[y] = w[y]
  PROVE  Total(v, S) = Total(w, S) + (v[x] - w[x])
<1> DEFINE T == S \ {x}
<1>1. IsFiniteSet(T) /\ Figures(w, T)
  BY FS_RemoveElement DEF Figures
<1>2. Total(v, T) = Total(w, T) /\ Total(w, T) \in Int
  BY <1>1, TotalSame, TotalType
<1>3. Total(v, S) = v[x] + Total(v, T) /\ Total(w, S) = w[x] + Total(w, T)
  BY TotalRemove
<1>4. v[x] \in Int /\ w[x] \in Int
  BY DEF Figures
<1> HIDE DEF T
<1> QED  BY <1>2, <1>3, <1>4

LEMMA ZeroTotal ==
  ASSUME NEW S, IsFiniteSet(S), NEW w, \A x \in S : w[x] = 0
  PROVE  Total(w, S) = 0
<1>1. Figures(w, S)
  BY DEF Figures
<1>2. PICK g \in [SUBSET S -> Int] : Adds(g, w, S)
  BY <1>1, AddsExists
<1> DEFINE B == {s \in SUBSET S : g[s] # 0}
<1>3. ASSUME NEW s \in B PROVE \E t \in B : t \subseteq s /\ t # s
  <2>1. s # {}
    BY <1>2 DEF Adds
  <2>2. s \ {Pick(s)} \in SUBSET S /\ s \ {Pick(s)} # s /\ w[Pick(s)] = 0
    BY <2>1, PickIn
  <2>3. g[s] = 0 + g[s \ {Pick(s)}] /\ g[s \ {Pick(s)}] \in Int
    BY <1>2, <2>1, <2>2 DEF Adds
  <2> QED  BY <2>2, <2>3
<1>4. B = {}
  <2>1. B \in SUBSET (SUBSET S)
    OBVIOUS
  <2> HIDE DEF B
  <2> QED  BY <1>3, <2>1, Descent
<1>5. g[S] = 0
  BY <1>4
<1> QED  BY <1>1, <1>2, <1>5, TotalAdds

-----------------------------------------------------------------------------
(* The shop.                                                               *)

\* The inductive invariant.  That stock is never oversold needs that only
\* the holder of a row lock has changed the row, which needs that a request
\* has changed exactly what it worked off.
Safe ==
    /\ TypeOK /\ Addressed
    /\ TransactionInv
    /\ NeverOversold
    /\ OrderedProductsExist

LEMMA NoLinesType ==
  /\ NoLines \in Lines /\ NoLines \in [Products -> Int]
  /\ \A p \in Products : NoLines[p] = 0
  BY DEF NoLines, Lines

LEMMA InitSafe == Init => Safe
<1> SUFFICES ASSUME Init PROVE Safe
  OBVIOUS
<1>1. NoLines \in Lines
  BY DEF NoLines, Lines
<1>2. IdleRequest \in Request
  BY <1>1 DEF IdleRequest, Request
<1>3. TypeOK
  BY <1>1, <1>2, CartInitTypeOK, MaxStockAssumption
     DEF Init, CartInit, TypeOK, Lines, NoLines, OrderStatus, DeliveryStatus, StockFigures
<1>4. Addressed
  BY DEF Init, CartInit, Addressed, Idle
<1>5. TransactionInv
  <2>1. \A r \in Requests : RequestInv(req[r], delta[r])
    BY DEF Init, RequestInv, IdleRequest
  <2>2. FreshOrders
    BY RequestsAssumption DEF Init, FreshOrders, IdleRequest
  <2>3. LockInv
    BY DEF Init, LockInv, NoLines
  <2> QED  BY <2>1, <2>2, <2>3 DEF TransactionInv
<1>6. NeverOversold
  <2>1. ASSUME NEW p \in Products PROVE stock[p] \in Nat /\ stock[p] >= 0
    BY MaxStockAssumption DEF Init, CartInit, StockFigures
  <2>2. ASSUME NEW r \in Requests, NEW p \in Products
        PROVE  stock[p] + delta[r][p] >= 0
    <3>1. delta[r][p] = 0
      BY NoLinesType DEF Init
    <3> QED  BY <2>1, <3>1
  <2> QED  BY <2>1, <2>2 DEF NeverOversold
<1>7. OrderedProductsExist
  BY DEF Init, OrderedProductsExist, Placed
<1> QED  BY <1>3, <1>4, <1>5, <1>6, <1>7 DEF Safe

-----------------------------------------------------------------------------
(* Steps of a request that leave the committed tables alone.               *)

\* What the invariant says of one request and its uncommitted changes.
Fits(r, x, d) ==
    /\ x \in Request /\ d \in [Products -> Int]
    /\ RequestInv(x, d)
    /\ x.order \in Orders \ Placed =>
         \A s \in Requests \ {r} : req[s].order # x.order
    /\ \A p \in Products : stock[p] + d[p] >= 0

\* The step changes the locks of r only, and r locks what it has changed.
LocksFit(r, d) ==
    /\ lock' \in [Products -> Requests \cup {None}]
    /\ \A p \in Products : d[p] # 0 => lock'[p] = r /\ p \in live
    /\ \A p \in Products : lock[p] \notin {r, None} => lock'[p] = lock[p]

LEMMA RequestMoves ==
  ASSUME Safe, NEW r \in Requests, NEW x, NEW d, Fits(r, x, d), LocksFit(r, d),
         req' = [req EXCEPT ![r] = x], delta' = [delta EXCEPT ![r] = d],
         UNCHANGED cartVars, UNCHANGED orderVars, UNCHANGED history
  PROVE  Safe'
<1> USE DEF cartVars, orderVars, history
<1>1. \A s \in Requests : /\ req'[s] = IF s = r THEN x ELSE req[s]
                          /\ delta'[s] = IF s = r THEN d ELSE delta[s]
  BY DEF Safe, TypeOK
<1>2. TypeOK'
  BY DEF Safe, TypeOK, CartTypeOK, Fits, LocksFit
<1>3. Addressed'
  BY DEF Safe, Addressed
<1>4. TransactionInv'
  <2>1. ASSUME NEW s \in Requests PROVE RequestInv(req[s], delta[s])'
    <3>1. RequestInv(req'[s], delta'[s])
      BY <1>1 DEF Safe, TransactionInv, Fits
    <3> QED  BY <3>1 DEF RequestInv, CheckoutInv, CancelInv, Placed
  <2>2. FreshOrders'
    BY <1>1 DEF Safe, TransactionInv, FreshOrders, Fits, Placed
  <2>3. LockInv'
    BY <1>1, RequestsAssumption DEF Safe, TransactionInv, LockInv, LocksFit
  <2> QED  BY <2>1, <2>2, <2>3 DEF TransactionInv
<1>5. NeverOversold'
  BY <1>1 DEF Safe, NeverOversold, Fits
<1>6. OrderedProductsExist'
  BY DEF Safe, OrderedProductsExist, Placed
<1> QED  BY <1>2, <1>3, <1>4, <1>5, <1>6 DEF Safe

LEMMA IdleFits ==
  ASSUME Safe, NEW r \in Requests PROVE Fits(r, IdleRequest, NoLines)
<1>1. IdleRequest \in Request
  BY NoLinesType DEF IdleRequest, Request
<1>2. IdleRequest.pc = "idle" /\ IdleRequest.order = None
  BY DEF IdleRequest
<1>3. ASSUME NEW p \in Products PROVE stock[p] + NoLines[p] >= 0
  <2>1. stock[p] \in Int /\ stock[p] >= 0 /\ NoLines[p] = 0
    BY NoLinesType DEF Safe, NeverOversold, TypeOK, CartTypeOK
  <2> QED  BY <2>1
<1> QED
  BY <1>1, <1>2, <1>3, NoLinesType, RequestsAssumption DEF Fits, RequestInv

\* Ending a transaction without committing it, whatever the reason.
LEMMA AbortSafe ==
  ASSUME Safe, NEW r \in Requests, EndTransaction(r),
         UNCHANGED cartVars, UNCHANGED orderVars, UNCHANGED history
  PROVE  Safe'
<1>1. LocksFit(r, NoLines)
  BY DEF EndTransaction, LocksFit, NoLines, Safe, TypeOK
<1> QED  BY <1>1, IdleFits, RequestMoves DEF EndTransaction

\* Taking the lock of p and changing its stock by n.
LEMMA UpdateLocks ==
  ASSUME Safe, NEW r \in Requests, NEW p \in live, NEW n, UpdateStock(r, p, n),
         \A q \in Products : delta[r][q] # 0 => lock[q] = r /\ q \in live
  PROVE  LocksFit(r, [delta[r] EXCEPT ![p] = @ + n])
  BY DEF LocksFit, UpdateStock, Safe, TypeOK, CartTypeOK

LEMMA UnchangedFits ==
  ASSUME Safe, NEW r \in Requests, UNCHANGED <<delta, lock>>
  PROVE  LocksFit(r, delta[r]) /\ delta' = [delta EXCEPT ![r] = delta[r]]
  BY DEF LocksFit, Safe, TypeOK, TransactionInv, LockInv

\* Facts about a request in the middle of its work.
LEMMA RequestFacts ==
  ASSUME Safe, NEW r \in Requests
  PROVE  /\ req[r] \in Request /\ delta[r] \in [Products -> Int]
         /\ req[r].todo \subseteq Products /\ req[r].wanted \in Lines
         /\ RequestInv(req[r], delta[r])
         /\ req[r].order \in Orders \ Placed =>
              \A s \in Requests \ {r} : req[s].order # req[r].order
         /\ \A p \in Products :
              /\ stock[p] \in Int /\ stock[p] >= 0 /\ stock[p] + delta[r][p] >= 0
              /\ delta[r][p] # 0 => lock[p] = r /\ p \in live
<1>1. req[r] \in Request /\ delta[r] \in [Products -> Int]
  BY DEF Safe, TypeOK
<1>2. req[r].todo \subseteq Products /\ req[r].wanted \in Lines
  BY <1>1 DEF Request
<1>3. req[r].order \in Orders \ Placed =>
        \A s \in Requests \ {r} : req[s].order # req[r].order
  BY DEF Safe, TransactionInv, FreshOrders
<1>4. ASSUME NEW p \in Products
      PROVE  /\ stock[p] \in Int /\ stock[p] >= 0 /\ stock[p] + delta[r][p] >= 0
             /\ delta[r][p] # 0 => lock[p] = r /\ p \in live
  BY DEF Safe, TypeOK, CartTypeOK, NeverOversold, TransactionInv, LockInv
<1> QED  BY <1>1, <1>2, <1>3, <1>4 DEF Safe, TransactionInv

LEMMA ReadProductSafe ==
  ASSUME Safe, NEW r \in Requests, NEW p \in Products,
         CheckoutReadProduct(r, p) \/ CancelNextItem(r, p)
  PROVE  Safe'
<1>1. PICK pc \in {"decrement", "restock"} :
         /\ req' = [req EXCEPT ![r] = [req[r] EXCEPT !.pc = pc, !.cur = p]]
         /\ req[r].pc = (IF pc = "decrement" THEN "checkout" ELSE "cancel")
         /\ p \in req[r].todo
         /\ UNCHANGED <<cartVars, orderVars, history, delta, lock>>
  BY DEF CheckoutReadProduct, CancelNextItem, cartVars, orderVars, history
<1> DEFINE y == req[r]
           x == [y EXCEPT !.pc = pc, !.cur = p]
<1>2. /\ x \in Request
      /\ x.pc = pc /\ x.cur = p /\ x.todo = y.todo
      /\ x.buyer = y.buyer /\ x.order = y.order /\ x.wanted = y.wanted
  <2>1. y \in Request
    BY RequestFacts
  <2> HIDE DEF y
  <2> QED  BY <2>1 DEF Request
<1>3. req' = [req EXCEPT ![r] = x]
  BY <1>1
<1> HIDE DEF x
<1>4. RequestInv(x, delta[r])
  BY <1>1, <1>2, RequestFacts DEF RequestInv, CheckoutInv, CancelInv, WorkedOff
<1>5. Fits(r, x, delta[r])
  BY <1>2, <1>4, RequestFacts DEF Fits
<1> QED  BY <1>1, <1>3, <1>5, UnchangedFits, RequestMoves

\* One round of a loop: p is updated by n and taken off the list.
LEMMA UpdateSafe ==
  ASSUME Safe, NEW r \in Requests, NEW p, NEW q, NEW n, NEW pc \in {"checkout", "cancel"},
         p = req[r].cur, q = req[r].wanted[p],
         \/ /\ pc = "checkout" /\ req[r].pc = "decrement" /\ n = -q
            /\ p \in live /\ stock[p] >= q
         \/ pc = "cancel" /\ req[r].pc = "restock" /\ n = q,
         UpdateStock(r, p, n),
         req' = [req EXCEPT ![r] = [req[r] EXCEPT !.pc = pc, !.cur = None,
                                                !.todo = req[r].todo \ {p}]],
         UNCHANGED cartVars, UNCHANGED orderVars, UNCHANGED history
  PROVE  Safe'
<1>1. p \in req[r].todo /\ p \in Products /\ q \in Nat /\ q > 0 /\ delta[r][p] = 0
  BY RequestFacts
     DEF RequestInv, CheckoutInv, CancelInv, WorkedOff, ProductsOf, Lines
<1>2. n \in Int
  BY <1>1
<1>3. p \in live
  BY <1>1, RequestFacts DEF RequestInv, CancelInv, Safe, OrderedProductsExist
<1> DEFINE y == req[r]
           x == [y EXCEPT !.pc = pc, !.cur = None, !.todo = y.todo \ {p}]
           d == [delta[r] EXCEPT ![p] = @ + n]
<1>4. req' = [req EXCEPT ![r] = x]
  OBVIOUS
<1>5. y \in Request
  BY RequestFacts
<1>6. /\ x \in Request
      /\ x.pc = pc /\ x.cur = None /\ x.todo = y.todo \ {p}
      /\ x.buyer = y.buyer /\ x.order = y.order /\ x.wanted = y.wanted
  <2> HIDE DEF y
  <2> QED  BY <1>1, <1>5 DEF Request
<1> HIDE DEF x
<1>7. LocksFit(r, d) /\ delta' = [delta EXCEPT ![r] = d]
  BY <1>3, RequestFacts, UpdateLocks DEF UpdateStock
<1>8. ASSUME NEW a \in Products
      PROVE  d[a] = IF a = p THEN n ELSE delta[r][a]
  BY <1>1, RequestFacts
<1>9. d \in [Products -> Int]
  BY <1>1, <1>2, RequestFacts
<1> HIDE DEF d
<1>10. RequestInv(x, d)
  <2>1. CASE pc = "checkout"
    BY <1>1, <1>6, <1>8, <2>1, RequestFacts DEF RequestInv, CheckoutInv, WorkedOff
  <2>2. CASE pc = "cancel"
    BY <1>1, <1>6, <1>8, <2>2, RequestFacts DEF RequestInv, CancelInv, WorkedOff
  <2> QED  BY <2>1, <2>2
<1>11. ASSUME NEW a \in Products PROVE stock[a] + d[a] >= 0
  BY <1>1, <1>8, RequestFacts
<1>12. Fits(r, x, d)
  BY <1>6, <1>9, <1>10, <1>11, RequestFacts DEF Fits
<1> QED  BY <1>4, <1>7, <1>12, RequestMoves

\* The first statement of a checkout or a cancellation takes a list in hand.
LEMMA StartSafe ==
  ASSUME Safe, NEW r \in Requests, req[r].pc = "idle", NEW x \in Request,
         x.pc \in {"checkout", "cancel"}, x.todo = ProductsOf(x.wanted),
         x.pc = "checkout" =>
            /\ x.buyer \in Buyers /\ ProductsOf(x.wanted) # {}
            /\ x.order \in Orders \ Placed
            /\ \A s \in Requests : req[s].order # x.order,
         x.pc = "cancel" => x.order \in Placed /\ x.wanted = items[x.order],
         req' = [req EXCEPT ![r] = x], UNCHANGED <<delta, lock>>,
         UNCHANGED cartVars, UNCHANGED orderVars, UNCHANGED history
  PROVE  Safe'
<1>1. delta[r] = NoLines
  BY RequestFacts DEF RequestInv
<1>2. \A p \in Products : WorkedOff(x, p) = 0
  BY DEF WorkedOff, ProductsOf, Request, Lines
<1>3. RequestInv(x, delta[r])
  BY <1>1, <1>2, NoLinesType DEF RequestInv, CheckoutInv, CancelInv
<1>4. Fits(r, x, delta[r])
  BY <1>3, RequestFacts DEF Fits
<1> QED  BY <1>4, UnchangedFits, RequestMoves

LEMMA ReadCartSafe ==
  ASSUME Safe, NEW r \in Requests, NEW b \in Buyers, NEW o \in Orders,
         CheckoutReadCart(r, b, o)
  PROVE  Safe'
<1> DEFINE x == [IdleRequest EXCEPT !.pc = "checkout", !.buyer = b, !.order = o,
                    !.wanted = cart[b], !.todo = ProductsOf(cart[b])]
<1>1. cart[b] \in Lines /\ ProductsOf(cart[b]) \in SUBSET Products
  BY DEF Safe, TypeOK, CartTypeOK, ProductsOf
<1>2. /\ x \in Request /\ x.pc = "checkout" /\ x.buyer = b /\ x.order = o
      /\ x.wanted = cart[b] /\ x.todo = ProductsOf(cart[b])
  BY <1>1 DEF IdleRequest, Request
<1>3. req' = [req EXCEPT ![r] = x]
  BY DEF CheckoutReadCart
<1> HIDE DEF x
<1>4. /\ req[r].pc = "idle" /\ ProductsOf(cart[b]) # {}
      /\ o \in Orders \ Placed /\ \A s \in Requests : req[s].order # o
      /\ UNCHANGED <<delta, lock>> /\ UNCHANGED cartVars /\ UNCHANGED orderVars
      /\ UNCHANGED history
  BY DEF CheckoutReadCart
<1> QED  BY <1>2, <1>3, <1>4, StartSafe

LEMMA CancelReadSafe ==
  ASSUME Safe, NEW r \in Requests, NEW o \in Orders, CancelRead(r, o)
  PROVE  Safe'
<1> DEFINE x == [IdleRequest EXCEPT !.pc = "cancel", !.order = o,
                    !.wanted = items[o], !.todo = ProductsOf(items[o])]
<1>1. items[o] \in Lines /\ ProductsOf(items[o]) \in SUBSET Products
  BY DEF Safe, TypeOK, ProductsOf
<1>2. /\ x \in Request /\ x.pc = "cancel" /\ x.order = o
      /\ x.wanted = items[o] /\ x.todo = ProductsOf(items[o])
  BY <1>1 DEF IdleRequest, Request
<1>3. req' = [req EXCEPT ![r] = x]
  BY DEF CancelRead
<1> HIDE DEF x
<1>4. /\ req[r].pc = "idle" /\ o \in Placed
      /\ UNCHANGED <<delta, lock>> /\ UNCHANGED cartVars /\ UNCHANGED orderVars
      /\ UNCHANGED history
  BY DEF CancelRead
<1> QED  BY <1>2, <1>3, <1>4, StartSafe

-----------------------------------------------------------------------------
(* Commits.                                                                *)

\* What the end of a transaction does to the requests and to the stock.
LEMMA CommitFacts ==
  ASSUME Safe, NEW r \in Requests, CommitStock(r), EndTransaction(r)
  PROVE  /\ req' \in [Requests -> Request] /\ delta' \in [Requests -> [Products -> Int]]
         /\ lock' \in [Products -> Requests \cup {None}]
         /\ stock' \in [Products -> Int]
         /\ \A s \in Requests :
              /\ req'[s] = IF s = r THEN IdleRequest ELSE req[s]
              /\ delta'[s] = IF s = r THEN NoLines ELSE delta[s]
         /\ \A p \in Products :
              /\ stock'[p] >= 0
              /\ \A s \in Requests : stock'[p] + delta'[s][p] >= 0
         /\ LockInv' \/ live' # live
<1>1. ASSUME NEW s \in Requests
      PROVE  /\ req'[s] = IF s = r THEN IdleRequest ELSE req[s]
             /\ delta'[s] = IF s = r THEN NoLines ELSE delta[s]
  BY DEF EndTransaction, Safe, TypeOK
<1>2. ASSUME NEW p \in Products
      PROVE  stock'[p] = stock[p] + delta[r][p] /\ stock'[p] >= 0
  BY RequestFacts DEF CommitStock
<1>3. ASSUME NEW p \in Products, NEW s \in Requests
      PROVE  /\ stock'[p] + delta'[s][p] >= 0
             /\ delta'[s][p] # 0 => lock'[p] = s /\ p \in live
  <2>1. CASE delta'[s][p] = 0
    BY <1>2, <2>1, RequestFacts
  <2>2. CASE delta'[s][p] # 0
    <3>1. s # r /\ delta'[s][p] = delta[s][p]
      BY <1>1, <2>2, NoLinesType
    <3>2. lock[p] = s /\ p \in live /\ stock[p] + delta[s][p] >= 0
      BY <2>2, <3>1, RequestFacts
    <3>3. delta[r][p] = 0
      BY <3>1, <3>2, RequestFacts
    <3>4. lock'[p] = s
      BY <3>1, <3>2 DEF EndTransaction
    <3>5. stock[p] \in Int
      BY RequestFacts
    <3>6. stock'[p] = stock[p]
      BY <1>2, <3>3, <3>5
    <3> QED  BY <3>1, <3>2, <3>4, <3>6
  <2> QED  BY <2>1, <2>2
<1>4. LockInv' \/ live' # live
  BY <1>3 DEF LockInv
<1>5. /\ req' \in [Requests -> Request] /\ delta' \in [Requests -> [Products -> Int]]
      /\ lock' \in [Products -> Requests \cup {None}]
  <2>1. IdleRequest \in Request
    BY NoLinesType DEF IdleRequest, Request
  <2> QED  BY <2>1, NoLinesType DEF EndTransaction, Safe, TypeOK
<1>6. stock' \in [Products -> Int]
  BY RequestFacts DEF CommitStock
<1> QED  BY <1>1, <1>2, <1>3, <1>4, <1>5, <1>6

LEMMA CancelCommitSafe ==
  ASSUME Safe, NEW r \in Requests, CancelCommit(r)
  PROVE  Safe'
<1> DEFINE o == req[r].order
<1>1. /\ o \in Orders /\ CommitStock(r) /\ EndTransaction(r)
      /\ UNCHANGED <<live, cart, creq, owner, items, entered>>
      /\ ostatus' = [ostatus EXCEPT ![o] = "CANCELLED"]
      /\ dstatus' = [dstatus EXCEPT ![o] = "CANCELLED"]
      /\ returned' = [returned EXCEPT ![o] = @ + 1]
  BY RequestFacts DEF CancelCommit, RequestInv, CancelInv, Placed
<1>2. TypeOK'
  BY <1>1, CommitFacts
     DEF Safe, TypeOK, CartTypeOK, OrderStatus, DeliveryStatus
<1>3. Addressed' /\ OrderedProductsExist' /\ Placed' = Placed
  BY <1>1 DEF Safe, Addressed, OrderedProductsExist, Placed
<1>4. TransactionInv'
  <2>1. ASSUME NEW s \in Requests PROVE RequestInv(req[s], delta[s])'
    <3>1. RequestInv(req'[s], delta'[s])
      BY <1>1, CommitFacts, RequestFacts, IdleFits DEF Fits
    <3> QED  BY <1>1, <1>3, <3>1 DEF RequestInv, CheckoutInv, CancelInv
  <2>2. IdleRequest.order = None
    BY DEF IdleRequest
  <2>3. FreshOrders'
    BY <1>1, <1>3, <2>2, CommitFacts, RequestsAssumption
       DEF Safe, TransactionInv, FreshOrders
  <2> QED  BY <1>1, <2>1, <2>3, CommitFacts DEF TransactionInv
<1>5. NeverOversold'
  BY <1>1, CommitFacts DEF NeverOversold
<1> QED  BY <1>2, <1>3, <1>4, <1>5 DEF Safe

LEMMA CheckoutCommitSafe ==
  ASSUME Safe, NEW r \in Requests, CheckoutCommit(r)
  PROVE  Safe'
<1> DEFINE o == req[r].order
           b == req[r].buyer
           w == req[r].wanted
<1>1. /\ CommitStock(r) /\ EndTransaction(r) /\ DropRows({b}, Products)
      /\ UNCHANGED <<live, returned, entered>>
      /\ owner' = [owner EXCEPT ![o] = b] /\ items' = [items EXCEPT ![o] = w]
      /\ ostatus' = [ostatus EXCEPT ![o] = "AWAITING_PAYMENT"]
      /\ dstatus' = [dstatus EXCEPT ![o] = "SCHEDULED"]
      /\ req[r].pc = "checkout" /\ req[r].todo = {}
  BY DEF CheckoutCommit, history
<1>2. /\ o \in Orders \ Placed /\ b \in Buyers /\ w \in Lines
      /\ \A s \in Requests \ {r} : req[s].order # o
      /\ \A p \in Products : delta[r][p] = -w[p]
  BY <1>1, RequestFacts DEF RequestInv, CheckoutInv, WorkedOff
<1>3. b # None
  BY <1>2, NoneAssumption
<1>4. cart' \in [Buyers -> Lines] /\ creq' \in [CartRequests -> CartRequest] /\ Addressed'
  BY <1>1, DropRowsType DEF Safe, TypeOK
<1> HIDE DEF o, b, w
<1>5. TypeOK'
  BY <1>1, <1>2, <1>4, CommitFacts
     DEF Safe, TypeOK, CartTypeOK, OrderStatus, DeliveryStatus
<1>6. Placed' = Placed \cup {o}
  BY <1>1, <1>2, <1>3 DEF Placed, Safe, TypeOK
<1>7. \A a \in Placed : items'[a] = items[a]
  BY <1>1, <1>2 DEF Safe, TypeOK, Placed
<1>8. OrderedProductsExist'
  <2>1. \A p \in Products : w[p] > 0 => p \in live
    <3> SUFFICES ASSUME NEW p \in Products, w[p] > 0 PROVE p \in live
      OBVIOUS
    <3>1. w[p] \in Nat /\ delta[r][p] = -w[p]
      BY <1>2 DEF Lines
    <3>2. delta[r][p] # 0
      BY <3>1
    <3> QED  BY <3>2, RequestFacts
  <2>2. items'[o] = w
    BY <1>1, <1>2 DEF Safe, TypeOK
  <2>3. ASSUME NEW a \in Placed' PROVE ProductsOf(items'[a]) \subseteq live
    BY <1>6, <1>7, <2>1, <2>2 DEF Safe, OrderedProductsExist, ProductsOf
  <2> QED  BY <1>1, <2>3 DEF OrderedProductsExist, ProductsOf
<1>9. TransactionInv'
  <2>1. ASSUME NEW s \in Requests PROVE RequestInv(req[s], delta[s])'
    <3>1. RequestInv(req'[s], delta'[s])
      BY <1>1, CommitFacts, RequestFacts, IdleFits DEF Fits
    <3>2. s # r => req'[s].order # o
      BY <1>1, <1>2, CommitFacts
    <3>3. s = r => req'[s].pc = "idle"
      BY <1>1, CommitFacts DEF IdleRequest
    <3> QED
      BY <1>6, <1>7, <3>1, <3>2, <3>3
         DEF RequestInv, CheckoutInv, CancelInv, ProductsOf, WorkedOff
  <2>2. IdleRequest.order = None
    BY DEF IdleRequest
  <2>3. FreshOrders'
    BY <1>1, <1>6, <2>2, CommitFacts, RequestsAssumption
       DEF Safe, TransactionInv, FreshOrders
  <2> QED  BY <1>1, <2>1, <2>3, CommitFacts DEF TransactionInv
<1>10. NeverOversold'
  BY <1>1, CommitFacts DEF NeverOversold
<1> QED  BY <1>4, <1>5, <1>8, <1>9, <1>10 DEF Safe

-----------------------------------------------------------------------------
(* The other actors.                                                       *)

\* A step that leaves transactions, orders' items and products alone.
LEMMA ElsewhereSafe ==
  ASSUME Safe, TypeOK', Addressed', UNCHANGED <<live, stock, owner, items>>,
         UNCHANGED txVars
  PROVE  Safe'
<1>1. TransactionInv'
  BY DEF Safe, TransactionInv, txVars, RequestInv, CheckoutInv, CancelInv, WorkedOff,
         ProductsOf, Placed, FreshOrders, LockInv
<1>2. NeverOversold' /\ OrderedProductsExist'
  BY DEF Safe, NeverOversold, OrderedProductsExist, txVars, ProductsOf, Placed
<1> QED  BY <1>1, <1>2 DEF Safe

\* Cart requests touch no product.
LEMMA CartLeavesShelf == CartRequestStep => UNCHANGED <<live, stock>>
<1>1. ASSUME NEW c \in CartRequests, NEW b \in Buyers, NEW p \in Products,
             NEW q \in Quantities, AddItem(c, b, p, q) \/ UpdateItem(c, b, p, q)
      PROVE  UNCHANGED <<live, stock>>
  BY <1>1 DEF AddItem, UpdateItem
<1>2. ASSUME NEW c \in CartRequests, NEW b \in Buyers, NEW p \in Products,
             RemoveItem(c, b, p)
      PROVE  UNCHANGED <<live, stock>>
  BY <1>2 DEF RemoveItem
<1>3. ASSUME NEW c \in CartRequests, AddItemLookup(c) \/ AddItemCreate(c)
      PROVE  UNCHANGED <<live, stock>>
  BY <1>3 DEF AddItemLookup, AddItemCreate
<1>4. ASSUME NEW c \in CartRequests, WriteQuantity(c) \/ RemoveRow(c)
      PROVE  UNCHANGED <<live, stock>>
  BY <1>4 DEF WriteQuantity, RemoveRow
<1>5. ASSUME NEW b \in Buyers, ClearCart(b) PROVE UNCHANGED <<live, stock>>
  BY <1>5 DEF ClearCart
<1> QED  BY <1>1, <1>2, <1>3, <1>4, <1>5 DEF CartRequestStep

LEMMA CartSafe ==
  ASSUME Safe, CartRequestStep, UNCHANGED shopVars
  PROVE  Safe'
<1>1. CartTypeOK' /\ Addressed'
  BY CartRequestStepType DEF Safe, TypeOK
<1>2. UNCHANGED <<live, stock>>
  BY CartLeavesShelf
<1>3. TypeOK'
  BY <1>1 DEF Safe, TypeOK, shopVars, orderVars, txVars, history
<1> QED  BY <1>1, <1>2, <1>3, ElsewhereSafe DEF shopVars, orderVars

LEMMA StatusSafe ==
  ASSUME Safe, NEW o \in Orders,
         \/ \E s \in OrderMoves : AdminSetOrderStatus(o, s)
         \/ \E s \in DeliveryMoves : AdminSetDeliveryStatus(o, s)
  PROVE  Safe'
<1>1. TypeOK' /\ Addressed'
  BY MovesAssumption
     DEF AdminSetOrderStatus, AdminSetDeliveryStatus, Safe, TypeOK, CartTypeOK, Addressed,
         cartVars, txVars, history
<1> QED
  BY <1>1, ElsewhereSafe
     DEF AdminSetOrderStatus, AdminSetDeliveryStatus, cartVars

LEMMA StockEditSafe ==
  ASSUME Safe, NEW p \in Products, NEW n \in StockFigures, AdminEditStock(p, n)
  PROVE  Safe'
<1>1. /\ lock[p] = None /\ stock' = [stock EXCEPT ![p] = n]
      /\ entered' = [entered EXCEPT ![p] = entered[p] + n - stock[p]]
      /\ UNCHANGED <<live, cart, creq, owner, items, ostatus, dstatus, returned>>
      /\ UNCHANGED txVars
  BY DEF AdminEditStock, AdminSetStock, orderVars
<1>2. n \in Int /\ n >= 0
  BY MaxStockAssumption DEF StockFigures
<1>3. TypeOK' /\ Addressed'
  BY <1>1, <1>2 DEF Safe, TypeOK, CartTypeOK, Addressed, txVars
<1>4. TransactionInv'
  BY <1>1
     DEF Safe, TransactionInv, txVars, RequestInv, CheckoutInv, CancelInv, WorkedOff,
         ProductsOf, Placed, FreshOrders, LockInv
<1>5. OrderedProductsExist'
  BY <1>1 DEF Safe, OrderedProductsExist, ProductsOf, Placed
<1>6. ASSUME NEW a \in Products, NEW r \in Requests
      PROVE  stock'[a] >= 0 /\ stock'[a] + delta'[r][a] >= 0
  <2>1. CASE a = p
    <3>1. stock'[a] = n
      BY <1>1, <2>1 DEF Safe, TypeOK, CartTypeOK
    <3>2. delta'[r][a] = 0
      BY <1>1, <2>1, RequestFacts, RequestsAssumption DEF txVars
    <3> QED  BY <1>2, <3>1, <3>2
  <2>2. CASE a # p
    <3>1. stock'[a] = stock[a] /\ delta'[r][a] = delta[r][a]
      BY <1>1, <2>2 DEF Safe, TypeOK, CartTypeOK, txVars
    <3> QED  BY <3>1, RequestFacts
  <2> QED  BY <2>1, <2>2
<1>7. ASSUME NEW a \in Products PROVE stock'[a] >= 0
  BY <1>1, <1>2 DEF Safe, NeverOversold, TypeOK, CartTypeOK
<1>8. NeverOversold'
  BY <1>6, <1>7 DEF NeverOversold
<1> QED  BY <1>3, <1>4, <1>5, <1>8 DEF Safe

LEMMA DeleteProductSafe ==
  ASSUME Safe, NEW p \in Products, AdminDeleteProduct(p)
  PROVE  Safe'
<1>1. /\ lock[p] = None /\ \A o \in Placed : items[o][p] = 0
      /\ live' = live \ {p} /\ stock' = stock /\ AdminRemoveProduct(p)
      /\ UNCHANGED orderVars /\ UNCHANGED txVars /\ UNCHANGED history
  BY DEF AdminDeleteProduct, AdminRemoveProduct, shopVars
<1>2. CartTypeOK' /\ Addressed'
  BY <1>1, AdminStepType DEF Safe, TypeOK
<1>3. TypeOK'
  BY <1>1, <1>2 DEF Safe, TypeOK, orderVars, txVars, history
<1>4. TransactionInv'
  <2>1. \A r \in Requests : RequestInv(req[r], delta[r])'
    BY <1>1
       DEF Safe, TransactionInv, txVars, orderVars, RequestInv, CheckoutInv, CancelInv,
           WorkedOff, ProductsOf, Placed
  <2>2. FreshOrders'
    BY <1>1 DEF Safe, TransactionInv, txVars, orderVars, Placed, FreshOrders
  <2>3. LockInv'
    BY <1>1, RequestsAssumption DEF Safe, TransactionInv, txVars, LockInv
  <2> QED  BY <2>1, <2>2, <2>3 DEF TransactionInv
<1>5. NeverOversold'
  BY <1>1 DEF Safe, NeverOversold, txVars
<1>6. OrderedProductsExist'
  BY <1>1 DEF Safe, OrderedProductsExist, ProductsOf, Placed, orderVars
<1> QED  BY <1>2, <1>3, <1>4, <1>5, <1>6 DEF Safe

LEMMA StepSafe ==
  ASSUME Safe, [Next]_vars PROVE Safe'
<1>1. CASE CartRequestStep /\ UNCHANGED shopVars
  BY <1>1, CartSafe
<1>2. ASSUME NEW r \in Requests, RequestStep(r)
      PROVE  Safe'
  <2>1. ASSUME NEW b \in Buyers, NEW o \in Orders, CheckoutReadCart(r, b, o)
        PROVE  Safe'
    BY <2>1, ReadCartSafe
  <2>2. ASSUME NEW p \in Products, CheckoutReadProduct(r, p) \/ CancelNextItem(r, p)
        PROVE  Safe'
    BY <2>2, ReadProductSafe
  <2>3. ASSUME NEW o \in Orders, CancelRead(r, o)
        PROVE  Safe'
    BY <2>3, CancelReadSafe
  <2>4. CASE CheckoutCommit(r)
    BY <2>4, CheckoutCommitSafe
  <2>5. CASE CheckoutDecrement(r)
    <3> DEFINE p == req[r].cur
               q == req[r].wanted[p]
    <3>1. /\ UpdateStock(r, p, -q) /\ req[r].pc = "decrement" /\ p \in live /\ stock[p] >= q
          /\ req' = [req EXCEPT ![r] = [req[r] EXCEPT !.pc = "checkout", !.cur = None,
                                                     !.todo = req[r].todo \ {p}]]
          /\ UNCHANGED cartVars /\ UNCHANGED orderVars /\ UNCHANGED history
      BY <2>5 DEF CheckoutDecrement
    <3> QED  BY <3>1, UpdateSafe
  <2>6. CASE CheckoutInsufficient(r)
    BY <2>6, AbortSafe DEF CheckoutInsufficient
  <2>7. CASE CancelRestock(r)
    <3> DEFINE p == req[r].cur
               q == req[r].wanted[p]
    <3>1. /\ UpdateStock(r, p, q) /\ req[r].pc = "restock"
          /\ req' = [req EXCEPT ![r] = [req[r] EXCEPT !.pc = "cancel", !.cur = None,
                                                     !.todo = req[r].todo \ {p}]]
          /\ UNCHANGED cartVars /\ UNCHANGED orderVars /\ UNCHANGED history
      BY <2>7 DEF CancelRestock
    <3> QED  BY <3>1, UpdateSafe
  <2>8. CASE CancelCommit(r)
    BY <2>8, CancelCommitSafe
  <2> QED  BY <1>2, <2>1, <2>2, <2>3, <2>4, <2>5, <2>6, <2>7, <2>8 DEF RequestStep
<1>3. ASSUME NEW r \in Requests, Rollback(r)
      PROVE  Safe'
  BY <1>3, AbortSafe DEF Rollback
<1>4. CASE AdminStep
  BY <1>4, StatusSafe, StockEditSafe, DeleteProductSafe DEF AdminStep
<1>5. CASE UNCHANGED vars
  <2>1. TypeOK' /\ Addressed'
    BY <1>5
       DEF vars, cartVars, shopVars, orderVars, txVars, history, Safe, TypeOK, CartTypeOK,
           Addressed
  <2> QED  BY <1>5, <2>1, ElsewhereSafe DEF vars, cartVars, shopVars, orderVars
<1> QED  BY <1>1, <1>2, <1>3, <1>4, <1>5 DEF Next

\* The invariant holds whatever the number of products, buyers and requests.
LEMMA AlwaysSafe == Spec => []Safe
  BY InitSafe, StepSafe, PTL DEF Spec

-----------------------------------------------------------------------------
(* The ledger.                                                             *)

\* What order o took of p, and what it gave back.
Taken(i, p) == [o \in Orders |-> i[o][p]]
Given(k, i, p) == [o \in Orders |-> k[o] * i[o][p]]

Balanced(p, s, i, placed, k, e) ==
    s[p] + Total(Taken(i, p), placed) = e[p] + Total(Given(k, i, p), Orders)

\* An order that does not exist gave nothing back.
LedgerInv ==
    /\ \A o \in Orders \ Placed : returned[o] = 0
    /\ \A p \in Products : Balanced(p, stock, items, Placed, returned, entered)

LEMMA TakenTotal ==
  ASSUME IsFiniteSet(Orders), NEW i \in [Orders -> Lines], NEW p \in Products,
         NEW S \in SUBSET Orders
  PROVE  MapThenSumSet(LAMBDA o : i[o][p], S) = Total(Taken(i, p), S)
<1> DEFINE f == CHOOSE h : h = [s \in SUBSET S |-> IF s = {} THEN 0
                    ELSE i[CHOOSE y \in s : TRUE][p] + h[s \ {CHOOSE y \in s : TRUE}]]
           Body(h) == [s \in SUBSET S |-> IF s = {} THEN 0
                    ELSE i[CHOOSE y \in s : TRUE][p] + h[s \ {CHOOSE y \in s : TRUE}]]
           w == Taken(i, p)
<1>1. MapThenSumSet(LAMBDA o : i[o][p], S) = f[S]
  BY Zenon DEF MapThenSumSet, MapThenFoldSet
<1>2. f = CHOOSE h : h = Body(h)
  OBVIOUS
<1>3. IsFiniteSet(S) /\ Figures(w, S) /\ \A x \in S : w[x] = i[x][p]
  BY FS_Subset DEF Taken, Figures, Lines
<1> HIDE DEF f, w
<1>4. PICK h \in [SUBSET S -> Int] : Adds(h, w, S)
  BY <1>3, AddsExists
<1>5. \A s \in SUBSET S : s # {} => (CHOOSE y \in s : TRUE) \in S
  BY PickIn DEF Pick
<1>6. h = Body(h)
  BY <1>3, <1>4, <1>5 DEF Adds, Pick
<1>7. f = Body(f)
  <2> HIDE DEF Body
  <2> QED  BY <1>2, <1>6
<1>8. Adds(f, w, S)
  BY <1>3, <1>5, <1>7 DEF Adds, Pick
<1>9. Total(w, S) = f[S]
  BY <1>3, <1>8, TotalAdds
<1> QED  BY <1>1, <1>9 DEF w

LEMMA GivenTotal ==
  ASSUME IsFiniteSet(Orders), NEW i \in [Orders -> Lines], NEW k \in [Orders -> Nat],
         NEW p \in Products
  PROVE  MapThenSumSet(LAMBDA o : k[o] * i[o][p], Orders) = Total(Given(k, i, p), Orders)
<1> DEFINE S == Orders
           f == CHOOSE h : h = [s \in SUBSET S |-> IF s = {} THEN 0
                    ELSE k[CHOOSE y \in s : TRUE] * i[CHOOSE y \in s : TRUE][p]
                           + h[s \ {CHOOSE y \in s : TRUE}]]
           Body(h) == [s \in SUBSET S |-> IF s = {} THEN 0
                    ELSE k[CHOOSE y \in s : TRUE] * i[CHOOSE y \in s : TRUE][p]
                           + h[s \ {CHOOSE y \in s : TRUE}]]
           w == Given(k, i, p)
<1>1. MapThenSumSet(LAMBDA o : k[o] * i[o][p], S) = f[S]
  BY Zenon DEF MapThenSumSet, MapThenFoldSet
<1>2. f = CHOOSE h : h = Body(h)
  OBVIOUS
<1>3. Figures(w, S) /\ \A x \in S : w[x] = k[x] * i[x][p]
  <2>1. ASSUME NEW x \in S PROVE w[x] = k[x] * i[x][p]
    BY DEF Given
  <2>2. ASSUME NEW x \in S PROVE k[x] * i[x][p] \in Int
    <3>1. k[x] \in Nat /\ i[x][p] \in Nat
      BY DEF Lines
    <3> QED  BY <3>1
  <2> QED  BY <2>1, <2>2 DEF Figures
<1> HIDE DEF f, w
<1>4. PICK h \in [SUBSET S -> Int] : Adds(h, w, S)
  BY <1>3, AddsExists
<1>5. \A s \in SUBSET S : s # {} => (CHOOSE y \in s : TRUE) \in S
  BY PickIn DEF Pick
<1>6. h = Body(h)
  BY <1>3, <1>4, <1>5 DEF Adds, Pick
<1>7. f = Body(f)
  <2> HIDE DEF Body
  <2> QED  BY <1>2, <1>6
<1>8. Adds(f, w, S)
  BY <1>3, <1>5, <1>7 DEF Adds, Pick
<1>9. Total(w, S) = f[S]
  BY <1>3, <1>8, TotalAdds
<1> QED  BY <1>1, <1>9 DEF w

\* The functions that are added up have integer values.
LEMMA ValueAt ==
  ASSUME NEW i \in [Orders -> Lines], NEW k \in [Orders -> Nat], NEW p \in Products,
         NEW o \in Orders
  PROVE  /\ Taken(i, p)[o] = i[o][p] /\ Given(k, i, p)[o] = k[o] * i[o][p]
         /\ i[o][p] \in Nat /\ k[o] \in Nat
  BY DEF Taken, Given, Lines

LEMMA LedgerFigures ==
  ASSUME NEW i \in [Orders -> Lines], NEW k \in [Orders -> Nat], NEW p \in Products,
         NEW S \in SUBSET Orders
  PROVE  Figures(Taken(i, p), S) /\ Figures(Given(k, i, p), S)
<1>1. ASSUME NEW m \in Nat, NEW n \in Nat PROVE m * n \in Int
  OBVIOUS
<1>2. ASSUME NEW o \in Orders
      PROVE  Taken(i, p)[o] \in Int /\ Given(k, i, p)[o] \in Int
  BY <1>1, ValueAt
<1> QED  BY <1>2 DEF Figures

\* A new order: its items are the only ones that change.
LEMMA PlacedBalanced ==
  ASSUME IsFiniteSet(Orders), NEW p \in Products, NEW placed \in SUBSET Orders,
         NEW i \in [Orders -> Lines], NEW j \in [Orders -> Lines],
         NEW k \in [Orders -> Nat], NEW s, NEW t, NEW e,
         s[p] \in Int, e[p] \in Int,
         NEW o \in Orders \ placed, k[o] = 0,
         \A a \in Orders \ {o} : j[a] = i[a],
         t[p] = s[p] - j[o][p],
         Balanced(p, s, i, placed, k, e)
  PROVE  Balanced(p, t, j, placed \cup {o}, k, e)
<1> DEFINE all == placed \cup {o}
<1>1. IsFiniteSet(placed) /\ IsFiniteSet(all) /\ all \in SUBSET Orders /\ all \ {o} = placed
  BY FS_Subset, FS_AddElement
<1>2. Total(Taken(j, p), all) = j[o][p] + Total(Taken(j, p), placed)
  <2>1. Figures(Taken(j, p), all) /\ Taken(j, p)[o] = j[o][p]
    BY <1>1, LedgerFigures, ValueAt
  <2>2. Total(Taken(j, p), all) = Taken(j, p)[o] + Total(Taken(j, p), all \ {o})
    BY <1>1, <2>1, TotalRemove
  <2> QED  BY <1>1, <2>1, <2>2
<1>3. Total(Taken(j, p), placed) = Total(Taken(i, p), placed)
  <2>1. \A a \in placed : Taken(j, p)[a] = Taken(i, p)[a]
    BY DEF Taken
  <2>2. Figures(Taken(i, p), placed)
    BY LedgerFigures
  <2> QED  BY <1>1, <2>1, <2>2, TotalSame
<1>4. Total(Given(k, j, p), Orders) = Total(Given(k, i, p), Orders)
  <2>1. Given(k, j, p)[o] = 0 /\ Given(k, i, p)[o] = 0
    <3>1. Given(k, j, p)[o] = 0 * j[o][p] /\ Given(k, i, p)[o] = 0 * i[o][p]
      BY ValueAt
    <3>2. j[o][p] \in Nat /\ i[o][p] \in Nat
      BY ValueAt
    <3> QED  BY <3>1, <3>2
  <2>2. \A a \in Orders \ {o} : Given(k, j, p)[a] = Given(k, i, p)[a]
    BY DEF Given
  <2>3. \A a \in Orders : Given(k, j, p)[a] = Given(k, i, p)[a]
    BY <2>1, <2>2
  <2>4. Figures(Given(k, i, p), Orders)
    BY LedgerFigures
  <2> QED  BY <2>3, <2>4, TotalSame
<1>5. Total(Taken(i, p), placed) \in Int /\ j[o][p] \in Int
  <2>1. Figures(Taken(i, p), placed) /\ j[o][p] \in Nat
    BY LedgerFigures, ValueAt
  <2> QED  BY <1>1, <2>1, TotalType
<1>6. s[p] + Total(Taken(i, p), placed) = e[p] + Total(Given(k, i, p), Orders)
  BY DEF Balanced
<1>7. t[p] + Total(Taken(j, p), all) = e[p] + Total(Given(k, j, p), Orders)
  BY <1>2, <1>3, <1>4, <1>5, <1>6
<1> QED  BY <1>7 DEF Balanced

\* An order gives its items back once more.
LEMMA ReturnBalanced ==
  ASSUME IsFiniteSet(Orders), NEW p \in Products, NEW placed \in SUBSET Orders,
         NEW i \in [Orders -> Lines],
         NEW k \in [Orders -> Nat], NEW l \in [Orders -> Nat], NEW s, NEW t, NEW e,
         s[p] \in Int, e[p] \in Int,
         NEW o \in Orders, l[o] = k[o] + 1,
         \A a \in Orders \ {o} : l[a] = k[a],
         t[p] = s[p] + i[o][p],
         Balanced(p, s, i, placed, k, e)
  PROVE  Balanced(p, t, i, placed, l, e)
<1> DEFINE v == Given(l, i, p)
           w == Given(k, i, p)
<1>1. Figures(v, Orders) /\ Figures(w, Orders) /\ IsFiniteSet(placed)
  BY LedgerFigures, FS_Subset
<1>2. \A a \in Orders \ {o} : v[a] = w[a]
  BY DEF Given
<1>3. v[o] - w[o] = i[o][p]
  <2>1. v[o] = (k[o] + 1) * i[o][p] /\ w[o] = k[o] * i[o][p]
    BY ValueAt
  <2>2. k[o] \in Nat /\ i[o][p] \in Nat
    BY ValueAt
  <2>3. ASSUME NEW m \in Nat, NEW n \in Nat PROVE (m + 1) * n - m * n = n
    OBVIOUS
  <2> QED  BY <2>1, <2>2, <2>3
<1> HIDE DEF v, w
<1>4. Total(v, Orders) = Total(w, Orders) + i[o][p]
  <2>1. Total(v, Orders) = Total(w, Orders) + (v[o] - w[o])
    BY <1>1, <1>2, TotalChange
  <2> QED  BY <2>1, <1>3
<1>5. /\ Total(w, Orders) \in Int /\ Total(Taken(i, p), placed) \in Int
      /\ i[o][p] \in Int
  <2>1. Figures(Taken(i, p), placed) /\ i[o][p] \in Nat
    BY LedgerFigures, ValueAt
  <2> QED  BY <1>1, <2>1, TotalType
<1>6. s[p] + Total(Taken(i, p), placed) = e[p] + Total(w, Orders)
  BY DEF Balanced, w
<1>7. t[p] + Total(Taken(i, p), placed) = e[p] + Total(v, Orders)
  BY <1>4, <1>5, <1>6
<1> QED  BY <1>7 DEF Balanced, v

\* The ledger of the model, in these terms.
LEMMA LedgerMeaning ==
  ASSUME IsFiniteSet(Orders), TypeOK, LedgerInv
  PROVE  StockLedger
<1>1. /\ items \in [Orders -> Lines] /\ returned \in [Orders -> Nat]
      /\ Placed \in SUBSET Orders
  BY DEF TypeOK, Placed
<1>2. ASSUME NEW p \in Products
      PROVE  /\ MapThenSumSet(LAMBDA o : items[o][p], Placed) = Total(Taken(items, p), Placed)
             /\ MapThenSumSet(LAMBDA o : returned[o] * items[o][p], Orders)
                  = Total(Given(returned, items, p), Orders)
  BY <1>1, TakenTotal, GivenTotal
<1> QED  BY <1>2 DEF StockLedger, LedgerInv, Balanced

LEMMA LedgerNext ==
  ASSUME \A o \in Orders \ Placed' : returned'[o] = 0,
         \A p \in Products : Balanced(p, stock', items', Placed', returned', entered')
  PROVE  LedgerInv'
  BY DEF LedgerInv

\* Only three actions move stock, items or returns.
LEMMA LedgerSame ==
  ASSUME LedgerInv, UNCHANGED <<stock, owner, items, returned, entered>>
  PROVE  LedgerInv'
<1>1. Placed' = Placed
  BY DEF Placed
<1> QED  BY <1>1, LedgerNext DEF LedgerInv

LEMMA CheckoutCommitLedger ==
  ASSUME IsFiniteSet(Orders), Safe, LedgerInv, NEW r \in Requests, CheckoutCommit(r)
  PROVE  LedgerInv'
<1> DEFINE o == req[r].order
           b == req[r].buyer
           w == req[r].wanted
<1>1. /\ CommitStock(r)
      /\ owner' = [owner EXCEPT ![o] = b] /\ items' = [items EXCEPT ![o] = w]
      /\ returned' = returned /\ entered' = entered
      /\ req[r].pc = "checkout" /\ req[r].todo = {}
  BY DEF CheckoutCommit, history
<1>2. /\ o \in Orders \ Placed /\ b \in Buyers /\ w \in Lines
      /\ \A p \in Products : delta[r][p] = -w[p]
  BY <1>1, RequestFacts DEF RequestInv, CheckoutInv, WorkedOff
<1> HIDE DEF o, b, w
<1>3. /\ items \in [Orders -> Lines] /\ items' \in [Orders -> Lines]
      /\ returned \in [Orders -> Nat] /\ Placed \in SUBSET Orders
      /\ entered \in [Products -> Int] /\ stock \in [Products -> Int]
  BY <1>1, <1>2 DEF Safe, TypeOK, CartTypeOK, Placed
<1>4. Placed' = Placed \cup {o}
  <2>1. b # None
    BY <1>2, NoneAssumption
  <2> QED  BY <1>1, <1>2, <2>1 DEF Placed, Safe, TypeOK
<1>5. returned[o] = 0 /\ items'[o] = w /\ \A a \in Orders \ {o} : items'[a] = items[a]
  BY <1>1, <1>2, <1>3 DEF LedgerInv
<1>6. ASSUME NEW p \in Products
      PROVE  Balanced(p, stock', items', Placed', returned', entered')
  <2>1. stock'[p] = stock[p] - items'[o][p]
    <3>1. stock'[p] = stock[p] + delta[r][p] /\ delta[r][p] = -w[p]
      BY <1>1, <1>2 DEF CommitStock
    <3>2. w[p] \in Nat /\ stock[p] \in Int
      BY <1>2, <1>3 DEF Lines
    <3> QED  BY <1>5, <3>1, <3>2
  <2>2. Balanced(p, stock, items, Placed, returned, entered)
    BY DEF LedgerInv
  <2>3. stock[p] \in Int /\ entered[p] \in Int
    BY <1>3
  <2>4. Balanced(p, stock', items', Placed \cup {o}, returned, entered)
    BY <1>2, <1>3, <1>5, <2>1, <2>2, <2>3, PlacedBalanced
  <2> QED  BY <1>1, <1>4, <2>4
<1>7. \A a \in Orders \ Placed' : returned'[a] = 0
  BY <1>1, <1>4 DEF LedgerInv
<1> QED  BY <1>6, <1>7, LedgerNext

LEMMA CancelCommitLedger ==
  ASSUME IsFiniteSet(Orders), Safe, LedgerInv, NEW r \in Requests, CancelCommit(r)
  PROVE  LedgerInv'
<1> DEFINE o == req[r].order
<1>1. /\ CommitStock(r) /\ UNCHANGED <<owner, items, entered>>
      /\ returned' = [returned EXCEPT ![o] = @ + 1]
      /\ req[r].pc = "cancel" /\ req[r].todo = {}
  BY DEF CancelCommit
<1>2. /\ o \in Placed /\ o \in Orders
      /\ \A p \in Products : delta[r][p] = items[o][p]
  BY <1>1, RequestFacts DEF RequestInv, CancelInv, WorkedOff, Placed
<1> HIDE DEF o
<1>3. /\ items \in [Orders -> Lines]
      /\ returned \in [Orders -> Nat] /\ Placed \in SUBSET Orders
      /\ entered \in [Products -> Int] /\ stock \in [Products -> Int]
  BY DEF Safe, TypeOK, CartTypeOK, Placed
<1>4. /\ returned' \in [Orders -> Nat] /\ returned'[o] = returned[o] + 1
      /\ \A a \in Orders \ {o} : returned'[a] = returned[a]
  BY <1>1, <1>2, <1>3
<1>5. Placed' = Placed
  BY <1>1 DEF Placed
<1>6. ASSUME NEW p \in Products
      PROVE  Balanced(p, stock', items', Placed', returned', entered')
  <2>1. stock'[p] = stock[p] + items[o][p]
    BY <1>1, <1>2 DEF CommitStock
  <2>2. Balanced(p, stock, items, Placed, returned, entered)
    BY DEF LedgerInv
  <2>3. stock[p] \in Int /\ entered[p] \in Int
    BY <1>3
  <2>4. Balanced(p, stock', items, Placed, returned', entered)
    BY <1>2, <1>3, <1>4, <2>1, <2>2, <2>3, ReturnBalanced
  <2> QED  BY <1>1, <1>5, <2>4
<1>7. \A a \in Orders \ Placed' : returned'[a] = 0
  BY <1>2, <1>4, <1>5 DEF LedgerInv
<1> QED  BY <1>6, <1>7, LedgerNext

\* An administrator enters as many units as the figure changes by.
LEMMA StockEditLedger ==
  ASSUME IsFiniteSet(Orders), Safe, LedgerInv, NEW p \in Products, NEW n \in StockFigures,
         AdminEditStock(p, n)
  PROVE  LedgerInv'
<1>1. /\ stock' = [stock EXCEPT ![p] = n]
      /\ entered' = [entered EXCEPT ![p] = entered[p] + n - stock[p]]
      /\ UNCHANGED <<owner, items, returned>>
  BY DEF AdminEditStock, AdminSetStock, orderVars
<1>2. Placed' = Placed
  BY <1>1 DEF Placed
<1>3. /\ items \in [Orders -> Lines] /\ returned \in [Orders -> Nat]
      /\ Placed \in SUBSET Orders
      /\ entered \in [Products -> Int] /\ stock \in [Products -> Int] /\ n \in Int
  BY MaxStockAssumption DEF Safe, TypeOK, CartTypeOK, Placed, StockFigures
<1>4. ASSUME NEW q \in Products
      PROVE  Balanced(q, stock', items, Placed, returned, entered')
  <2> DEFINE sold == Total(Taken(items, q), Placed)
             back == Total(Given(returned, items, q), Orders)
  <2>1. stock[q] + sold = entered[q] + back
    BY DEF LedgerInv, Balanced
  <2>2. sold \in Int /\ back \in Int
    <3>1. Figures(Taken(items, q), Placed) /\ Figures(Given(returned, items, q), Orders)
      BY <1>3, LedgerFigures
    <3> QED  BY <1>3, <3>1, FS_Subset, TotalType
  <2>3. stock[q] \in Int /\ entered[q] \in Int /\ entered[p] \in Int /\ stock[p] \in Int
    BY <1>3
  <2> HIDE DEF sold, back
  <2>4. stock'[q] + sold = entered'[q] + back
    <3>1. CASE q = p
      <4>1. stock'[q] = n /\ entered'[q] = entered[q] + n - stock[q]
        BY <1>1, <1>3, <3>1
      <4> QED  BY <1>3, <2>1, <2>2, <2>3, <4>1
    <3>2. CASE q # p
      BY <1>1, <1>3, <2>1, <3>2
    <3> QED  BY <3>1, <3>2
  <2> QED  BY <2>4 DEF Balanced, sold, back
<1> QED  BY <1>1, <1>2, <1>4, LedgerNext DEF LedgerInv

LEMMA LedgerStep ==
  ASSUME IsFiniteSet(Orders), Safe, LedgerInv, [Next]_vars
  PROVE  LedgerInv'
<1> DEFINE Still == UNCHANGED <<stock, owner, items, returned, entered>>
<1>1. CASE CartRequestStep /\ UNCHANGED shopVars
  <2>1. UNCHANGED stock
    BY <1>1, CartLeavesShelf
  <2> QED  BY <1>1, <2>1, LedgerSame DEF shopVars, orderVars, history
<1>2. ASSUME NEW r \in Requests, RequestStep(r) \/ Rollback(r)
      PROVE  LedgerInv'
  <2>1. CASE CheckoutCommit(r)
    BY <2>1, CheckoutCommitLedger
  <2>2. CASE CancelCommit(r)
    BY <2>2, CancelCommitLedger
  <2>3. CASE ~CheckoutCommit(r) /\ ~CancelCommit(r)
    <3>1. Still
      BY <1>2, <2>3
         DEF RequestStep, Rollback, CheckoutReadCart, CheckoutReadProduct, CancelNextItem,
             CancelRead, CheckoutDecrement, CheckoutInsufficient, CancelRestock,
             cartVars, orderVars, history
    <3> QED  BY <3>1, LedgerSame
  <2> QED  BY <2>1, <2>2, <2>3
<1>3. CASE AdminStep
  <2>1. ASSUME NEW o \in Orders, NEW s,
               AdminSetOrderStatus(o, s) \/ AdminSetDeliveryStatus(o, s)
        PROVE  Still
    BY <2>1 DEF AdminSetOrderStatus, AdminSetDeliveryStatus, cartVars, history
  <2>2. ASSUME NEW p \in Products, AdminDeleteProduct(p)
        PROVE  Still
    BY <2>2 DEF AdminDeleteProduct, AdminRemoveProduct, shopVars, orderVars, history
  <2> QED  BY <1>3, <2>1, <2>2, StockEditLedger, LedgerSame DEF AdminStep
<1>4. CASE UNCHANGED vars
  BY <1>4, LedgerSame DEF vars, cartVars, shopVars, orderVars, history
<1> QED  BY <1>1, <1>2, <1>3, <1>4 DEF Next

LEMMA LedgerInit ==
  ASSUME IsFiniteSet(Orders), Init
  PROVE  LedgerInv
<1>1. Safe
  BY InitSafe
<1>2. /\ items \in [Orders -> Lines] /\ returned \in [Orders -> Nat] /\ Placed = {}
      /\ \A o \in Orders : returned[o] = 0
  BY <1>1 DEF Init, Placed, Safe, TypeOK
<1>3. ASSUME NEW p \in Products
      PROVE  Balanced(p, stock, items, {}, returned, entered)
  <2> DEFINE zero == [o \in Orders |-> 0]
  <2>1. \A o \in Orders : Given(returned, items, p)[o] = 0 /\ items[o][p] = 0
    BY <1>2, NoLinesType DEF Init, Given
  <2>2. Total(Given(returned, items, p), Orders) = 0
    BY <1>2, <2>1, ZeroTotal
  <2>3. Total(Taken(items, p), {}) = 0
    BY TotalEmpty
  <2>4. stock[p] = entered[p]
    BY DEF Init
  <2> QED  BY <2>2, <2>3, <2>4 DEF Balanced
<1> QED  BY <1>2, <1>3 DEF LedgerInv

-----------------------------------------------------------------------------
(* The theorems.                                                           *)

\* Every state of the orders and of the requests is well typed.
THEOREM Typed == Spec => []TypeOK
<1>1. Safe => TypeOK
  BY DEF Safe
<1> QED  BY <1>1, AlwaysSafe, PTL

\* A transaction has changed exactly what its request worked off, and only
\* rows that it locks (checkout.service.ts:169-223, orders.service.ts:246-251).
THEOREM TransactionsIsolated == Spec => []TransactionInv
<1>1. Safe => TransactionInv
  BY DEF Safe
<1> QED  BY <1>1, AlwaysSafe, PTL

\* The stock is never oversold (checkout.service.ts:205-223).
THEOREM StockNeverOversold == Spec => []NeverOversold
<1>1. Safe => NeverOversold
  BY DEF Safe
<1> QED  BY <1>1, AlwaysSafe, PTL

\* No order lists a product that was deleted
\* (products-admin.service.ts:144-161, checkout.service.ts:169-247).
THEOREM ProductsOfOrdersExist == Spec => []OrderedProductsExist
<1>1. Safe => OrderedProductsExist
  BY DEF Safe
<1> QED  BY <1>1, AlwaysSafe, PTL

\* Every unit is accounted for, however checkouts, cancellations, aborts and
\* stock edits interleave: what is on the shelf and what orders took and did
\* not give back add up to what was entered (checkout.service.ts:159-289,
\* orders.service.ts:245-277).  The orders are finitely many, as the sum over
\* them has no meaning otherwise.
THEOREM StockAccountedFor ==
  ASSUME IsFiniteSet(Orders)
  PROVE  Spec => []StockLedger
<1>1. Init => LedgerInv
  BY LedgerInit
<1>2. Safe /\ LedgerInv /\ [Next]_vars => LedgerInv'
  BY LedgerStep
<1>3. Safe /\ LedgerInv => StockLedger
  BY LedgerMeaning DEF Safe
<1> QED  BY <1>1, <1>2, <1>3, AlwaysSafe, PTL DEF Spec

-----------------------------------------------------------------------------
(* The carts beside the checkouts.                                         *)

\* A step of the shop that is not a cart request leaves carts and products
\* alone, empties the cart of a buyer, or deletes a product with its rows.
LEMMA ShopStepRows ==
  ASSUME Safe, RowsOfLive, [Next]_vars
  PROVE  RowsOfLive'
<1>1. ASSUME UNCHANGED <<live, cart, creq>> PROVE RowsOfLive'
  BY <1>1 DEF RowsOfLive, DeletedStaysOut
<1>2. ASSUME NEW B, NEW P, DropRows(B, P),
             live' = live \/ (B = Buyers /\ live' = live \ P)
      PROVE  RowsOfLive'
  BY <1>2, DropRowsOfLive DEF Safe, TypeOK
<1>3. CASE CartRequestStep /\ UNCHANGED shopVars
  BY <1>3, CartRequestStepRows DEF Safe, TypeOK
<1>4. ASSUME NEW r \in Requests, RequestStep(r) \/ Rollback(r) PROVE RowsOfLive'
  <2>1. CASE CheckoutCommit(r)
    BY <1>2, <2>1 DEF CheckoutCommit
  <2>2. CASE ~ CheckoutCommit(r)
    <3>1. UNCHANGED <<live, cart, creq>>
      BY <1>4, <2>2
         DEF RequestStep, CheckoutReadCart, CheckoutReadProduct, CancelNextItem, CancelRead,
             CheckoutDecrement, CheckoutInsufficient, CancelRestock, CancelCommit, Rollback,
             cartVars
    <3> QED  BY <1>1, <3>1
  <2> QED  BY <2>1, <2>2
<1>5. ASSUME NEW o \in Orders, NEW s, AdminSetOrderStatus(o, s) \/ AdminSetDeliveryStatus(o, s)
      PROVE  RowsOfLive'
  BY <1>1, <1>5 DEF AdminSetOrderStatus, AdminSetDeliveryStatus, cartVars
<1>6. ASSUME NEW p \in Products, NEW n \in StockFigures, AdminEditStock(p, n)
      PROVE  RowsOfLive'
  BY <1>1, <1>6 DEF AdminEditStock, AdminSetStock
<1>7. ASSUME NEW p \in Products, AdminDeleteProduct(p) PROVE RowsOfLive'
  BY <1>2, <1>7 DEF AdminDeleteProduct, AdminRemoveProduct
<1>8. CASE UNCHANGED vars
  BY <1>1, <1>8 DEF vars, cartVars
<1> QED  BY <1>3, <1>4, <1>5, <1>6, <1>7, <1>8 DEF Next, AdminStep

\* A deleted product stays out of the carts of the whole shop too, where
\* checkouts empty carts between the statements of cart requests and the row
\* locks of transactions delay deletions (cart.service.ts:82, 98, 135,
\* checkout.service.ts:257, products-admin.service.ts:144-161).
THEOREM DeletedStaysOutOfShop == Spec => []DeletedStaysOut
<1>1. Init => RowsOfLive
  <2>1. Init => CartInit
    BY DEF Init
  <2> QED  BY <2>1, RowsInit
<1>2. Safe /\ RowsOfLive /\ [Next]_vars => RowsOfLive'
  BY ShopStepRows
<1>3. RowsOfLive => DeletedStaysOut
  BY DEF RowsOfLive
<1> QED  BY <1>1, <1>2, <1>3, AlwaysSafe, PTL DEF Spec

-----------------------------------------------------------------------------
(* Locks, and who waits for whom.                                          *)

\* The products that a request has updated in its transaction.
Updated(x) == {p \in Products : x.pc # "idle" /\ x.wanted[p] > 0 /\ p \notin x.todo}

\* A row is locked by a request that has updated it and not ended since.
LocksOwned == \A p \in Products : lock[p] # None => p \in Updated(req[lock[p]])

LEMMA OwnedMoves ==
  ASSUME Safe, LocksOwned, NEW r \in Requests, NEW x, req' = [req EXCEPT ![r] = x],
         Updated(req[r]) \subseteq Updated(x),
         \A p \in Products : lock'[p] = lock[p] \/ (lock'[p] = r /\ p \in Updated(x))
  PROVE  LocksOwned'
<1>1. \A s \in Requests : req'[s] = IF s = r THEN x ELSE req[s]
  BY DEF Safe, TypeOK
<1>2. ASSUME NEW p \in Products, lock'[p] # None
      PROVE  p \in Updated(req'[lock'[p]])
  <2>1. CASE lock'[p] = lock[p]
    <3>1. lock[p] \in Requests /\ p \in Updated(req[lock[p]])
      BY <1>2, <2>1 DEF Safe, TypeOK, LocksOwned
    <3> QED  BY <1>1, <2>1, <3>1
  <2>2. CASE lock'[p] = r /\ p \in Updated(x)
    BY <1>1, <2>2
  <2> QED  BY <2>1, <2>2
<1> QED  BY <1>2 DEF LocksOwned, Updated

LEMMA OwnedEnd ==
  ASSUME Safe, LocksOwned, NEW r \in Requests, EndTransaction(r)
  PROVE  LocksOwned'
<1>1. ASSUME NEW p \in Products, lock'[p] # None
      PROVE  p \in Updated(req'[lock'[p]])
  <2>1. lock'[p] = lock[p] /\ lock[p] # r /\ lock[p] \in Requests
    BY <1>1 DEF EndTransaction, Safe, TypeOK
  <2>2. req'[lock[p]] = req[lock[p]]
    BY <2>1 DEF EndTransaction, Safe, TypeOK
  <2> QED  BY <1>1, <2>1, <2>2 DEF LocksOwned
<1> QED  BY <1>1 DEF LocksOwned, Updated

\* A request that goes on with its list, or updates the product it has read.
LEMMA OwnedStep ==
  ASSUME Safe, LocksOwned, NEW r \in Requests, RequestStep(r) \/ Rollback(r)
  PROVE  LocksOwned'
<1>1. ASSUME NEW x, req[r].pc = "idle", req' = [req EXCEPT ![r] = x], lock' = lock
      PROVE  LocksOwned'
  BY <1>1, OwnedMoves DEF Updated
<1>2. ASSUME NEW b \in Buyers, NEW o \in Orders, CheckoutReadCart(r, b, o)
      PROVE  LocksOwned'
  BY <1>1, <1>2 DEF CheckoutReadCart
<1>3. ASSUME NEW o \in Orders, CancelRead(r, o) PROVE LocksOwned'
  BY <1>1, <1>3 DEF CancelRead
<1>4. ASSUME NEW p \in Products, CheckoutReadProduct(r, p) \/ CancelNextItem(r, p)
      PROVE  LocksOwned'
  <2> DEFINE y == req[r]
  <2>1. PICK pc \in {"decrement", "restock"} :
           req' = [req EXCEPT ![r] = [y EXCEPT !.pc = pc, !.cur = p]] /\ lock' = lock
    BY <1>4 DEF CheckoutReadProduct, CancelNextItem
  <2>2. y \in Request /\ y.pc # "idle"
    BY <1>4, RequestFacts DEF CheckoutReadProduct, CancelNextItem
  <2> HIDE DEF y
  <2>3. Updated(y) \subseteq Updated([y EXCEPT !.pc = pc, !.cur = p])
    BY <2>2 DEF Updated, Request
  <2> QED  BY <2>1, <2>3, OwnedMoves DEF y
<1>5. CASE CheckoutDecrement(r) \/ CancelRestock(r)
  <2> DEFINE y == req[r]
             p == y.cur
  <2>1. PICK pc \in {"checkout", "cancel"} :
          /\ req' = [req EXCEPT ![r] = [y EXCEPT !.pc = pc, !.cur = None,
                                                 !.todo = y.todo \ {p}]]
          /\ lock' = [lock EXCEPT ![p] = r]
    BY <1>5 DEF CheckoutDecrement, CancelRestock, UpdateStock
  <2>2. y \in Request /\ p \in y.todo /\ y.pc # "idle"
        /\ y.todo \subseteq ProductsOf(y.wanted)
    BY <1>5, RequestFacts DEF CheckoutDecrement, CancelRestock, RequestInv, CheckoutInv,
                              CancelInv
  <2> HIDE DEF y
  <2>3. /\ Updated(y) \subseteq Updated([y EXCEPT !.pc = pc, !.cur = None,
                                                  !.todo = y.todo \ {p}])
        /\ p \in Updated([y EXCEPT !.pc = pc, !.cur = None, !.todo = y.todo \ {p}])
    <3> HIDE DEF p
    <3> QED  BY <2>2 DEF Updated, Request, ProductsOf
  <2>4. \A a \in Products : lock'[a] = lock[a] \/ (lock'[a] = r /\ a = p)
    BY <2>1 DEF Safe, TypeOK
  <2> QED  BY <2>1, <2>3, <2>4, OwnedMoves DEF y
<1>6. CASE EndTransaction(r)
  BY <1>6, OwnedEnd
<1> QED
  BY <1>2, <1>3, <1>4, <1>5, <1>6
     DEF RequestStep, CheckoutInsufficient, CheckoutCommit, CancelCommit, Rollback

LEMMA OwnedNext ==
  ASSUME Safe, LocksOwned, [Next]_vars
  PROVE  LocksOwned'
<1>1. CASE UNCHANGED <<req, lock>>
  BY <1>1 DEF LocksOwned, Updated
<1>2. CASE UNCHANGED txVars
  BY <1>1, <1>2 DEF txVars
<1> QED
  BY <1>2, OwnedStep
     DEF Next, AdminStep, AdminSetOrderStatus, AdminSetDeliveryStatus, AdminEditStock,
         AdminDeleteProduct, vars, shopVars

\* A request waits for another one that is under way, or it is ready.
LEMMA WaitsForBusy ==
  ASSUME Safe, LocksOwned, NEW r \in Busy, ~ Ready(r)
  PROVE  WaitsFor(r) \in Busy
<1> DEFINE p == req[r].cur
           s == lock[p]
<1>1. r \in Requests /\ req[r].pc \in {"decrement", "restock"} /\ s # None
  BY DEF Busy, Ready
<1>2. p \in req[r].todo /\ p \in Products
  BY <1>1, RequestFacts DEF RequestInv
<1>3. s \in Requests /\ p \in Updated(req[s])
  BY <1>1, <1>2 DEF Safe, TypeOK, LocksOwned
<1>4. s # r
  BY <1>2, <1>3 DEF Updated
<1>5. WaitsFor(r) = s
  BY <1>1, <1>4 DEF WaitsFor
<1> QED  BY <1>3, <1>5 DEF Updated, Busy

\* Who is followed from one to the next within a finite set comes round.
LEMMA Circles ==
  ASSUME NEW D, IsFiniteSet(D), D # {}, NEW w, \A r \in D : w[r] \in D
  PROVE  \E C \in SUBSET D : C # {} /\ {w[r] : r \in C} = C
<1> DEFINE Image(S) == {w[r] : r \in S}
           B == {S \in SUBSET D : S # {} /\ Image(S) \subseteq S}
<1>1. SUFFICES ASSUME \A S \in SUBSET D : S # {} => Image(S) # S PROVE FALSE
  OBVIOUS
<1>2. D \in B
  OBVIOUS
<1>3. ASSUME NEW S \in B PROVE \E T \in B : T \subseteq S /\ T # S
  <2>1. Image(S) \in B /\ Image(S) \subseteq S /\ Image(S) # S
    BY <1>1, <1>3
  <2> QED  BY <2>1
<1>4. B \in SUBSET (SUBSET D)
  OBVIOUS
<1> HIDE DEF B
<1>5. B = {}
  BY <1>3, <1>4, Descent
<1> QED  BY <1>2, <1>5

\* NoStandstill, for any finite number of requests, and of products and orders
\* whatever: the deadlocks that the loops over the rows of a cart and of an
\* order can run into are circles, and nothing else holds a request up for
\* ever (checkout.service.ts:169-223, orders.service.ts:245-251).
THEOREM StandstillsAreCircles ==
  ASSUME IsFiniteSet(Requests)
  PROVE  Spec => []NoStandstill
<1>1. Init => LocksOwned
  BY DEF Init, LocksOwned
<1>2. Safe /\ LocksOwned /\ [Next]_vars => LocksOwned'
  BY OwnedNext
<1>3. ASSUME Safe, LocksOwned PROVE NoStandstill
  <2> SUFFICES ASSUME Busy # {}, \A r \in Busy : ~ Ready(r)
               PROVE  \E C \in SUBSET Busy : Circle(C)
    BY DEF NoStandstill
  <2>1. \A r \in Busy : WaitsFor(r) \in Busy
    BY <1>3, WaitsForBusy
  <2>2. IsFiniteSet(Busy)
    BY FS_Subset DEF Busy
  <2> DEFINE w == [r \in Busy |-> WaitsFor(r)]
  <2>3. \A r \in Busy : w[r] = WaitsFor(r)
    OBVIOUS
  <2> HIDE DEF w
  <2>4. PICK C \in SUBSET Busy : C # {} /\ {w[r] : r \in C} = C
    <3>1. \A r \in Busy : w[r] \in Busy
      BY <2>1, <2>3
    <3> QED  BY <2>2, <3>1, Circles
  <2>5. {WaitsFor(r) : r \in C} = C
    BY <2>3, <2>4
  <2> QED  BY <2>4, <2>5 DEF Circle
<1> QED  BY <1>1, <1>2, <1>3, AlwaysSafe, PTL DEF Spec

-----------------------------------------------------------------------------
(* Refinement: the committed tables behave as Inventory.tla says.          *)

LEMMA ShelfInit == Init => Shelf!Init
  BY MaxStockAssumption
     DEF Init, CartInit, Shelf!Init, NoLines, StockFigures

LEMMA PlaceSimulated ==
  ASSUME Safe, NEW r \in Requests, CheckoutCommit(r)
  PROVE  \E o \in Orders : Shelf!Place(o)
<1> DEFINE o == req[r].order
           b == req[r].buyer
           w == req[r].wanted
<1>1. /\ CommitStock(r)
      /\ owner' = [owner EXCEPT ![o] = b] /\ items' = [items EXCEPT ![o] = w]
      /\ ostatus' = [ostatus EXCEPT ![o] = "AWAITING_PAYMENT"]
      /\ dstatus' = [dstatus EXCEPT ![o] = "SCHEDULED"]
      /\ req[r].pc = "checkout" /\ req[r].todo = {}
  BY DEF CheckoutCommit
<1>2. /\ o \in Orders \ Placed /\ b \in Buyers /\ w \in Lines
      /\ ProductsOf(w) # {}
      /\ \A p \in Products : delta[r][p] = -w[p]
  BY <1>1, RequestFacts DEF RequestInv, CheckoutInv, WorkedOff
<1> HIDE DEF o, b, w
<1>3. owner[o] = None /\ owner'[o] = b /\ items'[o] = w
  BY <1>1, <1>2 DEF Safe, TypeOK, Placed
<1>4. \E p \in Products : items'[o][p] > 0
  BY <1>2, <1>3 DEF ProductsOf
<1>5. ASSUME NEW p \in Products
      PROVE  items'[o][p] \in 0..stock[p] /\ stock[p] + delta[r][p] = stock[p] - items'[o][p]
  <2>1. w[p] \in Nat /\ stock[p] \in Int /\ stock[p] + delta[r][p] >= 0
        /\ delta[r][p] = -w[p]
    BY <1>2, RequestFacts DEF Lines
  <2> QED  BY <1>3, <2>1
<1>6. stock' = [p \in Products |-> stock[p] - items'[o][p]]
  BY <1>1, <1>5 DEF CommitStock
<1>7. Shelf!Place(o)
  BY <1>1, <1>2, <1>3, <1>4, <1>5, <1>6 DEF Shelf!Place
<1> QED  BY <1>2, <1>7

LEMMA CancelSimulated ==
  ASSUME Safe, NEW r \in Requests, CancelCommit(r)
  PROVE  \E o \in Orders : Shelf!Cancel(o)
<1> DEFINE o == req[r].order
<1>1. /\ CommitStock(r) /\ UNCHANGED <<owner, items>>
      /\ ostatus' = [ostatus EXCEPT ![o] = "CANCELLED"]
      /\ dstatus' = [dstatus EXCEPT ![o] = "CANCELLED"]
      /\ req[r].pc = "cancel" /\ req[r].todo = {}
  BY DEF CancelCommit
<1>2. /\ o \in Placed /\ o \in Orders
      /\ \A p \in Products : delta[r][p] = items[o][p]
  BY <1>1, RequestFacts DEF RequestInv, CancelInv, WorkedOff, Placed
<1> HIDE DEF o
<1>3. stock' = [p \in Products |-> stock[p] + items[o][p]]
  BY <1>1, <1>2 DEF CommitStock
<1>4. Shelf!Cancel(o)
  BY <1>1, <1>2, <1>3 DEF Shelf!Cancel, Placed
<1> QED  BY <1>2, <1>4

LEMMA StepSimulated ==
  ASSUME Safe, [Next]_vars PROVE [Shelf!Next]_Shelf!vars
<1> DEFINE Stutter == UNCHANGED <<stock, owner, items, ostatus, dstatus>>
<1>1. CASE CartRequestStep /\ UNCHANGED shopVars
  <2>1. UNCHANGED stock
    BY <1>1, CartLeavesShelf
  <2> QED  BY <1>1, <2>1 DEF shopVars, orderVars, Shelf!vars
<1>2. ASSUME NEW r \in Requests, RequestStep(r) \/ Rollback(r)
      PROVE  Stutter \/ \E o \in Orders : Shelf!Place(o) \/ Shelf!Cancel(o)
  <2>1. CASE CheckoutCommit(r)
    BY <2>1, PlaceSimulated
  <2>2. CASE CancelCommit(r)
    BY <2>2, CancelSimulated
  <2>3. CASE ~CheckoutCommit(r) /\ ~CancelCommit(r)
    BY <1>2, <2>3
       DEF RequestStep, Rollback, CheckoutReadCart, CheckoutReadProduct, CancelNextItem,
           CancelRead, CheckoutDecrement, CheckoutInsufficient, CancelRestock,
           cartVars, orderVars
  <2> QED  BY <2>1, <2>2, <2>3
<1>3. CASE AdminStep
  <2>1. ASSUME NEW o \in Orders, NEW s,
               AdminSetOrderStatus(o, s) \/ AdminSetDeliveryStatus(o, s)
        PROVE  Shelf!Handle(o)
    <3>1. CASE AdminSetOrderStatus(o, s)
      <4>1. /\ owner[o] # None /\ ostatus' = [ostatus EXCEPT ![o] = s]
            /\ UNCHANGED <<stock, owner, items, dstatus>>
        BY <3>1 DEF AdminSetOrderStatus, Placed, cartVars
      <4>2. ostatus'[o] = s
        BY <4>1 DEF Safe, TypeOK
      <4> QED  BY <4>1, <4>2 DEF Shelf!Handle
    <3>2. CASE AdminSetDeliveryStatus(o, s)
      <4>1. /\ owner[o] # None /\ dstatus' = [dstatus EXCEPT ![o] = s]
            /\ UNCHANGED <<stock, owner, items, ostatus>>
        BY <3>2 DEF AdminSetDeliveryStatus, Placed, cartVars
      <4>2. dstatus'[o] = s
        BY <4>1 DEF Safe, TypeOK
      <4> QED  BY <4>1, <4>2 DEF Shelf!Handle
    <3> QED  BY <2>1, <3>1, <3>2
  <2>2. ASSUME NEW p \in Products, NEW n \in StockFigures, AdminEditStock(p, n)
        PROVE  Shelf!Count(p)
    <3>1. stock' = [stock EXCEPT ![p] = n] /\ UNCHANGED <<owner, items, ostatus, dstatus>>
      BY <2>2 DEF AdminEditStock, AdminSetStock, orderVars
    <3>2. stock'[p] = n /\ n \in Nat
      BY <3>1, MaxStockAssumption DEF StockFigures, Safe, TypeOK, CartTypeOK
    <3> QED  BY <3>1, <3>2 DEF Shelf!Count
  <2>3. ASSUME NEW p \in Products, AdminDeleteProduct(p)
        PROVE  Stutter
    BY <2>3 DEF AdminDeleteProduct, AdminRemoveProduct, shopVars, orderVars
  <2> QED  BY <1>3, <2>1, <2>2, <2>3 DEF AdminStep, Shelf!Next, Shelf!vars
<1>4. CASE UNCHANGED vars
  BY <1>4 DEF vars, cartVars, shopVars, orderVars, Shelf!vars
<1> QED  BY <1>1, <1>2, <1>3, <1>4 DEF Next, Shelf!Next, Shelf!vars

\* Seen through the committed tables, checkout and cancellation are atomic,
\* however their statements interleave (checkout.service.ts:159-289,
\* orders.service.ts:245-277).
THEOREM CheckoutImplementsInventory == Spec => ImplementsInventory
  BY ShelfInit, StepSimulated, AlwaysSafe, PTL DEF Spec, ImplementsInventory, Shelf!Spec
=============================================================================
