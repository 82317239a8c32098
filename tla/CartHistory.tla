----------------------------- MODULE CartHistory -----------------------------
(***************************************************************************)
(* Cart.tla with a record of the largest stock each product ever had, for  *)
(* what the comparisons of cart.service.ts are worth once other requests   *)
(* and administrators come between them and the write.                     *)
(***************************************************************************)
EXTENDS Cart

VARIABLE peak      \* history: the largest stock the product has had

historyVars == <<cartVars, peak>>

\* The lines that are there were compared with the stock of their day.
HistoryInit ==
    /\ CartInit
    /\ peak \in [Products -> StockFigures]
    /\ \A p \in Products : stock[p] <= peak[p]
    /\ \A b \in Buyers, p \in Products : cart[b][p] <= peak[p]

HistoryNext ==
    /\ CartNext
    /\ peak' = [p \in Products |-> IF stock'[p] > peak[p] THEN stock'[p] ELSE peak[p]]

HistorySpec == HistoryInit /\ [][HistoryNext]_historyVars

\* No interleaving of additions, updates, removals and stock edits leaves a
\* line for more units than the product itself ever had in stock: whatever
\* is written was compared with a stock figure that was true when the request
\* read it (cart.service.ts:52, 68, 125), although it is written later and
\* both the stock and the line may have changed in between.
LineWithinStock ==
    \A b \in Buyers, p \in Products : cart[b][p] <= peak[p]
=============================================================================
