----------------------------- MODULE MCPayments -----------------------------
(* Payments.tla on small instances.                                        *)
EXTENDS Payments, TLC

\* Of one charge the generic webhook is told the words the contract lists, of
\* the others also one it does not.
ListedForOne ==
    LET listed == CHOOSE a \in Attempts : TRUE
    IN  [a \in Attempts |-> {"paid", "failed"} \cup
                              IF a = listed THEN {} ELSE {"other"}]

Symmetry == Permutations(Orders) \cup Permutations(Confirmers)
=============================================================================
