----------------------------- MODULE MCPayouts ------------------------------
(* Payouts.tla on small instances.                                         *)
EXTENDS Payouts, TLC

Symmetry == Permutations(Transfers) \cup Permutations(Buyers) \cup Permutations(Hooks)
=============================================================================
