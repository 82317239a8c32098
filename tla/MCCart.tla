------------------------------- MODULE MCCart -------------------------------
(* CartHistory.tla on two products, one buyer, two cart requests at a time. *)
EXTENDS CartHistory, TLC

Symmetry == Permutations(Products) \cup Permutations(CartRequests)
=============================================================================
