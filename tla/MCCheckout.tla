----------------------------- MODULE MCCheckout -----------------------------
(* Checkout.tla on small instances.                                        *)
EXTENDS Checkout, TLC

Symmetry == Permutations(Products) \cup Permutations(Requests)
              \cup Permutations(Orders) \cup Permutations(Buyers)
=============================================================================
