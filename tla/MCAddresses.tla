----------------------------- MODULE MCAddresses -----------------------------
(* Addresses.tla on small instances.                                       *)
EXTENDS Addresses, TLC

Symmetry == Permutations(Buyers) \cup Permutations(Addresses)
              \cup Permutations(Requests) \cup Permutations(Orders)
=============================================================================
