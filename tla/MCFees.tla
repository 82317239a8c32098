------------------------------- MODULE MCFees -------------------------------
(* Fees.tla on small instances.                                            *)
EXTENDS Fees, TLC

Symmetry == Permutations(Zones) \cup Permutations(Neighborhoods)
              \cup Permutations(Addresses) \cup Permutations(Orders)
=============================================================================
