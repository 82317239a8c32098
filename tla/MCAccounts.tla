----------------------------- MODULE MCAccounts -----------------------------
(* Accounts.tla on small instances.                                        *)
EXTENDS Accounts, TLC

Symmetry == Permutations(Emails) \cup Permutations(Requests) \cup Permutations(ResetKeys)
=============================================================================
