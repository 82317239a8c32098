---------------------------- MODULE MCCacheAside ----------------------------
(* CacheAside.tla on small instances.                                      *)
EXTENDS CacheAside, TLC

Symmetry == Permutations(Requests)
=============================================================================
