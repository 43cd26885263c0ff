------------------------- MODULE MCCachingAllocator -------------------------
(* CachingAllocator with three owners, three counts and four addresses:    *)
(* one more address than the owners can hold at a time, so that addresses  *)
(* wait in the cache and are recycled between owners.                      *)
EXTENDS CachingAllocator, TLC

Symmetry == Permutations(Owner) \cup Permutations(BlockPtr)
=============================================================================
