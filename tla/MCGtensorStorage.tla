-------------------------- MODULE MCGtensorStorage --------------------------
(* Two storage objects.  One address more than objects, because a growing  *)
(* object owns two blocks for a moment.  Aborting is left out: as long as  *)
(* the program lives, what it does Nulling can do too.                     *)
EXTENDS GtensorStorage, TLC

MCBackends == {Nulling, Throwing}

Symmetry == Permutations(Obj) \cup Permutations(Ptr)
=============================================================================
