---------------------------- MODULE MCReductions ----------------------------
(* Reductions of up to three elements, by two work groups. *)
EXTENDS Reductions, TLC

SmallContents == [mixed |-> <<1, -3, 2>>, positive |-> <<2, 1>>, negative |-> <<-2, -1>>, empty |-> << >>]

Symmetry == Permutations(Groups)

SmallShapes == {<<3>>, <<2, 3>>, <<3, 1>>, <<1, 2>>, <<2, 1, 2>>, <<2, 2, 2>>}
=============================================================================
