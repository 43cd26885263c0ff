------------------------------ MODULE MCSparse ------------------------------
(* All dense batches of small shapes, square and not. *)
EXTENDS Sparse

SmallShapes == {<<2, 2, 2>>, <<1, 2, 2>>, <<2, 1, 2>>, <<2, 3, 1>>, <<3, 2, 1>>, <<1, 2, 3>>}
=============================================================================
