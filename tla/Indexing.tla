------------------------------ MODULE Indexing ------------------------------
(***************************************************************************)
(* The index arithmetic of gtensor (include/gtensor/strides.h): layout in  *)
(* column-major order, the first index running fastest, and stride 0 in    *)
(* dimensions of extent 1 so that any index there reaches the one element. *)
(* Shapes, strides and multi-dimensional indices are sequences, the        *)
(* indices themselves start at 0 as in the code.                           *)
(*                                                                         *)
(* The code computes in int and size_t; the model in integers, so it says  *)
(* nothing of arrays whose size does not fit an int (strides.h:17).        *)
(***************************************************************************)
EXTENDS Integers, SequencesExt

Times(x, y) == x * y
Plus(x, y) == x + y

Product(s) == FoldLeft(Times, 1, s)
Total(s) == FoldLeft(Plus, 0, s)

CalcSize(shape) == Product(shape)

CalcStrides(shape) ==
  [d \in DOMAIN shape |-> IF shape[d] = 1 THEN 0 ELSE Product(SubSeq(shape, 1, d - 1))]

CalcIndex(strides, idx) ==
  Total([d \in DOMAIN strides |-> strides[d] * idx[d]])

(* Mutant: dimensions of stride 0 are not skipped by the remainder.        *)
UnravelForgetsRest(i, strides) ==
  [d \in DOMAIN strides |-> IF strides[d] = 0 THEN 0 ELSE i \div strides[d]]

(* Dimension by dimension from the last, the slowest: what is left of i    *)
(* when dimensions above d are done.                                       *)
Unravel(i, strides) ==
  LET left[d \in 0..Len(strides)] ==
        IF d = Len(strides) THEN i
        ELSE IF strides[d + 1] = 0 THEN left[d + 1]
        ELSE left[d + 1] % strides[d + 1]
  IN  [d \in DOMAIN strides |-> IF strides[d] = 0 THEN 0 ELSE left[d] \div strides[d]]

-----------------------------------------------------------------------------
(* The reference definitions the code is compared with. *)

(* Every index with each component below the extent of its dimension. *)
Extended(S, n) == {Append(idx, i) : idx \in S, i \in 0..(n - 1)}
Indices(shape) == FoldLeft(Extended, {<<>>}, shape)

(* The place of idx in the column-major enumeration of Indices(shape). *)
Place(shape, idx) ==
  Total([d \in DOMAIN shape |-> idx[d] * Product(SubSeq(shape, 1, d - 1))])
=============================================================================
