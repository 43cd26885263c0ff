---------------------------- MODULE MCBandSolver ----------------------------
(* Matrices of size 4 with different lower and upper bandwidths, so that a *)
(* thread of the block of 2 has up to two rows per column.                 *)
EXTENDS BandSolver

Banded(l, u) ==
  [i, j \in 0..3 |-> IF i - j \in -u..l THEN 1 + ((2 * i + j + i * j) % 4) ELSE 0]

MCMatrices == {Banded(l, u) : l \in 0..3, u \in 0..3}
MCPivots == {[i \in 0..3 |-> i + 1], [i \in 0..3 |-> IF i = 0 THEN 3 ELSE 4]}
MCRhs == {[i \in 0..3 |-> (i * i + 2) % 5]}
=============================================================================
