------------------------------- MODULE Sparse -------------------------------
(***************************************************************************)
(* The compressed sparse row matrix of include/gtensor/sparse.h.           *)
(*                                                                         *)
(* A batch of dense matrices becomes one block diagonal sparse matrix in   *)
(* two kernels with the host in between: the first counts the nonzeros of  *)
(* every row, the host sums the counts up to row_ptr and allocates, and    *)
(* the second writes the elements, every thread of it those of one row,    *)
(* from the offset row_ptr gives it on.  A single matrix is a batch of     *)
(* one.                                                                    *)
(*                                                                         *)
(* An element that is not zero is told apart from every other: it is       *)
(* represented by its cell <<i, j, b>>, so that a dense batch is the set   *)
(* of its nonzero cells.                                                   *)
(***************************************************************************)
EXTENDS Integers, FiniteSets, FiniteSetsExt

CONSTANTS
  Shapes,  \* the shapes <<nrows, ncols, nbatches>> of the dense batches
  None     \* the content of memory nobody has written

ASSUME ShapesAssumption == Shapes \subseteq (Nat \X Nat \X Nat)

ASSUME NoneAssumption == None \notin Nat \X Nat \X Nat

VARIABLES
  shape,    \* the shape of the dense batch
  nonzero,  \* its nonzero cells
  stage,    \* how far the construction has come
  running,  \* the threads of the current kernel that have not finished
  counts,   \* row_nnz_counts: per thread of the counting kernel
  row_ptr,  \* row_ptr_: where the elements of a row start
  summed,   \* how many of its entries partial_sum has computed
  nnz,      \* nnz_
  values,   \* values_
  col_ind,  \* col_ind_
  at,       \* the variable j of every thread of the converting kernel
  offset    \* its variable value_offset

sparseVars == <<shape, nonzero, stage, running, counts, row_ptr, summed, nnz, values,
          col_ind, at, offset>>

Stage == {"none", "count", "scan", "convert"}

-----------------------------------------------------------------------------
(* What is derived from the shape. *)

nrows == shape[1]
ncols == shape[2]
nbatches == shape[3]

CellsOf(s) == (0 .. s[1] - 1) \X (0 .. s[2] - 1) \X (0 .. s[3] - 1)

(* Both kernels are launched over (nrows, nbatches). *)
ThreadsOf(s) == (0 .. s[1] - 1) \X (0 .. s[3] - 1)

Threads == ThreadsOf(shape)

(* The row of the sparse matrix that a thread is responsible for. *)
RowOf(t) == t[1] + t[2] * nrows

Rows == nrows * nbatches

(* The cell a thread looks at, and the nonzero columns of its row. *)
Cell(t, j) == <<t[1], j, t[2]>>

NonzeroColumns(t) == {j \in 0 .. ncols - 1 : Cell(t, j) \in nonzero}

(* The nonzero columns a thread of the converting kernel has still to write. *)
Left(t) == {j \in NonzeroColumns(t) : at[t] <= j}

SparseInit ==
  /\ shape \in Shapes
  /\ nonzero = {}
  /\ stage = "none"
  /\ running = {}
  /\ counts = [t \in ThreadsOf(shape) |-> 0]
  /\ row_ptr = [r \in 0 .. Rows |-> 0]
  /\ summed = 0
  /\ nnz = 0
  /\ values = [k \in {} |-> None]
  /\ col_ind = [k \in {} |-> None]
  /\ at = [t \in ThreadsOf(shape) |-> 0]
  /\ offset = [t \in ThreadsOf(shape) |-> 0]

(* csr_matrix(d_a) and join_matrix_batches start with row_ptr_batches, which *)
(* launches the counting kernel over a dense batch: here, over any one of    *)
(* one of the shapes.                                                        *)
ConstructMatrix ==
  /\ stage = "none"
  /\ nonzero' \in SUBSET CellsOf(shape)
  /\ stage' = "count"
  /\ running' = Threads
  /\ UNCHANGED <<shape, counts, row_ptr, summed, nnz, values, col_ind, at, offset>>

(* A thread of the counting kernel.  It shares nothing that it writes. *)
Count(t, n) ==
  /\ stage = "count"
  /\ t \in running
  /\ counts' = [counts EXCEPT ![t] = n]
  /\ running' = running \ {t}
  /\ UNCHANGED <<shape, nonzero, stage, row_ptr, summed, nnz, values, col_ind, at, offset>>

(* Mutants: the last column is left out; the zeros are counted as well. *)
CountRowShort(t) == Count(t, Cardinality(NonzeroColumns(t) \ {ncols - 1}))
CountRowZeros(t) == Count(t, ncols)

CountRow(t) == Count(t, Cardinality(NonzeroColumns(t)))

(* The copy of the counts to the host waits for the kernel. *)
CopyCounts ==
  /\ stage = "count"
  /\ running = {}
  /\ stage' = "scan"
  /\ row_ptr' = [row_ptr EXCEPT ![0] = 0]
  /\ summed' = 0
  /\ UNCHANGED <<shape, nonzero, running, counts, nnz, values, col_ind, at, offset>>

(* Where the count of a thread is in the memory of row_nnz_counts: the     *)
(* first index runs fastest.                                               *)
PositionOf(t) == t[1] + nrows * t[2]

(* std::partial_sum into row_ptr, from its second entry on. *)
PartialSum ==
  /\ stage = "scan"
  /\ \E t \in Threads :
       /\ PositionOf(t) = summed
       /\ row_ptr' = [row_ptr EXCEPT ![summed + 1] = row_ptr[summed] + counts[t]]
  /\ summed' = summed + 1
  /\ UNCHANGED <<shape, nonzero, stage, running, counts, nnz, values, col_ind, at, offset>>

(* The constructor sizes the arrays by the last entry of row_ptr, copies   *)
(* row_ptr to the device and launches convert_batches, every thread of     *)
(* which starts at the offset of its row.                                  *)
Convert ==
  /\ stage = "scan"
  /\ summed = Rows
  /\ nnz' = row_ptr[Rows]
  /\ values' = [k \in 0 .. row_ptr[Rows] - 1 |-> None]
  /\ col_ind' = [k \in 0 .. row_ptr[Rows] - 1 |-> None]
  /\ at' = [t \in Threads |-> 0]
  /\ offset' = [t \in Threads |-> row_ptr[RowOf(t)]]
  /\ running' = Threads
  /\ stage' = "convert"
  /\ UNCHANGED <<shape, nonzero, counts, row_ptr, summed>>

(* A thread of the converting kernel stores the element of its column j in *)
(* column c of the sparse matrix, if it is not zero.                       *)
StoreElement(t, c) ==
  IF Cell(t, at[t]) \in nonzero
    THEN /\ values' = [values EXCEPT ![offset[t]] = Cell(t, at[t])]
         /\ col_ind' = [col_ind EXCEPT ![offset[t]] = c]
         /\ offset' = [offset EXCEPT ![t] = @ + 1]
    ELSE UNCHANGED <<values, col_ind, offset>>

(* A pass of the loop of such a thread: over columns up to last, stepping by *)
(* step.                                                                     *)
Pass(t, c, last, step) ==
  /\ stage = "convert"
  /\ t \in running
  /\ at[t] <= last
  /\ StoreElement(t, c)
  /\ at' = [at EXCEPT ![t] = @ + step]
  /\ UNCHANGED <<shape, nonzero, stage, running, counts, row_ptr, summed, nnz>>

(* Mutants: the blocks are placed by their height; the loop runs one column *)
(* too far; it goes on only behind an element that is not zero.             *)
ConvertElementOfRows(t) == Pass(t, nrows * t[2] + at[t], ncols - 1, 1)
ConvertElementPastEnd(t) == Pass(t, ncols * t[2] + at[t], ncols, 1)
ConvertElementStuck(t) ==
  Pass(t, ncols * t[2] + at[t], ncols - 1, IF Cell(t, at[t]) \in nonzero THEN 1 ELSE 0)

(* The columns of batch b are behind those of the batches before it. *)
ConvertElement(t) == Pass(t, ncols * t[2] + at[t], ncols - 1, 1)

(* A thread of the converting kernel ends. *)
EndThread(t) ==
  /\ stage = "convert"
  /\ t \in running
  /\ at[t] = ncols
  /\ running' = running \ {t}
  /\ UNCHANGED <<shape, nonzero, stage, counts, row_ptr, summed, nnz, values, col_ind,
                 at, offset>>

(* The application synchronized and is done with the matrix. *)
Release ==
  /\ stage = "convert"
  /\ running = {}
  /\ stage' = "none"
  /\ nonzero' = {}
  /\ counts' = [t \in Threads |-> 0]
  /\ row_ptr' = [r \in 0 .. Rows |-> 0]
  /\ summed' = 0
  /\ nnz' = 0
  /\ values' = [k \in {} |-> None]
  /\ col_ind' = [k \in {} |-> None]
  /\ at' = [t \in Threads |-> 0]
  /\ offset' = [t \in Threads |-> 0]
  /\ UNCHANGED <<shape, running>>

SparseNext ==
  \/ ConstructMatrix
  \/ \E t \in running : CountRow(t)
  \/ CopyCounts
  \/ PartialSum
  \/ Convert
  \/ \E t \in running : ConvertElement(t)
  \/ \E t \in running : EndThread(t)
  \/ Release

(* The kernels and the host make progress; the application need not go on. *)
SparseFairness ==
  WF_sparseVars(\/ \E t \in running : CountRow(t)
                \/ CopyCounts \/ PartialSum \/ Convert
                \/ \E t \in running : ConvertElement(t)
                \/ \E t \in running : EndThread(t))

SparseSpec == SparseInit /\ [][SparseNext]_sparseVars

SparseFairSpec == SparseSpec /\ SparseFairness

-----------------------------------------------------------------------------
(* Access to the matrix. *)

(* The shape of the sparse matrix. *)
MatrixShape == <<nrows * nbatches, ncols * nbatches>>

(* values_index: the search through a row stops at the first column that is *)
(* not before the one looked for; the result is -1 if it is another one.    *)
values_index(i, j) ==
  LET ahead == {k \in row_ptr[i] .. row_ptr[i + 1] - 1 : col_ind[k] >= j}
  IN  IF ahead # {} /\ col_ind[Min(ahead)] = j THEN Min(ahead) ELSE -1

(* operator()(i, j), where the value zero is no cell. *)
Zero == << >>

Read(i, j) == IF values_index(i, j) = -1 THEN Zero ELSE values[values_index(i, j)]

-----------------------------------------------------------------------------
(* Properties *)

Ready == stage = "convert" /\ running = {}

SparseTypeOK ==
  /\ shape \in Shapes
  /\ nonzero \subseteq CellsOf(shape)
  /\ stage \in Stage
  /\ running \subseteq Threads
  /\ counts \in [Threads -> Nat]
  /\ row_ptr \in [0 .. Rows -> Nat]
  /\ summed \in 0 .. Rows
  /\ nnz \in Nat
  /\ values \in [0 .. nnz - 1 -> CellsOf(shape) \cup {None}]
  /\ col_ind \in [0 .. nnz - 1 -> Nat \cup {None}]
  /\ at \in [Threads -> 0 .. ncols]
  /\ offset \in [Threads -> Nat]

(* What the converting kernel writes: a thread that has an element left     *)
(* writes it inside of the arrays, inside of its row of them, and not where *)
(* another thread will write.  Between the counting pass, the sum over the  *)
(* rows of all batches and the second pass, which counts again, this is     *)
(* what the two kernels have to agree on.                                   *)
WritesDisjoint ==
  stage = "convert" =>
    \A t \in Threads : Left(t) # {} =>
      /\ offset[t] \in row_ptr[RowOf(t)] .. row_ptr[RowOf(t) + 1] - 1
      /\ offset[t] < nnz
      /\ \A u \in Threads \ {t} : Left(u) # {} => offset[u] # offset[t]

(* What is written by the threads, in any order of theirs, reads back as    *)
(* the block diagonal matrix: element (i, j) of batch b at row i + b nrows  *)
(* and column j + b ncols, and 0 at all the others, off the diagonal blocks *)
(* as well as at the zeros inside of them.                                  *)
ReadsBack ==
  Ready =>
    \A r \in 0 .. MatrixShape[1] - 1, c \in 0 .. MatrixShape[2] - 1 :
      LET cell == <<r % nrows, c % ncols, r \div nrows>>
      IN  Read(r, c) = IF c \div ncols = r \div nrows /\ cell \in nonzero
                         THEN cell ELSE Zero

(* No entry of the arrays is left unwritten, and the columns of a row       *)
(* increase, which the early end of values_index counts on and which the    *)
(* solvers of the vendors' libraries require.                               *)
RowsSorted ==
  Ready =>
    /\ \A k \in 0 .. nnz - 1 : values[k] # None
    /\ \A r \in 0 .. Rows - 1 :
         \A k, l \in row_ptr[r] .. row_ptr[r + 1] - 1 : k < l => col_ind[k] < col_ind[l]

(* A construction ends, empty rows and empty matrices included. *)
ConstructionEnds == stage # "none" ~> Ready

=============================================================================
