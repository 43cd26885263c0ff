--------------------------------- MODULE Blas ---------------------------------
(***************************************************************************)
(* gt-blas: the calls of backend/{host,cuda,hip,sycl}.h as operations on   *)
(* the queue of a handle.  The libraries behind them are external: a call  *)
(* is what it computes from which buffers, as a term.                      *)
(*                                                                         *)
(* An array of a batched call has one buffer per matrix of the batch; the  *)
(* calls take an array of pointers, here a function from the batch to      *)
(* buffers.  What the backends do differently is whether a call waits for  *)
(* its result and whether it needs scratch memory.                         *)
(***************************************************************************)
EXTENDS DeviceQueues

CONSTANT batchSize  \* how many matrices a batch has

ASSUME BatchAssumption == batchSize \in Nat \ {0}

Batch == 0 .. batchSize - 1

Buffer(array, b) == <<array, b>>

(* A device array of pointers to the matrices of an array.                 *)
Pointers(array) == [b \in Batch |-> Buffer(array, b)]

(* Mutant: the offset of the matrix in the pivot array is forgotten.       *)
PivotsOfFirst(pivots) == [b \in Batch |-> Buffer(pivots, Min(Batch))]

(* The pivots of matrix b: d_PivotArray + b * n. *)
Pivots(pivots) == [b \in Batch |-> Buffer(pivots, b)]

(* All of a scratch block, whatever it held.                               *)
Scratch(blocks) == {Store(Buffer(p, b), "junk", << >>) : p \in blocks, b \in Batch}

(* A whole array, matrix by matrix. *)
Batched(to, name, from) ==
  {Store(Buffer(to, b), name, [i \in DOMAIN from |-> Buffer(from[i], b)]) : b \in Batch}

CopyBatched(from, to) == Batched(to, "copy", <<from>>)

GetrfBatched(A, pivots) ==
  {Store(A[b], "lu", <<A[b]>>) : b \in Batch}
    \cup {Store(Pivots(pivots)[b], "pivots", <<A[b]>>) : b \in Batch}

GetrfNpvtBatched(A) == {Store(A[b], "lu_npvt", <<A[b]>>) : b \in Batch}

GetrsBatched(A, pivots, B) ==
  {Store(B[b], "getrs", <<A[b], Pivots(pivots)[b], B[b]>>) : b \in Batch}

(* Out of place: the factors in A are inverted into C. *)
GetriBatched(A, pivots, C) ==
  {Store(C[b], "getri", <<A[b], Pivots(pivots)[b]>>) : b \in Batch}

(* The libraries of SYCL and the host invert in place, so the factors are  *)
(* copied to C first.                                                      *)
GetriInPlace(A, pivots, C) ==
  <<{Store(C[b], "copy", <<A[b]>>) : b \in Batch}, GetriBatched(C, pivots, C)>>

Getri(backend, A, pivots, C) ==
  IF backend \in {"sycl", "host"} THEN GetriInPlace(A, pivots, C)
                                  ELSE <<GetriBatched(A, pivots, C)>>

(* with alpha = 1 and beta = 0 *)
GemmBatched(A, B, C) == {Store(C[b], "gemm", <<A[b], B[b]>>) : b \in Batch}

-----------------------------------------------------------------------------
(* Level 1 and 2, on whole vectors. *)

Axpy(x, y) == Batched(y, "axpy", <<x, y>>)
Scal(x) == Batched(x, "scal", <<x>>)
Copy(x, y) == CopyBatched(x, y)
Gemv(A, x, y) == Batched(y, "gemv", <<A, x, y>>)

-----------------------------------------------------------------------------
(* How a call with operation op on the queue of the handle leaves the      *)
(* device when it returns.                                                 *)

(* Level 1 and 2 in SYCL wait for the event.                               *)
SyclCall(d, q, op) == Waited(Submit(d, q, op), q)

SyclStrided(d, q, op) == Submit(d, q, op)

(* cuBLAS puts the call on the stream of the handle; rocBLAS does the same. *)
CudaCall(d, q, op) == Submit(d, q, op)
HipCall(d, q, op) == Submit(d, q, op)

(* CBLAS has computed the result when it returns. *)
HostCall(d, op) == [d EXCEPT !.mem = Executed(@, op)]

(* Level 1 and 2. *)
Call(backend, d, q, op) ==
  CASE backend = "sycl" -> SyclCall(d, q, op)
    [] backend = "cuda" -> CudaCall(d, q, op)
    [] backend = "hip"  -> HipCall(d, q, op)
    [] backend = "host" -> HostCall(d, op)

(* The batched calls, of which getri does several things in sequence ops.  *)
(* oneMKL needs scratch memory, which comes from the pool; the calls wait  *)
(* for their events, and for the default queue when they give it back.     *)
SyclBatched(d, q, ops, scratch) ==
  Waited(Waited(SubmitAll(d, q, [i \in DOMAIN ops |-> ops[i] \cup Scratch(scratch)]), q),
         IF scratch = {} THEN q ELSE "default")

CudaBatched(d, q, ops) == SubmitAll(d, q, ops)
HipBatched(d, q, ops) == SubmitAll(d, q, ops)

(* What operations ops do to matrix b. *)
OfMatrix(ops, b) == [i \in DOMAIN ops |-> {s \in ops[i] : s.to[2] = b}]

InOrder(mem, ops) == FoldLeft(Executed, mem, ops)

(* The loops over LAPACK calls, matrix by matrix. *)
HostBatched(d, ops) ==
  [d EXCEPT !.mem = FoldLeft(InOrder, @, [k \in 1 .. batchSize |-> OfMatrix(ops, k - 1)])]

BatchedCall(backend, d, q, ops, scratch) ==
  CASE backend = "sycl" -> SyclBatched(d, q, ops, scratch)
    [] backend = "cuda" -> CudaBatched(d, q, ops)
    [] backend = "hip"  -> HipBatched(d, q, ops)
    [] backend = "host" -> HostBatched(d, ops)
====
