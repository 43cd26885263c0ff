------------------------------ MODULE MCSolvers ------------------------------
(* The builds and solvers that gtsolver.cxx and the tests of gt-blas can be *)
(* compiled to, each with batches of two matrices.                          *)
EXTENDS Solvers, TLC

B(backend, kind, library) == [backend |-> backend, kind |-> kind, library |-> library]

AllBuilds ==
  {B(backend, "vectors", "none") : backend \in {"sycl", "cuda", "hip", "host"}}
  \cup {B(backend, "batched", "none") : backend \in {"sycl", "cuda", "host"}}
  \cup {B(backend, kind, "none") : backend \in {"sycl", "cuda"}, kind \in {"dense", "invert"}}
  \cup {B("sycl", "sparse", "trsv"), B("hip", "sparse", "hip")}
  \cup {B("cuda", "sparse", library) : library \in {"csrsm2", "bsrsm2", "generic"}}

SyclDense == {B("sycl", "dense", "none")}

Symmetry == Permutations(Pool) \cup Permutations(Rhs)
=============================================================================
