------------------------------- MODULE Solvers -------------------------------
(***************************************************************************)
(* The solvers of gt-solver (src/gtsolver.cxx, gt-solver/solver.h and its  *)
(* backends) over the BLAS calls of gt-blas and the C interface to them,   *)
(* in an application that also calls BLAS itself and has a container of    *)
(* its own from the same allocator, which it uses on a stream.             *)
(*                                                                         *)
(* BLAS calls work on the queue of the handle; gt::copy_n,                 *)
(* gt::synchronize() and the deallocation of containers on the default     *)
(* queue; the sparse solvers' own handle on the default queue as well.     *)
(* Scratch vectors, temporaries and the application's container come from  *)
(* the caching allocator (Pool), all of one size: what one gives back the  *)
(* next one gets.                                                          *)
(*                                                                         *)
(* On CUDA and HIP the legacy default stream is ordered with every other   *)
(* stream; there the model keeps to the default stream.                    *)
(***************************************************************************)
EXTENDS Blas

CONSTANTS
  Pool,          \* addresses of the cached blocks
  Rhs,           \* the right-hand sides the application writes
  Build,         \* the builds and solvers looked at, records of BuildType
  SolverQueues,  \* the queues of the handle when a solver is called
  MaxQueue       \* bound on the work waiting in the queues

Queue == {"default", "stream"}

BuildType ==
  [backend : {"sycl", "cuda", "hip", "host"},
   kind : {"dense", "invert", "sparse",     \* a solver
           "vectors", "batched"},           \* calls of gt::blas only
   library : {"trsv", "csrsm2", "bsrsm2", "hip", "generic", "none"}]

(* The arrays that keep their block: those of the solvers and, in the last *)
(* two lines, those of the application.                                    *)
Array ==
  {"matrix_data_", "pivot_data_", "rhs_data_", "rhs_input_data_",
   "csr", "l_info_", "u_info_", "rhs_tmp_", "result_tmp_"}
  \cup {"x", "rhs", "result"}
  \cup {"M", "ipiv", "inverse"}

AppArray == {"x", "rhs", "result", "M", "ipiv", "inverse"}

ASSUME ConstantsAssumption ==
  /\ SolverQueues \subseteq Queue
  /\ MaxQueue \in Nat \ {0}
  /\ Build \subseteq BuildType
  /\ Pool \cap Array = {}

ASSUME PoolAssumption == "none" \notin Pool

(* gt-solver has no backend for the host. *)
ASSUME HostAssumption ==
  \A bu \in Build : bu.backend = "host" => bu.kind \in {"vectors", "batched"}

VARIABLES
  build,     \* the build and the solver in use
  dev,       \* the device: contents of Array and Pool, work per queue
  block,     \* block[w]: the pool block of container w, or "none"
  phase,     \* of the solver: "none", "factoring" in its constructor, "ready"
  g_handle,  \* "null", or the queue of the BLAS handle
  expected,  \* the application's arrays, had every call been finished at once
  answered   \* whether the last dot product was that of these arrays

vars == <<build, dev, block, phase, g_handle, expected, answered>>

(* The containers that get their memory from the pool. *)
Vector == {"prep_scratch", "scratch_", "d_A", "temp"}

Free == {p \in Pool : \A w \in Vector : block[w] # p}

Matrix(b) == <<"A", b>>

BufferOf(arrays) == {Buffer(a, b) : a \in arrays, b \in Batch}

HostRuns == phase # "factoring"

(* The application's own calls, and those between its calls of a solver.   *)
InHand == HostRuns /\ g_handle # "null"

(* A kernel or a copy of the application; the host backend runs it at once. *)
Enqueue(q, op) ==
  IF build.backend = "host" THEN HostCall(dev, op) ELSE Submit(dev, q, op)

Init ==
  /\ build \in Build
  /\ dev = [mem |-> [b \in BufferOf(Array \cup Pool) |-> Junk],
            queue |-> [q \in Queue |-> << >>]]
  /\ block = [w \in Vector |-> "none"]
  /\ phase = "none"
  /\ g_handle = "null"
  /\ expected = [b \in BufferOf(AppArray) |-> Junk]
  /\ answered = TRUE

-----------------------------------------------------------------------------
(* The C interface's handle *)

(* gtblas_create() *)
CreateHandle ==
  /\ HostRuns
  /\ g_handle = "null"
  /\ g_handle' = "default"
  /\ UNCHANGED <<build, dev, block, phase, expected, answered>>

(* gtblas_destroy(); a solver keeps a reference to its handle. *)
DestroyHandle ==
  /\ g_handle # "null" /\ phase = "none"
  /\ g_handle' = "null"
  /\ UNCHANGED <<build, dev, block, phase, expected, answered>>

(* gtblas_set_stream() *)
SetStream(q) ==
  /\ InHand
  /\ q # "default" => build.backend = "sycl"
  /\ g_handle' = q
  /\ UNCHANGED <<build, dev, block, phase, expected, answered>>

-----------------------------------------------------------------------------
(* The triangular solves of the sparse libraries, as the array they leave  *)
(* the result in, the work of the constructor, and that of solve().        *)

InPlace ==
  [work |-> "rhs_tmp_",
   analysis |-> <<Batched("l_info_", "analysis", <<"csr">>),
                  Batched("u_info_", "analysis", <<"csr">>)>>,
   solve |-> <<Batched("rhs_tmp_", "lower", <<"csr", "l_info_", "rhs_tmp_">>),
               Batched("rhs_tmp_", "upper", <<"csr", "u_info_", "rhs_tmp_">>)>>]

(* cusparseSpSM: from result_tmp_ to rhs_tmp_ and back. *)
Generic ==
  [InPlace EXCEPT
     !.work = "result_tmp_",
     !.solve = <<Batched("rhs_tmp_", "lower", <<"csr", "l_info_", "result_tmp_">>),
                 Batched("result_tmp_", "upper", <<"csr", "u_info_", "rhs_tmp_">>)>>]

Csrsm2 == InPlace
Bsrsm2 == InPlace
HipCsrsm == InPlace

(* oneMKL: one matrix handle and no analysis; the columns one by one. *)
Trsv ==
  [work |-> "result_tmp_",
   analysis |-> <<Batched("l_info_", "analysis", <<"csr">>)>>,
   solve |-> <<Batched("rhs_tmp_", "lower", <<"csr", "l_info_", "result_tmp_">>),
               Batched("result_tmp_", "upper", <<"csr", "l_info_", "rhs_tmp_">>)>>]

Library ==
  [trsv |-> Trsv, csrsm2 |-> Csrsm2, bsrsm2 |-> Bsrsm2, hip |-> HipCsrsm,
   generic |-> Generic, none |-> InPlace]

-----------------------------------------------------------------------------
(* The solvers *)

(* copy_batch_data(): copies from host memory are done on return and wait  *)
(* for the default queue, as does init_device_pointer_array().             *)
CopyBatchData(d, to) ==
  LET w == Waited(d, "default")
  IN  [w EXCEPT !.mem = [c \in DOMAIN @ |-> IF c[1] = to THEN Matrix(c[2]) ELSE @[c]]]

CallOn(d, ops, scratch) == BatchedCall(build.backend, d, g_handle, ops, scratch)

(* solver_dense(h, ...) up to its gt::synchronize(), SYCL: scratch_ and    *)
(* prep_scratch are allocated, the strided factorization is submitted.     *)
ConstructDenseSycl ==
  /\ build.kind = "dense" /\ build.backend = "sycl"
  /\ \E p1, p2 \in Free :
        /\ p1 # p2
        /\ block' = [block EXCEPT !["scratch_"] = p1, !["prep_scratch"] = p2]
        /\ dev' = SyclStrided(CopyBatchData(dev, "matrix_data_"), g_handle,
                              GetrfBatched(Pointers("matrix_data_"), "pivot_data_")
                                \cup Scratch({p2}))

(* The same for CUDA and HIP, whose factorization needs no scratch. *)
ConstructDense ==
  /\ build.kind = "dense" /\ build.backend # "sycl"
  /\ dev' = CallOn(CopyBatchData(dev, "matrix_data_"),
                   <<GetrfBatched(Pointers("matrix_data_"), "pivot_data_")>>, {})
  /\ UNCHANGED block

(* solver_invert(h, ...): the factors are copied to the temporary d_A, and *)
(* inverted into matrix_data_.                                             *)
ConstructInvert ==
  /\ build.kind = "invert"
  /\ \E p, s \in Free :
        /\ p # s
        /\ block' = [block EXCEPT !["d_A"] = p]
        /\ LET A == Pointers("matrix_data_")
               d1 == CallOn(CopyBatchData(dev, "matrix_data_"),
                            <<GetrfBatched(A, "pivot_data_")>>, {s})
               d2 == Submit(d1, "default", CopyBatched("matrix_data_", p))
           IN  dev' = CallOn(d2, Getri(build.backend, Pointers(p), "pivot_data_", A), {s})

(* lu_factor_batches_to_csr(): factors without pivoting in a temporary. *)
ConstructSparse ==
  /\ build.kind = "sparse"
  /\ \E p, s \in Free :
        /\ p # s
        /\ block' = [block EXCEPT !["d_A"] = p]
        /\ dev' = CallOn(CopyBatchData(dev, p), <<GetrfNpvtBatched(Pointers(p))>>, {s})

Construct ==
  /\ InHand /\ phase = "none"
  /\ g_handle \in SolverQueues
  /\ ConstructDenseSycl \/ ConstructDense \/ ConstructInvert \/ ConstructSparse
  /\ phase' = "factoring"
  /\ UNCHANGED <<build, g_handle, expected, answered>>

(* Mutant: neither gt::synchronize() nor the deallocation waits.           *)
FinishConstructNoSync ==
  /\ phase = "factoring"
  /\ dev' = IF build.kind = "sparse"
              THEN SubmitAll(dev, "default",
                     <<Batched("csr", "csr", <<block["d_A"]>>)>> \o Library[build.library].analysis)
              ELSE dev
  /\ block' = [block EXCEPT !["prep_scratch"] = "none", !["d_A"] = "none"]
  /\ phase' = "ready"
  /\ UNCHANGED <<build, g_handle, expected, answered>>

(* The rest of the constructors: gt::synchronize(), the conversion of the  *)
(* factors to CSR by kernels on the default queue, the deallocation of the *)
(* temporaries, which waits again, and the analysis of the factors.        *)
FinishConstruct ==
  /\ phase = "factoring"
  /\ LET d1 == Waited(dev, "default")
         d2 == Waited(Submit(d1, "default", Batched("csr", "csr", <<block["d_A"]>>)), "default")
     IN  dev' = IF build.kind = "sparse"
                  THEN SubmitAll(d2, "default", Library[build.library].analysis)
                  ELSE d1
  /\ block' = [block EXCEPT !["prep_scratch"] = "none", !["d_A"] = "none"]
  /\ phase' = "ready"
  /\ UNCHANGED <<build, g_handle, expected, answered>>

-----------------------------------------------------------------------------
(* solve(rhs, result): copy in, solve, copy out; nothing waits.            *)

CopyIn(to) == Submit(dev, "default", CopyBatched("rhs", to))
CopyOut(d, from) == Submit(d, "default", CopyBatched(from, "result"))

GetrsHere == GetrsBatched(Pointers("matrix_data_"), "pivot_data_", Pointers("rhs_data_"))

SolveDenseSycl ==
  CopyOut(SyclStrided(CopyIn("rhs_data_"), g_handle,
                      GetrsHere \cup Scratch({block["scratch_"]})),
          "rhs_data_")

SolveDense == CopyOut(CallOn(CopyIn("rhs_data_"), <<GetrsHere>>, {}), "rhs_data_")

SolveInvert ==
  CopyOut(CallOn(CopyIn("rhs_input_data_"),
            <<GemmBatched(Pointers("matrix_data_"), Pointers("rhs_input_data_"),
                          Pointers("rhs_data_"))>>, {}),
          "rhs_data_")

SolveSparse ==
  LET lib == Library[build.library]
  IN  CopyOut(SubmitAll(CopyIn(lib.work), "default", lib.solve), lib.work)

(* What is solved for, as the libraries compute it: with matrix b and the  *)
(* right-hand side r.                                                      *)
Solution(b, r) ==
  LET A == Matrix(b)
      csr == <<"csr", <<"lu_npvt", A>>>>
  IN  CASE build.kind = "dense"  -> <<"getrs", <<"lu", A>>, <<"pivots", A>>, r>>
        [] build.kind = "invert" -> <<"gemm", <<"getri", <<"lu", A>>, <<"pivots", A>>>>, r>>
        [] build.kind = "sparse" ->
             <<"upper", csr, <<"analysis", csr>>, <<"lower", csr, <<"analysis", csr>>, r>>>>

Solve ==
  /\ InHand /\ phase = "ready"
  /\ g_handle \in SolverQueues
  /\ dev' = CASE build.kind = "dense" /\ build.backend = "sycl" -> SolveDenseSycl
              [] build.kind = "dense" /\ build.backend # "sycl" -> SolveDense
              [] build.kind = "invert" -> SolveInvert
              [] build.kind = "sparse" -> SolveSparse
  /\ expected' = [c \in DOMAIN expected |->
                    IF c[1] = "result" THEN Solution(c[2], expected[Buffer("rhs", c[2])])
                                       ELSE expected[c]]
  /\ UNCHANGED <<build, block, phase, g_handle, answered>>

(* The destructors: every member's deallocation waits for the default queue. *)
Destroy ==
  /\ phase = "ready"
  /\ dev' = Waited(dev, "default")
  /\ block' = [block EXCEPT !["scratch_"] = "none"]
  /\ phase' = "none"
  /\ UNCHANGED <<build, g_handle, expected, answered>>

-----------------------------------------------------------------------------
(* The application: BLAS *)

(* The array holds what was written to it; a bound on its contents.        *)
Plain(array) == \A b \in Batch : Len(expected[Buffer(array, b)]) = 1

(* The application sees to the order of its own work on several queues: it *)
(* calls BLAS on a stream when the default queue is done.                  *)
Ordered == g_handle = "default" \/ dev.queue["default"] = << >>

(* A call of gt::blas or of gtblas_X() with operation op, by which d is    *)
(* left behind.                                                            *)
BlasCall(op, d) ==
  /\ InHand /\ Ordered
  /\ dev' = d
  /\ expected' = Executed(expected, op)
  /\ UNCHANGED <<build, block, phase, g_handle, answered>>

Level12 ==
  /\ build.kind = "vectors" /\ Plain("rhs")
  /\ \E op \in {Axpy("x", "rhs"), Scal("rhs"), Copy("x", "rhs"), Gemv("M", "x", "rhs")} :
       BlasCall(op, Call(build.backend, dev, g_handle, op))

(* Mutant: the result is read before the device has computed it.           *)
DotNoWait ==
  /\ InHand /\ Ordered
  /\ answered' = \A c \in BufferOf({"x", "rhs"}) : dev.mem[c] = expected[c]
  /\ UNCHANGED <<build, dev, block, phase, g_handle, expected>>

(* dot, dotu, dotc: the host reads the result, after the work before it on *)
(* the queue of the handle.                                                *)
Dot ==
  /\ InHand /\ Ordered
  /\ LET d == Waited(dev, g_handle)
     IN  /\ dev' = d
         /\ answered' = \A c \in BufferOf({"x", "rhs"}) : d.mem[c] = expected[c]
  /\ UNCHANGED <<build, block, phase, g_handle, expected>>

Holds(array, v(_)) == \A b \in Batch : expected[Buffer(array, b)] = v(b)

(* The batched calls, as an application strings them together; they all    *)
(* do what op says, by way of ops.                                         *)
BatchedBlas(op, ops) ==
  \E p \in Free : BlasCall(op, CallOn(dev, ops, {p}))

Lapack ==
  LET A == Pointers("M")
      B == Pointers("rhs")
      C == Pointers("inverse")
      getrf == GetrfBatched(A, "ipiv")
      npvt == GetrfNpvtBatched(A)
      getrs == GetrsBatched(A, "ipiv", B)
      gemm == GemmBatched(C, B, Pointers("result"))
  IN  /\ build.kind = "batched"
      /\ \/ /\ Holds("M", Matrix)
            /\ \/ BatchedBlas(getrf, <<getrf>>)
               \/ build.backend # "host" /\ BatchedBlas(npvt, <<npvt>>)
         \/ /\ Holds("M", LAMBDA b : <<"lu", Matrix(b)>>)
            /\ Plain("rhs")
            /\ \/ BatchedBlas(getrs, <<getrs>>)
               \/ BatchedBlas(GetriBatched(A, "ipiv", C), Getri(build.backend, A, "ipiv", C))
               \/ BlasCall(gemm, CallOn(dev, <<gemm>>, {}))

-----------------------------------------------------------------------------
(* The application: its arrays and its container *)

(* It writes another right-hand side, by an assignment or a copy. *)
SetRhs(r) ==
  /\ HostRuns
  /\ LET op == {Store(Buffer("rhs", b), r, << >>) : b \in Batch}
     IN  dev' = Enqueue("default", op) /\ expected' = Executed(expected, op)
  /\ UNCHANGED <<build, block, phase, g_handle, answered>>

(* It copies its matrices to the device. *)
SetMatrix ==
  /\ HostRuns /\ build.kind = "batched"
  /\ dev' = CopyBatchData(dev, "M")
  /\ expected' = [c \in DOMAIN expected |-> IF c[1] = "M" THEN Matrix(c[2]) ELSE expected[c]]
  /\ UNCHANGED <<build, block, phase, g_handle, answered>>

(* gt::synchronize() *)
Synchronize ==
  /\ HostRuns
  /\ dev' = Waited(dev, "default")
  /\ UNCHANGED <<build, block, phase, g_handle, expected, answered>>

(* A container of the application's, where others use the pool as well.    *)
CreateTemp ==
  /\ HostRuns
  /\ build.kind = "vectors" \/ build.backend # "sycl" => build.kind \notin {"vectors", "batched"}
  /\ block["temp"] = "none"
  /\ \E p \in Free : block' = [block EXCEPT !["temp"] = p]
  /\ UNCHANGED <<build, dev, phase, g_handle, expected, answered>>

(* Mutant: the container is used before it has memory.                     *)
LaunchTempUnallocated(q) ==
  /\ HostRuns
  /\ dev' = Enqueue(q, Scratch({block["temp"]}))
  /\ UNCHANGED <<build, block, phase, g_handle, expected, answered>>

(* gt::launch or gt::assign on queue q.  With several queues the           *)
(* application orders its own work (tests/test_stream.cxx): it uses one    *)
(* queue after the other is done with the container.  (One launch at a     *)
(* time bounds the model.)                                                 *)
LaunchTemp(q) ==
  /\ HostRuns
  /\ q # "default" => build.backend = "sycl"
  /\ block["temp"] # "none"
  /\ Scratch({block["temp"]}) \notin Pending(dev)
  /\ dev' = Enqueue(q, Scratch({block["temp"]}))
  /\ UNCHANGED <<build, block, phase, g_handle, expected, answered>>

(* stream.synchronize() *)
SynchronizeStream ==
  /\ HostRuns
  /\ dev' = Waited(dev, "stream")
  /\ UNCHANGED <<build, block, phase, g_handle, expected, answered>>

(* The destructor waits for the default queue; for a stream it used, the   *)
(* application waited.                                                     *)
DestroyTemp ==
  /\ HostRuns
  /\ block["temp"] # "none"
  /\ Scratch({block["temp"]}) \notin ToSet(dev.queue["stream"])
  /\ dev' = Waited(dev, "default")
  /\ block' = [block EXCEPT !["temp"] = "none"]
  /\ UNCHANGED <<build, phase, g_handle, expected, answered>>

DeviceStep(q) ==
  /\ dev.queue[q] # << >>
  /\ dev' = Step(dev, q)
  /\ UNCHANGED <<build, block, phase, g_handle, expected, answered>>

(* Bounds the work the application lets pile up. *)
Bounded == Len(dev'.queue["default"]) + Len(dev'.queue["stream"]) <= MaxQueue

Next ==
  /\ \/ CreateHandle \/ DestroyHandle
     \/ Construct \/ FinishConstruct \/ Solve \/ Destroy
     \/ Level12 \/ Dot \/ Lapack
     \/ \E b \in Rhs : SetRhs(b)
     \/ SetMatrix \/ Synchronize \/ SynchronizeStream
     \/ CreateTemp \/ DestroyTemp
     \/ \E q \in Queue : SetStream(q) \/ LaunchTemp(q) \/ DeviceStep(q)
  /\ Bounded

Spec == Init /\ [][Next]_vars

-----------------------------------------------------------------------------
(* Properties *)

(* Owners, phases and queued work have their declared ranges. *)
TypeOK ==
  /\ build \in Build
  /\ DOMAIN dev.mem = BufferOf(Array \cup Pool)
  /\ \A op \in Pending(dev) : Touches(op) \subseteq DOMAIN dev.mem
  /\ block \in [Vector -> Pool \cup {"none"}]
  /\ phase \in {"none", "factoring", "ready"}
  /\ g_handle \in Queue \cup {"null"}
  /\ DOMAIN expected = BufferOf(AppArray)
  /\ answered \in BOOLEAN

(* Memory the solvers or the application gave back is not used by work     *)
(* still queued: "synchronize so it's safe to destroy scratch"             *)
(* (src/gtsolver.cxx:74), "so it's safe to destroy temporaries" (:198).    *)
ScratchSafeToDestroy == \A op \in Pending(dev) : Touches(op) \cap BufferOf(Free) = {}

(* When the device has caught up, the application's arrays hold what they  *)
(* would if every call had been finished before the next: the solution is  *)
(* that for the right-hand side there was when solve() was last called,    *)
(* for every matrix of the batch, and BLAS calls see each other's results. *)
(* Until then the queues never work on the same memory, although blocks    *)
(* wander between the solvers' scratch and the application's container,    *)
(* and BLAS is called on one queue and the solvers copy on the other.      *)
AsIfSequential ==
  /\ NoRace(dev)
  /\ Idle(dev) /\ HostRuns => \A c \in BufferOf(AppArray) : dev.mem[c] = expected[c]

(* A dot product that the host reads is that of the vectors as the calls   *)
(* before it left them, on whatever queues these were made.                *)
AnswersInOrder == answered
=============================================================================
