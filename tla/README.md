# A TLA+ model of gtensor

gtensor is a header-only C++ array library that generates code for the host, CUDA,
HIP and SYCL. Its difficult part is not numerics. It is who owns which piece of
memory while a device works behind the host's back, how a stack of lazy views
computes the address of an element, and what hand-written moves and destructors
leave behind. This directory models those parts in TLA+, checks them with TLC and
proves theorems about them with TLAPS.

`PROJECT.json` is the index: components, runs, mutants, the map from every
definition to source lines, hazards, findings and theorems. Paths below are relative to
the repository; the sources of the library proper lie in its `include/` and `src/`.

## The system

| component | state it keeps | operations | correct when |
|---|---|---|---|
| caching allocator (`gtensor/allocator.h`) | static maps `free_` and `allocated_`, shared by all containers of a value type | `allocate`, `deallocate` | a block has one owner, the size asked for, and no pending work when it changes hands |
| backend allocators (`backend_*.h`) | the heap of CUDA, HIP, SYCL, the host | `allocate`, `deallocate`, `copy_n`, `fill` | failure is reported (abort, null, exception) and survived |
| storage (`gtensor_storage.h`) | `data_`, `size_`, `capacity_` | constructors, assignments, `resize`, destructor | objects are independent values; no leak, no double free |
| streams, copies and devices (`backend_common.h`, `backend_sycl.h`, `backend_sycl_device.h`, `src/cgtensor.cxx`) | owned queue, `moved_from_`; the queue lists and default queues of every device | create, move, destroy, `device_set`, `copy_n`, `fill`, `synchronize` | a usable object owns one open stream, alone; a caller that waits as the calls promise sees results in order |
| BLAS wrappers and the C interface (`gt-blas`, `src/cgtblas.cxx`) | the queue of a handle, the global `g_handle` | one call per BLAS function; create, destroy, `set_stream` | a call sees the results of the calls before it; results on the host are ready on return |
| solvers (`src/gtsolver.cxx`, `gt-solver/solver.h`) | copies of matrix and pivots, a scratch block, CSR factors, the right-hand side | construct (factorize), `solve`, destroy | each solution belongs to its right-hand side; scratch outlives the work on it |
| index arithmetic (`strides.h`, `gstrided.h`) | none | `calc_strides`, `unravel`, `calc_index`, `calc_size` | linear and multi-dimensional indices are in bijection |
| views (`gview.h`, `gslice.h`, `gtensor_span.h`) | expression, offset, shape, strides | `view`, `reshape`, `flatten`, `swapaxes`, `transpose` | every index reaches the element it stands for |
| FFT plans (`gt-fft/backend/*.h`) | backend plan handles, `is_valid_` | create, move, execute, destroy | every plan is destroyed once; who owns a plan can execute it |
| banded solver (`gt-blas/bandsolver.h`) | right-hand sides in work-group memory | `get_max_bandwidth`, `getrs_banded_batched`, `invert_banded_batched` | the threads of a group do not race; the result solves the system |
| expressions, assignment, launch (`gfunction.h`, `assign.h`, `gtensor.h`, `gcontainer.h`) | none of their own; they write containers | `assign`, `launch`, `eval`, `copy`, `fill` | every element is written once, from operands that are still valid |
| reductions (`reductions.h`) | the partial results of a call | `sum`, `max`, `min`, `reduce`, `transform_reduce`, norms, `sum_axis_to` | the result is the function of the elements, in any order of combination |
| sparse matrices (`sparse.h`) | CSR arrays | conversion of a dense batch, element access | the threads of both kernels agree; the matrix reads back as the block diagonal |

How they interact: a container owns a storage object, which gets its block from the
caching allocator, which gets it from the backend. Expressions and views only refer
to containers. An assignment or a launch evaluates an expression in a kernel on a
queue: the default queue of the current device unless a stream is given. The solver
and the FFT and BLAS wrappers hand raw pointers to libraries that work on the queue
of a handle. All host calls are sequential (the library has no threads of its own);
the concurrency is between the host and the device queues, and between the threads
of one kernel.

The hard behaviours: memory changes hands while queues hold work on it
(`allocator.h:86`, `gtensor_storage.h:131`, `gtsolver.cxx:75`); allocation fails in
three ways; objects are moved, and moved onto themselves, by hand-written operations;
slices of slices with negative bounds and steps; extents of 0 and 1.

## Modules

**`CachingAllocator`** (promise: `AllocatorPromise`; proofs: `OwnershipProofs`).
`free_` and `allocated_` are the static maps of `allocator.h:117`; `heap` is the backend
below; `held` is what each container must give back; `busy` is the work queued on the
default stream, as the blocks it touches. `allocate()` is three actions, for its three
outcomes (hit in the cache, miss, null from the backend); `deallocate()` synchronizes,
then moves the block to the cache. No block goes back to the backend: `clear_cache()`
(`allocator.h:102`) is not modelled, because nothing calls it and it cannot be instantiated (it is static
and calls the member function `deallocate()` of its base). `AllocatorPromise` says what a container relies on
from the default allocator: a
free block is handed out, to one owner, with no work pending on it. The cache implements
it with nothing of the maps visible. A build with `GTENSOR_ALLOCATOR_NO_CACHING` has only what its
backend promises; on SYCL that frees without a wait.

**`GtensorStorage`** (abstract: `StorageValues`; proofs: `OwnershipProofs`). `store[o]` holds the three members of
each object; `dev` holds the blocks, their contents and the in-order default queue. A
call runs to its end on the host, so it is one action; the device executes its queue in
between. `resize()` is the operator `Resized`, which every constructor and assignment
uses as the code does. The three memories (aborting, null-returning, throwing) differ in
what `Allocations` can return and in whether work is done at once. `StorageValues` says
that objects are independent values; the refinement mapping takes as value of an object
what it will hold when the queue is empty, so it speaks of the asynchronous program.

**`DeviceQueues`**. Queues are in-order lists of operations; contents of memory are terms that
say how they came about (`<<"getrs", ...>>`), so that an operation that reads a buffer too
early or too late leaves another term. `NoRace` says that no two queues have conflicting work.
`Solvers`, `Reductions` and `DeviceRuntime` are built on it.

**`Blas`** over `DeviceQueues`: the calls of `gt-blas` as operations over pointers into the
batch, and per backend whether a call waits and whether it needs scratch memory. On SYCL the
level 1 and 2 calls and the batched calls wait, the strided factorization of the solver
does not; on CUDA and HIP nothing waits but `dot`; the host does its work at once, in its batched
calls matrix by matrix (`HostBatched`).

**`Solvers`** (proofs: `SolversProofs`) over `Blas`: the global handle of the C interface (`g_handle`), the dense,
inverting and sparse solvers, and an application that calls BLAS itself and owns a container from
the same pool. A constructor is two actions around its `gt::synchronize()`; `solve()` queues
copy in, the library's work, copy out. The five sparse libraries are records of their
working array and of the work they queue. `expected` is what the application's arrays would
hold had every call been finished before the next, `AsIfSequential` compares.

**`StreamOwner`** (proofs: `OwnershipProofs`). `stream[s]` holds the queue and the mark
`moved_from_`, which the code never initializes: a new object takes any value (`Garbage`).
`SyncAndDestroy` looks in the list of the current device only, as `delete_stream_queue` does.

**`DeviceRuntime`** (proofs: `OwnershipProofs`) over `StreamOwner` and `DeviceQueues`: what the queues of those streams and
the default queues of the devices are used for. `view` is a `stream_view`, which binds to the
default queue of the device that is current when it is made; kernels go to the view's queue
or the default one; copies and fills go to the default queue and wait if a pointer is host or managed
memory (`OnHost`); `sync_kernels` is the build option. `owner[b]` is what the program knows: the
queue it has to wait for before it touches buffer `b`. `MayUse` is the program's own rule, to
wait or to stay on that queue. Streams may be destroyed with work in them, which goes on.

**`Reductions`** (proofs: `ReductionsProofs`) over `DeviceQueues` and `Indexing`. A device reduction is the steps of its work
groups: an item is combined into a private copy (`WorkItem`), a copy into the result
(`Flush`), and the host reads the result when nothing is left. What a result and a private copy
start from differs per backend as in the code. `norm_linf` and `sum_squares` evaluate an
expression into a temporary on the default queue first. `sum_axis_to` is a kernel with one
thread per element of the output, over views with any strides. On the host a reduction is a loop
(`Loop`). On the host device of SYCL kernels are done at once (`Host`), and of the reductions those that ask
`is_host_backend()` loop, while `transform_reduce` does not ask, so that it, `reduce` and
`sum_squares` go to the queue as on any device (`Loops`); what it is compared with, `Reduced`, is the sum or an extreme of the set of values. `Supported` lists what an
application has to avoid (see the known faults).

**`Sparse`** (proofs: `SolversProofs`). The first kernel counts the nonzeros per row, the host
adds up `row_ptr_`, the second kernel writes each row from its offset on, one action per
pass of its loop over the columns. Only the position of an element is kept of its value, so that a batch is a set of
cells and reading back compares exactly.

**`Indexing`** (proofs: `IndexingProofs`) and **`Views`** (proofs: `ViewsProofs`). `Indexing` translates `strides.h` and adds two reference
definitions (`Indices`, `Place`). `Views` builds expressions step by step: `expr` has the
shape, strides and linear access of the code, `elements` the meaning of each index,
computed from slices and permutations without any stride. Adaptors are applied where
`select_gview_adaptor` and `select_reshape_gview_adaptor` do.

**`Assignment`** (proofs: `AssignmentProofs`) over `Indexing`. `arrays` are two containers, `kernel` the loop or kernel
under way with the index of every thread that is still to run, `backend` which of the
five ways the build evaluates (loops, kernels per number of dimensions and linear kernels,
both as blocks of threads and as SYCL ranges). `FirstOn` to `LastOn` are the dimensions that share an axis of
the grid, which `Digit` takes apart again. `operator=` of a container resizes first,
`assign` into views and spans checks shapes, `launch` checks nothing, `fill(0)` sets
consecutive memory. What a region reads and writes goes through shape, strides and offset
as in the code; `expected` is computed from indices alone when the assignment starts
(`Updated`, `Replaced`). Values are sequences of the atoms that went into them, so any
wrong, missing or doubled operand shows. Three guards say what an application has to see to:

* `Unaliased`: operands on the array that is assigned to are the same region or do not
  overlap, and a container is not resized by an expression that contains it
  (`{10} + {1, 2, 3}` assigned to its own first operand gives `{11, 2, 3}`,
  `c.view(_s(1,4)) = c.view(_s(0,3))` repeats the first element; both observed on the host);
* `SlicesKeepStrides`: no broadcast of a sliced dimension of extent 1 (see the known faults);
* `LaunchableSize`: nothing of size 0 on CUDA and HIP, where `assign.h:373` divides by a
  block size of 0 and the other launches have empty grids.

`fill(0)` is called on contiguous spans only, as `gtensor_span.h:174` ignores the
strides: a strided span loses its neighbours, which the disabled test
`DISABLED_fill_from_strides_0` records as a known fault.

**`FFTPlans`** (proofs: `OwnershipProofs`). One `FFTPlanMany` object per name, over a library that holds plans and work
buffers. The four backends differ in how they move and destroy (by hand with `is_valid_`,
or by members that become null), in how many plans they make and in whether there is a
work buffer; the operators that differ say so by case. `holds` follows what the application
may rely on: the plan made for it goes from object to object.

**`BandSolver`** (proofs: `BandSolverProofs`). `Diagonal` to `SolveInverted` are the kernels of one thread, as folds;
the actions are the kernel of a sub-group, one action per statement of a thread, a barrier
being a count of arrivals that the others wait for. Both variants (local memory, in
place) are one text that differs in the array worked on. Elements are numbers modulo a
prime, so that "solves" can be checked exactly; that leaves out rounding and nothing else.

## Runs

| run | shows | bounds |
|---|---|---|
| `caching_allocator` | the invariants below and the refinement of the promise | 3 containers, 4 addresses, sizes 1-3, every failure: two containers and one cached block of each size class suffice for every case of `find`, the third lets a bystander be hurt |
| `storage` | sole ownership, no work on a block nobody owns, refinement of independent values | 2 objects (source and target, or one for both), 3 addresses (one more than objects: resize holds two), size 2, 2 queued operations, null-returning device memory and throwing host memory; aborting memory has the same behaviours as null-returning memory without the failures |
| `solvers` | solutions, BLAS results and dot products are those of calls finished one by one; scratch is never reused under queued work; queues never race | all builds: BLAS alone (levels 1 and 2 on SYCL, CUDA, HIP and the host, batched on SYCL, CUDA and the host), dense and inverting solvers on SYCL and CUDA, sparse solvers over their five libraries; batches of 2 (the second matrix tells offsets apart), 3 pool blocks (the solver's two and the application's), 2 right-hand sides (the last and the one before), queues of 4 (a sparse solve queues 4 operations) |
| `solver_on_stream` | violation: the handle works on a stream | the SYCL dense solver, batch of 1 |
| `device_runtime` | no sequence of moves closes a stream under its owner; a program that waits as the calls promise finds results in order | 2 objects, 2 stream queues, 2 devices and one id that does not exist, a host, a device and a managed buffer, 2 pending operations (a conflict needs two) |
| `views` | every index of a stack of views reaches its element; the linear kernels visit each index once | two views on top of a container, strided span or function; up to 3 dimensions, extents 0 to 4, nine slices with all combinations of open, negative and explicit bounds and steps 1, 2, -1, -2 |
| `fft_plans` | plans are given back once, their parts stay together, moved-from objects throw | 3 objects, 5 handles (a plan with work buffer and one without), all four backends; the application moves from objects that hold a plan |
| `fft_double_destroy` | violation: moving from a moved-from object gives a plan a second owner | the same |
| `band_solver` | no race, termination, the right solution, agreement with the other kernels | size 4, all 16 pairs of lower and upper bandwidth with every admissible larger one, two pivot vectors, 2 threads, so that a thread has 0, 1 or 2 rows of a column |
| `assignment` | assignments, fills and launches leave what they mean, without races and within bounds; misfits are refused | 14 pairs of shapes of 1 to 6 dimensions with extents 0 to 3, at most 6 elements (all orders of 8 threads), blocks of 2 threads so that blocks are full, partly used and several; 8 expressions, 4 targets, two assignments in a row so that the second meets arrays that were resized |
| `reductions` | every reduction returns its function of the elements last written; axis sums are right for strided inputs and outputs | contents of 0 to 3 elements with mixed, positive and negative signs, 2 work groups, so that a group gets none, one or several items; axis sums over 1 to 3 dimensions, extents 1 to 3 |
| `sparse` | the threads write disjoint entries; the matrix reads back; rows are sorted; a construction ends | all patterns of zeros in batches of up to 8 cells, square and not, one to three matrices |

`CHECK_DEADLOCK FALSE` is set where a behaviour ends: with the bound on views in `Views` and on assignments in `Assignment`,
with the last handle in `FFTPlans` (CUDA and HIP forget plans in move assignments), and
with the kernel in `BandSolver`, where `Termination` would show a thread that hangs. In the
others the application can always go on.

Two runs assume fairness. In `BandSolver` each thread of a sub-group makes progress, as SYCL
demands of threads that meet at a group barrier; then the kernel ends. In `Sparse` (`SparseFairSpec`) the
kernels and the host code of a construction go on, one weak fairness condition for
all of them: whichever thread runs, the construction ends, for empty rows and matrices too.
The application need not do anything. No liveness is stated of the other modules:
their host code has no loop that waits for another actor except the waits of the
runtimes, which are modelled as draining a queue.

### Findings

* `solver_on_stream`: the constructor waits with `gt::synchronize()` "so it's safe to
  destroy scratch", which waits for the default queue; `getrf` runs on the queue of the
  handle. With `handle_t::set_stream` the scratch block is given back while in use.
* `fft_double_destroy`: the moves of CUDA and HIP plans make their target valid whatever the
  source was, so moving from a moved-from object (as a swap with one does) leads to a
  double destroy, which "custom move to avoid double destroy" is there to prevent. Also
  seen in this model, without a promise to hold against it: move assignment on CUDA and HIP
  does not destroy the plans the target had, and on CUDA a moved-from target stays
  invalid, so that it throws "can't use a moved-from plan" with a plan just assigned.

### Known faults that the models keep clear of

Nothing in the repository promises the contrary of these, so no run states a
property for them; the models name the guard that leaves them out, or follow the code.

* Streams: `stream_base` does not initialize `moved_from_`, and move assignment to an object
  that was moved from keeps its mark, so that the queue it then owns is never destroyed;
  `operator=(stream_base&&)` returns no value; `sync_and_destroy` does not synchronize.
* Views: a slice of one element keeps the stride of the original, where containers have stride 0,
  so that broadcasting it reads on into the neighbours (`gview.h:408`, guard
  `SlicesKeepStrides`); a negative step may start at the extent itself (`gview.h:400`,
  guard `Careful`); an expiring strided span is reshaped as if contiguous (`gview.h:126`).
* Reductions (guard `Supported`): a maximum on a device starts from 0; SYCL's `transform_reduce`
  uses `init` as the neutral element of every work group; `norm_linf` and
  `sum_squares` of an expression evaluate it on the default queue and reduce it on the
  stream without a wait; `max` and `min` of nothing, and axis sums over an extent of 0,
  read an element that is not there.
* BLAS: `gtblas_Xdotc` calls `dotu` and all C dot functions drop their result
  (`cgtblas.cxx:217`); `getri_batched` of SYCL and the host copies n * n consecutive
  elements whatever the leading dimension.
* Solvers: the base class `solver` has no virtual destructor; the inverting solver copies on
  the default queue and calls BLAS on the handle's, without a wait (the run keeps the
  handle on the default queue); descriptors of the sparse libraries are not all given back.
* C interface: `gt_backend_prefetch_host` calls `prefetch_device` (`cgtensor.cxx:112`).
* Devices: which root devices are listed depends on the list so far
  (`backend_sycl_device.h:181`): of several that cannot be partitioned only the first is.

## Proofs

Every safety invariant and both refinements that the passing runs check are proved, for every value of
the constants that the assumptions named below allow.

| module | about |
|---|---|
| `InductionFacts` | induction and folds, shared by the others |
| `OwnershipProofs` | `CachingAllocator`, `FFTPlans`, `GtensorStorage`, `StreamOwner` and `DeviceRuntime`, one part each |
| `SolversProofs` | `Solvers` with `Blas` and `DeviceQueues`; `Sparse` in the last part |
| `BandSolverProofs` | `BandSolver` |
| `IndexingProofs` | `Indexing`; used by the next three |
| `ViewsProofs` | `Views` |
| `ReductionsProofs` | `Reductions` |
| `AssignmentProofs` | `Assignment` |

### The caching allocator

`OwnershipProofs` proves, for any sets of containers, addresses and sizes, that the
invariants of `CachingAllocator` hold and that it implements `AllocatorPromise`. The
only assumptions are those the module states of its constants: the null pointer is no
address, sizes are positive, the mark of an absent entry is no number.

The inductive invariant `CacheInv` is the conjunction of the invariants the run checks. None
of them is inductive alone. That a cached block has no owner (needed for `ExclusiveBlocks`
when the cache is hit) follows from three facts together: what an owner holds is in
`allocated_` (`BlockFits`), nothing is in both maps (`CacheAccounting`), and what is in
`allocated_` has an owner (`AllocatedIsHeld`). Two lemmas, `CachedIsUnowned` and
`DeadIsUnowned`, state it once; there is one lemma per action, and the theorems follow by
temporal logic. The refinement uses `CacheInv` to show that the block of a hit has no pending
work, which the abstract step demands.

### Streams and the work on them

`OwnershipProofs` proves, for any number of objects, queues and devices and whatever the
uninitialized mark reads as, that a usable stream object owns an open queue and owns it alone.
`UsableStreamOpen` is not inductive: what keeps the destructor of an object that was moved from
from closing a queue is its mark, and `MovedIsMarked` says that it is set as long as the object is
in that state. The proof needs that the mark of a dead object is no record
(`StreamsAssumption`). `RuntimeStreams` shows that the program of `DeviceRuntime` does to its
streams what `StreamOwner` says, so that all this holds of it too.

`ProgramOrder` proves `ResultsInOrder`: a program that waits for the queue it used a buffer on, or
stays on that queue, finds in every buffer what its calls would have left one by one. The
invariant (`WorkOK`) has two parts. `OwnedWork`: whatever is queued touches only buffers whose
`owner` is that queue, so no two queues touch the same buffer. `Settled`: once its owner has
drained its queue, each buffer holds what is `expected`. A wait, a step of any queue and the
submission of work keep `Settled` because draining one queue does not change the buffers of
another (lemmas on folds of `Executed`). It needs that "nobody" is no queue (`NobodyAssumption`).

### The sparse matrix

`SolversProofs` proves in its last part, for batches of any shape and any pattern of zeros, that the threads of the
second kernel never write the same entry and stay inside of the arrays. The inductive invariant
relates what three passes compute separately: the counts of the finished threads of
the first kernel (`Counted`), the partial sums (`RowPtrSums`, `RowPtrGrows`), and the room
between a thread's offset and the end of its row, which is what it has still to write
(`OffsetsFit`). Disjointness follows because rows of `row_ptr` do not overlap.

What the matrix contains in the end is proved too. `RowsWritten` says which cells the
threads of the second kernel have written by now: the entries of row `r` from its offset on are
the nonzeros of the row up to the column the thread has come to, in order. When all threads are
done these are all of them, so that the rows are sorted (`RowsAreSorted`) and the matrix reads
back as the block diagonal of the batch (`MatrixReadsBack`). The mark of an element that is not
stored must be no position (`NoneAssumption`).

### Storage

`OwnershipProofs` proves `SoleOwner` and `QueuedWorkOnOwned`, for any number of objects,
addresses, values and sizes and for the three kinds of memory. `SoleOwner` says nothing of an
object whose allocation failed and which may be resized or assigned to later, so the invariant adds
`Owned`: every object alive has at most as many elements as capacity, its capacity is that of
its block if it has one, and no capacity means no block. `Effect` describes what a call may do to
the blocks of one object (keep its block, or take a free one and give the old one back); `ResizedOK`
and `AssignedOK` show that `resize()` and the copies have such an effect, `OwnStep` that any
action with one keeps the invariant, and `MoveStep` and `DestroyStep` treat the operations that change
hands. The proof needs that the mark of a dead object is no record (`ConstantsAssumption`).

The refinement of `StorageValues` is about what the blocks will hold, `Final(dev)`, a fold over the
queue. Work that is submitted is applied to it there and then (`FinalSubmit`), a step of the
device does not change it (`FinalStep`), and a fresh block may be handed out with any contents,
because work that does not touch a block does not see what it holds (`AfterElsewhere`).
`ResizedShown` and `AssignedShown` say what a call leaves in the block of its object; `OwnValue`
that the values of all other objects stay, which is where `SoleOwner` is needed: they have other
blocks. Each call then is the operation of its name, one lemma each; `resize()` is `Resize`,
`LoseMemory` or `Recover` after the outcome of the allocation. Elements must be told from the
marks of dead and lost objects (`ValuesAssumption`).

### FFT plans

`OwnershipProofs` proves the four invariants of `FFTPlans`, for any number of objects and handles
and each backend, under the assumption the passing run makes too: `~ FromMoved`, the application
does not move from an object it moved from before (with it, `MCFFTDoubleDestroy` finds a double
destruction). The inductive invariant says that an object alive is either `Intact` (its parts are
live and under the handles the application made for it, with an inverse plan exactly if one is
needed) or `Emptied` (its destructor gives nothing back), and that no two objects hold the same
handle. `Intact` leaves out `is_valid_`, because a move assignment on CUDA fills an object
that goes on refusing to execute and that may be moved from again. `DestroyedHeld` is the one place
where the backends are told apart. The proof needs that the mark of a dead object or handle is
no record and no resource (`PlansAssumption`).

### The banded solver

`BandSolverProofs` proves first `RaceFree`, for matrices of any size and bandwidth and any number of
threads, in both variants. The invariant ties the number of barriers a thread has arrived at to the
loop and the step it is in (`ThreadOK`): threads that are released have the same number and are in the
same step, or, as no barrier follows the write of a result, one is at the result of column `i`
and the other in column `i - 1`, which touches smaller rows only. Within a step the rows are
dealt out by thread number (`Dealt`, `DealtOnce`). What the elements are plays no part.

The same module proves that the threads compute the right thing (`Solution`): when they are done
they have solved `LU x = Pb`, and `getrs_banded_batched` with one thread per right-hand side and
`solve_inverted_batched` compute the same `x`. It starts with the mathematics this takes. The
elements are a field because `Prime` is a prime (`HasInverse`); a sum over rows (`Sigma`, `Dot`)
does not depend on the order of its terms, and may leave out what lies outside of the bands the search
for the bandwidth found; a triangular system with a diagonal other than 0 has one solution (`SolutionUnique`);
the folds of the one-thread kernel find it (`ForwardSolves`, `BackwardSolves`), exchanging rows is
linear, and the sum of the columns of the inverse solves the system too.

The invariant about the elements (`Data`) follows the slowest thread, since the others are at most
one barrier ahead and wait there (`Close`). In the forward loop every element plus what has been
eliminated from it so far is the element of `Pb` (`ForwardPhase`); which columns have been
eliminated from a row is known from the thread the row was dealt to in each column (`Gone`). At
the end of column `i` all rows below have lost it, and after the last column the equation says that
the array solves `L y = Pb`. In the backward loop the same holds of the solution of `U x = y`, but
thread 0 alone divides, without a barrier before the others go on with the next column; so it is stated of the
array in which the elements not yet written count as divided (`Divided`, `Written`). `Registers`
says that what a thread keeps in `x` is still the element it read, for which `NeverRaces` is not
enough: the element must not have changed since. `Loading` and `Storing` are about the variant
in local memory. `TypeCorrect` follows from the same invariant. Assumed are sizes of at
least 1 (`SizesAssumption`) and what getrf returns (`ArgumentsAssumption`: no 0 on the diagonal,
pivots at or below their row), besides a prime for the elements.

### Solvers and BLAS

`SolversProofs` proves all that the run `solvers` checks, for any batch, pool, length of the queues
and set of builds, under the hypothesis of that run, `SolverQueues = {"default"}`: when a solver is
called the handle works on the default queue. The application may set a stream for its own calls and
go back. Without the hypothesis the theorems are false, as `solver_on_stream` shows.

What matters of the device is what its memory will hold when the default queue is done, `Final`.
Queues are told apart by `QueuesOK`: on the stream there is only work on the application's own
container, and work on the default queue stays clear of it and of blocks nobody has. Therefore the
order of the two queues makes no difference, and a block in the pool or in the container may hold
anything (`Same` compares the rest, so that scratch memory may be handed out as it is). `BlocksOK`
gives every block one owner, `FactorsOK` says what a solver's arrays will hold once it is ready, in the
terms `solve()` needs, and `AppOK` that the application's arrays will be what is `expected`. None of
these is inductive alone: `AsIfSequential` after `solve()` needs the factors, these need that
nobody else's work touches the solver's memory, and that needs the blocks. Lemmas state for each
backend what the call of a BLAS function does to `Final` (`Effect`), whether it waits, allocates
scratch memory or works at once; the loops of the host's batched calls are shown to do what the operation
on the whole batch does, because each pass stays within its matrix (`Local`, `LoopDone`). Then
each action keeps the invariant, one lemma each, and for each library that the queued steps of a
sparse `solve()` end in the solution. The assumptions are that "none" is no block
(`PoolAssumption`), that there is no solver on the host, for which gt-solver has no backend
(`HostAssumption`), and a batch of at least one matrix (`BatchAssumption`).

### Index arithmetic and views

`IndexingProofs` is about shapes of any rank and any extents, 0 and 1 included. `ContiguousIndex`: the
strides of a shape take an index to its `Place`. `UnravelCorrect`: `Unravel` inverts `Place`, so
that the linear kernels meet every index once. The argument follows the digits of a mixed-radix number
dimension by dimension; the intermediate states of the loops of `unravel` and `calc_index` are sequences
whose members are related by induction. The extents of 1, whose strides are 0, have to be skipped
at each step. The module also shows that a sum does not depend on the order of its terms,
by matching the positions of two sequences one by one.

`ViewsProofs` proves that every index of an expression reaches the element it stands for
(`ViewsReachTheirElements`), for any shapes, spans, slices and any depth of views, if `Careful` holds: slices
stay in range and an expiring span is contiguous, the hypothesis of the run (otherwise the theorem is
false, see the known faults). The other two invariants of the run need no hypothesis. Besides `AccessCorrect` the
invariant says that containers and functions have the strides of their shape (`WellFormed`),
which is what `data_access()` of the next adaptor relies on. The part that takes work is `view()`: its
descriptors are counted twice, with and without new axes and with and without values (`OldDim`, `NewDim`), and the offset
and the sum over the new dimensions are together the sum over the old ones. A slice is shown to be what
it means: the positions between its bounds, every step-th of them, are `start + k * step` for as many `k` as
`SliceExtent` says, for steps of either sign. `ConstantsAssumption` says that spans lie
within their array, shapes are sequences of naturals, and `gslice::none` is no integer.

### Assignment

`AssignmentProofs` proves the four invariants of `Assignment` for any pair of shapes of one to six
dimensions, any extents, targets, expressions, sizes of blocks and number of assignments, on every
backend. It starts with the grid: the threads that pass a kernel's guard have an index each, of
their own, and every index has a thread. For the kernels per number of dimensions this is a
division with remainder per axis (`Digit`), where blocks are cut off by the guard on two of the axes
and the third has no spare threads; for the linear ones it is `UnravelCorrect`.

Then come the regions. Different indices of a target have different addresses, also when it is reversed or shortened
(`Apart`), and all of them are in the array (`Within`); an operand is either the target itself or shares no
address with it (`Reads`, from `Unaliased`); an operand with fewer elements than the expression has a
stride of 0 where it is broadcast (`SlicesKeepStrides`). `calc_shape` finds the shape that NumPy would,
whatever the order of the operands, and refuses exactly what does not fit.

The inductive invariant is `Inv`. While a kernel is under way (`Progress`), each thread still to
run would compute from the arrays as they are now what is expected of its element, and all other elements
are as expected already. A step keeps it because a thread writes no element that
another one writes or reads. TLC has checked `Inv` on the run's instance before it was proved.

### Reductions

`ReductionsProofs` proves `ReductionCorrect` for any contents, inits and number of work groups. What items,
private copies and the result of a device still have to be combined to is always what was asked
for (`Balanced`): combining is associative and commutative with the missing value as neutral element, so that
the order plays no part, and the sum, maximum or minimum of the remaining terms is the
reference `Reduced` of the data. What the buffers start from differs per backend; `StartOK` says what must
hold of it for every function that does not loop on the host (`Loops`), which is where `Supported` is used. The result is asked for before the fills on the default
queue have run: `Queued` says that what comes before the reduction in its queue are fills and at
most one evaluation, the last of which leaves `expected`. `AxisSumCorrect` is proved for any
shape, axis and layout of `Regions` (a container, every second element of one, axes exchanged): what the threads that are done have written is
right (`Written`), and no two write to one cell, because each layout takes different indices to different
addresses.

### What the proofs share

`InductionFacts` is what these proofs share. The library's induction theorems take an operator as
parameter and cannot be used with the provers at hand; well-founded induction over sets can, and gives
induction over the naturals for a set (`Induction`). The module proves what a left fold returns for an arbitrary operator
`Op`, a constant of the module (`FoldAppend`, `FoldHead`, `FoldInvariant`, `FoldConcat`, `FoldRelated`),
by way of the sequence of intermediate results, whose existence and uniqueness are shown by induction. The other modules
instantiate it with the operator they fold with.

### Only model-checked

`ConstructionEnds` of `Sparse` and `Termination` of `BandSolver`: liveness is out of the provers' reach. What the
runs show beyond the theorems is that their hypotheses are needed: `solver_on_stream` and `fft_double_destroy`
drop one each and find a violation.

## What is left

1. `Assignment` on the queues of `DeviceQueues`: the temporary of a large right-hand side
   (`assign.h:491`), which is given back while the kernel on a stream may still read it.
2. The cache of `CachingAllocator` with several devices, where it is keyed by count alone.
3. The streams of the Fortran interface (`src/fortran/gpu_api.cxx`), which are raw queues without owner.

## Not modelled

Floating-point and complex arithmetic (`complex.h`, `sycl_ext_complex.hpp`), the element-wise
operators, formatting and tracing, `helper.h` and the type-level selection of spaces and
backends, the meson and CMake files, and vendored code. Device enumeration is read
once, at the start, from what the SYCL platform answers; the models begin with
its result. The legacy default stream of CUDA and HIP, which is ordered with every other
stream, is left out: `Solvers` keeps those builds to the default stream, and
`DeviceRuntime` is SYCL's. `used_` of the allocator, which only feeds debug output,
is left out of its model. The integers of the index arithmetic have no width: arrays of
2^31 elements are outside of what is shown.
