--------------------------- MODULE SolversProofs ----------------------------
(***************************************************************************)
(* Proofs about Solvers, for any batch, pool and number of queued          *)
(* operations and every build, as long as the handle works on the default  *)
(* queue when a solver is called (it may be moved to a stream by           *)
(* gtblas_set_stream() and back in between): the solvers rely on that, and *)
(* the run MCSolverOnStream shows what happens otherwise.  The last part   *)
(* is about the sparse matrix a sparse solver is made from (Sparse).       *)
(*                                                                         *)
(* The queues hold few kinds of work then.  On the stream there is only    *)
(* work on the application's container, since a call of BLAS on a stream   *)
(* is finished when it returns.  So what matters of the device is what its *)
(* memory will hold when the default queue is done (Final), and the stream *)
(* changes that in the container's block alone, which nothing on the       *)
(* default queue reads.                                                    *)
(*                                                                         *)
(* The invariant IInv says who owns which block and on which memory queued *)
(* work may be, and what Final is: the application's arrays as expected,   *)
(* the factors of a solver as its solve() needs them.  Scratch memory is   *)
(* left out of the comparison (Same), so that it may hold anything.        *)
(***************************************************************************)
EXTENDS Solvers, Sparse, FiniteSetTheorems, TLAPS

(* Facts about the fold of Executed over a queue. *)
Facts == INSTANCE InductionFacts WITH Op <- Executed

(* And of InOrder over the matrices of a batch. *)
LoopFacts == INSTANCE InductionFacts WITH Op <- InOrder

Bufs == BufferOf(Array \cup Pool)

(* What operations compute, or the right-hand side they write.             *)
Name ==
  {"junk", "copy", "lu", "pivots", "lu_npvt", "getrs", "getri", "gemm", "csr",
   "analysis", "lower", "upper", "axpy", "scal", "gemv"} \cup Rhs

Stores == [to : Bufs, name : Name, from : Seq(Bufs)]

(* An operation stores to each buffer at most once.                        *)
Functional(op) == \A s, t \in op : s.to = t.to => s = t

Operation == {op \in SUBSET Stores : Functional(op)}

IsMemory(m) == m = [c \in Bufs |-> m[c]]

(* The ranges of a device.                                                 *)
DevOK(d) ==
  /\ d = [mem |-> d.mem, queue |-> d.queue]
  /\ IsMemory(d.mem)
  /\ d.queue \in [Queue -> Seq(Operation)]

(* Contents after the operations of w, in their order; what the memory     *)
(* will hold when the default queue is done.                               *)
Done(m, w) == FoldLeft(Executed, m, w)
Final(d) == Done(d.mem, d.queue["default"])

(* The block of the application's container. *)
Temp(bl) == IF bl["temp"] = "none" THEN {} ELSE BufferOf({bl["temp"]})
Work(bl) == Scratch({bl["temp"]})

FreeIn(bl) == {p \in Pool : \A w \in Vector : bl[w] # p}

(* Memory that has an owner, but for the application's container.          *)
Owned(bl) == Bufs \ (Temp(bl) \cup BufferOf(FreeIn(bl)))

Clear(op, bl) == op \in Operation /\ Touches(op) \subseteq Owned(bl)

(* Work on the stream is that on the container; work on the default queue  *)
(* stays clear of it and of blocks nobody has, unless it is the same work  *)
(* and the stream has none.                                                *)
QueuesOK(d, bl) ==
  /\ \A i \in 1 .. Len(d.queue["stream"]) :
       bl["temp"] # "none" /\ d.queue["stream"][i] = Work(bl)
  /\ \A i \in 1 .. Len(d.queue["default"]) :
       \/ Clear(d.queue["default"][i], bl)
       \/ /\ bl["temp"] # "none" /\ d.queue["default"][i] = Work(bl)
          /\ d.queue["stream"] = << >>

(* A block has one owner; a solver has the temporaries of its kind and     *)
(* phase.                                                                  *)
BlocksOK(bl, ph, bu) ==
  /\ bl \in [Vector -> Pool \cup {"none"}]
  /\ \A v, w \in Vector : v # w /\ bl[v] # "none" => bl[v] # bl[w]
  /\ ph = "none" => bl["scratch_"] = "none"
  /\ ph # "factoring" => bl["d_A"] = "none" /\ bl["prep_scratch"] = "none"
  /\ ph # "none" /\ bu.kind = "dense" /\ bu.backend = "sycl" => bl["scratch_"] # "none"
  /\ ph = "factoring" /\ bu.kind = "sparse" => bl["d_A"] # "none"
  /\ ph # "none" => bu.kind \in {"dense", "invert", "sparse"}

Csr(b) == <<"csr", <<"lu_npvt", Matrix(b)>>>>

(* What a solver's arrays hold in the end.                                 *)
FactorsOK(m, bl, ph, bu) ==
  ph # "none" =>
    \A b \in Batch :
      /\ bu.kind = "dense" =>
           /\ m[Buffer("matrix_data_", b)] = <<"lu", Matrix(b)>>
           /\ m[Buffer("pivot_data_", b)] = <<"pivots", Matrix(b)>>
      /\ bu.kind = "invert" =>
           m[Buffer("matrix_data_", b)] =
             <<"getri", <<"lu", Matrix(b)>>, <<"pivots", Matrix(b)>>>>
      /\ bu.kind = "sparse" /\ ph = "factoring" =>
           m[Buffer(bl["d_A"], b)] = <<"lu_npvt", Matrix(b)>>
      /\ bu.kind = "sparse" /\ ph = "ready" =>
           /\ m[Buffer("csr", b)] = Csr(b)
           /\ m[Buffer("l_info_", b)] = <<"analysis", Csr(b)>>
           /\ bu.library # "trsv" => m[Buffer("u_info_", b)] = <<"analysis", Csr(b)>>

IsExpected(e) == e = [c \in BufferOf(AppArray) |-> e[c]]

(* The application's arrays are, or will be, as it expects.                *)
AppOK(m, e) == \A c \in BufferOf(AppArray) : m[c] = e[c]

(* Streams are SYCL's; the host queues nothing.                            *)
BackendOK(d, h, bu) ==
  /\ bu.backend # "sycl" => h # "stream" /\ d.queue["stream"] = << >>
  /\ bu.backend = "host" => d.queue["default"] = << >>

Sound(d, bl, ph, bu, h, e) ==
  /\ bu \in Build
  /\ ph \in {"none", "factoring", "ready"}
  /\ h \in Queue \cup {"null"}
  /\ IsExpected(e)
  /\ DevOK(d)
  /\ BlocksOK(bl, ph, bu)
  /\ QueuesOK(d, bl)
  /\ BackendOK(d, h, bu)
  /\ AppOK(Final(d), e)
  /\ FactorsOK(Final(d), bl, ph, bu)

IInv == Sound(dev, block, phase, build, g_handle, expected) /\ answered = TRUE

-----------------------------------------------------------------------------
(* Operations and what they do to a memory. *)

LEMMA BufferEquality ==
  ASSUME NEW a1, NEW b1, NEW a2, NEW b2
  PROVE  Buffer(a1, b1) = Buffer(a2, b2) <=> a1 = a2 /\ b1 = b2
  BY DEF Buffer

LEMMA BufferIn ==
  ASSUME NEW S, NEW a, NEW b
  PROVE  Buffer(a, b) \in BufferOf(S) <=> a \in S /\ b \in Batch
  BY BufferEquality DEF BufferOf

(* A store is done as it says, and nothing else is changed.                *)
LEMMA ExecutedIs ==
  ASSUME NEW m, IsMemory(m), NEW op \in Operation
  PROVE  /\ IsMemory(Executed(m, op))
         /\ \A s \in op : Executed(m, op)[s.to] = Result(m, s)
         /\ \A c \in Bufs : c \notin Writes(op) => Executed(m, op)[c] = m[c]
<1>. DEFINE by == [b \in Writes(op) |-> CHOOSE s \in op : s.to = b]
<1>1. DOMAIN m = Bufs
  BY DEF IsMemory
<1>2. Executed(m, op) =
        [b \in Bufs |-> IF b \in Writes(op) THEN Result(m, by[b]) ELSE m[b]]
  BY <1>1 DEF Executed
<1>3. ASSUME NEW s \in op PROVE by[s.to] = s /\ s.to \in Writes(op) /\ s.to \in Bufs
  <2>1. s.to \in Writes(op) /\ s.to \in Bufs
    BY DEF Writes, Operation, Stores
  <2>2. \A t \in op : t.to = s.to => t = s
    BY DEF Operation, Functional
  <2>3. (CHOOSE t \in op : t.to = s.to) = s
    BY <2>2
  <2>. QED  BY <2>1, <2>3
<1>. HIDE DEF by
<1>. QED  BY <1>2, <1>3 DEF IsMemory

(* What a store computes depends on what it reads.                         *)
LEMMA ResultSame ==
  ASSUME NEW s, NEW X, ToSet(s.from) \subseteq X, NEW m1, NEW m2,
         \A c \in X : m1[c] = m2[c]
  PROVE  Result(m1, s) = Result(m2, s)
<1>1. \A i \in DOMAIN s.from : m1[s.from[i]] = m2[s.from[i]]
  BY DEF ToSet
<1>2. [i \in DOMAIN s.from |-> m1[s.from[i]]] = [i \in DOMAIN s.from |-> m2[s.from[i]]]
  BY <1>1
<1>. QED  BY <1>2 DEF Result

(* Memories that agree on what an operation reads, and on more, still do   *)
(* after it.                                                               *)
LEMMA ExecutedSame ==
  ASSUME NEW X \in SUBSET Bufs, NEW op \in Operation, Reads(op) \subseteq X,
         NEW m1, IsMemory(m1), NEW m2, IsMemory(m2),
         \A c \in X : m1[c] = m2[c]
  PROVE  \A c \in X : Executed(m1, op)[c] = Executed(m2, op)[c]
<1>. SUFFICES ASSUME NEW c \in X PROVE Executed(m1, op)[c] = Executed(m2, op)[c]
  OBVIOUS
<1>1. CASE c \in Writes(op)
  <2>1. PICK s \in op : s.to = c
    BY <1>1 DEF Writes
  <2>2. ToSet(s.from) \subseteq X
    BY DEF Reads
  <2>3. Result(m1, s) = Result(m2, s)
    BY <2>2, ResultSame
  <2>. QED  BY <2>1, <2>3, ExecutedIs
<1>2. CASE c \notin Writes(op)
  BY <1>2, ExecutedIs
<1>. QED  BY <1>1, <1>2

-----------------------------------------------------------------------------
(* Memories that differ at most in the application's container and in      *)
(* blocks nobody has.                                                      *)

Same(m1, m2, bl) ==
  /\ IsMemory(m1) /\ IsMemory(m2)
  /\ \A c \in Owned(bl) : m1[c] = m2[c]

LEMMA SameIsEquivalence ==
  ASSUME NEW bl, NEW m1, NEW m2, NEW m3
  PROVE  /\ IsMemory(m1) => Same(m1, m1, bl)
         /\ Same(m1, m2, bl) => Same(m2, m1, bl)
         /\ Same(m1, m2, bl) /\ Same(m2, m3, bl) => Same(m1, m3, bl)
  BY DEF Same

(* Work on owned memory keeps two memories the same.                       *)
LEMMA ClearSame ==
  ASSUME NEW bl, NEW op, Clear(op, bl), NEW m1, NEW m2, Same(m1, m2, bl)
  PROVE  Same(Executed(m1, op), Executed(m2, op), bl)
<1>1. Owned(bl) \in SUBSET Bufs /\ Reads(op) \subseteq Owned(bl) /\ op \in Operation
  BY DEF Owned, Clear, Touches
<1>2. IsMemory(Executed(m1, op)) /\ IsMemory(Executed(m2, op))
  BY <1>1, ExecutedIs DEF Same
<1>3. \A c \in Owned(bl) : Executed(m1, op)[c] = Executed(m2, op)[c]
  BY <1>1, ExecutedSame DEF Same
<1>. QED  BY <1>2, <1>3 DEF Same

(* Work that writes elsewhere changes nothing.                             *)
LEMMA ElsewhereSame ==
  ASSUME NEW bl, NEW op \in Operation, Writes(op) \cap Owned(bl) = {},
         NEW m, IsMemory(m)
  PROVE  Same(Executed(m, op), m, bl)
<1>1. Owned(bl) \subseteq Bufs
  BY DEF Owned
<1>. QED  BY <1>1, ExecutedIs DEF Same

(* A call's scratch changes nothing but the scratch memory.                *)
LEMMA ScratchSame ==
  ASSUME NEW bl, NEW op, Clear(op, bl), NEW sc \in Operation,
         Writes(sc) \cap Owned(bl) = {}, op \cup sc \in Operation,
         NEW m, IsMemory(m)
  PROVE  Same(Executed(m, op \cup sc), Executed(m, op), bl)
<1>1. op \in Operation /\ Owned(bl) \subseteq Bufs
  BY DEF Clear, Owned
<1>2. IsMemory(Executed(m, op)) /\ IsMemory(Executed(m, op \cup sc))
  BY <1>1, ExecutedIs
<1>3. ASSUME NEW c \in Owned(bl)
      PROVE  Executed(m, op \cup sc)[c] = Executed(m, op)[c]
  <2>1. CASE c \in Writes(op)
    <3>1. PICK s \in op : s.to = c
      BY <2>1 DEF Writes
    <3>2. s \in op \cup sc
      OBVIOUS
    <3>3. Executed(m, op)[s.to] = Result(m, s)
      BY <1>1, ExecutedIs
    <3>4. Executed(m, op \cup sc)[s.to] = Result(m, s)
      BY <3>2, ExecutedIs
    <3>. QED  BY <3>1, <3>3, <3>4
  <2>2. CASE c \notin Writes(op)
    <3>1. c \notin Writes(op \cup sc)
      BY <2>2 DEF Writes
    <3>2. c \in Bufs
      BY <1>1
    <3>3. Executed(m, op)[c] = m[c]
      BY <1>1, <2>2, <3>2, ExecutedIs
    <3>4. Executed(m, op \cup sc)[c] = m[c]
      BY <3>1, <3>2, ExecutedIs
    <3>. QED  BY <3>3, <3>4
  <2>. QED  BY <2>1, <2>2
<1>. QED  BY <1>2, <1>3 DEF Same

(* The same for sequences of operations.  Done is a fold of Executed; the  *)
(* fold is that of the module of facts.                                    *)
LEMMA DoneIsFold ==
  ASSUME NEW m, NEW w
  PROVE  Done(m, w) = Facts!FoldLeft(Executed, m, w)
  BY Zenon DEF Done, FoldLeft, MapThenFoldSet, Max, Facts!FoldLeft,
                  Facts!MapThenFoldSet, Facts!Max

LEMMA DoneEmpty ==
  ASSUME NEW m
  PROVE  Done(m, << >>) = m
  BY DoneIsFold, Facts!FoldEmpty, Zenon

LEMMA DoneAppend ==
  ASSUME NEW m, NEW w \in Seq(Operation), NEW op \in Operation
  PROVE  Done(m, Append(w, op)) = Executed(Done(m, w), op)
  BY DoneIsFold, Facts!FoldAppend, Zenon

LEMMA DoneHead ==
  ASSUME NEW m, NEW w \in Seq(Operation), w # << >>
  PROVE  Done(m, w) = Done(Executed(m, Head(w)), Tail(w))
  BY DoneIsFold, Facts!FoldHead, Zenon

LEMMA DoneConcat ==
  ASSUME NEW m, NEW w \in Seq(Operation), NEW v \in Seq(Operation)
  PROVE  Done(m, w \o v) = Done(Done(m, w), v)
<1>1. Facts!FoldLeft(Executed, m, w \o v)
        = Facts!FoldLeft(Executed, Facts!FoldLeft(Executed, m, w), v)
  BY Facts!FoldConcat
<1>. QED  BY <1>1, DoneIsFold, Zenon

(* One operation, and two.                                                 *)
LEMMA DoneOne ==
  ASSUME NEW m, NEW op \in Operation
  PROVE  Done(m, <<op>>) = Executed(m, op)
<1>1. << >> \in Seq(Operation) /\ Append(<< >>, op) = <<op>>
  OBVIOUS
<1>. QED  BY <1>1, DoneAppend, DoneEmpty

LEMMA DoneTwo ==
  ASSUME NEW m, NEW op1 \in Operation, NEW op2 \in Operation
  PROVE  Done(m, <<op1, op2>>) = Executed(Executed(m, op1), op2)
<1>1. <<op1>> \in Seq(Operation)
  OBVIOUS
<1>. DEFINE w == Append(<<op1>>, op2)
<1>2. w \in Seq(Operation) /\ Len(w) = 2 /\ w[1] = op1 /\ w[2] = op2
  BY <1>1
<1>. HIDE DEF w
<1>3. w = [i \in 1 .. 2 |-> w[i]]
  BY <1>2
<1>4. <<op1, op2>> = [i \in 1 .. 2 |-> IF i = 1 THEN op1 ELSE op2]
  OBVIOUS
<1>5. w = <<op1, op2>>
  BY <1>2, <1>3, <1>4
<1>6. Done(m, w) = Executed(Done(m, <<op1>>), op2)
  BY <1>1, DoneAppend DEF w
<1>7. Done(m, <<op1>>) = Executed(m, op1)
  BY DoneOne
<1>. QED  BY <1>5, <1>6, <1>7

(* How an operation differs at most from one on owned memory: by scratch.  *)
Similar(op1, op2, bl) ==
  \A m1, m2 : Same(m1, m2, bl) => Same(Executed(m1, op1), Executed(m2, op2), bl)

(* Sequences of operations that are similar one by one.                    *)
LEMMA DoneSame ==
  ASSUME NEW bl, NEW m1, NEW m2, Same(m1, m2, bl),
         NEW w \in Seq(Operation), NEW v \in Seq(Operation), Len(w) = Len(v),
         \A i \in 1 .. Len(w) : Similar(w[i], v[i], bl)
  PROVE  Same(Done(m1, w), Done(m2, v), bl)
<1>1. PICK h : Facts!Chain(h, m1, w) /\ Facts!FoldLeft(Executed, m1, w) = h[Len(w)]
  BY Facts!FoldIsChain, Zenon
<1>2. PICK g : Facts!Chain(g, m2, v) /\ Facts!FoldLeft(Executed, m2, v) = g[Len(v)]
  BY Facts!FoldIsChain, Zenon
<1>. DEFINE S == {i \in Nat : i <= Len(w) => Same(h[i], g[i], bl)}
<1>3. 0 \in S
  BY <1>1, <1>2 DEF Facts!Chain
<1>4. ASSUME NEW i \in Nat, i \in S PROVE i + 1 \in S
  <2>1. SUFFICES ASSUME i + 1 <= Len(w) PROVE Same(h[i + 1], g[i + 1], bl)
    OBVIOUS
  <2>2. i + 1 \in 1 .. Len(w) /\ (i + 1) - 1 = i /\ Same(h[i], g[i], bl)
    BY <1>4, <2>1
  <2>3. h[i + 1] = Executed(h[i], w[i + 1]) /\ g[i + 1] = Executed(g[i], v[i + 1])
    BY <1>1, <1>2, <2>2 DEF Facts!Chain
  <2>4. Same(Executed(h[i], w[i + 1]), Executed(g[i], v[i + 1]), bl)
    BY <2>2 DEF Similar
  <2>. QED  BY <2>3, <2>4
<1>. HIDE DEF S
<1>5. Nat \subseteq S
  BY <1>3, <1>4, Facts!Induction
<1>6. Same(h[Len(w)], g[Len(w)], bl)
  BY <1>5 DEF S
<1>. QED  BY <1>1, <1>2, <1>6, DoneIsFold

(* A sequence of operations that write elsewhere.                          *)
LEMMA DoneElsewhere ==
  ASSUME NEW bl, NEW m, IsMemory(m), NEW w \in Seq(Operation),
         \A i \in 1 .. Len(w) : Writes(w[i]) \cap Owned(bl) = {}
  PROVE  Same(Done(m, w), m, bl)
<1>1. PICK h : Facts!Chain(h, m, w) /\ Facts!FoldLeft(Executed, m, w) = h[Len(w)]
  BY Facts!FoldIsChain, Zenon
<1>. DEFINE S == {i \in Nat : i <= Len(w) => Same(h[i], m, bl)}
<1>3. 0 \in S
  BY <1>1, SameIsEquivalence DEF Facts!Chain
<1>4. ASSUME NEW i \in Nat, i \in S PROVE i + 1 \in S
  <2>1. SUFFICES ASSUME i + 1 <= Len(w) PROVE Same(h[i + 1], m, bl)
    OBVIOUS
  <2>2. i + 1 \in 1 .. Len(w) /\ (i + 1) - 1 = i /\ Same(h[i], m, bl)
    BY <1>4, <2>1
  <2>3. h[i + 1] = Executed(h[i], w[i + 1])
    BY <1>1, <2>2 DEF Facts!Chain
  <2>4. w[i + 1] \in Operation /\ IsMemory(h[i])
    BY <2>2 DEF Same
  <2>5. Same(Executed(h[i], w[i + 1]), h[i], bl)
    BY <2>2, <2>4, ElsewhereSame
  <2>. QED  BY <2>2, <2>3, <2>5, SameIsEquivalence
<1>. HIDE DEF S
<1>5. Nat \subseteq S
  BY <1>3, <1>4, Facts!Induction
<1>6. Same(h[Len(w)], m, bl)
  BY <1>5 DEF S
<1>. QED  BY <1>1, <1>6, DoneIsFold

LEMMA DoneMemory ==
  ASSUME NEW m, IsMemory(m), NEW w \in Seq(Operation)
  PROVE  IsMemory(Done(m, w))
<1>1. PICK h : Facts!Chain(h, m, w) /\ Facts!FoldLeft(Executed, m, w) = h[Len(w)]
  BY Facts!FoldIsChain, Zenon
<1>. DEFINE S == {i \in Nat : i <= Len(w) => IsMemory(h[i])}
<1>3. 0 \in S
  BY <1>1 DEF Facts!Chain
<1>4. ASSUME NEW i \in Nat, i \in S PROVE i + 1 \in S
  <2>1. SUFFICES ASSUME i + 1 <= Len(w) PROVE IsMemory(h[i + 1])
    OBVIOUS
  <2>2. i + 1 \in 1 .. Len(w) /\ (i + 1) - 1 = i /\ IsMemory(h[i])
    BY <1>4, <2>1
  <2>3. h[i + 1] = Executed(h[i], w[i + 1]) /\ w[i + 1] \in Operation
    BY <1>1, <2>2 DEF Facts!Chain
  <2>. QED  BY <2>2, <2>3, ExecutedIs
<1>. HIDE DEF S
<1>5. Nat \subseteq S
  BY <1>3, <1>4, Facts!Induction
<1>6. IsMemory(h[Len(w)])
  BY <1>5 DEF S
<1>. QED  BY <1>1, <1>6, DoneIsFold

-----------------------------------------------------------------------------
(* Operations on whole arrays. *)

Arrays == Array \cup Pool

(* The store of matrix b. *)
StoreOf(to, name, from, b) ==
  [to |-> Buffer(to, b), name |-> name, from |-> [i \in DOMAIN from |-> Buffer(from[i], b)]]

LEMMA BatchedIs ==
  ASSUME NEW to \in Arrays, NEW name \in Name, NEW from \in Seq(Arrays)
  PROVE  /\ Batched(to, name, from) \in Operation
         /\ Batched(to, name, from) = {StoreOf(to, name, from, b) : b \in Batch}
         /\ Writes(Batched(to, name, from)) = BufferOf({to})
         /\ Reads(Batched(to, name, from)) \subseteq BufferOf(ToSet(from))
<1>. DEFINE op == Batched(to, name, from)
            args(b) == [i \in DOMAIN from |-> Buffer(from[i], b)]
<1>1. op = {StoreOf(to, name, from, b) : b \in Batch}
  BY DEF Batched, Store, StoreOf
<1>2. ASSUME NEW b \in Batch
      PROVE  /\ StoreOf(to, name, from, b).to = Buffer(to, b)
             /\ StoreOf(to, name, from, b).from = args(b)
  BY DEF StoreOf
<1>3. ASSUME NEW b \in Batch
      PROVE  Buffer(to, b) \in Bufs /\ args(b) \in Seq(Bufs) /\ ToSet(args(b)) \subseteq BufferOf(ToSet(from))
  <2>1. DOMAIN from = 1 .. Len(from) /\ Len(from) \in Nat
    OBVIOUS
  <2>2. \A i \in 1 .. Len(from) : from[i] \in Arrays /\ from[i] \in ToSet(from)
    BY <2>1 DEF ToSet
  <2>3. \A i \in 1 .. Len(from) : Buffer(from[i], b) \in Bufs
    BY <2>2, BufferIn DEF Bufs, Arrays
  <2>4. \A i \in 1 .. Len(from) : Buffer(from[i], b) \in BufferOf(ToSet(from))
    BY <2>2, BufferIn
  <2>5. args(b) \in [1 .. Len(from) -> Bufs]
    BY <2>1, <2>3
  <2>6. ToSet(args(b)) \subseteq BufferOf(ToSet(from))
    BY <2>1, <2>4 DEF ToSet
  <2>7. Buffer(to, b) \in Bufs
    BY BufferIn DEF Bufs, Arrays
  <2>8. args(b) \in Seq(Bufs)
    BY <2>1, <2>5
  <2>. QED  BY <2>6, <2>7, <2>8
<1>. HIDE DEF args
<1>4. \A b \in Batch : StoreOf(to, name, from, b) \in Stores
  <2>1. \A c \in Bufs, r \in Seq(Bufs) : [to |-> c, name |-> name, from |-> r] \in Stores
    BY DEF Stores
  <2>. QED  BY <1>3, <2>1 DEF StoreOf, args
<1>5. Functional(op)
  BY <1>1, <1>2, BufferEquality DEF Functional
<1>6. op \in Operation
  BY <1>1, <1>4, <1>5 DEF Operation
<1>. HIDE DEF op
<1>7. Writes(op) = BufferOf({to})
  <2>1. ASSUME NEW c \in Writes(op) PROVE c \in BufferOf({to})
    <3>1. PICK s \in op : c = s.to
      BY DEF Writes
    <3>2. PICK b \in Batch : s = StoreOf(to, name, from, b)
      BY <1>1
    <3>. QED  BY <1>2, <3>1, <3>2, BufferIn
  <2>2. ASSUME NEW c \in BufferOf({to}) PROVE c \in Writes(op)
    <3>1. PICK b \in Batch : c = Buffer(to, b)
      BY DEF BufferOf
    <3>2. StoreOf(to, name, from, b) \in op
      BY <1>1
    <3>. QED  BY <1>2, <3>1, <3>2 DEF Writes
  <2>. QED  BY <2>1, <2>2
<1>8. Reads(op) \subseteq BufferOf(ToSet(from))
  <2>1. ASSUME NEW s \in op PROVE ToSet(s.from) \subseteq BufferOf(ToSet(from))
    <3>1. PICK b \in Batch : s = StoreOf(to, name, from, b)
      BY <1>1
    <3>. QED  BY <1>2, <1>3, <3>1
  <2>. QED  BY <2>1 DEF Reads
<1>. QED  BY <1>1, <1>6, <1>7, <1>8 DEF op

(* Scratch memory: an array that is computed from nothing.                 *)
LEMMA ScratchIs ==
  ASSUME NEW p \in Pool
  PROVE  /\ Scratch({p}) = Batched(p, "junk", << >>)
         /\ Scratch({p}) \in Operation
         /\ Writes(Scratch({p})) = BufferOf({p})
         /\ Reads(Scratch({p})) = {}
<1>1. [i \in DOMAIN << >> |-> i] = << >>
  OBVIOUS
<1>2. \A b \in Batch : [i \in DOMAIN << >> |-> Buffer(<< >>[i], b)] = << >>
  OBVIOUS
<1>3. Batched(p, "junk", << >>) = {Store(Buffer(p, b), "junk", << >>) : b \in Batch}
  BY <1>2 DEF Batched
<1>4. Scratch({p}) = {Store(Buffer(p, b), "junk", << >>) : b \in Batch}
  BY DEF Scratch
<1>5. p \in Arrays
  BY DEF Arrays
<1>7. "junk" \in Name
  BY DEF Name
<1>8. << >> \in Seq(Arrays)
  OBVIOUS
<1>6. BufferOf(ToSet(<< >>)) = {}
  BY DEF BufferOf, ToSet
<1>. QED  BY <1>3, <1>4, <1>5, <1>6, <1>7, <1>8, BatchedIs

-----------------------------------------------------------------------------
(* Blocks and the application's container. *)

Blocks == [Vector -> Pool \cup {"none"}]

(* The work on the application's container.                                *)
LEMMA WorkIs ==
  ASSUME NEW bl \in Blocks, bl["temp"] # "none"
  PROVE  /\ Work(bl) \in Operation
         /\ Touches(Work(bl)) = Temp(bl)
         /\ Writes(Work(bl)) = Temp(bl)
         /\ Temp(bl) = BufferOf({bl["temp"]})
         /\ Temp(bl) \cap Owned(bl) = {}
         /\ Temp(bl) \cap BufferOf(FreeIn(bl)) = {}
         /\ Temp(bl) \subseteq Bufs
         /\ bl["temp"] \in Pool
<1>. DEFINE p == bl["temp"]
<1>1. p \in Pool /\ p \notin FreeIn(bl)
  BY DEF Blocks, Vector, FreeIn
<1>2. Temp(bl) = BufferOf({p}) /\ Work(bl) = Scratch({p})
  BY DEF Temp, Work
<1>. HIDE DEF p
<1>4. BufferOf({p}) \subseteq Bufs
  BY <1>1 DEF BufferOf, Bufs
<1>8. BufferOf({p}) \cap BufferOf(FreeIn(bl)) = {}
  BY <1>1, BufferEquality DEF BufferOf
<1>. QED  BY <1>1, <1>2, <1>4, <1>8, ScratchIs DEF Touches, Owned, p

(* Blocks of which nobody is the owner.                                    *)
LEMMA FreeIs ==
  ASSUME NEW bl \in Blocks
  PROVE  /\ Temp(bl) \cap BufferOf(FreeIn(bl)) = {}
         /\ Owned(bl) \cap BufferOf(FreeIn(bl)) = {}
         /\ Owned(bl) \subseteq Bufs
<1>1. CASE bl["temp"] # "none"
  BY <1>1, WorkIs DEF Owned
<1>2. CASE bl["temp"] = "none"
  BY <1>2 DEF Owned, Temp
<1>. QED  BY <1>1, <1>2

-----------------------------------------------------------------------------
(* What the primitives do to a device. *)

Good(d, bl) == DevOK(d) /\ QueuesOK(d, bl)

LEMMA FinalMemory ==
  ASSUME NEW d, DevOK(d)
  PROVE  /\ IsMemory(Final(d)) /\ IsMemory(d.mem)
         /\ d.queue["default"] \in Seq(Operation)
         /\ d.queue["stream"] \in Seq(Operation)
         /\ d.queue["default"] = << >> => Final(d) = d.mem
<1>1. IsMemory(d.mem) /\ d.queue["default"] \in Seq(Operation)
                      /\ d.queue["stream"] \in Seq(Operation)
  BY DEF DevOK, Queue
<1>2. IsMemory(Final(d))
  BY <1>1, DoneMemory DEF Final
<1>3. d.queue["default"] = << >> => Final(d) = d.mem
  BY DoneEmpty DEF Final
<1>. QED  BY <1>1, <1>2, <1>3

(* Devices by their parts.                                                 *)
LEMMA DeviceOf ==
  ASSUME NEW m, IsMemory(m), NEW s \in Seq(Operation), NEW t \in Seq(Operation), NEW d,
         d = [mem |-> m, queue |-> [q \in Queue |-> IF q = "default" THEN s ELSE t]]
  PROVE  /\ DevOK(d) /\ d.mem = m /\ Final(d) = Done(m, s)
         /\ d.queue["default"] = s /\ d.queue["stream"] = t
<1>1. d.mem = m /\ d.queue = [q \in Queue |-> IF q = "default" THEN s ELSE t]
  OBVIOUS
<1>2. d.queue["default"] = s /\ d.queue["stream"] = t
  BY <1>1 DEF Queue
<1>3. d.queue \in [Queue -> Seq(Operation)]
  BY <1>1
<1>4. d = [mem |-> d.mem, queue |-> d.queue]
  BY <1>1
<1>. QED  BY <1>1, <1>2, <1>3, <1>4 DEF DevOK, Final

(* Another queue, and another memory as well.                              *)
WithQueue(d, q, t) == [d EXCEPT !.queue[q] = t]
WithBoth(d, n, q, t) == [d EXCEPT !.mem = n, !.queue[q] = t]

LEMMA DeviceParts ==
  ASSUME NEW d, DevOK(d), NEW q \in Queue, NEW n, NEW t
  PROVE  /\ WithQueue(d, q, t) =
              [mem |-> d.mem, queue |-> [r \in Queue |-> IF r = q THEN t ELSE d.queue[r]]]
         /\ WithBoth(d, n, q, t) =
              [mem |-> n, queue |-> [r \in Queue |-> IF r = q THEN t ELSE d.queue[r]]]
<1>. DEFINE m == d.mem
            queues == d.queue
            now == [queues EXCEPT ![q] = t]
            new == [d EXCEPT !.mem = n]
<1>1. d = [mem |-> m, queue |-> queues] /\ queues \in [Queue -> Seq(Operation)]
  BY DEF DevOK
<1>. HIDE DEF m, queues
<1>2. now = [r \in Queue |-> IF r = q THEN t ELSE queues[r]]
  BY <1>1
<1>3. new = [mem |-> n, queue |-> queues] /\ d.queue = queues
  BY <1>1
<1>4. [d EXCEPT !.queue[q] = t] = [d EXCEPT !.queue = now]
  BY <1>3
<1>5. [d EXCEPT !.mem = n, !.queue[q] = t] = [new EXCEPT !.queue = now]
  BY <1>3
<1>. HIDE DEF now
<1>6. [d EXCEPT !.queue = now] = [mem |-> m, queue |-> now]
  BY <1>1
<1>. HIDE DEF new
<1>7. [new EXCEPT !.queue = now] = [mem |-> n, queue |-> now]
  BY <1>3
<1>8. /\ WithQueue(d, q, t) = [mem |-> m, queue |-> now]
      /\ WithBoth(d, n, q, t) = [mem |-> n, queue |-> now]
  BY <1>4, <1>5, <1>6, <1>7 DEF WithQueue, WithBoth
<1>. QED  BY <1>2, <1>8 DEF m, queues

LEMMA SubmitIs ==
  ASSUME NEW d, DevOK(d), NEW q \in Queue, NEW op
  PROVE  Submit(d, q, op) =
           [mem |-> d.mem,
            queue |-> [r \in Queue |-> IF r = q THEN Append(d.queue[q], op) ELSE d.queue[r]]]
<1>1. Submit(d, q, op) = WithQueue(d, q, Append(d.queue[q], op))
  BY DEF Submit, WithQueue
<1>. QED  BY <1>1, DeviceParts

LEMMA SubmitAllIs ==
  ASSUME NEW d, DevOK(d), NEW q \in Queue, NEW ops
  PROVE  SubmitAll(d, q, ops) =
           [mem |-> d.mem,
            queue |-> [r \in Queue |-> IF r = q THEN d.queue[q] \o ops ELSE d.queue[r]]]
<1>1. SubmitAll(d, q, ops) = WithQueue(d, q, d.queue[q] \o ops)
  BY DEF SubmitAll, WithQueue
<1>. QED  BY <1>1, DeviceParts

LEMMA WaitedIs ==
  ASSUME NEW d, DevOK(d), NEW q \in Queue
  PROVE  Waited(d, q) =
           [mem |-> Done(d.mem, d.queue[q]),
            queue |-> [r \in Queue |-> IF r = q THEN << >> ELSE d.queue[r]]]
<1>1. Waited(d, q) = WithBoth(d, Done(d.mem, d.queue[q]), q, << >>)
  BY DEF Waited, WithBoth, Done
<1>. QED  BY <1>1, DeviceParts

LEMMA StepIs ==
  ASSUME NEW d, DevOK(d), NEW q \in Queue
  PROVE  Step(d, q) =
           [mem |-> Executed(d.mem, Head(d.queue[q])),
            queue |-> [r \in Queue |-> IF r = q THEN Tail(d.queue[q]) ELSE d.queue[r]]]
<1>. DEFINE m == Executed(d.mem, Head(d.queue[q]))
            t == Tail(d.queue[q])
<1>1. Step(d, q) = WithBoth(d, m, q, t)
  BY DEF Step, WithBoth
<1>. HIDE DEF m, t
<1>2. WithBoth(d, m, q, t) =
        [mem |-> m, queue |-> [r \in Queue |-> IF r = q THEN t ELSE d.queue[r]]]
  BY DeviceParts
<1>. QED  BY <1>1, <1>2 DEF m, t

(* On the default queue: submitted work will be done last.                 *)
LEMMA SubmitDefault ==
  ASSUME NEW d, DevOK(d), NEW op \in Operation
  PROVE  LET e == Submit(d, "default", op)
         IN  /\ DevOK(e) /\ e.mem = d.mem
             /\ Final(e) = Executed(Final(d), op)
             /\ e.queue["default"] = Append(d.queue["default"], op)
             /\ e.queue["stream"] = d.queue["stream"]
<1>. DEFINE e == Submit(d, "default", op)
            s == Append(d.queue["default"], op)
            t == d.queue["stream"]
<1>1. d.queue["default"] \in Seq(Operation) /\ t \in Seq(Operation) /\ IsMemory(d.mem)
  BY FinalMemory
<1>2. s \in Seq(Operation)
  BY <1>1
<1>3. e = [mem |-> d.mem, queue |-> [q \in Queue |-> IF q = "default" THEN s ELSE t]]
  <2>1. "default" \in Queue
    BY DEF Queue
  <2>2. e = [mem |-> d.mem, queue |-> [q \in Queue |-> IF q = "default" THEN s ELSE d.queue[q]]]
    BY <2>1, SubmitIs
  <2>3. [q \in Queue |-> IF q = "default" THEN s ELSE d.queue[q]] =
        [q \in Queue |-> IF q = "default" THEN s ELSE t]
    BY DEF Queue
  <2>. QED  BY <2>2, <2>3
<1>4. Done(d.mem, s) = Executed(Final(d), op)
  BY <1>1, DoneAppend DEF Final
<1>. HIDE DEF e, s, t
<1>5. DevOK(e) /\ e.mem = d.mem /\ Final(e) = Done(d.mem, s)
      /\ e.queue["default"] = s /\ e.queue["stream"] = t
  BY <1>1, <1>2, <1>3, DeviceOf
<1>. QED  BY <1>4, <1>5 DEF e, s, t

LEMMA SubmitAllDefault ==
  ASSUME NEW d, DevOK(d), NEW ops \in Seq(Operation)
  PROVE  LET e == SubmitAll(d, "default", ops)
         IN  /\ DevOK(e) /\ e.mem = d.mem
             /\ Final(e) = Done(Final(d), ops)
             /\ e.queue["default"] = d.queue["default"] \o ops
             /\ e.queue["stream"] = d.queue["stream"]
<1>. DEFINE e == SubmitAll(d, "default", ops)
            s == d.queue["default"] \o ops
            t == d.queue["stream"]
<1>1. d.queue["default"] \in Seq(Operation) /\ t \in Seq(Operation) /\ IsMemory(d.mem)
  BY FinalMemory
<1>2. s \in Seq(Operation)
  BY <1>1
<1>3. e = [mem |-> d.mem, queue |-> [q \in Queue |-> IF q = "default" THEN s ELSE t]]
  <2>1. "default" \in Queue
    BY DEF Queue
  <2>2. e = [mem |-> d.mem, queue |-> [q \in Queue |-> IF q = "default" THEN s ELSE d.queue[q]]]
    BY <2>1, SubmitAllIs
  <2>3. [q \in Queue |-> IF q = "default" THEN s ELSE d.queue[q]] =
        [q \in Queue |-> IF q = "default" THEN s ELSE t]
    BY DEF Queue
  <2>. QED  BY <2>2, <2>3
<1>4. Done(d.mem, s) = Done(Final(d), ops)
  BY <1>1, DoneConcat DEF Final
<1>. HIDE DEF e, s, t
<1>5. DevOK(e) /\ e.mem = d.mem /\ Final(e) = Done(d.mem, s)
      /\ e.queue["default"] = s /\ e.queue["stream"] = t
  BY <1>1, <1>2, <1>3, DeviceOf
<1>. QED  BY <1>4, <1>5 DEF e, s, t

(* Waiting for it changes when, not what.                                  *)
LEMMA WaitDefault ==
  ASSUME NEW d, DevOK(d)
  PROVE  LET e == Waited(d, "default")
         IN  /\ DevOK(e) /\ e.mem = Final(d) /\ Final(e) = Final(d)
             /\ e.queue["default"] = << >>
             /\ e.queue["stream"] = d.queue["stream"]
<1>. DEFINE e == Waited(d, "default")
            s == << >>
            t == d.queue["stream"]
            m == Final(d)
<1>1. s \in Seq(Operation) /\ t \in Seq(Operation) /\ IsMemory(m)
  BY FinalMemory
<1>3. e = [mem |-> m, queue |-> [q \in Queue |-> IF q = "default" THEN s ELSE t]]
  <2>1. "default" \in Queue
    BY DEF Queue
  <2>2. e = [mem |-> m, queue |-> [q \in Queue |-> IF q = "default" THEN s ELSE d.queue[q]]]
    BY <2>1, WaitedIs DEF Final
  <2>3. [q \in Queue |-> IF q = "default" THEN s ELSE d.queue[q]] =
        [q \in Queue |-> IF q = "default" THEN s ELSE t]
    BY DEF Queue
  <2>. QED  BY <2>2, <2>3
<1>4. Done(m, s) = m
  BY DoneEmpty
<1>. HIDE DEF e, s, t, m
<1>5. DevOK(e) /\ e.mem = m /\ Final(e) = Done(m, s)
      /\ e.queue["default"] = s /\ e.queue["stream"] = t
  BY <1>1, <1>3, DeviceOf
<1>. QED  BY <1>4, <1>5 DEF e, s, t, m

(* So does the device executing the next of it.                            *)
LEMMA StepDefault ==
  ASSUME NEW d, DevOK(d), d.queue["default"] # << >>
  PROVE  LET e == Step(d, "default")
         IN  /\ DevOK(e) /\ Final(e) = Final(d)
             /\ e.queue["default"] = Tail(d.queue["default"])
             /\ e.queue["stream"] = d.queue["stream"]
<1>. DEFINE e == Step(d, "default")
            w == d.queue["default"]
            s == Tail(w)
            t == d.queue["stream"]
            m == Executed(d.mem, Head(w))
<1>1. w \in Seq(Operation) /\ t \in Seq(Operation) /\ IsMemory(d.mem)
  BY FinalMemory
<1>2. s \in Seq(Operation) /\ Head(w) \in Operation
  BY <1>1
<1>3. e = [mem |-> m, queue |-> [q \in Queue |-> IF q = "default" THEN s ELSE t]]
  <2>1. "default" \in Queue
    BY DEF Queue
  <2>2. e = [mem |-> m, queue |-> [q \in Queue |-> IF q = "default" THEN s ELSE d.queue[q]]]
    BY <2>1, StepIs
  <2>3. [q \in Queue |-> IF q = "default" THEN s ELSE d.queue[q]] =
        [q \in Queue |-> IF q = "default" THEN s ELSE t]
    BY DEF Queue
  <2>. QED  BY <2>2, <2>3
<1>4. Done(m, s) = Final(d)
  BY <1>1, DoneHead DEF Final
<1>6. IsMemory(m)
  BY <1>1, <1>2, ExecutedIs
<1>. HIDE DEF e, s, t, m
<1>5. DevOK(e) /\ Final(e) = Done(m, s)
      /\ e.queue["default"] = s /\ e.queue["stream"] = t
  BY <1>1, <1>2, <1>3, <1>6, DeviceOf
<1>. QED  BY <1>4, <1>5 DEF e, s, t, m

LEMMA GoodSubmit ==
  ASSUME NEW bl \in Blocks, NEW d, Good(d, bl), NEW op, Clear(op, bl)
  PROVE  Good(Submit(d, "default", op), bl)
<1>. DEFINE e == Submit(d, "default", op)
            w == d.queue["default"]
<1>1. w \in Seq(Operation) /\ op \in Operation /\ DevOK(d) /\ QueuesOK(d, bl)
  BY FinalMemory DEF Good, Clear
<1>2. DevOK(e) /\ e.queue["default"] = Append(w, op) /\ e.queue["stream"] = d.queue["stream"]
  BY <1>1, SubmitDefault
<1>. HIDE DEF e, w
<1>3. \A i \in 1 .. Len(Append(w, op)) :
        IF i \in 1 .. Len(w) THEN Append(w, op)[i] = w[i] ELSE Append(w, op)[i] = op
  BY <1>1
<1>. QED  BY <1>1, <1>2, <1>3 DEF QueuesOK, Good, w, e

LEMMA GoodSubmitAll ==
  ASSUME NEW bl \in Blocks, NEW d, Good(d, bl),
         NEW ops \in Seq(Operation), \A i \in 1 .. Len(ops) : Clear(ops[i], bl)
  PROVE  Good(SubmitAll(d, "default", ops), bl)
<1>. DEFINE e == SubmitAll(d, "default", ops)
            w == d.queue["default"]
<1>1. w \in Seq(Operation) /\ DevOK(d) /\ QueuesOK(d, bl)
  BY FinalMemory DEF Good
<1>2. DevOK(e) /\ e.queue["default"] = w \o ops /\ e.queue["stream"] = d.queue["stream"]
  BY <1>1, SubmitAllDefault
<1>. HIDE DEF e, w
<1>3. \A i \in 1 .. Len(w \o ops) :
        IF i \in 1 .. Len(w) THEN (w \o ops)[i] = w[i]
        ELSE \E j \in 1 .. Len(ops) : (w \o ops)[i] = ops[j]
  <2>1. SUFFICES ASSUME NEW i \in 1 .. Len(w \o ops)
                 PROVE  IF i \in 1 .. Len(w) THEN (w \o ops)[i] = w[i]
                        ELSE \E j \in 1 .. Len(ops) : (w \o ops)[i] = ops[j]
    OBVIOUS
  <2>2. CASE i \in 1 .. Len(w)
    BY <1>1, <2>2
  <2>3. CASE i \notin 1 .. Len(w)
    <3>1. i - Len(w) \in 1 .. Len(ops) /\ (w \o ops)[i] = ops[i - Len(w)]
      BY <1>1, <2>3
    <3>. QED  BY <2>3, <3>1
  <2>. QED  BY <2>2, <2>3
<1>. QED  BY <1>1, <1>2, <1>3 DEF QueuesOK, Good, w, e

LEMMA GoodWait ==
  ASSUME NEW bl, NEW d, Good(d, bl)
  PROVE  Good(Waited(d, "default"), bl)
<1>. DEFINE e == Waited(d, "default")
<1>1. DevOK(e) /\ e.queue["default"] = << >> /\ e.queue["stream"] = d.queue["stream"]
  BY WaitDefault DEF Good
<1>. HIDE DEF e
<1>. QED  BY <1>1 DEF QueuesOK, Good, e

LEMMA GoodStep ==
  ASSUME NEW bl, NEW d, Good(d, bl), d.queue["default"] # << >>
  PROVE  Good(Step(d, "default"), bl)
<1>. DEFINE e == Step(d, "default")
            w == d.queue["default"]
<1>1. w \in Seq(Operation)
  BY FinalMemory DEF Good
<1>2. DevOK(e) /\ e.queue["default"] = Tail(w) /\ e.queue["stream"] = d.queue["stream"]
  BY StepDefault DEF Good
<1>. HIDE DEF e, w
<1>3. \A i \in 1 .. Len(Tail(w)) : i + 1 \in 1 .. Len(w) /\ Tail(w)[i] = w[i + 1]
  <2>1. w # << >>
    BY DEF w
  <2>. QED  BY <1>1, <2>1
<1>. QED  BY <1>2, <1>3 DEF QueuesOK, Good, w, e

(* The stream: it works on the container of the application only.          *)
LEMMA StreamWork ==
  ASSUME NEW bl \in Blocks, NEW d, Good(d, bl)
  PROVE  LET w == d.queue["stream"]
         IN  /\ w \in Seq(Operation)
             /\ \A i \in 1 .. Len(w) : Writes(w[i]) \cap Owned(bl) = {}
             /\ w # << >> =>
                  \A i \in 1 .. Len(d.queue["default"]) : Clear(d.queue["default"][i], bl)
  BY FinalMemory, WorkIs DEF Good, QueuesOK

LEMMA ClearIsSimilar ==
  ASSUME NEW bl, NEW op, Clear(op, bl)
  PROVE  Similar(op, op, bl)
  BY ClearSame DEF Similar

LEMMA ScratchIsSimilar ==
  ASSUME NEW bl, NEW op, Clear(op, bl), NEW sc \in Operation,
         Writes(sc) \cap Owned(bl) = {}, op \cup sc \in Operation
  PROVE  Similar(op \cup sc, op, bl)
<1>. SUFFICES ASSUME NEW m1, NEW m2, Same(m1, m2, bl)
              PROVE  Same(Executed(m1, op \cup sc), Executed(m2, op), bl)
  BY DEF Similar
<1>1. Same(Executed(m1, op \cup sc), Executed(m1, op), bl)
  BY ScratchSame DEF Same
<1>2. Same(Executed(m1, op), Executed(m2, op), bl)
  BY ClearSame
<1>. QED  BY <1>1, <1>2, SameIsEquivalence

LEMMA WaitStream ==
  ASSUME NEW bl \in Blocks, NEW d, Good(d, bl)
  PROVE  LET e == Waited(d, "stream")
         IN  /\ Good(e, bl) /\ Same(Final(e), Final(d), bl) /\ Same(e.mem, d.mem, bl)
             /\ e.queue["stream"] = << >>
             /\ e.queue["default"] = d.queue["default"]
<1>. DEFINE e == Waited(d, "stream")
            w == d.queue["stream"]
            v == d.queue["default"]
            m == Done(d.mem, w)
<1>1. /\ w \in Seq(Operation) /\ \A i \in 1 .. Len(w) : Writes(w[i]) \cap Owned(bl) = {}
      /\ w # << >> => \A i \in 1 .. Len(v) : Clear(v[i], bl)
  BY StreamWork
<1>2. v \in Seq(Operation) /\ IsMemory(d.mem) /\ IsMemory(m) /\ IsMemory(Final(d))
  BY <1>1, FinalMemory, DoneMemory DEF Good
<1>3. e = [mem |-> m, queue |-> [q \in Queue |-> IF q = "default" THEN v ELSE << >>]]
  <2>1. "stream" \in Queue /\ DevOK(d)
    BY DEF Queue, Good
  <2>2. e = [mem |-> m, queue |-> [q \in Queue |-> IF q = "stream" THEN << >> ELSE d.queue[q]]]
    BY <2>1, WaitedIs
  <2>3. [q \in Queue |-> IF q = "stream" THEN << >> ELSE d.queue[q]] =
        [q \in Queue |-> IF q = "default" THEN v ELSE << >>]
    BY DEF Queue
  <2>. QED  BY <2>2, <2>3
<1>4. Same(m, d.mem, bl)
  BY <1>1, <1>2, DoneElsewhere
<1>5. Same(Done(m, v), Done(d.mem, v), bl)
  <2>1. CASE w = << >>
    <3>1. m = d.mem
      BY <2>1, DoneEmpty
    <3>2. IsMemory(Done(d.mem, v))
      BY <1>2, DoneMemory
    <3>. QED  BY <3>1, <3>2, SameIsEquivalence
  <2>2. CASE w # << >>
    <3>1. \A i \in 1 .. Len(v) : Similar(v[i], v[i], bl)
      BY <1>1, <2>2, ClearIsSimilar
    <3>. QED  BY <1>2, <1>4, <3>1, DoneSame
  <2>. QED  BY <2>1, <2>2
<1>. HIDE DEF e, m
<1>6. << >> \in Seq(Operation)
  OBVIOUS
<1>7. /\ DevOK(e) /\ e.mem = m /\ Final(e) = Done(m, v)
      /\ e.queue["default"] = v /\ e.queue["stream"] = << >>
  <2>. DEFINE t == << >>
  <2>1. t \in Seq(Operation)
        /\ e = [mem |-> m, queue |-> [q \in Queue |-> IF q = "default" THEN v ELSE t]]
    BY <1>3, <1>6
  <2>. HIDE DEF v, w, t
  <2>2. e.queue["default"] = v /\ e.queue["stream"] = t /\ DevOK(e) /\ e.mem = m
        /\ Final(e) = Done(m, v)
    BY <1>2, <2>1, DeviceOf
  <2>. QED  BY <2>2 DEF t
<1>8. QueuesOK(e, bl)
  BY <1>7 DEF QueuesOK, Good
<1>. QED  BY <1>4, <1>5, <1>7, <1>8 DEF Good, Final, e

LEMMA StepStream ==
  ASSUME NEW bl \in Blocks, NEW d, Good(d, bl), d.queue["stream"] # << >>
  PROVE  LET e == Step(d, "stream")
         IN  /\ Good(e, bl) /\ Same(Final(e), Final(d), bl)
             /\ e.queue["stream"] = Tail(d.queue["stream"])
             /\ e.queue["default"] = d.queue["default"]
<1>. DEFINE e == Step(d, "stream")
            w == d.queue["stream"]
            v == d.queue["default"]
            m == Executed(d.mem, Head(w))
            t == Tail(w)
<1>1. /\ w \in Seq(Operation) /\ \A i \in 1 .. Len(w) : Writes(w[i]) \cap Owned(bl) = {}
      /\ \A i \in 1 .. Len(v) : Clear(v[i], bl)
  BY StreamWork
<1>2. /\ t \in Seq(Operation) /\ Head(w) \in Operation /\ 1 \in 1 .. Len(w) /\ Head(w) = w[1]
      /\ \A i \in 1 .. Len(t) : i + 1 \in 1 .. Len(w) /\ t[i] = w[i + 1]
  BY <1>1
<1>3. v \in Seq(Operation) /\ IsMemory(d.mem) /\ IsMemory(m)
  BY <1>2, FinalMemory, ExecutedIs DEF Good
<1>4. e = [mem |-> m, queue |-> [q \in Queue |-> IF q = "default" THEN v ELSE t]]
  <2>1. "stream" \in Queue /\ DevOK(d)
    BY DEF Queue, Good
  <2>2. e = [mem |-> m, queue |-> [q \in Queue |-> IF q = "stream" THEN t ELSE d.queue[q]]]
    BY <2>1, StepIs
  <2>3. [q \in Queue |-> IF q = "stream" THEN t ELSE d.queue[q]] =
        [q \in Queue |-> IF q = "default" THEN v ELSE t]
    BY DEF Queue
  <2>. QED  BY <2>2, <2>3
<1>5. Same(m, d.mem, bl)
  BY <1>1, <1>2, <1>3, ElsewhereSame
<1>6. \A i \in 1 .. Len(v) : Similar(v[i], v[i], bl)
  BY <1>1, ClearIsSimilar
<1>7. Same(Done(m, v), Done(d.mem, v), bl)
  BY <1>3, <1>5, <1>6, DoneSame
<1>. HIDE DEF e, m
<1>8. /\ DevOK(e) /\ Final(e) = Done(m, v)
      /\ e.queue["default"] = v /\ e.queue["stream"] = t
  <2>. HIDE DEF v, w, t
  <2>. QED  BY <1>2, <1>3, <1>4, DeviceOf
<1>9. QueuesOK(e, bl)
  <2>1. \A i \in 1 .. Len(t) : bl["temp"] # "none" /\ t[i] = Work(bl)
    BY <1>2 DEF QueuesOK, Good
  <2>. QED  BY <1>1, <1>8, <2>1 DEF QueuesOK
<1>. QED  BY <1>7, <1>8, <1>9 DEF Good, Final, e

-----------------------------------------------------------------------------
(* The calls of BLAS, on the queue of the handle. *)

(* A call that waits for its queue, with operations similar to ops2.       *)
LEMMA SubmitAndWait ==
  ASSUME NEW bl \in Blocks, NEW d, Good(d, bl), NEW q \in Queue,
         q = "stream" => d.queue["default"] = << >>,
         NEW ops \in Seq(Operation), NEW ops2 \in Seq(Operation), Len(ops) = Len(ops2),
         \A i \in 1 .. Len(ops) : Similar(ops[i], ops2[i], bl)
  PROVE  LET e == Waited(SubmitAll(d, q, ops), q)
         IN  /\ Good(e, bl) /\ Same(Final(e), Done(Final(d), ops2), bl)
             /\ q = "default" => e.queue["stream"] = d.queue["stream"]
             /\ e.queue["default"] = << >>
<1>. DEFINE e1 == SubmitAll(d, q, ops)
            e == Waited(e1, q)
            w == d.queue["stream"]
<1>1. DevOK(d) /\ IsMemory(Final(d)) /\ IsMemory(d.mem) /\ w \in Seq(Operation)
      /\ QueuesOK(d, bl)
  BY FinalMemory DEF Good
<1>2. CASE q = "default"
  <2>. DEFINE s == d.queue["default"] \o ops
  <2>1. DevOK(e1) /\ Final(e1) = Done(Final(d), ops) /\ e1.queue["stream"] = w
    BY <1>1, <1>2, SubmitAllDefault
  <2>. HIDE DEF e1
  <2>2. DevOK(e) /\ Final(e) = Final(e1) /\ e.queue["default"] = << >> /\ e.queue["stream"] = w
    BY <1>2, <2>1, WaitDefault
  <2>3. Same(Done(Final(d), ops), Done(Final(d), ops2), bl)
    BY <1>1, SameIsEquivalence, DoneSame
  <2>. HIDE DEF e
  <2>4. QueuesOK(e, bl)
    BY <1>1, <2>2 DEF QueuesOK
  <2>. QED  BY <2>1, <2>2, <2>3, <2>4 DEF Good, e, e1
<1>3. CASE q = "stream"
  <2>. DEFINE s == w \o ops
              none == << >>
              m == Done(d.mem, s)
  <2>1. s \in Seq(Operation) /\ none \in Seq(Operation)
    BY <1>1
  <2>2. d.queue["default"] = none
    BY <1>3
  <2>. HIDE DEF none
  <2>3. e1 = [mem |-> d.mem, queue |-> [r \in Queue |-> IF r = "default" THEN none ELSE s]]
    <3>1. e1 = SubmitAll(d, "stream", ops) /\ "stream" \in Queue
      BY <1>3
    <3>2. e1 = [mem |-> d.mem,
                queue |-> [r \in Queue |-> IF r = "stream" THEN s ELSE d.queue[r]]]
      BY <1>1, <3>1, SubmitAllIs
    <3>3. [r \in Queue |-> IF r = "stream" THEN s ELSE d.queue[r]] =
          [r \in Queue |-> IF r = "default" THEN none ELSE s]
      BY <2>2 DEF Queue
    <3>. QED  BY <3>2, <3>3
  <2>4. DevOK(e1) /\ e1.mem = d.mem /\ e1.queue["default"] = none /\ e1.queue["stream"] = s
    <3>. HIDE DEF e1, s, w, m
    <3>. QED  BY <1>1, <2>1, <2>3, DeviceOf
  <2>. HIDE DEF e1, s
  <2>5. e = [mem |-> m, queue |-> [r \in Queue |-> IF r = "default" THEN none ELSE none]]
    <3>1. e = [mem |-> m, queue |-> [r \in Queue |-> IF r = q THEN << >> ELSE e1.queue[r]]]
      BY <1>3, <2>4, WaitedIs
    <3>2. [r \in Queue |-> IF r = q THEN << >> ELSE e1.queue[r]] =
          [r \in Queue |-> IF r = "default" THEN none ELSE none]
      BY <1>3, <2>4 DEF Queue, none
    <3>. QED  BY <3>1, <3>2
  <2>6. m = Done(Done(d.mem, w), ops)
    BY <1>1, DoneConcat DEF s
  <2>7. IsMemory(m)
    BY <1>1, <2>1, DoneMemory
  <2>. HIDE DEF m
  <2>8. DevOK(e) /\ e.mem = m /\ Final(e) = Done(m, none)
        /\ e.queue["default"] = none /\ e.queue["stream"] = none
    <3>. HIDE DEF e
    <3>. QED  BY <2>1, <2>5, <2>7, DeviceOf
  <2>9. Final(e) = m /\ Final(d) = d.mem
    BY <1>1, <2>2, <2>8, DoneEmpty, FinalMemory DEF none
  <2>10. Same(Done(d.mem, w), d.mem, bl)
    BY <1>1, StreamWork, DoneElsewhere
  <2>11. Same(m, Done(d.mem, ops2), bl)
    BY <2>6, <2>10, DoneSame
  <2>. HIDE DEF e
  <2>12. QueuesOK(e, bl)
    BY <2>8 DEF QueuesOK, none
  <2>. QED  BY <1>3, <2>8, <2>9, <2>11, <2>12 DEF Good, e, e1, none
<1>. QED  BY <1>2, <1>3 DEF Queue

(* One operation is a sequence of one.                                     *)
LEMMA SubmitOne ==
  ASSUME NEW d, DevOK(d), NEW q \in Queue, NEW op \in Operation
  PROVE  Submit(d, q, op) = SubmitAll(d, q, <<op>>)
<1>1. d.queue[q] \in Seq(Operation)
  BY DEF DevOK
<1>2. Append(d.queue[q], op) = d.queue[q] \o <<op>>
  BY <1>1
<1>3. Submit(d, q, op) = WithQueue(d, q, Append(d.queue[q], op))
  BY DEF Submit, WithQueue
<1>4. SubmitAll(d, q, <<op>>) = WithQueue(d, q, d.queue[q] \o <<op>>)
  BY DEF SubmitAll, WithQueue
<1>. QED  BY <1>2, <1>3, <1>4

(* Work that is ordered with what waits: the queue of the handle, and the  *)
(* backend that may be.                                                    *)
HandleOK(d, q, bu) ==
  /\ q \in Queue
  /\ q = "stream" => d.queue["default"] = << >>
  /\ BackendOK(d, q, bu)

(* The effect of a call of ops: memory in the end, and nothing the queues  *)
(* may not have.                                                           *)
Effect(e, d, ops, bl, q, bu) ==
  /\ Good(e, bl)
  /\ Same(Final(e), Done(Final(d), ops), bl)
  /\ BackendOK(e, q, bu)

Backends == {"sycl", "cuda", "hip", "host"}

LEMMA BuildIs ==
  ASSUME NEW bu \in Build
  PROVE  bu.backend \in Backends /\ bu \in BuildType
  BY ConstantsAssumption DEF ConstantsAssumption, BuildType, Backends

(* SYCL: scratch memory from a free block.                                 *)
LEMMA SyclBatchedIs ==
  ASSUME NEW bl \in Blocks, NEW d, Good(d, bl), NEW bu \in Build, bu.backend = "sycl",
         NEW q, HandleOK(d, q, bu), NEW S \in SUBSET FreeIn(bl),
         NEW ops \in Seq(Operation), \A i \in 1 .. Len(ops) : Clear(ops[i], bl),
         S = {} \/ \E p \in S : S = {p}
  PROVE  Effect(SyclBatched(d, q, ops, S), d, ops, bl, q, bu)
<1>. DEFINE more == [i \in DOMAIN ops |-> ops[i] \cup Scratch(S)]
            e1 == Waited(SubmitAll(d, q, more), q)
            r == IF S = {} THEN q ELSE "default"
            e == Waited(e1, r)
            sc == Scratch(S)
<1>1. sc \in Operation /\ Writes(sc) \cap Owned(bl) = {}
  <2>1. CASE S = {}
    <3>1. sc = {}
      BY <2>1 DEF Scratch
    <3>2. {} \in Operation
      BY DEF Operation, Functional
    <3>. QED  BY <3>1, <3>2 DEF Writes
  <2>2. ASSUME NEW p \in S, S = {p} PROVE sc \in Operation /\ Writes(sc) \cap Owned(bl) = {}
    <3>1. p \in Pool /\ p \in FreeIn(bl)
      BY DEF FreeIn
    <3>2. sc \in Operation /\ Writes(sc) = BufferOf({p})
      BY <2>2, <3>1, ScratchIs
    <3>3. BufferOf({p}) \subseteq BufferOf(FreeIn(bl))
      BY <3>1 DEF BufferOf
    <3>. QED  BY <3>2, <3>3, FreeIs
  <2>. QED  BY <2>1, <2>2
<1>. HIDE DEF sc
<1>2. ASSUME NEW i \in 1 .. Len(ops)
      PROVE  ops[i] \cup sc \in Operation /\ Similar(ops[i] \cup sc, ops[i], bl)
  <2>1. Clear(ops[i], bl) /\ ops[i] \in Operation
    BY DEF Clear
  <2>2. Writes(ops[i]) \cap Writes(sc) = {}
    BY <1>1, <2>1 DEF Clear, Touches
  <2>3. ops[i] \cup sc \in Operation
    BY <1>1, <2>1, <2>2 DEF Operation, Functional, Writes
  <2>. QED  BY <1>1, <2>1, <2>3, ScratchIsSimilar
<1>3. more \in Seq(Operation) /\ Len(more) = Len(ops)
      /\ \A i \in 1 .. Len(more) : Similar(more[i], ops[i], bl)
  <2>1. more = [i \in 1 .. Len(ops) |-> ops[i] \cup sc] /\ Len(ops) \in Nat
    BY DEF sc
  <2>. HIDE DEF more
  <2>2. more \in [1 .. Len(ops) -> Operation]
    BY <1>2, <2>1
  <2>3. more \in Seq(Operation) /\ Len(more) = Len(ops)
    BY <2>1, <2>2
  <2>. QED  BY <1>2, <2>1, <2>3
<1>. HIDE DEF more
<1>4. q \in Queue /\ (q = "stream" => d.queue["default"] = << >>)
  BY DEF HandleOK
<1>5. /\ Good(e1, bl) /\ Same(Final(e1), Done(Final(d), ops), bl)
      /\ e1.queue["default"] = << >>
  BY <1>3, <1>4, SubmitAndWait
<1>. HIDE DEF e1
<1>6. Good(e, bl) /\ Same(Final(e), Final(e1), bl)
  <2>1. CASE r = "default"
    <3>1. Good(Waited(e1, "default"), bl) /\ Final(Waited(e1, "default")) = Final(e1)
      BY <1>5, GoodWait, WaitDefault DEF Good
    <3>. QED  BY <1>5, <2>1, <3>1, SameIsEquivalence DEF Same
  <2>2. CASE r = "stream"
    BY <1>5, <2>2, WaitStream
  <2>. QED  BY <1>4, <2>1, <2>2 DEF Queue
<1>7. Same(Final(e), Done(Final(d), ops), bl)
  BY <1>5, <1>6, SameIsEquivalence
<1>8. SyclBatched(d, q, ops, S) = e
  BY DEF SyclBatched, e1, more
<1>9. BackendOK(e, q, bu)
  BY DEF BackendOK
<1>. HIDE DEF e
<1>. QED  BY <1>6, <1>7, <1>8, <1>9 DEF Effect

(* Calls that do not wait, on CUDA and HIP and on the default queue.       *)
LEMMA SubmitEffect ==
  ASSUME NEW bl \in Blocks, NEW d, Good(d, bl), NEW bu \in Build, bu.backend # "host",
         NEW q, BackendOK(d, q, bu),
         NEW ops \in Seq(Operation), \A i \in 1 .. Len(ops) : Clear(ops[i], bl)
  PROVE  Effect(SubmitAll(d, "default", ops), d, ops, bl, q, bu)
<1>. DEFINE e == SubmitAll(d, "default", ops)
<1>1. DevOK(d) /\ IsMemory(Final(d))
  BY FinalMemory DEF Good
<1>2. Good(e, bl)
  BY GoodSubmitAll
<1>3. Final(e) = Done(Final(d), ops) /\ e.queue["stream"] = d.queue["stream"]
  BY <1>1, SubmitAllDefault
<1>4. Same(Final(e), Done(Final(d), ops), bl)
  BY <1>1, <1>3, DoneMemory, SameIsEquivalence
<1>. HIDE DEF e
<1>5. BackendOK(e, q, bu)
  BY <1>3 DEF BackendOK
<1>. QED  BY <1>2, <1>4, <1>5 DEF Effect, e

(* The host: the queues are empty, and memory is changed at once.          *)
LEMMA HostEffect ==
  ASSUME NEW bl \in Blocks, NEW d, Good(d, bl), NEW bu \in Build, bu.backend = "host",
         NEW q, BackendOK(d, q, bu),
         NEW m, IsMemory(m), NEW ops \in Seq(Operation), Same(m, Done(d.mem, ops), bl),
         NEW e, e = [d EXCEPT !.mem = m]
  PROVE  Effect(e, d, ops, bl, q, bu)
<1>1. e.mem = m /\ e.queue = d.queue /\ DevOK(e)
  BY DEF Good, DevOK
<1>2. e.queue["default"] = << >> /\ e.queue["stream"] = << >>
  BY <1>1 DEF BackendOK
<1>3. Final(e) = m /\ Final(d) = d.mem
  BY <1>1, <1>2, FinalMemory DEF Good
<1>4. QueuesOK(e, bl) /\ BackendOK(e, q, bu)
  BY <1>1, <1>2 DEF QueuesOK, BackendOK
<1>. QED  BY <1>1, <1>3, <1>4 DEF Good, Effect

(* Level 1 and 2.                                                          *)
LEMMA CallIs ==
  ASSUME NEW bl \in Blocks, NEW d, Good(d, bl), NEW bu \in Build,
         NEW q, HandleOK(d, q, bu), NEW op, Clear(op, bl)
  PROVE  Effect(Call(bu.backend, d, q, op), d, <<op>>, bl, q, bu)
<1>. DEFINE ops == <<op>>
            e == Call(bu.backend, d, q, op)
<1>1. op \in Operation /\ DevOK(d) /\ q \in Queue /\ BackendOK(d, q, bu)
  BY DEF Clear, Good, HandleOK
<1>2. ops \in Seq(Operation) /\ Len(ops) = 1 /\ ops[1] = op
  BY <1>1
<1>. HIDE DEF ops
<1>3. \A i \in 1 .. Len(ops) : Clear(ops[i], bl) /\ Similar(ops[i], ops[i], bl)
  BY <1>2, ClearIsSimilar
<1>4. Submit(d, q, op) = SubmitAll(d, q, ops)
  BY <1>1, SubmitOne DEF ops
<1>5. CASE bu.backend = "sycl"
  <2>. DEFINE f == Waited(SubmitAll(d, q, ops), q)
  <2>1. e = f
    BY <1>4, <1>5 DEF Call, SyclCall
  <2>. HIDE DEF f, e
  <2>2. Good(f, bl) /\ Same(Final(f), Done(Final(d), ops), bl)
    BY <1>1, <1>2, <1>3, SubmitAndWait DEF HandleOK, f
  <2>3. BackendOK(f, q, bu)
    BY <1>5 DEF BackendOK
  <2>. QED  BY <2>1, <2>2, <2>3 DEF Effect, e, ops
<1>6. CASE bu.backend \in {"cuda", "hip"}
  <2>1. q = "default"
    BY <1>1, <1>6 DEF BackendOK, Queue
  <2>2. e = SubmitAll(d, "default", ops)
    BY <1>4, <1>6, <2>1 DEF Call, CudaCall, HipCall
  <2>. QED  BY <1>1, <1>2, <1>3, <1>6, <2>2, SubmitEffect DEF ops
<1>7. CASE bu.backend = "host"
  <2>. DEFINE m == Executed(d.mem, op)
  <2>1. e = [d EXCEPT !.mem = m]
    BY <1>7 DEF Call, HostCall
  <2>2. m = Done(d.mem, ops)
    BY <1>1, DoneOne DEF ops
  <2>3. IsMemory(m)
    BY <1>1, FinalMemory, ExecutedIs
  <2>. HIDE DEF m, e
  <2>4. Same(m, Done(d.mem, ops), bl)
    BY <2>2, <2>3, SameIsEquivalence
  <2>. QED  BY <1>1, <1>2, <1>7, <2>1, <2>3, <2>4, HostEffect DEF ops, e
<1>. QED  BY <1>5, <1>6, <1>7, BuildIs DEF Backends

(* The batched calls on a device.                                          *)
LEMMA BatchedCallIs ==
  ASSUME NEW bl \in Blocks, NEW d, Good(d, bl), NEW bu \in Build, bu.backend # "host",
         NEW q, HandleOK(d, q, bu), NEW S \in SUBSET FreeIn(bl),
         S = {} \/ \E p \in S : S = {p},
         NEW ops \in Seq(Operation), \A i \in 1 .. Len(ops) : Clear(ops[i], bl)
  PROVE  Effect(BatchedCall(bu.backend, d, q, ops, S), d, ops, bl, q, bu)
<1>. DEFINE e == BatchedCall(bu.backend, d, q, ops, S)
<1>1. BackendOK(d, q, bu) /\ q \in Queue
  BY DEF HandleOK
<1>2. CASE bu.backend = "sycl"
  <2>1. e = SyclBatched(d, q, ops, S)
    BY <1>2 DEF BatchedCall
  <2>. QED  BY <1>2, <2>1, SyclBatchedIs
<1>3. CASE bu.backend \in {"cuda", "hip"}
  <2>1. q = "default"
    BY <1>1, <1>3 DEF BackendOK, Queue
  <2>2. e = SubmitAll(d, "default", ops)
    BY <1>3, <2>1 DEF BatchedCall, CudaBatched, HipBatched
  <2>. QED  BY <1>1, <1>3, <2>2, SubmitEffect
<1>. QED  BY <1>2, <1>3, BuildIs DEF Backends

-----------------------------------------------------------------------------
(* The terms that operations leave. *)

(* Nothing but array to differs between m and e.                           *)
Wrote(e, m, to) ==
  IsMemory(e) /\ \A c \in Bufs : c \notin BufferOf({to}) => e[c] = m[c]

LEMMA BatchedWrote ==
  ASSUME NEW to \in Arrays, NEW name \in Name, NEW from \in Seq(Arrays),
         NEW m, IsMemory(m)
  PROVE  Wrote(Executed(m, Batched(to, name, from)), m, to)
<1>. DEFINE op == Batched(to, name, from)
<1>1. op \in Operation /\ Writes(op) = BufferOf({to})
  BY BatchedIs
<1>. HIDE DEF op
<1>. QED  BY <1>1, ExecutedIs DEF Wrote, op

LEMMA BatchedValue ==
  ASSUME NEW to \in Arrays, NEW name \in Name, NEW from \in Seq(Arrays),
         NEW m, IsMemory(m), NEW b \in Batch
  PROVE  Executed(m, Batched(to, name, from))[Buffer(to, b)]
           = Result(m, StoreOf(to, name, from, b))
<1>. DEFINE op == Batched(to, name, from)
            s == StoreOf(to, name, from, b)
<1>1. op \in Operation /\ op = {StoreOf(to, name, from, c) : c \in Batch}
  BY BatchedIs
<1>2. s \in op
  BY <1>1
<1>3. s.to = Buffer(to, b)
  BY DEF StoreOf
<1>. HIDE DEF op, s
<1>4. Executed(m, op)[s.to] = Result(m, s)
  BY <1>1, <1>2, ExecutedIs
<1>. QED  BY <1>3, <1>4 DEF op, s

Term(name, args) == <<name>> \o args

(* A name before its arguments.                                            *)
LEMMA Prefixed ==
  /\ \A f, x : Term(f, <<x>>) = <<f, x>>
  /\ \A f, x, y : Term(f, <<x, y>>) = <<f, x, y>>
  /\ \A f, x, y, z : Term(f, <<x, y, z>>) = <<f, x, y, z>>
<1>1. ASSUME NEW f, NEW x PROVE <<f>> \o <<x>> = <<f, x>>
  <2>. DEFINE T == {f, x}
              w == <<f>> \o <<x>>
  <2>1. <<f>> \in Seq(T) /\ <<x>> \in Seq(T)
    OBVIOUS
  <2>2. w \in Seq(T) /\ Len(w) = 2 /\ w[1] = f /\ w[2] = x
    BY <2>1
  <2>. HIDE DEF w, T
  <2>3. w = [i \in 1 .. 2 |-> w[i]]
    BY <2>2
  <2>4. <<f, x>> = [i \in 1 .. 2 |-> IF i = 1 THEN f ELSE x]
    OBVIOUS
  <2>5. w = <<f, x>>
    BY <2>2, <2>3, <2>4
  <2>. QED  BY <2>5 DEF w
<1>2. ASSUME NEW f, NEW x, NEW y PROVE <<f>> \o <<x, y>> = <<f, x, y>>
  <2>. DEFINE T == {f, x, y}
              w == <<f>> \o <<x, y>>
  <2>1. <<f>> \in Seq(T)
    OBVIOUS
  <2>2. <<x, y>> \in Seq(T)
    OBVIOUS
  <2>3. w \in Seq(T) /\ Len(w) = 3 /\ w[1] = f /\ w[2] = x /\ w[3] = y
    BY <2>1, <2>2
  <2>. HIDE DEF w, T
  <2>4. w = [i \in 1 .. 3 |-> w[i]]
    BY <2>3
  <2>5. <<f, x, y>> = [i \in 1 .. 3 |-> IF i = 1 THEN f ELSE IF i = 2 THEN x ELSE y]
    OBVIOUS
  <2>6. w = <<f, x, y>>
    BY <2>3, <2>4, <2>5
  <2>. QED  BY <2>6 DEF w
<1>3. ASSUME NEW f, NEW x, NEW y, NEW z PROVE <<f>> \o <<x, y, z>> = <<f, x, y, z>>
  <2>. DEFINE T == {f, x, y, z}
              w == <<f>> \o <<x, y, z>>
  <2>1. <<f>> \in Seq(T)
    OBVIOUS
  <2>2. <<x, y, z>> \in Seq(T)
    OBVIOUS
  <2>3. w \in Seq(T) /\ Len(w) = 4 /\ w[1] = f /\ w[2] = x /\ w[3] = y /\ w[4] = z
    BY <2>1, <2>2
  <2>. HIDE DEF w, T
  <2>4. w = [i \in 1 .. 4 |-> w[i]]
    BY <2>3
  <2>5. <<f, x, y, z>> =
          [i \in 1 .. 4 |-> IF i = 1 THEN f ELSE IF i = 2 THEN x ELSE IF i = 3 THEN y ELSE z]
    OBVIOUS
  <2>6. w = <<f, x, y, z>>
    BY <2>3, <2>4, <2>5
  <2>. QED  BY <2>6 DEF w
<1>. QED  BY <1>1, <1>2, <1>3 DEF Term

(* The values of the arguments, for matrix b.                              *)
Values(m, from, b) == [i \in DOMAIN from |-> m[Buffer(from[i], b)]]

LEMMA ResultOf ==
  ASSUME NEW m, NEW to, NEW name, NEW from, NEW b
  PROVE  Result(m, StoreOf(to, name, from, b)) =
           IF name = "copy" THEN Values(m, from, b)[1] ELSE Term(name, Values(m, from, b))
<1>. DEFINE args == [i \in DOMAIN from |-> Buffer(from[i], b)]
            s == StoreOf(to, name, from, b)
<1>1. s.name = name /\ s.from = args
  BY DEF StoreOf
<1>. HIDE DEF s
<1>2. Result(m, s) = LET vals == [i \in DOMAIN args |-> m[args[i]]]
                     IN  IF name = "copy" THEN vals[1] ELSE <<name>> \o vals
  BY <1>1 DEF Result
<1>3. [i \in DOMAIN args |-> m[args[i]]] = Values(m, from, b)
  BY DEF Values
<1>. HIDE DEF args
<1>. QED  BY <1>2, <1>3 DEF s, Term

(* A copy, and anything else. *)
LEMMA CopyResult ==
  ASSUME NEW m, NEW to, NEW from, NEW b
  PROVE  Result(m, StoreOf(to, "copy", from, b)) = Values(m, from, b)[1]
  BY ResultOf

LEMMA TermResult ==
  ASSUME NEW m, NEW to, NEW name, name # "copy", NEW from, NEW b
  PROVE  Result(m, StoreOf(to, name, from, b)) = Term(name, Values(m, from, b))
  BY ResultOf

(* What an operation on a whole array stores, by its arguments.            *)
LEMMA CopyValue ==
  ASSUME NEW to \in Arrays, NEW a \in Arrays, NEW m, IsMemory(m), NEW b \in Batch
  PROVE  Executed(m, Batched(to, "copy", <<a>>))[Buffer(to, b)] = m[Buffer(a, b)]
<1>. DEFINE from == <<a>>
<1>1. "copy" \in Name /\ from \in Seq(Arrays)
  BY DEF Name
<1>2. Values(m, from, b) = <<m[Buffer(a, b)]>>
  BY DEF Values
<1>. HIDE DEF from
<1>3. Result(m, StoreOf(to, "copy", from, b)) = Values(m, from, b)[1]
  BY CopyResult
<1>4. Executed(m, Batched(to, "copy", from))[Buffer(to, b)] = Result(m, StoreOf(to, "copy", from, b))
  BY <1>1, BatchedValue
<1>. QED  BY <1>2, <1>3, <1>4 DEF from

LEMMA OneValue ==
  ASSUME NEW to \in Arrays, NEW name \in Name, name # "copy",
         NEW x \in Arrays,
         NEW m, IsMemory(m), NEW b \in Batch
  PROVE  Executed(m, Batched(to, name, <<x>>))[Buffer(to, b)] =
           <<name, m[Buffer(x, b)]>>
<1>. DEFINE from == <<x>>
            vals == <<m[Buffer(x, b)]>>
<1>1. from \in Seq(Arrays)
  OBVIOUS
<1>2. Values(m, from, b) = vals
  BY DEF Values
<1>3. Term(name, vals) = <<name, m[Buffer(x, b)]>>
  BY Prefixed
<1>. HIDE DEF from, vals
<1>4. Result(m, StoreOf(to, name, from, b)) = Term(name, Values(m, from, b))
  BY TermResult
<1>5. Executed(m, Batched(to, name, from))[Buffer(to, b)] = Result(m, StoreOf(to, name, from, b))
  BY <1>1, BatchedValue
<1>. QED  BY <1>2, <1>3, <1>4, <1>5 DEF from

LEMMA TwoValue ==
  ASSUME NEW to \in Arrays, NEW name \in Name, name # "copy",
         NEW x \in Arrays, NEW y \in Arrays,
         NEW m, IsMemory(m), NEW b \in Batch
  PROVE  Executed(m, Batched(to, name, <<x, y>>))[Buffer(to, b)] =
           <<name, m[Buffer(x, b)], m[Buffer(y, b)]>>
<1>. DEFINE from == <<x, y>>
            vals == <<m[Buffer(x, b)], m[Buffer(y, b)]>>
<1>1. from \in Seq(Arrays)
  OBVIOUS
<1>2. Values(m, from, b) = vals
  BY DEF Values
<1>3. Term(name, vals) = <<name, m[Buffer(x, b)], m[Buffer(y, b)]>>
  BY Prefixed
<1>. HIDE DEF from, vals
<1>4. Result(m, StoreOf(to, name, from, b)) = Term(name, Values(m, from, b))
  BY TermResult
<1>5. Executed(m, Batched(to, name, from))[Buffer(to, b)] = Result(m, StoreOf(to, name, from, b))
  BY <1>1, BatchedValue
<1>. QED  BY <1>2, <1>3, <1>4, <1>5 DEF from

LEMMA ThreeValue ==
  ASSUME NEW to \in Arrays, NEW name \in Name, name # "copy",
         NEW x \in Arrays, NEW y \in Arrays, NEW z \in Arrays,
         NEW m, IsMemory(m), NEW b \in Batch
  PROVE  Executed(m, Batched(to, name, <<x, y, z>>))[Buffer(to, b)] =
           <<name, m[Buffer(x, b)], m[Buffer(y, b)], m[Buffer(z, b)]>>
<1>. DEFINE from == <<x, y, z>>
            vals == <<m[Buffer(x, b)], m[Buffer(y, b)], m[Buffer(z, b)]>>
<1>1. from \in Seq(Arrays)
  OBVIOUS
<1>2. Values(m, from, b) = vals
  BY DEF Values
<1>3. Term(name, vals) = <<name, m[Buffer(x, b)], m[Buffer(y, b)], m[Buffer(z, b)]>>
  BY Prefixed
<1>. HIDE DEF from, vals
<1>4. Result(m, StoreOf(to, name, from, b)) = Term(name, Values(m, from, b))
  BY TermResult
<1>5. Executed(m, Batched(to, name, from))[Buffer(to, b)] = Result(m, StoreOf(to, name, from, b))
  BY <1>1, BatchedValue
<1>. QED  BY <1>2, <1>3, <1>4, <1>5 DEF from

-----------------------------------------------------------------------------
(* What keeps the arrays of the application and of the solvers. *)

ArrayFacts == Pool \cap Array = {} /\ AppArray \subseteq Array /\ Array \subseteq Arrays

LEMMA ArraysAre == ArrayFacts
  BY ConstantsAssumption DEF ConstantsAssumption, ArrayFacts, Arrays, AppArray, Array

(* The arrays that keep their block are owned.                             *)
LEMMA ArrayOwned ==
  ASSUME NEW bl \in Blocks
  PROVE  BufferOf(Array) \subseteq Owned(bl) /\ BufferOf(AppArray) \subseteq BufferOf(Array)
<1>1. BufferOf(AppArray) \subseteq BufferOf(Array)
  BY ArraysAre DEF ArrayFacts, BufferOf
<1>2. ASSUME NEW c \in BufferOf(Array) PROVE c \in Owned(bl)
  <2>1. PICK a \in Array, b \in Batch : c = Buffer(a, b)
    BY DEF BufferOf
  <2>2. a \notin Pool
    BY ArraysAre DEF ArrayFacts
  <2>3. c \in Bufs
    BY <2>1 DEF BufferOf, Bufs
  <2>4. c \notin BufferOf(FreeIn(bl))
    BY <2>1, <2>2, BufferIn DEF FreeIn
  <2>5. c \notin Temp(bl)
    <3>1. CASE bl["temp"] = "none"
      BY <3>1 DEF Temp
    <3>2. CASE bl["temp"] # "none"
      <4>1. bl["temp"] \in Pool /\ Temp(bl) = BufferOf({bl["temp"]})
        BY <3>2, WorkIs
      <4>. QED  BY <2>1, <2>2, <4>1, BufferIn
    <3>. QED  BY <3>1, <3>2
  <2>. QED  BY <2>3, <2>4, <2>5 DEF Owned
<1>. QED  BY <1>1, <1>2

(* So are the blocks of containers other than the application's.           *)
LEMMA BlockOwned ==
  ASSUME NEW bl, NEW ph, NEW bu, BlocksOK(bl, ph, bu), NEW w \in Vector, w # "temp",
         bl[w] # "none"
  PROVE  BufferOf({bl[w]}) \subseteq Owned(bl) /\ bl[w] \in Pool
<1>1. bl \in Blocks /\ bl[w] \in Pool /\ bl[w] \notin FreeIn(bl)
      /\ (bl["temp"] # "none" => bl["temp"] # bl[w])
  BY DEF BlocksOK, Blocks, FreeIn, Vector
<1>2. ASSUME NEW b \in Batch PROVE Buffer(bl[w], b) \in Owned(bl)
  <2>1. Buffer(bl[w], b) \in Bufs
    BY <1>1, BufferIn DEF Bufs
  <2>2. Buffer(bl[w], b) \notin BufferOf(FreeIn(bl))
    BY <1>1, BufferIn
  <2>3. Buffer(bl[w], b) \notin Temp(bl)
    BY <1>1, BufferIn DEF Temp
  <2>. QED  BY <2>1, <2>2, <2>3 DEF Owned
<1>. QED  BY <1>1, <1>2 DEF BufferOf

FactorArray == {"matrix_data_", "pivot_data_", "csr", "l_info_", "u_info_"}

LEMMA FactorsKept ==
  ASSUME NEW m1, NEW m2, NEW bl, NEW ph, NEW bu, FactorsOK(m1, bl, ph, bu),
         \A a \in FactorArray, b \in Batch : m2[Buffer(a, b)] = m1[Buffer(a, b)],
         ph = "factoring" /\ bu.kind = "sparse" =>
           \A b \in Batch : m2[Buffer(bl["d_A"], b)] = m1[Buffer(bl["d_A"], b)]
  PROVE  FactorsOK(m2, bl, ph, bu)
  BY DEF FactorsOK, FactorArray

(* Memories that differ elsewhere only hold the same of both.              *)
LEMMA SameKeeps ==
  ASSUME NEW m1, NEW m2, NEW bl, NEW ph, NEW bu, NEW e, BlocksOK(bl, ph, bu),
         Same(m2, m1, bl), AppOK(m1, e), FactorsOK(m1, bl, ph, bu)
  PROVE  AppOK(m2, e) /\ FactorsOK(m2, bl, ph, bu)
<1>1. bl \in Blocks
  BY DEF BlocksOK, Blocks
<1>2. AppOK(m2, e)
  BY <1>1, ArrayOwned DEF AppOK, Same
<1>3. \A a \in FactorArray, b \in Batch : m2[Buffer(a, b)] = m1[Buffer(a, b)]
  <2>1. \A a \in FactorArray, b \in Batch : Buffer(a, b) \in Owned(bl)
    BY <1>1, ArrayOwned, BufferIn DEF FactorArray, Array
  <2>. QED  BY <2>1 DEF Same
<1>4. ASSUME ph = "factoring", bu.kind = "sparse", NEW b \in Batch
      PROVE  m2[Buffer(bl["d_A"], b)] = m1[Buffer(bl["d_A"], b)]
  <2>1. bl["d_A"] # "none" /\ "d_A" \in Vector
    BY <1>4 DEF BlocksOK, Vector
  <2>2. Buffer(bl["d_A"], b) \in Owned(bl)
    BY <2>1, BlockOwned, BufferIn
  <2>. QED  BY <2>2 DEF Same
<1>. QED  BY <1>2, <1>3, <1>4, FactorsKept

(* An operation of the application: on its arrays only.                    *)
AppOp(op) == op \in Operation /\ Touches(op) \subseteq BufferOf(AppArray)

LEMMA AppExecuted ==
  ASSUME NEW op, AppOp(op), NEW m, IsMemory(m), NEW e, IsExpected(e), AppOK(m, e)
  PROVE  IsExpected(Executed(e, op)) /\ AppOK(Executed(m, op), Executed(e, op))
<1>. DEFINE by == [b \in Writes(op) |-> CHOOSE s \in op : s.to = b]
            X == BufferOf(AppArray)
<1>1. DOMAIN e = X
  BY DEF IsExpected
<1>2. Executed(e, op) =
        [b \in X |-> IF b \in Writes(op) THEN Result(e, by[b]) ELSE e[b]]
  BY <1>1 DEF Executed
<1>3. ASSUME NEW s \in op PROVE by[s.to] = s /\ s.to \in Writes(op)
  <2>1. s.to \in Writes(op)
    BY DEF Writes
  <2>2. \A t \in op : t.to = s.to => t = s
    BY DEF AppOp, Operation, Functional
  <2>3. (CHOOSE t \in op : t.to = s.to) = s
    BY <2>2
  <2>. QED  BY <2>1, <2>3
<1>. HIDE DEF by
<1>4. IsExpected(Executed(e, op))
  BY <1>2 DEF IsExpected
<1>5. ASSUME NEW c \in X PROVE Executed(m, op)[c] = Executed(e, op)[c]
  <2>1. op \in Operation /\ c \in Bufs
    <3>1. Array \subseteq Array \cup Pool
      OBVIOUS
    <3>2. X \subseteq Bufs
      BY ArraysAre DEF ArrayFacts, BufferOf, Bufs
    <3>. QED  BY <3>2 DEF AppOp
  <2>2. CASE c \in Writes(op)
    <3>1. PICK s \in op : s.to = c
      BY <2>2 DEF Writes
    <3>2. ToSet(s.from) \subseteq X
      BY DEF AppOp, Touches, Reads
    <3>3. Result(m, s) = Result(e, s)
      BY <3>2, ResultSame DEF AppOK
    <3>4. Executed(m, op)[c] = Result(m, s)
      BY <2>1, <3>1, ExecutedIs
    <3>5. Executed(e, op)[c] = Result(e, s)
      BY <1>2, <1>3, <2>2, <3>1
    <3>. QED  BY <3>3, <3>4, <3>5
  <2>3. CASE c \notin Writes(op)
    <3>1. Executed(m, op)[c] = m[c]
      BY <2>1, <2>3, ExecutedIs
    <3>2. Executed(e, op)[c] = e[c]
      BY <1>2, <2>3
    <3>. QED  BY <3>1, <3>2 DEF AppOK
  <2>. QED  BY <2>2, <2>3
<1>. HIDE DEF X
<1>. QED  BY <1>4, <1>5 DEF AppOK, X

-----------------------------------------------------------------------------
(* The actions. *)

LEMMA IInvAfter ==
  ASSUME Sound(dev', block', phase', build', g_handle', expected'), answered' = TRUE
  PROVE  IInv'
  BY DEF IInv

(* The state is sound after work that leaves the same in the end.          *)
LEMMA StillSound ==
  ASSUME NEW d, NEW bl, NEW ph, NEW bu, NEW h, NEW e, Sound(d, bl, ph, bu, h, e),
         NEW d2, Good(d2, bl), Same(Final(d2), Final(d), bl), BackendOK(d2, h, bu)
  PROVE  Sound(d2, bl, ph, bu, h, e)
<1>1. AppOK(Final(d2), e) /\ FactorsOK(Final(d2), bl, ph, bu)
  BY SameKeeps DEF Sound
<1>. QED  BY <1>1 DEF Sound, Good

(* And after a call of the application.                                    *)
LEMMA CallSound ==
  ASSUME NEW d, NEW bl, NEW ph, NEW bu, NEW h, NEW e, Sound(d, bl, ph, bu, h, e),
         NEW op, AppOp(op), NEW ops, NEW d2, Effect(d2, d, ops, bl, h, bu),
         Same(Done(Final(d), ops), Executed(Final(d), op), bl)
  PROVE  Sound(d2, bl, ph, bu, h, Executed(e, op))
<1>. DEFINE m == Final(d)
            n == Executed(m, op)
<1>1. IsMemory(m) /\ op \in Operation /\ BlocksOK(bl, ph, bu) /\ bl \in Blocks
      /\ IsExpected(e) /\ AppOK(m, e) /\ FactorsOK(m, bl, ph, bu)
  BY FinalMemory DEF Sound, AppOp, BlocksOK, Blocks
<1>. HIDE DEF m
<1>2. IsExpected(Executed(e, op)) /\ AppOK(n, Executed(e, op))
  BY <1>1, AppExecuted
<1>3. \A c \in Bufs : c \notin BufferOf(AppArray) => n[c] = m[c]
  BY <1>1, ExecutedIs DEF AppOp, Touches
<1>4. \A a \in FactorArray, b \in Batch : n[Buffer(a, b)] = m[Buffer(a, b)]
  <2>1. ASSUME NEW a \in FactorArray, NEW b \in Batch
        PROVE  Buffer(a, b) \in Bufs /\ Buffer(a, b) \notin BufferOf(AppArray)
    <3>1. a \in Array /\ a \notin AppArray
      BY DEF FactorArray, Array, AppArray
    <3>. QED  BY <3>1, BufferIn DEF Bufs
  <2>. QED  BY <1>3, <2>1
<1>5. ASSUME ph = "factoring", bu.kind = "sparse", NEW b \in Batch
      PROVE  n[Buffer(bl["d_A"], b)] = m[Buffer(bl["d_A"], b)]
  <2>1. bl["d_A"] # "none" /\ "d_A" \in Vector
    BY <1>1, <1>5 DEF BlocksOK, Vector
  <2>2. bl["d_A"] \in Pool
    BY <1>1, <2>1 DEF Blocks
  <2>3. bl["d_A"] \notin AppArray
    BY <2>2, ArraysAre DEF ArrayFacts
  <2>4. Buffer(bl["d_A"], b) \in Bufs /\ Buffer(bl["d_A"], b) \notin BufferOf(AppArray)
    BY <2>2, <2>3, BufferIn DEF Bufs
  <2>. QED  BY <1>3, <2>4
<1>6. FactorsOK(n, bl, ph, bu)
  BY <1>1, <1>4, <1>5, FactorsKept
<1>7. Same(Final(d2), n, bl)
  BY SameIsEquivalence DEF Effect, m
<1>. HIDE DEF n
<1>8. AppOK(Final(d2), Executed(e, op)) /\ FactorsOK(Final(d2), bl, ph, bu)
  BY <1>1, <1>2, <1>6, <1>7, SameKeeps
<1>. QED  BY <1>2, <1>8 DEF Sound, Effect, Good

(* gt::synchronize(), and what the host reads of the default queue.        *)
LEMMA WaitSound ==
  ASSUME NEW d, NEW bl, NEW ph, NEW bu, NEW h, NEW e, Sound(d, bl, ph, bu, h, e)
  PROVE  /\ Sound(Waited(d, "default"), bl, ph, bu, h, e)
         /\ AppOK(Waited(d, "default").mem, e)
<1>. DEFINE w == Waited(d, "default")
<1>1. Good(d, bl) /\ DevOK(d)
  BY DEF Good, Sound
<1>2. Good(w, bl) /\ Final(w) = Final(d) /\ w.mem = Final(d)
      /\ w.queue["default"] = << >> /\ w.queue["stream"] = d.queue["stream"]
  BY <1>1, GoodWait, WaitDefault
<1>. HIDE DEF w
<1>3. Same(Final(w), Final(d), bl)
  BY <1>1, <1>2, FinalMemory, SameIsEquivalence
<1>4. BackendOK(w, h, bu)
  BY <1>2 DEF BackendOK, Sound
<1>5. Sound(w, bl, ph, bu, h, e)
  BY <1>2, <1>3, <1>4, StillSound
<1>6. AppOK(w.mem, e)
  BY <1>2 DEF Sound
<1>. QED  BY <1>5, <1>6 DEF w

LEMMA WaitStreamSound ==
  ASSUME NEW d, NEW bl, NEW ph, NEW bu, NEW h, NEW e, Sound(d, bl, ph, bu, h, e)
  PROVE  /\ Sound(Waited(d, "stream"), bl, ph, bu, h, e)
         /\ d.queue["default"] = << >> => AppOK(Waited(d, "stream").mem, e)
<1>. DEFINE w == Waited(d, "stream")
<1>1. Good(d, bl) /\ DevOK(d) /\ bl \in Blocks /\ BlocksOK(bl, ph, bu)
  BY DEF Good, Sound, BlocksOK, Blocks
<1>2. Good(w, bl) /\ Same(Final(w), Final(d), bl) /\ Same(w.mem, d.mem, bl)
      /\ w.queue["stream"] = << >> /\ w.queue["default"] = d.queue["default"]
  BY <1>1, WaitStream
<1>. HIDE DEF w
<1>3. BackendOK(w, h, bu)
  BY <1>2 DEF BackendOK, Sound
<1>4. Sound(w, bl, ph, bu, h, e)
  BY <1>2, <1>3, StillSound
<1>5. ASSUME d.queue["default"] = << >> PROVE AppOK(w.mem, e)
  <2>1. Final(d) = d.mem
    BY <1>1, <1>5, FinalMemory
  <2>. QED  BY <1>1, <1>2, <2>1, SameKeeps DEF Sound
<1>. QED  BY <1>4, <1>5 DEF w

(* The device goes on.                                                     *)
LEMMA StepSound ==
  ASSUME NEW d, NEW bl, NEW ph, NEW bu, NEW h, NEW e, Sound(d, bl, ph, bu, h, e),
         NEW q \in Queue, d.queue[q] # << >>
  PROVE  Sound(Step(d, q), bl, ph, bu, h, e)
<1>. DEFINE w == Step(d, q)
<1>1. Good(d, bl) /\ DevOK(d) /\ bl \in Blocks
  BY DEF Good, Sound, BlocksOK, Blocks
<1>2. CASE q = "default"
  <2>1. Good(w, bl) /\ Final(w) = Final(d) /\ w.queue["stream"] = d.queue["stream"]
    BY <1>1, <1>2, GoodStep, StepDefault
  <2>. HIDE DEF w
  <2>2. Same(Final(w), Final(d), bl)
    BY <1>1, <2>1, FinalMemory, SameIsEquivalence
  <2>3. BackendOK(w, h, bu)
    BY <1>2, <2>1 DEF BackendOK, Sound
  <2>4. Sound(w, bl, ph, bu, h, e)
    BY <2>1, <2>2, <2>3, StillSound
  <2>. QED  BY <2>4 DEF w
<1>3. CASE q = "stream"
  <2>1. Good(w, bl) /\ Same(Final(w), Final(d), bl) /\ w.queue["default"] = d.queue["default"]
    BY <1>1, <1>3, StepStream
  <2>. HIDE DEF w
  <2>2. BackendOK(w, h, bu)
    BY <1>3, <2>1 DEF BackendOK, Sound
  <2>3. Sound(w, bl, ph, bu, h, e)
    BY <2>1, <2>2, StillSound
  <2>. QED  BY <2>3 DEF w
<1>. QED  BY <1>2, <1>3 DEF Queue

LEMMA HandleSteps ==
  ASSUME IInv, CreateHandle \/ DestroyHandle \/ \E q \in Queue : SetStream(q)
  PROVE  IInv'
<1>1. /\ UNCHANGED <<build, dev, block, phase, expected, answered>>
      /\ g_handle' \in Queue \cup {"null"}
      /\ build.backend # "sycl" => g_handle' # "stream"
  BY DEF CreateHandle, DestroyHandle, SetStream, Queue
<1>2. Sound(dev', block', phase', build', g_handle', expected') /\ answered' = TRUE
  BY <1>1 DEF IInv, Sound, BackendOK
<1>. QED  BY <1>2, IInvAfter

LEMMA QueueSteps ==
  ASSUME IInv, Synchronize \/ SynchronizeStream \/ \E q \in Queue : DeviceStep(q)
  PROVE  IInv'
<1>1. UNCHANGED <<build, block, phase, g_handle, expected, answered>>
  BY DEF Synchronize, SynchronizeStream, DeviceStep
<1>2. Sound(dev', block, phase, build, g_handle, expected)
  <2>1. CASE Synchronize
    BY <2>1, WaitSound DEF Synchronize, IInv
  <2>2. CASE SynchronizeStream
    BY <2>2, WaitStreamSound DEF SynchronizeStream, IInv
  <2>3. ASSUME NEW q \in Queue, DeviceStep(q)
        PROVE  Sound(dev', block, phase, build, g_handle, expected)
    BY <2>3, StepSound DEF DeviceStep, IInv
  <2>. QED  BY <2>1, <2>2, <2>3
<1>. QED  BY <1>1, <1>2, IInvAfter DEF IInv

LEMMA DotStep == ASSUME IInv, Dot PROVE IInv'
<1>1. /\ dev' = Waited(dev, g_handle) /\ Ordered /\ InHand
      /\ UNCHANGED <<build, block, phase, g_handle, expected>>
      /\ answered' = \A c \in BufferOf({"x", "rhs"}) : dev'.mem[c] = expected[c]
  BY DEF Dot
<1>2. g_handle \in Queue
  BY <1>1 DEF InHand, IInv, Sound
<1>3. Sound(dev', block, phase, build, g_handle, expected) /\ AppOK(dev'.mem, expected)
  <2>1. CASE g_handle = "default"
    BY <1>1, <2>1, WaitSound DEF IInv
  <2>2. CASE g_handle = "stream"
    <3>1. dev.queue["default"] = << >>
      BY <1>1, <2>2 DEF Ordered
    <3>. QED  BY <1>1, <2>2, <3>1, WaitStreamSound DEF IInv
  <2>. QED  BY <1>2, <2>1, <2>2 DEF Queue
<1>4. BufferOf({"x", "rhs"}) \subseteq BufferOf(AppArray)
  BY DEF BufferOf, AppArray
<1>5. answered' = TRUE
  BY <1>1, <1>3, <1>4 DEF AppOK
<1>. QED  BY <1>1, <1>3, <1>5, IInvAfter

-----------------------------------------------------------------------------
(* The application's container. *)

(* Work that is not pending is on neither queue.                           *)
LEMMA NotPending ==
  ASSUME NEW d, DevOK(d), NEW op, op \notin Pending(d)
  PROVE  /\ \A i \in 1 .. Len(d.queue["default"]) : d.queue["default"][i] # op
         /\ \A i \in 1 .. Len(d.queue["stream"]) : d.queue["stream"][i] # op
<1>1. ASSUME NEW q \in Queue, NEW i \in 1 .. Len(d.queue[q]) PROVE d.queue[q][i] # op
  <2>1. d.queue[q] \in Seq(Operation) /\ DOMAIN d.queue = Queue
    BY DEF DevOK
  <2>2. d.queue[q][i] \in ToSet(d.queue[q])
    BY <2>1 DEF ToSet
  <2>. QED  BY <2>1, <2>2 DEF Pending
<1>. QED  BY <1>1 DEF Queue

LEMMA MoreOwned ==
  ASSUME NEW bl \in Blocks, NEW bl2 \in Blocks, NEW d, Good(d, bl),
         bl2["temp"] = bl["temp"] \/ bl["temp"] = "none",
         Owned(bl) \subseteq Owned(bl2)
  PROVE  Good(d, bl2)
<1>1. \A op : Clear(op, bl) => Clear(op, bl2)
  BY DEF Clear
<1>2. CASE bl2["temp"] = bl["temp"]
  <2>1. Work(bl2) = Work(bl)
    BY <1>2 DEF Work
  <2>. QED  BY <1>1, <1>2, <2>1 DEF Good, QueuesOK
<1>3. CASE bl["temp"] = "none"
  BY <1>1, <1>3 DEF Good, QueuesOK
<1>. QED  BY <1>2, <1>3

(* Without work on the default queue, nothing touches other memory.        *)
LEMMA IdleDefault ==
  ASSUME NEW bl, NEW bl2, NEW d, Good(d, bl), d.queue["default"] = << >>,
         bl2["temp"] = bl["temp"] \/ d.queue["stream"] = << >>
  PROVE  Good(d, bl2)
<1>1. bl2["temp"] = bl["temp"] => Work(bl2) = Work(bl)
  BY DEF Work
<1>. QED  BY <1>1 DEF Good, QueuesOK

LEMMA CreateTempStep == ASSUME IInv, CreateTemp PROVE IInv'
<1>1. PICK p \in Free : block' = [block EXCEPT !["temp"] = p]
  BY DEF CreateTemp
<1>2. /\ block["temp"] = "none"
      /\ UNCHANGED <<build, dev, phase, g_handle, expected, answered>>
  BY DEF CreateTemp
<1>3. Sound(dev, block, phase, build, g_handle, expected) /\ BlocksOK(block, phase, build)
      /\ block \in Blocks /\ Good(dev, block) /\ p \in Pool /\ p # "none"
      /\ p \in FreeIn(block) /\ \A w \in Vector : block[w] # p
  BY PoolAssumption DEF IInv, Sound, BlocksOK, Blocks, Good, Free, FreeIn
<1>4. block' \in Blocks /\ block'["temp"] = p
      /\ \A w \in Vector : w # "temp" => block'[w] = block[w]
  BY <1>1, <1>3 DEF Blocks, Vector
<1>5. BlocksOK(block', phase, build)
  BY <1>3, <1>4, PoolAssumption DEF BlocksOK, Blocks, Vector
<1>6. Owned(block) \subseteq Owned(block')
  <2>1. Temp(block') = BufferOf({p}) /\ BufferOf({p}) \subseteq BufferOf(FreeIn(block))
    BY <1>3, <1>4 DEF Temp, BufferOf
  <2>2. FreeIn(block') \subseteq FreeIn(block)
    BY <1>2, <1>3, <1>4, PoolAssumption DEF FreeIn
  <2>3. BufferOf(FreeIn(block')) \subseteq BufferOf(FreeIn(block))
    BY <2>2 DEF BufferOf
  <2>. QED  BY <2>1, <2>3 DEF Owned
<1>7. Good(dev, block')
  BY <1>2, <1>3, <1>4, <1>6, MoreOwned
<1>8. FactorsOK(Final(dev), block', phase, build)
  <2>1. block'["d_A"] = block["d_A"]
    BY <1>4 DEF Vector
  <2>. QED  BY <1>3, <2>1 DEF FactorsOK, Sound
<1>9. Sound(dev, block', phase, build, g_handle, expected)
  BY <1>3, <1>5, <1>7, <1>8 DEF Sound, Good
<1>. QED  BY <1>2, <1>9, IInvAfter DEF IInv

LEMMA LaunchTempStep == ASSUME IInv, NEW q \in Queue, LaunchTemp(q) PROVE IInv'
<1>. DEFINE op == Work(block)
            e == dev'
<1>1. /\ block["temp"] # "none" /\ op \notin Pending(dev)
      /\ dev' = Enqueue(q, op) /\ (q # "default" => build.backend = "sycl")
      /\ UNCHANGED <<build, block, phase, g_handle, expected, answered>>
  BY DEF LaunchTemp, Work
<1>2. Sound(dev, block, phase, build, g_handle, expected)
      /\ block \in Blocks /\ Good(dev, block) /\ DevOK(dev) /\ BackendOK(dev, g_handle, build)
  BY DEF IInv, Sound, BlocksOK, Blocks, Good
<1>3. op \in Operation /\ Writes(op) \cap Owned(block) = {}
  BY <1>1, <1>2, WorkIs
<1>4. /\ \A i \in 1 .. Len(dev.queue["default"]) : Clear(dev.queue["default"][i], block)
      /\ dev.queue["stream"] = << >>
  <2>1. /\ \A i \in 1 .. Len(dev.queue["default"]) : dev.queue["default"][i] # op
        /\ \A i \in 1 .. Len(dev.queue["stream"]) : dev.queue["stream"][i] # op
    BY <1>1, <1>2, NotPending
  <2>2. \A i \in 1 .. Len(dev.queue["stream"]) : dev.queue["stream"][i] = op
    BY <1>2 DEF Good, QueuesOK
  <2>3. dev.queue["stream"] \in Seq(Operation)
    BY <1>2, FinalMemory
  <2>4. dev.queue["stream"] = << >>
    <3>. DEFINE w == dev.queue["stream"]
    <3>1. \A i \in 1 .. Len(w) : FALSE
      BY <2>1, <2>2
    <3>. HIDE DEF w
    <3>. QED  BY <2>3, <3>1 DEF w
  <2>. QED  BY <1>2, <2>1, <2>4 DEF Good, QueuesOK
<1>. HIDE DEF op
<1>5. IsMemory(Final(dev)) /\ IsMemory(dev.mem)
  BY <1>2, FinalMemory
<1>6. Same(Executed(Final(dev), op), Final(dev), block)
  BY <1>3, <1>5, ElsewhereSame
<1>7. CASE build.backend = "host"
  <2>. DEFINE m == Executed(dev.mem, op)
              ops == << >>
  <2>1. dev' = [dev EXCEPT !.mem = m]
    BY <1>1, <1>7 DEF Enqueue, HostCall
  <2>2. IsMemory(m) /\ Same(m, dev.mem, block) /\ ops \in Seq(Operation)
    BY <1>3, <1>5, ElsewhereSame, ExecutedIs
  <2>3. Done(dev.mem, ops) = dev.mem /\ Done(Final(dev), ops) = Final(dev)
    BY DoneEmpty
  <2>. HIDE DEF m, ops
  <2>4. Effect(dev', dev, ops, block, g_handle, build)
    <3>1. build \in Build
      BY <1>2 DEF Sound
    <3>. QED  BY <1>2, <1>7, <2>1, <2>2, <2>3, <3>1, HostEffect
  <2>5. Sound(dev', block, phase, build, g_handle, expected)
    BY <1>2, <2>3, <2>4, StillSound DEF Effect
  <2>. QED  BY <1>1, <2>5, IInvAfter DEF IInv
<1>8. CASE build.backend # "host" /\ q = "default"
  <2>1. dev' = Submit(dev, "default", op)
    BY <1>1, <1>8 DEF Enqueue
  <2>2. /\ DevOK(e) /\ Final(e) = Executed(Final(dev), op)
        /\ e.queue["default"] = Append(dev.queue["default"], op)
        /\ e.queue["stream"] = dev.queue["stream"]
    BY <1>2, <1>3, <2>1, SubmitDefault
  <2>3. QueuesOK(e, block)
    <3>. DEFINE w == dev.queue["default"]
    <3>1. w \in Seq(Operation)
      BY <1>2, FinalMemory
    <3>2. \A i \in 1 .. Len(w) : Clear(w[i], block)
      BY <1>4
    <3>. HIDE DEF w
    <3>3. \A i \in 1 .. Len(Append(w, op)) :
            IF i \in 1 .. Len(w) THEN Append(w, op)[i] = w[i] ELSE Append(w, op)[i] = op
      BY <3>1
    <3>. QED  BY <1>1, <1>4, <2>2, <3>2, <3>3 DEF QueuesOK, w, op
  <2>4. BackendOK(e, g_handle, build)
    BY <1>2, <1>8, <2>2 DEF BackendOK
  <2>5. Sound(dev', block, phase, build, g_handle, expected)
    BY <1>2, <1>6, <2>2, <2>3, <2>4, StillSound DEF Good
  <2>. QED  BY <1>1, <2>5, IInvAfter DEF IInv
<1>9. CASE build.backend # "host" /\ q = "stream"
  <2>. DEFINE v == dev.queue["default"]
              t == <<op>>
  <2>1. v \in Seq(Operation) /\ t \in Seq(Operation) /\ Len(t) = 1 /\ t[1] = op
    BY <1>2, <1>3, FinalMemory
  <2>2. Append(<< >>, op) = t
    OBVIOUS
  <2>3. \A i \in 1 .. Len(v) : Clear(v[i], block)
    BY <1>4
  <2>4. dev' = [mem |-> dev.mem, queue |-> [r \in Queue |-> IF r = "default" THEN v ELSE t]]
    <3>1. dev' = Submit(dev, "stream", op) /\ "stream" \in Queue
      BY <1>1, <1>9 DEF Enqueue
    <3>2. dev' = [mem |-> dev.mem,
                  queue |-> [r \in Queue |-> IF r = "stream" THEN Append(dev.queue["stream"], op)
                                                            ELSE dev.queue[r]]]
      BY <1>2, <3>1, SubmitIs
    <3>3. Append(dev.queue["stream"], op) = t
      BY <1>4, <2>2
    <3>4. [r \in Queue |-> IF r = "stream" THEN t ELSE dev.queue[r]] =
          [r \in Queue |-> IF r = "default" THEN v ELSE t]
      BY DEF Queue
    <3>. QED  BY <3>2, <3>3, <3>4
  <2>5. Final(dev) = Done(dev.mem, v)
    BY DEF Final
  <2>. HIDE DEF v, t, e
  <2>6. DevOK(e) /\ Final(e) = Done(dev.mem, v)
        /\ e.queue["default"] = v /\ e.queue["stream"] = t
    BY <1>5, <2>1, <2>4, DeviceOf DEF e
  <2>7. QueuesOK(e, block)
    <3>1. block["temp"] # "none" /\ op = Work(block)
      BY <1>1 DEF op
    <3>2. \A i \in 1 .. Len(e.queue["stream"]) : e.queue["stream"][i] = op
      <4>1. e.queue["stream"] = t
        BY <2>6
      <4>2. \A i \in 1 .. Len(t) : i = 1
        BY <2>1
      <4>3. \A i \in 1 .. Len(t) : t[i] = op
        BY <2>1, <4>2
      <4>. QED  BY <4>1, <4>3
    <3>3. \A i \in 1 .. Len(e.queue["default"]) : Clear(e.queue["default"][i], block)
      BY <2>3, <2>6
    <3>. HIDE DEF op
    <3>. QED  BY <3>1, <3>2, <3>3 DEF QueuesOK
  <2>8. Same(Final(e), Final(dev), block)
    BY <1>5, <2>5, <2>6, SameIsEquivalence
  <2>9. BackendOK(e, g_handle, build)
    BY <1>1, <1>9 DEF BackendOK
  <2>10. Sound(e, block, phase, build, g_handle, expected)
    BY <1>2, <2>6, <2>7, <2>8, <2>9, StillSound DEF Good
  <2>. QED  BY <1>1, <2>10, IInvAfter DEF IInv, e
<1>. QED  BY <1>7, <1>8, <1>9 DEF Queue

LEMMA DestroyTempStep == ASSUME IInv, DestroyTemp PROVE IInv'
<1>. DEFINE w == Waited(dev, "default")
<1>1. /\ block["temp"] # "none" /\ Work(block) \notin ToSet(dev.queue["stream"])
      /\ dev' = w /\ block' = [block EXCEPT !["temp"] = "none"]
      /\ UNCHANGED <<build, phase, g_handle, expected, answered>>
  BY DEF DestroyTemp, Work
<1>2. Sound(dev, block, phase, build, g_handle, expected) /\ BlocksOK(block, phase, build)
      /\ block \in Blocks /\ Good(dev, block) /\ DevOK(dev)
  BY DEF IInv, Sound, BlocksOK, Blocks, Good
<1>3. dev.queue["stream"] = << >>
  <2>. DEFINE v == dev.queue["stream"]
  <2>1. v \in Seq(Operation)
    BY <1>2, FinalMemory
  <2>2. \A i \in 1 .. Len(v) : v[i] = Work(block)
    BY <1>2 DEF Good, QueuesOK
  <2>3. \A i \in 1 .. Len(v) : v[i] # Work(block)
    <3>1. \A i \in 1 .. Len(v) : v[i] \in ToSet(v)
      BY <2>1 DEF ToSet
    <3>. QED  BY <1>1, <3>1
  <2>. HIDE DEF v
  <2>4. v = << >>
    BY <2>1, <2>2, <2>3
  <2>. QED  BY <2>4 DEF v
<1>4. /\ Sound(w, block, phase, build, g_handle, expected)
      /\ w.queue["default"] = << >> /\ w.queue["stream"] = << >>
  BY <1>2, <1>3, WaitSound, WaitDefault
<1>. HIDE DEF w
<1>5. block' \in Blocks /\ block'["temp"] = "none"
      /\ \A u \in Vector : u # "temp" => block'[u] = block[u]
  BY <1>1, <1>2 DEF Blocks, Vector
<1>6. BlocksOK(block', phase, build)
  BY <1>2, <1>5 DEF BlocksOK, Blocks, Vector
<1>7. Good(w, block')
  BY <1>4, IdleDefault DEF Good, Sound
<1>8. FactorsOK(Final(w), block', phase, build)
  <2>1. block'["d_A"] = block["d_A"]
    BY <1>5 DEF Vector
  <2>. QED  BY <1>4, <2>1 DEF FactorsOK, Sound
<1>9. Sound(w, block', phase, build, g_handle, expected)
  BY <1>4, <1>6, <1>7, <1>8 DEF Sound, Good
<1>. QED  BY <1>1, <1>9, IInvAfter DEF IInv

-----------------------------------------------------------------------------
(* The application's calls. *)

(* An operation on whole arrays of the application.                        *)
LEMMA AppBatched ==
  ASSUME NEW to \in AppArray, NEW name \in Name, NEW from \in Seq(AppArray)
  PROVE  AppOp(Batched(to, name, from))
<1>1. to \in Arrays
  BY ArraysAre DEF ArrayFacts
<1>2. from \in Seq(Arrays) /\ ToSet(from) \subseteq AppArray
  <2>1. AppArray \subseteq Arrays
    BY ArraysAre DEF ArrayFacts
  <2>2. DOMAIN from = 1 .. Len(from) /\ Len(from) \in Nat
        /\ \A i \in 1 .. Len(from) : from[i] \in AppArray
    OBVIOUS
  <2>. HIDE DEF AppArray, Arrays
  <2>3. from \in Seq(Arrays)
    BY <2>1
  <2>. QED  BY <2>2, <2>3 DEF ToSet
<1>3. /\ Batched(to, name, from) \in Operation
      /\ Writes(Batched(to, name, from)) = BufferOf({to})
      /\ Reads(Batched(to, name, from)) \subseteq BufferOf(ToSet(from))
  BY <1>1, <1>2, BatchedIs
<1>4. BufferOf({to}) \subseteq BufferOf(AppArray) /\ BufferOf(ToSet(from)) \subseteq BufferOf(AppArray)
  BY <1>2 DEF BufferOf
<1>. QED  BY <1>3, <1>4 DEF AppOp, Touches

LEMMA AppClear ==
  ASSUME NEW bl \in Blocks, NEW op, AppOp(op)
  PROVE  Clear(op, bl)
  BY ArrayOwned DEF AppOp, Clear

(* The new right-hand side.                                                *)
LEMMA SetRhsStep == ASSUME IInv, NEW r \in Rhs, SetRhs(r) PROVE IInv'
<1>. DEFINE op == {Store(Buffer("rhs", b), r, << >>) : b \in Batch}
            ops == <<op>>
<1>1. /\ dev' = Enqueue("default", op) /\ expected' = Executed(expected, op)
      /\ UNCHANGED <<build, block, phase, g_handle, answered>>
  BY DEF SetRhs
<1>2. Sound(dev, block, phase, build, g_handle, expected) /\ build \in Build
      /\ block \in Blocks /\ Good(dev, block) /\ DevOK(dev) /\ BackendOK(dev, g_handle, build)
  BY DEF IInv, Sound, BlocksOK, Blocks, Good
<1>3. AppOp(op)
  <2>1. \A b \in Batch : [i \in DOMAIN << >> |-> Buffer(<< >>[i], b)] = << >>
    OBVIOUS
  <2>2. op = Batched("rhs", r, << >>)
    BY <2>1 DEF Batched
  <2>3. r \in Name /\ "rhs" \in AppArray
    BY DEF Name, AppArray
  <2>4. << >> \in Seq(AppArray)
    OBVIOUS
  <2>. QED  BY <2>2, <2>3, <2>4, AppBatched
<1>. HIDE DEF op
<1>4. Clear(op, block) /\ op \in Operation
  BY <1>2, <1>3, AppClear DEF AppOp
<1>5. ops \in Seq(Operation) /\ Len(ops) = 1 /\ ops[1] = op
  BY <1>4
<1>6. \A m : Done(m, ops) = Executed(m, op)
  BY <1>4, DoneOne
<1>. HIDE DEF ops
<1>7. Effect(dev', dev, ops, block, g_handle, build)
  <2>1. CASE build.backend = "host"
    <3>. DEFINE m == Executed(dev.mem, op)
    <3>1. dev' = [dev EXCEPT !.mem = m]
      BY <1>1, <2>1 DEF Enqueue, HostCall
    <3>2. IsMemory(m)
      BY <1>2, <1>4, FinalMemory, ExecutedIs
    <3>3. Same(m, Done(dev.mem, ops), block)
      BY <1>6, <3>2, SameIsEquivalence
    <3>. HIDE DEF m
    <3>. QED  BY <1>2, <1>5, <2>1, <3>1, <3>2, <3>3, HostEffect
  <2>2. CASE build.backend # "host"
    <3>1. dev' = SubmitAll(dev, "default", ops)
      BY <1>1, <1>2, <1>4, <2>2, SubmitOne DEF Enqueue, Queue, ops
    <3>2. \A i \in 1 .. Len(ops) : Clear(ops[i], block)
      BY <1>4, <1>5
    <3>. QED  BY <1>2, <1>5, <2>2, <3>1, <3>2, SubmitEffect
  <2>. QED  BY <2>1, <2>2
<1>8. Same(Done(Final(dev), ops), Executed(Final(dev), op), block)
  BY <1>2, <1>4, <1>6, FinalMemory, ExecutedIs, SameIsEquivalence
<1>9. Sound(dev', block, phase, build, g_handle, Executed(expected, op))
  BY <1>2, <1>3, <1>7, <1>8, CallSound
<1>. QED  BY <1>1, <1>9, IInvAfter DEF IInv

(* A call whose operations together do what op says.                       *)
LEMMA BlasStep ==
  ASSUME IInv, NEW op, AppOp(op), NEW ops, NEW d, BlasCall(op, d),
         Effect(d, dev, ops, block, g_handle, build),
         Same(Done(Final(dev), ops), Executed(Final(dev), op), block)
  PROVE  IInv'
<1>1. /\ dev' = d /\ expected' = Executed(expected, op)
      /\ UNCHANGED <<build, block, phase, g_handle, answered>>
  BY DEF BlasCall
<1>2. Sound(d, block, phase, build, g_handle, Executed(expected, op))
  BY CallSound DEF IInv
<1>. QED  BY <1>1, <1>2, IInvAfter DEF IInv

(* The handle's queue, when the application calls.                         *)
LEMMA CallHandle ==
  ASSUME IInv, InHand, Ordered
  PROVE  /\ HandleOK(dev, g_handle, build) /\ build \in Build
         /\ block \in Blocks /\ Good(dev, block) /\ DevOK(dev)
  BY DEF IInv, Sound, HandleOK, InHand, Ordered, BlocksOK, Blocks, Good, Queue

LEMMA Level12Step == ASSUME IInv, Level12 PROVE IInv'
<1>1. PICK op \in {Axpy("x", "rhs"), Scal("rhs"), Copy("x", "rhs"), Gemv("M", "x", "rhs")} :
        BlasCall(op, Call(build.backend, dev, g_handle, op))
  BY DEF Level12
<1>2. AppOp(op)
  <2>1. "x" \in AppArray /\ "rhs" \in AppArray /\ "M" \in AppArray
    BY DEF AppArray
  <2>2. "axpy" \in Name /\ "scal" \in Name /\ "copy" \in Name /\ "gemv" \in Name
    BY DEF Name
  <2>3. <<"x", "rhs">> \in Seq(AppArray) /\ <<"rhs">> \in Seq(AppArray)
        /\ <<"x">> \in Seq(AppArray)
    BY <2>1
  <2>4. <<"M", "x", "rhs">> \in Seq(AppArray)
    BY <2>1
  <2>5. AppOp(Axpy("x", "rhs"))
    BY <2>1, <2>2, <2>3, AppBatched DEF Axpy
  <2>6. AppOp(Scal("rhs"))
    BY <2>1, <2>2, <2>3, AppBatched DEF Scal
  <2>7. AppOp(Copy("x", "rhs"))
    BY <2>1, <2>2, <2>3, AppBatched DEF Copy, CopyBatched
  <2>8. AppOp(Gemv("M", "x", "rhs"))
    BY <2>1, <2>2, <2>4, AppBatched DEF Gemv
  <2>. QED  BY <2>5, <2>6, <2>7, <2>8
<1>3. InHand /\ Ordered
  BY <1>1 DEF BlasCall
<1>. DEFINE ops == <<op>>
            d == Call(build.backend, dev, g_handle, op)
<1>4. HandleOK(dev, g_handle, build) /\ build \in Build
      /\ block \in Blocks /\ Good(dev, block) /\ DevOK(dev)
  BY <1>3, CallHandle
<1>5. Clear(op, block) /\ op \in Operation
  BY <1>2, <1>4, AppClear DEF AppOp
<1>6. Effect(d, dev, ops, block, g_handle, build)
  BY <1>4, <1>5, CallIs
<1>7. Same(Done(Final(dev), ops), Executed(Final(dev), op), block)
  BY <1>4, <1>5, DoneOne, FinalMemory, ExecutedIs, SameIsEquivalence
<1>. HIDE DEF d, ops
<1>. QED  BY <1>1, <1>2, <1>6, <1>7, BlasStep DEF d

-----------------------------------------------------------------------------
(* Copies from host memory. *)

LEMMA BufferParts ==
  ASSUME NEW a, NEW b
  PROVE  Buffer(a, b)[1] = a /\ Buffer(a, b)[2] = b
  BY DEF Buffer

LEMMA InBufferOf ==
  ASSUME NEW S, NEW c \in BufferOf(S)
  PROVE  c[1] \in S /\ c[2] \in Batch /\ c = Buffer(c[1], c[2])
<1>1. PICK a \in S, b \in Batch : c = Buffer(a, b)
  BY DEF BufferOf
<1>. QED  BY <1>1, BufferParts

LEMMA CopyIs ==
  ASSUME NEW bl, NEW d, Good(d, bl), NEW to \in Arrays
  PROVE  LET e == CopyBatchData(d, to)
         IN  /\ Good(e, bl) /\ IsMemory(Final(e))
             /\ \A b \in Batch : Final(e)[Buffer(to, b)] = Matrix(b)
             /\ \A c \in Bufs : c \notin BufferOf({to}) => Final(e)[c] = Final(d)[c]
             /\ e.queue["default"] = << >> /\ e.queue["stream"] = d.queue["stream"]
<1>. DEFINE w == Waited(d, "default")
            m == [c \in Bufs |-> IF c[1] = to THEN Matrix(c[2]) ELSE Final(d)[c]]
            e == CopyBatchData(d, to)
<1>1. DevOK(d) /\ IsMemory(Final(d))
  BY FinalMemory DEF Good
<1>2. /\ DevOK(w) /\ Good(w, bl) /\ w.mem = Final(d)
      /\ w.queue["default"] = << >> /\ w.queue["stream"] = d.queue["stream"]
  BY <1>1, WaitDefault, GoodWait
<1>3. e = [w EXCEPT !.mem = m]
  <2>1. e = [w EXCEPT !.mem = [c \in DOMAIN w.mem |->
                                 IF c[1] = to THEN Matrix(c[2]) ELSE w.mem[c]]]
    BY DEF CopyBatchData
  <2>2. DOMAIN w.mem = Bufs
    BY <1>1, <1>2 DEF IsMemory
  <2>. QED  BY <1>2, <2>1, <2>2
<1>4. IsMemory(m)
  BY DEF IsMemory
<1>5. ASSUME NEW b \in Batch PROVE m[Buffer(to, b)] = Matrix(b)
  <2>1. Buffer(to, b) \in Bufs
    BY BufferIn DEF Bufs, Arrays
  <2>. QED  BY <2>1, BufferParts
<1>6. ASSUME NEW c \in Bufs, c \notin BufferOf({to}) PROVE m[c] = Final(d)[c]
  <2>1. c[2] \in Batch /\ c = Buffer(c[1], c[2])
    BY InBufferOf DEF Bufs
  <2>2. c[1] # to
    BY <1>6, <2>1, BufferIn
  <2>. QED  BY <2>2
<1>. HIDE DEF e, m, w
<1>7. e.mem = m /\ e.queue = w.queue /\ DevOK(e)
  BY <1>2, <1>3, <1>4 DEF DevOK
<1>8. Final(e) = m
  BY <1>2, <1>7, FinalMemory
<1>9. QueuesOK(e, bl)
  BY <1>2, <1>7 DEF QueuesOK, Good
<1>. QED  BY <1>2, <1>4, <1>5, <1>6, <1>7, <1>8, <1>9 DEF Good, e

LEMMA SetMatrixStep == ASSUME IInv, SetMatrix PROVE IInv'
<1>. DEFINE e == dev'
            m == Final(dev)
            n == Final(e)
<1>1. /\ dev' = CopyBatchData(dev, "M")
      /\ expected' = [c \in DOMAIN expected |-> IF c[1] = "M" THEN Matrix(c[2]) ELSE expected[c]]
      /\ UNCHANGED <<build, block, phase, g_handle, answered>>
  BY DEF SetMatrix
<1>2. Sound(dev, block, phase, build, g_handle, expected) /\ BlocksOK(block, phase, build)
      /\ Good(dev, block) /\ block \in Blocks /\ IsExpected(expected) /\ AppOK(m, expected)
      /\ FactorsOK(m, block, phase, build) /\ BackendOK(dev, g_handle, build)
  BY DEF IInv, Sound, BlocksOK, Blocks, Good
<1>3. "M" \in Arrays
  BY DEF Arrays, Array
<1>4. /\ Good(e, block) /\ \A b \in Batch : n[Buffer("M", b)] = Matrix(b)
      /\ \A c \in Bufs : c \notin BufferOf({"M"}) => n[c] = m[c]
      /\ e.queue["default"] = << >> /\ e.queue["stream"] = dev.queue["stream"]
  BY <1>1, <1>2, <1>3, CopyIs
<1>. HIDE DEF e, m, n
<1>5. expected' = [c \in BufferOf(AppArray) |-> IF c[1] = "M" THEN Matrix(c[2]) ELSE expected[c]]
  BY <1>1, <1>2 DEF IsExpected
<1>6. AppOK(n, expected')
  <2>1. SUFFICES ASSUME NEW c \in BufferOf(AppArray) PROVE n[c] = expected'[c]
    BY DEF AppOK
  <2>2. c[1] \in AppArray /\ c[2] \in Batch /\ c = Buffer(c[1], c[2])
    BY InBufferOf
  <2>3. c \in Bufs
    BY ArrayOwned, <1>2 DEF Owned
  <2>4. CASE c[1] = "M"
    BY <1>4, <1>5, <2>2, <2>4
  <2>5. CASE c[1] # "M"
    <3>1. c \notin BufferOf({"M"})
      BY <2>2, <2>5, BufferIn
    <3>. QED  BY <1>2, <1>4, <1>5, <2>3, <2>5, <3>1 DEF AppOK
  <2>. QED  BY <2>4, <2>5
<1>7. \A a \in FactorArray, b \in Batch : n[Buffer(a, b)] = m[Buffer(a, b)]
  <2>1. ASSUME NEW a \in FactorArray, NEW b \in Batch
        PROVE  Buffer(a, b) \in Bufs /\ Buffer(a, b) \notin BufferOf({"M"})
    <3>1. a \in Array /\ a # "M"
      BY DEF FactorArray, Array
    <3>. QED  BY <3>1, BufferIn DEF Bufs
  <2>. QED  BY <1>4, <2>1
<1>8. phase # "factoring"
  BY DEF SetMatrix, HostRuns
<1>9. FactorsOK(n, block, phase, build)
  BY <1>2, <1>7, <1>8, FactorsKept
<1>10. BackendOK(e, g_handle, build)
  BY <1>2, <1>4 DEF BackendOK
<1>11. IsExpected(expected')
  BY <1>5 DEF IsExpected
<1>12. Sound(e, block, phase, build, g_handle, expected')
  BY <1>2, <1>4, <1>6, <1>9, <1>10, <1>11 DEF Sound, Good, n
<1>. QED  BY <1>1, <1>12, IInvAfter DEF IInv, e

-----------------------------------------------------------------------------
(* The host: matrix by matrix is the same as all at once, for operations   *)
(* that compute a matrix from those of the same number.                    *)

Local(op) == op \in Operation /\ \A s \in op : \A c \in ToSet(s.from) : c[2] = s.to[2]

Part(op, b) == {s \in op : s.to[2] = b}

LEMMA PartIs ==
  ASSUME NEW op, Local(op), NEW b
  PROVE  Part(op, b) \in Operation
  BY DEF Local, Part, Operation, Functional

LEMMA BatchedLocal ==
  ASSUME NEW to \in Arrays, NEW name \in Name, NEW from \in Seq(Arrays)
  PROVE  Local(Batched(to, name, from))
<1>. DEFINE op == Batched(to, name, from)
<1>1. op \in Operation /\ op = {StoreOf(to, name, from, b) : b \in Batch}
  BY BatchedIs
<1>. HIDE DEF op
<1>2. ASSUME NEW s \in op, NEW c \in ToSet(s.from) PROVE c[2] = s.to[2]
  <2>1. PICK b \in Batch : s = StoreOf(to, name, from, b)
    BY <1>1
  <2>2. s.to = Buffer(to, b) /\ s.from = [i \in DOMAIN from |-> Buffer(from[i], b)]
    BY <2>1 DEF StoreOf
  <2>3. PICK i \in DOMAIN from : c = Buffer(from[i], b)
    BY <2>2 DEF ToSet
  <2>. QED  BY <2>2, <2>3, BufferParts
<1>. QED  BY <1>1, <1>2 DEF Local, op

(* Memories that agree on matrix b do so after the part for it.            *)
LEMMA PartDone ==
  ASSUME NEW op, Local(op), NEW b, NEW m, IsMemory(m), NEW h, IsMemory(h),
         \A c \in Bufs : c[2] = b => h[c] = m[c]
  PROVE  /\ IsMemory(Executed(h, Part(op, b)))
         /\ \A c \in Bufs : Executed(h, Part(op, b))[c] =
                              IF c[2] = b THEN Executed(m, op)[c] ELSE h[c]
<1>. DEFINE part == Part(op, b)
<1>1. op \in Operation /\ part \in Operation
  BY PartIs DEF Local
<1>2. IsMemory(Executed(h, part))
  BY <1>1, ExecutedIs
<1>3. ASSUME NEW c \in Bufs
      PROVE  Executed(h, part)[c] = IF c[2] = b THEN Executed(m, op)[c] ELSE h[c]
  <2>1. CASE c \in Writes(part)
    <3>1. PICK s \in part : s.to = c
      BY <2>1 DEF Writes
    <3>2. s \in op /\ c[2] = b
      BY <3>1 DEF Part
    <3>3. s.from \in Seq(Bufs)
      BY <1>1, <3>2 DEF Operation, Stores
    <3>4. ToSet(s.from) \subseteq Bufs
      BY <3>3 DEF ToSet
    <3>. DEFINE X == {x \in Bufs : x[2] = b}
    <3>5. ToSet(s.from) \subseteq X
      BY <3>1, <3>2, <3>4 DEF Local
    <3>6. Result(h, s) = Result(m, s)
      BY <3>5, ResultSame
    <3>7. Executed(h, part)[c] = Result(h, s)
      BY <1>1, <3>1, ExecutedIs
    <3>8. Executed(m, op)[c] = Result(m, s)
      BY <1>1, <3>1, <3>2, ExecutedIs
    <3>. QED  BY <3>2, <3>6, <3>7, <3>8
  <2>2. CASE c \notin Writes(part)
    <3>1. Executed(h, part)[c] = h[c]
      BY <1>1, <2>2, ExecutedIs
    <3>2. ASSUME c[2] = b PROVE Executed(m, op)[c] = m[c]
      <4>1. c \notin Writes(op)
        BY <2>2, <3>2 DEF Writes, Part
      <4>. QED  BY <1>1, <4>1, ExecutedIs
    <3>. QED  BY <3>1, <3>2
  <2>. QED  BY <2>1, <2>2
<1>. QED  BY <1>2, <1>3

(* The operations on one matrix, one after the other.                      *)
LEMMA MatrixDone ==
  ASSUME NEW ops \in Seq(Operation), \A i \in 1 .. Len(ops) : Local(ops[i]),
         NEW b, NEW m, IsMemory(m), NEW h, IsMemory(h),
         \A c \in Bufs : c[2] = b => h[c] = m[c]
  PROVE  /\ OfMatrix(ops, b) \in Seq(Operation)
         /\ IsMemory(Done(h, OfMatrix(ops, b)))
         /\ \A c \in Bufs : Done(h, OfMatrix(ops, b))[c] =
                              IF c[2] = b THEN Done(m, ops)[c] ELSE h[c]
<1>. DEFINE w == OfMatrix(ops, b)
            n == Len(ops)
<1>1. /\ w \in Seq(Operation) /\ Len(w) = n /\ n \in Nat
      /\ \A i \in 1 .. n : w[i] = Part(ops[i], b)
  <2>1. w = [i \in 1 .. n |-> Part(ops[i], b)] /\ n \in Nat
    BY DEF OfMatrix, Part
  <2>2. \A i \in 1 .. n : Part(ops[i], b) \in Operation
    BY PartIs
  <2>. HIDE DEF w
  <2>3. w \in [1 .. n -> Operation]
    BY <2>1, <2>2
  <2>4. w \in Seq(Operation) /\ Len(w) = n
    BY <2>1, <2>3
  <2>. QED  BY <2>1, <2>4
<1>. HIDE DEF w
<1>2. PICK f : Facts!Chain(f, m, ops) /\ Facts!FoldLeft(Executed, m, ops) = f[n]
  BY Facts!FoldIsChain, Zenon
<1>3. PICK g : Facts!Chain(g, h, w) /\ Facts!FoldLeft(Executed, h, w) = g[Len(w)]
  BY <1>1, Facts!FoldIsChain, Zenon
<1>. DEFINE Agree(i) == /\ IsMemory(f[i]) /\ IsMemory(g[i])
                        /\ \A c \in Bufs : g[i][c] = IF c[2] = b THEN f[i][c] ELSE h[c]
            S == {i \in Nat : i <= n => Agree(i)}
<1>4. 0 \in S
  BY <1>2, <1>3 DEF Facts!Chain
<1>5. ASSUME NEW i \in Nat, i \in S PROVE i + 1 \in S
  <2>1. SUFFICES ASSUME i + 1 <= n PROVE Agree(i + 1)
    OBVIOUS
  <2>2. i + 1 \in 1 .. n /\ (i + 1) - 1 = i /\ Agree(i)
    BY <1>1, <1>5, <2>1
  <2>. HIDE DEF n
  <2>3. f[i + 1] = Executed(f[i], ops[i + 1]) /\ g[i + 1] = Executed(g[i], Part(ops[i + 1], b))
    BY <1>1, <1>2, <1>3, <2>2 DEF Facts!Chain, n
  <2>4. Local(ops[i + 1])
    BY <2>2 DEF n
  <2>5. \A c \in Bufs : c[2] = b => g[i][c] = f[i][c]
    BY <2>2
  <2>6. IsMemory(f[i]) /\ IsMemory(g[i]) /\ ops[i + 1] \in Operation
    BY <2>2, <2>4 DEF Local
  <2>7. /\ IsMemory(g[i + 1])
        /\ \A c \in Bufs : g[i + 1][c] = IF c[2] = b THEN f[i + 1][c] ELSE g[i][c]
    BY <2>3, <2>4, <2>5, <2>6, PartDone
  <2>8. IsMemory(f[i + 1])
    BY <2>3, <2>6, ExecutedIs
  <2>9. \A c \in Bufs : g[i + 1][c] = IF c[2] = b THEN f[i + 1][c] ELSE h[c]
    BY <2>2, <2>7
  <2>. QED  BY <2>7, <2>8, <2>9
<1>. HIDE DEF S
<1>6. Nat \subseteq S
  BY <1>4, <1>5, Facts!Induction
<1>7. Agree(n)
  BY <1>1, <1>6 DEF S
<1>8. Done(h, w) = g[n] /\ Done(m, ops) = f[n]
  BY <1>1, <1>2, <1>3, DoneIsFold
<1>. QED  BY <1>1, <1>7, <1>8 DEF w

LEMMA LoopIsFold ==
  ASSUME NEW m, NEW w
  PROVE  FoldLeft(InOrder, m, w) = LoopFacts!FoldLeft(InOrder, m, w)
  BY Zenon DEF FoldLeft, MapThenFoldSet, Max, LoopFacts!FoldLeft,
                  LoopFacts!MapThenFoldSet, LoopFacts!Max

(* The loop over the batch.                                                *)
LEMMA LoopDone ==
  ASSUME NEW ops \in Seq(Operation), \A i \in 1 .. Len(ops) : Local(ops[i]),
         NEW m, IsMemory(m)
  PROVE  FoldLeft(InOrder, m, [k \in 1 .. batchSize |-> OfMatrix(ops, k - 1)]) = Done(m, ops)
<1>. DEFINE w == [k \in 1 .. batchSize |-> OfMatrix(ops, k - 1)]
            n == batchSize
            all == Done(m, ops)
<1>1. n \in Nat
  BY BatchAssumption DEF BatchAssumption
<1>2. \A b : OfMatrix(ops, b) \in Seq(Operation)
  <2>1. SUFFICES ASSUME NEW b PROVE OfMatrix(ops, b) \in Seq(Operation)
    OBVIOUS
  <2>. QED  BY MatrixDone
<1>3. w \in Seq(Seq(Operation)) /\ Len(w) = n /\ \A k \in 1 .. n : w[k] = OfMatrix(ops, k - 1)
  <2>1. w \in [1 .. n -> Seq(Operation)]
    BY <1>2
  <2>2. \A k \in 1 .. n : w[k] = OfMatrix(ops, k - 1)
    OBVIOUS
  <2>. HIDE DEF w
  <2>3. w \in Seq(Seq(Operation)) /\ Len(w) = n
    BY <1>1, <2>1
  <2>. QED  BY <2>2, <2>3
<1>. HIDE DEF w
<1>4. PICK h : LoopFacts!Chain(h, m, w) /\ LoopFacts!FoldLeft(InOrder, m, w) = h[Len(w)]
  BY <1>3, LoopFacts!FoldIsChain, Zenon
<1>5. IsMemory(all)
  BY DoneMemory
<1>. DEFINE So(k) == /\ IsMemory(h[k])
                     /\ \A c \in Bufs : h[k][c] = IF c[2] < k THEN all[c] ELSE m[c]
            S == {k \in Nat : k <= n => So(k)}
<1>6. \A c \in Bufs : c[2] \in 0 .. n - 1
  BY InBufferOf DEF Bufs, Batch
<1>. HIDE DEF all
<1>7. 0 \in S
  <2>1. h[0] = m
    BY <1>4 DEF LoopFacts!Chain
  <2>. QED  BY <1>1, <1>6, <2>1
<1>8. ASSUME NEW k \in Nat, k \in S PROVE k + 1 \in S
  <2>1. SUFFICES ASSUME k + 1 <= n PROVE So(k + 1)
    OBVIOUS
  <2>2. k + 1 \in 1 .. n /\ (k + 1) - 1 = k /\ So(k)
    BY <1>1, <1>8, <2>1
  <2>. HIDE DEF n
  <2>3. h[k + 1] = Done(h[k], OfMatrix(ops, k))
    <3>1. h[k + 1] = InOrder(h[k], w[k + 1])
      BY <1>3, <1>4, <2>2 DEF LoopFacts!Chain
    <3>2. w[k + 1] = OfMatrix(ops, k)
      BY <1>3, <2>2
    <3>. QED  BY <3>1, <3>2 DEF InOrder, Done
  <2>4. \A c \in Bufs : c[2] = k => h[k][c] = m[c]
    BY <2>2
  <2>5. /\ IsMemory(h[k + 1])
        /\ \A c \in Bufs : h[k + 1][c] = IF c[2] = k THEN all[c] ELSE h[k][c]
    BY <2>2, <2>3, <2>4, MatrixDone DEF all
  <2>6. ASSUME NEW c \in Bufs PROVE h[k + 1][c] = IF c[2] < k + 1 THEN all[c] ELSE m[c]
    <3>1. c[2] \in Nat
      BY <1>1, <1>6 DEF n
    <3>. QED  BY <2>2, <2>5, <3>1
  <2>. QED  BY <2>5, <2>6
<1>. HIDE DEF S
<1>9. So(n)
  <2>1. Nat \subseteq S
    BY <1>7, <1>8, LoopFacts!Induction
  <2>. QED  BY <1>1, <2>1 DEF S
<1>10. h[n] = all
  <2>1. \A c \in Bufs : c[2] < n
    BY <1>1, <1>6
  <2>2. \A c \in Bufs : h[n][c] = all[c]
    BY <1>9, <2>1
  <2>3. h[n] = [c \in Bufs |-> h[n][c]] /\ all = [c \in Bufs |-> all[c]]
    BY <1>5, <1>9 DEF IsMemory
  <2>. QED  BY <2>2, <2>3
<1>. QED  BY <1>3, <1>4, <1>10, LoopIsFold DEF w, all

(* The batched calls on the host.                                          *)
LEMMA HostBatchedIs ==
  ASSUME NEW bl \in Blocks, NEW d, Good(d, bl), NEW bu \in Build, bu.backend = "host",
         NEW q, BackendOK(d, q, bu),
         NEW ops \in Seq(Operation), \A i \in 1 .. Len(ops) : Local(ops[i])
  PROVE  Effect(HostBatched(d, ops), d, ops, bl, q, bu)
<1>. DEFINE m == Done(d.mem, ops)
            e == HostBatched(d, ops)
<1>1. IsMemory(d.mem)
  BY FinalMemory DEF Good
<1>2. e = [d EXCEPT !.mem = m]
  BY <1>1, LoopDone DEF HostBatched
<1>3. IsMemory(m)
  BY <1>1, DoneMemory
<1>4. Same(m, Done(d.mem, ops), bl)
  BY <1>3, SameIsEquivalence
<1>. HIDE DEF m, e
<1>5. Effect(e, d, ops, bl, q, bu)
  BY <1>2, <1>3, <1>4, HostEffect
<1>. QED  BY <1>5 DEF e

-----------------------------------------------------------------------------
(* The calls of LAPACK. *)

(* The calls on arrays of pointers, as operations on whole arrays.         *)
LEMMA LapackOps ==
  /\ \A A, p : GetrfBatched(Pointers(A), p) =
                 Batched(A, "lu", <<A>>) \cup Batched(p, "pivots", <<A>>)
  /\ \A A : GetrfNpvtBatched(Pointers(A)) = Batched(A, "lu_npvt", <<A>>)
  /\ \A A, p, B : GetrsBatched(Pointers(A), p, Pointers(B)) = Batched(B, "getrs", <<A, p, B>>)
  /\ \A A, p, C : GetriBatched(Pointers(A), p, Pointers(C)) = Batched(C, "getri", <<A, p>>)
  /\ \A A, B, C : GemmBatched(Pointers(A), Pointers(B), Pointers(C)) =
                    Batched(C, "gemm", <<A, B>>)
  /\ \A A, p, C : GetriInPlace(Pointers(A), p, Pointers(C)) =
                    <<Batched(C, "copy", <<A>>), Batched(C, "getri", <<C, p>>)>>
<1>1. ASSUME NEW a, NEW b \in Batch
      PROVE  Pointers(a)[b] = Buffer(a, b) /\ Pivots(a)[b] = Buffer(a, b)
  BY DEF Pointers, Pivots
<1>2. ASSUME NEW to, NEW name, NEW x
      PROVE  {Store(Pointers(to)[b], name, <<Pointers(x)[b]>>) : b \in Batch}
               = Batched(to, name, <<x>>)
  <2>1. ASSUME NEW b \in Batch
        PROVE  Store(Pointers(to)[b], name, <<Pointers(x)[b]>>) =
                 Store(Buffer(to, b), name, [i \in DOMAIN <<x>> |-> Buffer(<<x>>[i], b)])
    <3>1. [i \in DOMAIN <<x>> |-> Buffer(<<x>>[i], b)] = <<Buffer(x, b)>>
      OBVIOUS
    <3>. QED  BY <1>1, <3>1
  <2>. QED  BY <2>1 DEF Batched
<1>3. ASSUME NEW to, NEW name, NEW x
      PROVE  {Store(Pivots(to)[b], name, <<Pointers(x)[b]>>) : b \in Batch}
               = Batched(to, name, <<x>>)
  <2>1. ASSUME NEW b \in Batch
        PROVE  Store(Pivots(to)[b], name, <<Pointers(x)[b]>>) =
                 Store(Pointers(to)[b], name, <<Pointers(x)[b]>>)
    BY <1>1
  <2>. QED  BY <1>2, <2>1
<1>4. ASSUME NEW to, NEW name, NEW x, NEW y
      PROVE  {Store(Pointers(to)[b], name, <<Pointers(x)[b], Pointers(y)[b]>>) : b \in Batch}
               = Batched(to, name, <<x, y>>)
  <2>1. ASSUME NEW b \in Batch
        PROVE  Store(Pointers(to)[b], name, <<Pointers(x)[b], Pointers(y)[b]>>) =
                 Store(Buffer(to, b), name, [i \in DOMAIN <<x, y>> |-> Buffer(<<x, y>>[i], b)])
    <3>1. [i \in DOMAIN <<x, y>> |-> Buffer(<<x, y>>[i], b)] = <<Buffer(x, b), Buffer(y, b)>>
      OBVIOUS
    <3>. QED  BY <1>1, <3>1
  <2>. QED  BY <2>1 DEF Batched
<1>5. ASSUME NEW x, NEW p, NEW C
      PROVE  {Store(Pointers(C)[b], "getri", <<Pointers(x)[b], Pivots(p)[b]>>) : b \in Batch}
               = Batched(C, "getri", <<x, p>>)
  <2>1. ASSUME NEW b \in Batch
        PROVE  Store(Pointers(C)[b], "getri", <<Pointers(x)[b], Pivots(p)[b]>>) =
                 Store(Pointers(C)[b], "getri", <<Pointers(x)[b], Pointers(p)[b]>>)
    BY <1>1
  <2>2. {Store(Pointers(C)[b], "getri", <<Pointers(x)[b], Pivots(p)[b]>>) : b \in Batch} =
        {Store(Pointers(C)[b], "getri", <<Pointers(x)[b], Pointers(p)[b]>>) : b \in Batch}
    BY <2>1
  <2>. QED  BY <1>4, <2>2, Zenon
<1>6. ASSUME NEW A, NEW p, NEW B
      PROVE  {Store(Pointers(B)[b], "getrs", <<Pointers(A)[b], Pivots(p)[b], Pointers(B)[b]>>) :
                b \in Batch} = Batched(B, "getrs", <<A, p, B>>)
  <2>1. ASSUME NEW b \in Batch
        PROVE  Store(Pointers(B)[b], "getrs", <<Pointers(A)[b], Pivots(p)[b], Pointers(B)[b]>>) =
                 Store(Buffer(B, b), "getrs",
                       [i \in DOMAIN <<A, p, B>> |-> Buffer(<<A, p, B>>[i], b)])
    <3>1. [i \in DOMAIN <<A, p, B>> |-> Buffer(<<A, p, B>>[i], b)] =
            <<Buffer(A, b), Buffer(p, b), Buffer(B, b)>>
      OBVIOUS
    <3>. QED  BY <1>1, <3>1
  <2>. QED  BY <2>1 DEF Batched
<1>7. \A A, p : GetrfBatched(Pointers(A), p) = Batched(A, "lu", <<A>>) \cup Batched(p, "pivots", <<A>>)
  BY <1>2, <1>3 DEF GetrfBatched
<1>8. \A A : GetrfNpvtBatched(Pointers(A)) = Batched(A, "lu_npvt", <<A>>)
  BY <1>2 DEF GetrfNpvtBatched
<1>9. \A A, p, B : GetrsBatched(Pointers(A), p, Pointers(B)) = Batched(B, "getrs", <<A, p, B>>)
  BY <1>6 DEF GetrsBatched
<1>10. \A A, p, C : GetriBatched(Pointers(A), p, Pointers(C)) = Batched(C, "getri", <<A, p>>)
  BY <1>5 DEF GetriBatched
<1>11. \A A, B, C : GemmBatched(Pointers(A), Pointers(B), Pointers(C)) = Batched(C, "gemm", <<A, B>>)
  BY <1>4 DEF GemmBatched
<1>12. \A A, p, C : GetriInPlace(Pointers(A), p, Pointers(C)) =
         <<Batched(C, "copy", <<A>>), Batched(C, "getri", <<C, p>>)>>
  BY <1>2, <1>10 DEF GetriInPlace
<1>. QED  BY <1>7, <1>8, <1>9, <1>10, <1>11, <1>12

(* Operations that store to different memory, at once.                     *)
LEMMA UnionIs ==
  ASSUME NEW op1 \in Operation, NEW op2 \in Operation, Writes(op1) \cap Writes(op2) = {}
  PROVE  /\ op1 \cup op2 \in Operation
         /\ Writes(op1 \cup op2) = Writes(op1) \cup Writes(op2)
         /\ Reads(op1 \cup op2) = Reads(op1) \cup Reads(op2)
         /\ Local(op1) /\ Local(op2) => Local(op1 \cup op2)
<1>1. Functional(op1 \cup op2)
  BY DEF Operation, Functional, Writes
<1>2. op1 \cup op2 \in Operation
  BY <1>1 DEF Operation
<1>. QED  BY <1>2 DEF Writes, Reads, Local

(* The factors and the pivots.                                             *)
LEMMA FactorIs ==
  ASSUME NEW A \in Arrays, NEW p \in Arrays, A # p
  PROVE  LET op == GetrfBatched(Pointers(A), p)
         IN  /\ op \in Operation /\ Local(op)
             /\ Writes(op) = BufferOf({A, p}) /\ Reads(op) \subseteq BufferOf({A})
             /\ \A m : IsMemory(m) =>
                  \A b \in Batch :
                    /\ Executed(m, op)[Buffer(A, b)] = <<"lu", m[Buffer(A, b)]>>
                    /\ Executed(m, op)[Buffer(p, b)] = <<"pivots", m[Buffer(A, b)]>>
<1>. DEFINE op == GetrfBatched(Pointers(A), p)
            op1 == Batched(A, "lu", <<A>>)
            op2 == Batched(p, "pivots", <<A>>)
<1>1. op = op1 \cup op2
  BY LapackOps
<1>2. "lu" \in Name /\ "pivots" \in Name /\ <<A>> \in Seq(Arrays) /\ ToSet(<<A>>) = {A}
  BY DEF Name, ToSet
<1>3. /\ op1 \in Operation /\ Local(op1)
      /\ Writes(op1) = BufferOf({A}) /\ Reads(op1) \subseteq BufferOf({A})
      /\ op1 = {StoreOf(A, "lu", <<A>>, b) : b \in Batch}
  BY <1>2, BatchedIs, BatchedLocal
<1>4. /\ op2 \in Operation /\ Local(op2)
      /\ Writes(op2) = BufferOf({p}) /\ Reads(op2) \subseteq BufferOf({A})
      /\ op2 = {StoreOf(p, "pivots", <<A>>, b) : b \in Batch}
  BY <1>2, BatchedIs, BatchedLocal
<1>. HIDE DEF op, op1, op2
<1>5. Writes(op1) \cap Writes(op2) = {}
  BY <1>3, <1>4, BufferEquality DEF BufferOf
<1>6. /\ op \in Operation /\ Local(op) /\ Writes(op) = Writes(op1) \cup Writes(op2)
      /\ Reads(op) \subseteq BufferOf({A})
  <2>1. /\ op1 \cup op2 \in Operation /\ Local(op1 \cup op2)
        /\ Writes(op1 \cup op2) = Writes(op1) \cup Writes(op2)
        /\ Reads(op1 \cup op2) = Reads(op1) \cup Reads(op2)
    BY <1>3, <1>4, <1>5, UnionIs, Zenon
  <2>. QED  BY <1>1, <1>3, <1>4, <2>1
<1>7. Writes(op) = BufferOf({A, p})
  BY <1>3, <1>4, <1>6 DEF BufferOf
<1>8. ASSUME NEW m, IsMemory(m), NEW b \in Batch
      PROVE  /\ Executed(m, op)[Buffer(A, b)] = <<"lu", m[Buffer(A, b)]>>
             /\ Executed(m, op)[Buffer(p, b)] = <<"pivots", m[Buffer(A, b)]>>
  <2>. DEFINE s == StoreOf(A, "lu", <<A>>, b)
              t == StoreOf(p, "pivots", <<A>>, b)
  <2>1. s \in op /\ t \in op /\ s.to = Buffer(A, b) /\ t.to = Buffer(p, b)
    BY <1>1, <1>3, <1>4 DEF StoreOf
  <2>2. Result(m, s) = <<"lu", m[Buffer(A, b)]>> /\ Result(m, t) = <<"pivots", m[Buffer(A, b)]>>
    <3>. DEFINE from == <<A>>
    <3>1. Values(m, from, b) = <<m[Buffer(A, b)]>>
      BY DEF Values
    <3>. HIDE DEF from
    <3>2. /\ Result(m, StoreOf(A, "lu", from, b)) = Term("lu", <<m[Buffer(A, b)]>>)
          /\ Result(m, StoreOf(p, "pivots", from, b)) = Term("pivots", <<m[Buffer(A, b)]>>)
      <4>1. "lu" # "copy" /\ "pivots" # "copy"
        OBVIOUS
      <4>2. /\ Result(m, StoreOf(A, "lu", from, b)) = Term("lu", Values(m, from, b))
            /\ Result(m, StoreOf(p, "pivots", from, b)) = Term("pivots", Values(m, from, b))
        BY <4>1, TermResult
      <4>. QED  BY <3>1, <4>2
    <3>. QED  BY <3>2, Prefixed DEF from
  <2>. HIDE DEF s, t
  <2>3. Executed(m, op)[s.to] = Result(m, s) /\ Executed(m, op)[t.to] = Result(m, t)
    BY <1>6, <1>8, <2>1, ExecutedIs
  <2>. QED  BY <2>1, <2>2, <2>3
<1>. QED  BY <1>6, <1>7, <1>8 DEF op

(* Inverting in place a copy of the factors is inverting the factors.      *)
LEMMA InPlaceIs ==
  ASSUME NEW A \in Arrays, NEW p \in Arrays, NEW C \in Arrays, p # C,
         NEW m, IsMemory(m)
  PROVE  Executed(Executed(m, Batched(C, "copy", <<A>>)), Batched(C, "getri", <<C, p>>))
           = Executed(m, Batched(C, "getri", <<A, p>>))
<1>. DEFINE m1 == Executed(m, Batched(C, "copy", <<A>>))
            m2 == Executed(m1, Batched(C, "getri", <<C, p>>))
            m3 == Executed(m, Batched(C, "getri", <<A, p>>))
<1>1. "copy" \in Name /\ "getri" \in Name /\ "getri" # "copy"
  BY DEF Name
<1>2. <<A>> \in Seq(Arrays) /\ <<C, p>> \in Seq(Arrays) /\ <<A, p>> \in Seq(Arrays)
  OBVIOUS
<1>3. Wrote(m1, m, C) /\ \A b \in Batch : m1[Buffer(C, b)] = m[Buffer(A, b)]
  <2>1. Wrote(m1, m, C)
    BY <1>1, <1>2, BatchedWrote
  <2>. QED  BY <2>1, CopyValue
<1>. HIDE DEF m1
<1>4. IsMemory(m1)
  BY <1>3 DEF Wrote
<1>5. Wrote(m2, m1, C)
      /\ \A b \in Batch : m2[Buffer(C, b)] = <<"getri", m1[Buffer(C, b)], m1[Buffer(p, b)]>>
  <2>1. Wrote(m2, m1, C)
    BY <1>1, <1>2, <1>4, BatchedWrote
  <2>. QED  BY <1>1, <1>4, <2>1, TwoValue
<1>6. Wrote(m3, m, C)
      /\ \A b \in Batch : m3[Buffer(C, b)] = <<"getri", m[Buffer(A, b)], m[Buffer(p, b)]>>
  <2>1. Wrote(m3, m, C)
    BY <1>1, <1>2, BatchedWrote
  <2>. QED  BY <1>1, <2>1, TwoValue
<1>. HIDE DEF m2, m3
<1>7. ASSUME NEW c \in Bufs PROVE m2[c] = m3[c]
  <2>1. CASE c \in BufferOf({C})
    <3>1. PICK b \in Batch : c = Buffer(C, b)
      BY <2>1 DEF BufferOf
    <3>2. m1[Buffer(p, b)] = m[Buffer(p, b)]
      <4>1. Buffer(p, b) \in Bufs /\ Buffer(p, b) \notin BufferOf({C})
        BY BufferIn DEF Bufs, Arrays
      <4>. QED  BY <1>3, <4>1 DEF Wrote
    <3>3. m1[Buffer(C, b)] = m[Buffer(A, b)]
      BY <1>3
    <3>. QED  BY <1>5, <1>6, <3>1, <3>2, <3>3
  <2>2. CASE c \notin BufferOf({C})
    BY <1>3, <1>5, <1>6, <2>2 DEF Wrote
  <2>. QED  BY <2>1, <2>2
<1>8. m2 = m3
  BY <1>5, <1>6, <1>7 DEF Wrote, IsMemory
<1>. QED  BY <1>8 DEF m1, m2, m3

(* The batched calls, on whatever backend.                                 *)
LEMMA BatchedEffect ==
  ASSUME NEW bl \in Blocks, NEW d, Good(d, bl), NEW bu \in Build,
         NEW q, HandleOK(d, q, bu), NEW S \in SUBSET FreeIn(bl),
         S = {} \/ \E p \in S : S = {p},
         NEW ops \in Seq(Operation),
         \A i \in 1 .. Len(ops) : Clear(ops[i], bl) /\ Local(ops[i])
  PROVE  Effect(BatchedCall(bu.backend, d, q, ops, S), d, ops, bl, q, bu)
<1>1. CASE bu.backend = "host"
  <2>1. BatchedCall(bu.backend, d, q, ops, S) = HostBatched(d, ops)
    BY <1>1 DEF BatchedCall
  <2>2. BackendOK(d, q, bu)
    BY DEF HandleOK
  <2>. QED  BY <1>1, <2>1, <2>2, HostBatchedIs
<1>2. CASE bu.backend # "host"
  BY <1>2, BatchedCallIs
<1>. QED  BY <1>1, <1>2

(* One operation of the application, by a call of ops that does the same.  *)
LEMMA LapackCall ==
  ASSUME IInv, NEW op, AppOp(op), Local(op),
         NEW ops \in Seq(Operation), \A i \in 1 .. Len(ops) : AppOp(ops[i]) /\ Local(ops[i]),
         Done(Final(dev), ops) = Executed(Final(dev), op),
         NEW S \in SUBSET FreeIn(block), S = {} \/ \E p \in S : S = {p},
         BlasCall(op, CallOn(dev, ops, S))
  PROVE  IInv'
<1>. DEFINE d == CallOn(dev, ops, S)
<1>1. InHand /\ Ordered
  BY DEF BlasCall
<1>2. HandleOK(dev, g_handle, build) /\ build \in Build
      /\ block \in Blocks /\ Good(dev, block) /\ DevOK(dev)
  BY <1>1, CallHandle
<1>3. \A i \in 1 .. Len(ops) : Clear(ops[i], block) /\ Local(ops[i])
  BY <1>2, AppClear
<1>4. Effect(d, dev, ops, block, g_handle, build)
  BY <1>2, <1>3, BatchedEffect DEF CallOn
<1>5. IsMemory(Executed(Final(dev), op))
  BY <1>2, FinalMemory, ExecutedIs DEF AppOp
<1>6. Same(Done(Final(dev), ops), Executed(Final(dev), op), block)
  BY <1>5, SameIsEquivalence
<1>. HIDE DEF d
<1>7. BlasCall(op, d)
  BY DEF d
<1>. QED  BY <1>4, <1>6, <1>7, BlasStep

(* A call that is one operation.                                           *)
LEMMA OneCall ==
  ASSUME IInv, NEW op, AppOp(op), Local(op),
         NEW S \in SUBSET FreeIn(block), S = {} \/ \E p \in S : S = {p},
         BlasCall(op, CallOn(dev, <<op>>, S))
  PROVE  IInv'
<1>. DEFINE ops == <<op>>
<1>1. op \in Operation
  BY DEF AppOp
<1>2. ops \in Seq(Operation) /\ Len(ops) = 1 /\ ops[1] = op
  BY <1>1
<1>3. Done(Final(dev), ops) = Executed(Final(dev), op)
  BY <1>1, DoneOne
<1>. HIDE DEF ops
<1>4. BlasCall(op, CallOn(dev, ops, S))
  BY DEF ops
<1>5. \A i \in 1 .. Len(ops) : AppOp(ops[i]) /\ Local(ops[i])
  BY <1>2
<1>. QED  BY <1>2, <1>3, <1>4, <1>5, LapackCall

(* The operations of the application, as Lapack has them.                  *)
LEMMA LapackAre ==
  LET A == Pointers("M")
      B == Pointers("rhs")
      C == Pointers("inverse")
      Does(op) == AppOp(op) /\ Local(op)
  IN  /\ Does(GetrfBatched(A, "ipiv"))
      /\ Does(GetrfNpvtBatched(A))
      /\ Does(GetrsBatched(A, "ipiv", B))
      /\ Does(GetriBatched(A, "ipiv", C))
      /\ Does(GemmBatched(C, B, Pointers("result")))
      /\ Does(Batched("inverse", "copy", <<"M">>))
      /\ Does(Batched("inverse", "getri", <<"inverse", "ipiv">>))
<1>. DEFINE Does(op) == AppOp(op) /\ Local(op)
<1>1. /\ "M" \in AppArray /\ "ipiv" \in AppArray /\ "rhs" \in AppArray
      /\ "inverse" \in AppArray /\ "result" \in AppArray
  BY DEF AppArray
<1>2. AppArray \subseteq Arrays
  BY ArraysAre DEF ArrayFacts
<1>3. ASSUME NEW to \in AppArray, NEW name \in Name, NEW from \in Seq(AppArray)
      PROVE  Does(Batched(to, name, from))
  <2>1. to \in Arrays /\ from \in Seq(Arrays)
    BY <1>2
  <2>. QED  BY <2>1, AppBatched, BatchedLocal
<1>4. /\ "lu_npvt" \in Name /\ "getrs" \in Name /\ "getri" \in Name /\ "gemm" \in Name
      /\ "copy" \in Name /\ "lu" \in Name /\ "pivots" \in Name
  BY DEF Name
<1>. HIDE DEF Does
<1>5. /\ <<"M">> \in Seq(AppArray)
      /\ <<"M", "ipiv">> \in Seq(AppArray)
      /\ <<"inverse", "rhs">> \in Seq(AppArray)
      /\ <<"inverse", "ipiv">> \in Seq(AppArray)
  BY <1>1
<1>6. <<"M", "ipiv", "rhs">> \in Seq(AppArray)
  BY <1>1
<1>7. /\ Does(Batched("M", "lu_npvt", <<"M">>))
      /\ Does(Batched("inverse", "copy", <<"M">>))
  BY <1>1, <1>3, <1>4, <1>5
<1>8. /\ Does(Batched("inverse", "getri", <<"M", "ipiv">>))
      /\ Does(Batched("inverse", "getri", <<"inverse", "ipiv">>))
      /\ Does(Batched("result", "gemm", <<"inverse", "rhs">>))
  BY <1>1, <1>3, <1>4, <1>5
<1>9. Does(Batched("rhs", "getrs", <<"M", "ipiv", "rhs">>))
  BY <1>1, <1>3, <1>4, <1>6
<1>10. Does(GetrfBatched(Pointers("M"), "ipiv"))
  <2>. DEFINE op == GetrfBatched(Pointers("M"), "ipiv")
  <2>1. "M" \in Arrays /\ "ipiv" \in Arrays
    BY <1>1, <1>2
  <2>2. op \in Operation /\ Local(op)
        /\ Writes(op) = BufferOf({"M", "ipiv"}) /\ Reads(op) \subseteq BufferOf({"M"})
    BY <2>1, FactorIs
  <2>. HIDE DEF op
  <2>3. BufferOf({"M", "ipiv"}) \subseteq BufferOf(AppArray) /\ BufferOf({"M"}) \subseteq BufferOf(AppArray)
    BY <1>1 DEF BufferOf
  <2>. QED  BY <2>2, <2>3 DEF AppOp, Touches, Does, op
<1>11. /\ Does(GetrfNpvtBatched(Pointers("M")))
       /\ Does(GetrsBatched(Pointers("M"), "ipiv", Pointers("rhs")))
  BY <1>7, <1>9, LapackOps
<1>12. /\ Does(GetriBatched(Pointers("M"), "ipiv", Pointers("inverse")))
       /\ Does(GemmBatched(Pointers("inverse"), Pointers("rhs"), Pointers("result")))
  BY <1>8, LapackOps
<1>. QED  BY <1>7, <1>8, <1>10, <1>11, <1>12 DEF Does

LEMMA LapackStep == ASSUME IInv, Lapack PROVE IInv'
<1>. DEFINE A == Pointers("M")
            B == Pointers("rhs")
            C == Pointers("inverse")
            getri == GetriBatched(A, "ipiv", C)
            steps == Getri(build.backend, A, "ipiv", C)
<1>1. ASSUME NEW op, AppOp(op), Local(op), BatchedBlas(op, <<op>>)
      PROVE  IInv'
  <2>1. PICK p \in Free : BlasCall(op, CallOn(dev, <<op>>, {p}))
    BY <1>1 DEF BatchedBlas
  <2>2. {p} \in SUBSET FreeIn(block)
    BY DEF Free, FreeIn
  <2>. QED  BY <1>1, <2>1, <2>2, OneCall
<1>2. CASE BatchedBlas(getri, steps)
  <2>1. PICK p \in Free : BlasCall(getri, CallOn(dev, steps, {p}))
    BY <1>2 DEF BatchedBlas
  <2>2. {p} \in SUBSET FreeIn(block)
    BY DEF Free, FreeIn
  <2>. DEFINE op1 == Batched("inverse", "copy", <<"M">>)
              op2 == Batched("inverse", "getri", <<"inverse", "ipiv">>)
              both == <<op1, op2>>
  <2>3. /\ AppOp(getri) /\ Local(getri) /\ AppOp(op1) /\ Local(op1)
        /\ AppOp(op2) /\ Local(op2)
    BY LapackAre
  <2>4. CASE build.backend \in {"sycl", "host"}
    <3>1. steps = both
      BY <2>4, LapackOps DEF Getri
    <3>2. getri = Batched("inverse", "getri", <<"M", "ipiv">>)
      BY LapackOps
    <3>3. "M" \in Arrays /\ "ipiv" \in Arrays /\ "inverse" \in Arrays
      BY DEF Arrays, Array
    <3>4. IsMemory(Final(dev))
      BY FinalMemory DEF IInv, Sound
    <3>5. Executed(Executed(Final(dev), op1), op2) = Executed(Final(dev), getri)
      BY <3>2, <3>3, <3>4, InPlaceIs
    <3>. HIDE DEF op1, op2, getri, steps
    <3>6. op1 \in Operation /\ op2 \in Operation
      BY <2>3 DEF AppOp
    <3>7. Done(Final(dev), both) = Executed(Final(dev), getri)
      BY <3>5, <3>6, DoneTwo
    <3>8. both \in Seq(Operation) /\ Len(both) = 2 /\ both[1] = op1 /\ both[2] = op2
      BY <3>6
    <3>. HIDE DEF both
    <3>9. \A i \in 1 .. Len(both) : AppOp(both[i]) /\ Local(both[i])
      BY <2>3, <3>8
    <3>. QED  BY <2>1, <2>2, <2>3, <3>1, <3>7, <3>8, <3>9, LapackCall
  <2>5. CASE build.backend \notin {"sycl", "host"}
    <3>1. steps = <<getri>>
      BY <2>5 DEF Getri
    <3>. HIDE DEF getri, steps
    <3>. QED  BY <2>1, <2>2, <2>3, <3>1, OneCall
  <2>. QED  BY <2>4, <2>5
<1>3. CASE \E S \in {{}} : BlasCall(GemmBatched(C, B, Pointers("result")),
                                    CallOn(dev, <<GemmBatched(C, B, Pointers("result"))>>, S))
  <2>. DEFINE op == GemmBatched(C, B, Pointers("result"))
              S == {}
  <2>1. AppOp(op) /\ Local(op) /\ BlasCall(op, CallOn(dev, <<op>>, S)) /\ S \in SUBSET FreeIn(block)
    BY <1>3, LapackAre
  <2>. HIDE DEF op
  <2>. QED  BY <2>1, OneCall
<1>4. \/ BatchedBlas(GetrfBatched(A, "ipiv"), <<GetrfBatched(A, "ipiv")>>)
      \/ BatchedBlas(GetrfNpvtBatched(A), <<GetrfNpvtBatched(A)>>)
      \/ BatchedBlas(GetrsBatched(A, "ipiv", B), <<GetrsBatched(A, "ipiv", B)>>)
      \/ BatchedBlas(getri, steps)
      \/ BlasCall(GemmBatched(C, B, Pointers("result")),
                  CallOn(dev, <<GemmBatched(C, B, Pointers("result"))>>, {}))
  BY Zenon DEF Lapack
<1>. HIDE DEF A, B, C, getri, steps
<1>5. /\ AppOp(GetrfBatched(A, "ipiv")) /\ Local(GetrfBatched(A, "ipiv"))
      /\ AppOp(GetrfNpvtBatched(A)) /\ Local(GetrfNpvtBatched(A))
      /\ AppOp(GetrsBatched(A, "ipiv", B)) /\ Local(GetrsBatched(A, "ipiv", B))
  BY LapackAre DEF A, B
<1>. QED  BY <1>1, <1>2, <1>3, <1>4, <1>5

-----------------------------------------------------------------------------
(* The solvers' constructors. *)

(* A container other than the application's takes free blocks.             *)
LEMMA TakeBlocks ==
  ASSUME NEW bl \in Blocks, NEW bl2 \in Blocks, NEW d, Good(d, bl),
         bl2["temp"] = bl["temp"], FreeIn(bl2) \subseteq FreeIn(bl)
  PROVE  Good(d, bl2)
<1>1. Temp(bl2) = Temp(bl)
  BY DEF Temp
<1>2. BufferOf(FreeIn(bl2)) \subseteq BufferOf(FreeIn(bl))
  BY DEF BufferOf
<1>3. Owned(bl) \subseteq Owned(bl2)
  BY <1>1, <1>2 DEF Owned
<1>. QED  BY <1>3, MoreOwned

(* The application's arrays, when something else is written.               *)
LEMMA AppKept ==
  ASSUME NEW m1, NEW m2, NEW e, NEW to, to \notin AppArray, Wrote(m2, m1, to), AppOK(m1, e)
  PROVE  AppOK(m2, e)
<1>. SUFFICES ASSUME NEW c \in BufferOf(AppArray) PROVE m2[c] = e[c]
  BY DEF AppOK
<1>1. c \in Bufs
  BY ArraysAre DEF ArrayFacts, BufferOf, Bufs
<1>2. c \notin BufferOf({to})
  <2>1. c[1] \in AppArray
    BY InBufferOf
  <2>2. c \in BufferOf({to}) => c[1] \in {to}
    BY InBufferOf
  <2>. QED  BY <2>1, <2>2
<1>. QED  BY <1>1, <1>2 DEF Wrote, AppOK

(* The matrices, copied to an array of the solver.                         *)
LEMMA CopiedMatrix ==
  ASSUME NEW bl, NEW d, Good(d, bl), NEW to \in Arrays, to \notin AppArray,
         NEW e, AppOK(Final(d), e), NEW q, NEW bu, BackendOK(d, q, bu),
         NEW c, c = CopyBatchData(d, to)
  PROVE  /\ Good(c, bl) /\ IsMemory(Final(c)) /\ AppOK(Final(c), e) /\ BackendOK(c, q, bu)
         /\ \A b \in Batch : Final(c)[Buffer(to, b)] = Matrix(b)
<1>1. /\ Good(c, bl) /\ IsMemory(Final(c))
      /\ \A b \in Batch : Final(c)[Buffer(to, b)] = Matrix(b)
      /\ \A x \in Bufs : x \notin BufferOf({to}) => Final(c)[x] = Final(d)[x]
      /\ c.queue["default"] = << >> /\ c.queue["stream"] = d.queue["stream"]
  BY CopyIs
<1>2. Wrote(Final(c), Final(d), to)
  BY <1>1 DEF Wrote
<1>3. AppOK(Final(c), e)
  BY <1>2, AppKept
<1>4. BackendOK(c, q, bu)
  BY <1>1 DEF BackendOK
<1>. QED  BY <1>1, <1>3, <1>4

(* The factorization of an array of the solver.                            *)
LEMMA Factored ==
  ASSUME NEW m, IsMemory(m), NEW e, AppOK(m, e),
         \A b \in Batch : m[Buffer("matrix_data_", b)] = Matrix(b),
         NEW n, n = Executed(m, GetrfBatched(Pointers("matrix_data_"), "pivot_data_"))
  PROVE  /\ IsMemory(n) /\ AppOK(n, e)
         /\ \A b \in Batch : /\ n[Buffer("matrix_data_", b)] = <<"lu", Matrix(b)>>
                             /\ n[Buffer("pivot_data_", b)] = <<"pivots", Matrix(b)>>
<1>. DEFINE op == GetrfBatched(Pointers("matrix_data_"), "pivot_data_")
<1>1. "matrix_data_" \in Arrays /\ "pivot_data_" \in Arrays /\ "matrix_data_" # "pivot_data_"
      /\ "matrix_data_" \notin AppArray /\ "pivot_data_" \notin AppArray
  BY DEF Arrays, Array, AppArray
<1>2. /\ op \in Operation /\ Writes(op) = BufferOf({"matrix_data_", "pivot_data_"})
      /\ \A b \in Batch :
           /\ Executed(m, op)[Buffer("matrix_data_", b)] = <<"lu", m[Buffer("matrix_data_", b)]>>
           /\ Executed(m, op)[Buffer("pivot_data_", b)] = <<"pivots", m[Buffer("matrix_data_", b)]>>
  BY <1>1, FactorIs
<1>. HIDE DEF op
<1>3. n = Executed(m, op)
  BY DEF op
<1>4. IsMemory(n) /\ \A c \in Bufs : c \notin Writes(op) => n[c] = m[c]
  BY <1>2, <1>3, ExecutedIs
<1>5. AppOK(n, e)
  <2>1. SUFFICES ASSUME NEW c \in BufferOf(AppArray) PROVE n[c] = e[c]
    BY DEF AppOK
  <2>2. c \in Bufs
    BY ArraysAre DEF ArrayFacts, BufferOf, Bufs
  <2>3. c \notin Writes(op)
    <3>1. c[1] \in AppArray
      BY InBufferOf
    <3>2. c \in Writes(op) => c[1] \in {"matrix_data_", "pivot_data_"}
      BY <1>2, InBufferOf
    <3>. QED  BY <1>1, <3>1, <3>2
  <2>. QED  BY <1>4, <2>2, <2>3 DEF AppOK
<1>. QED  BY <1>2, <1>3, <1>4, <1>5

(* An effect on a device that will hold the same as m.                     *)
LEMMA EffectThen ==
  ASSUME NEW bl, NEW d, NEW m, Same(Final(d), m, bl),
         NEW ops \in Seq(Operation), \A i \in 1 .. Len(ops) : Clear(ops[i], bl),
         NEW e, NEW q, NEW bu, Effect(e, d, ops, bl, q, bu)
  PROVE  Same(Final(e), Done(m, ops), bl)
<1>1. \A i \in 1 .. Len(ops) : Similar(ops[i], ops[i], bl)
  BY ClearIsSimilar
<1>2. Same(Done(Final(d), ops), Done(m, ops), bl)
  BY <1>1, DoneSame
<1>. QED  BY <1>2, SameIsEquivalence DEF Effect

(* The memory of a device in the constructor, and of one that is similar.  *)
LEMMA NowFactoring ==
  ASSUME IInv, phase = "none", NEW h, h = g_handle, NEW bl, BlocksOK(bl, "factoring", build),
         NEW d, Good(d, bl), BackendOK(d, h, build),
         NEW m, Same(Final(d), m, bl), AppOK(m, expected), FactorsOK(m, bl, "factoring", build)
  PROVE  Sound(d, bl, "factoring", build, h, expected)
<1>1. AppOK(Final(d), expected) /\ FactorsOK(Final(d), bl, "factoring", build)
  BY SameKeeps
<1>. QED  BY <1>1 DEF IInv, Sound, Good

(* Operations on arrays and on blocks of the solver.                       *)
LEMMA ArrayClear ==
  ASSUME NEW bl \in Blocks, NEW op \in Operation, NEW S, Touches(op) \subseteq BufferOf(S),
         BufferOf(S) \subseteq Owned(bl)
  PROVE  Clear(op, bl)
  BY DEF Clear

LEMMA BatchedClear ==
  ASSUME NEW bl \in Blocks, NEW to \in Arrays, NEW name \in Name, NEW from \in Seq(Arrays),
         BufferOf({to}) \subseteq Owned(bl),
         \A i \in 1 .. Len(from) : BufferOf({from[i]}) \subseteq Owned(bl)
  PROVE  Clear(Batched(to, name, from), bl)
<1>. DEFINE op == Batched(to, name, from)
<1>1. op \in Operation /\ Writes(op) = BufferOf({to}) /\ Reads(op) \subseteq BufferOf(ToSet(from))
  BY BatchedIs
<1>. HIDE DEF op
<1>2. BufferOf(ToSet(from)) \subseteq Owned(bl)
  <2>1. SUFFICES ASSUME NEW c \in BufferOf(ToSet(from)) PROVE c \in Owned(bl)
    OBVIOUS
  <2>2. PICK i \in 1 .. Len(from) : c[1] = from[i]
    BY InBufferOf DEF ToSet
  <2>3. c \in BufferOf({from[i]})
    BY <2>2, InBufferOf, BufferIn
  <2>. QED  BY <2>3
<1>. QED  BY <1>1, <1>2 DEF Clear, Touches, op

(* An array that keeps its block.                                          *)
LEMMA OwnArray ==
  ASSUME NEW bl \in Blocks, NEW a \in Array
  PROVE  BufferOf({a}) \subseteq Owned(bl) /\ a \in Arrays
<1>1. BufferOf({a}) \subseteq BufferOf(Array)
  BY DEF BufferOf
<1>. QED  BY <1>1, ArrayOwned, ArraysAre DEF ArrayFacts

(* What is known when a constructor begins, for a handle on the default    *)
(* queue.                                                                  *)
LEMMA ConstructStart ==
  ASSUME IInv, SolverQueues = {"default"}, Construct
  PROVE  /\ g_handle = "default" /\ phase = "none" /\ phase' = "factoring"
         /\ UNCHANGED <<build, g_handle, expected, answered>>
         /\ BlocksOK(block, "none", build) /\ block \in Blocks
         /\ Good(dev, block) /\ BackendOK(dev, "default", build)
         /\ AppOK(Final(dev), expected) /\ build \in Build
         /\ "matrix_data_" \in Array /\ "pivot_data_" \in Array
         /\ "matrix_data_" \notin AppArray
<1>1. g_handle = "default" /\ phase = "none" /\ phase' = "factoring"
      /\ UNCHANGED <<build, g_handle, expected, answered>>
  BY DEF Construct
<1>2. Sound(dev, block, phase, build, g_handle, expected)
  BY DEF IInv
<1>. QED  BY <1>1, <1>2 DEF Sound, BlocksOK, Blocks, Good, Array, AppArray

(* The factorization of matrix_data_ is clear work, and its effect.        *)
LEMMA FactorCall ==
  ASSUME NEW bl \in Blocks, NEW bu \in Build, bu.backend # "host",
         NEW c, Good(c, bl), BackendOK(c, "default", bu),
         NEW S \in SUBSET FreeIn(bl), S = {} \/ \E s \in S : S = {s},
         NEW e, e = BatchedCall(bu.backend, c, "default",
                                <<GetrfBatched(Pointers("matrix_data_"), "pivot_data_")>>, S)
  PROVE  /\ Good(e, bl) /\ BackendOK(e, "default", bu)
         /\ Same(Final(e), Executed(Final(c), GetrfBatched(Pointers("matrix_data_"), "pivot_data_")),
                 bl)
<1>. DEFINE op == GetrfBatched(Pointers("matrix_data_"), "pivot_data_")
            ops == <<op>>
<1>1. "matrix_data_" \in Array /\ "pivot_data_" \in Array /\ "matrix_data_" # "pivot_data_"
  BY DEF Array
<1>2. op \in Operation /\ Touches(op) \subseteq BufferOf({"matrix_data_", "pivot_data_"})
  <2>1. "matrix_data_" \in Arrays /\ "pivot_data_" \in Arrays
    BY <1>1, OwnArray
  <2>2. op \in Operation /\ Writes(op) = BufferOf({"matrix_data_", "pivot_data_"})
        /\ Reads(op) \subseteq BufferOf({"matrix_data_"})
    BY <1>1, <2>1, FactorIs
  <2>. HIDE DEF op
  <2>. QED  BY <2>2 DEF Touches, BufferOf
<1>. HIDE DEF op
<1>3. BufferOf({"matrix_data_", "pivot_data_"}) \subseteq Owned(bl)
  BY <1>1, ArrayOwned DEF BufferOf
<1>4. Clear(op, bl)
  BY <1>2, <1>3, ArrayClear
<1>5. HandleOK(c, "default", bu)
  BY DEF HandleOK, Queue
<1>6. ops \in Seq(Operation) /\ Len(ops) = 1 /\ ops[1] = op
  BY <1>2
<1>7. Done(Final(c), ops) = Executed(Final(c), op)
  BY <1>2, DoneOne
<1>8. e = BatchedCall(bu.backend, c, "default", ops, S)
  BY DEF op
<1>. HIDE DEF ops
<1>9. \A i \in 1 .. Len(ops) : Clear(ops[i], bl)
  BY <1>4, <1>6
<1>10. Effect(e, c, ops, bl, "default", bu)
  BY <1>5, <1>6, <1>8, <1>9, BatchedCallIs
<1>. QED  BY <1>7, <1>10 DEF Effect, op

LEMMA ConstructDenseStep ==
  ASSUME IInv, SolverQueues = {"default"}, Construct, ConstructDense PROVE IInv'
<1>. DEFINE c == CopyBatchData(dev, "matrix_data_")
            op == GetrfBatched(Pointers("matrix_data_"), "pivot_data_")
            n == Executed(Final(c), op)
<1>1. /\ g_handle = "default" /\ phase = "none" /\ phase' = "factoring"
      /\ UNCHANGED <<build, g_handle, expected, answered>>
      /\ BlocksOK(block, "none", build) /\ block \in Blocks
      /\ Good(dev, block) /\ BackendOK(dev, "default", build)
      /\ AppOK(Final(dev), expected) /\ build \in Build
      /\ "matrix_data_" \in Arrays /\ "matrix_data_" \notin AppArray
  BY ConstructStart, OwnArray
<1>2. /\ build.kind = "dense" /\ build.backend # "sycl" /\ UNCHANGED block
      /\ dev' = BatchedCall(build.backend, c, "default", <<op>>, {})
  BY <1>1 DEF ConstructDense, CallOn
<1>3. build.backend # "host"
  BY <1>1, <1>2, HostAssumption
<1>4. /\ Good(c, block) /\ IsMemory(Final(c)) /\ AppOK(Final(c), expected)
      /\ BackendOK(c, "default", build)
      /\ \A b \in Batch : Final(c)[Buffer("matrix_data_", b)] = Matrix(b)
  BY <1>1, CopiedMatrix
<1>5. {} \in SUBSET FreeIn(block)
  OBVIOUS
<1>. HIDE DEF c
<1>6. Good(dev', block) /\ BackendOK(dev', "default", build) /\ Same(Final(dev'), n, block)
  BY <1>1, <1>2, <1>3, <1>4, <1>5, FactorCall
<1>7. /\ AppOK(n, expected)
      /\ \A b \in Batch : /\ n[Buffer("matrix_data_", b)] = <<"lu", Matrix(b)>>
                          /\ n[Buffer("pivot_data_", b)] = <<"pivots", Matrix(b)>>
  BY <1>4, Factored
<1>. HIDE DEF n, op
<1>8. FactorsOK(n, block, "factoring", build)
  BY <1>2, <1>7 DEF FactorsOK
<1>9. BlocksOK(block, "factoring", build)
  BY <1>1, <1>2 DEF BlocksOK
<1>10. Sound(dev', block, "factoring", build, "default", expected)
  BY <1>1, <1>6, <1>7, <1>8, <1>9, NowFactoring
<1>. QED  BY <1>1, <1>2, <1>10, IInvAfter DEF IInv

(* The temporary of the solver gets a block.                               *)
LEMMA TakenBlock ==
  ASSUME build.kind \in {"invert", "sparse"}, BlocksOK(block, "none", build), NEW p \in Free
  PROVE  LET bl == [block EXCEPT !["d_A"] = p]
         IN  /\ bl \in Blocks /\ bl["d_A"] = p /\ p \in Pool /\ p # "none"
             /\ bl["temp"] = block["temp"]
             /\ FreeIn(bl) = FreeIn(block) \ {p}
             /\ BlocksOK(bl, "factoring", build)
<1>. DEFINE bl == [block EXCEPT !["d_A"] = p]
<1>1. /\ block \in Blocks /\ p \in Pool /\ p # "none" /\ \A v \in Vector : block[v] # p
      /\ "d_A" \in Vector /\ "temp" \in Vector
  BY PoolAssumption DEF BlocksOK, Blocks, Free, Vector
<1>2. bl \in Blocks /\ bl["d_A"] = p /\ \A v \in Vector : v # "d_A" => bl[v] = block[v]
  BY <1>1 DEF Blocks, Vector
<1>. HIDE DEF bl
<1>3. block["d_A"] = "none"
  BY DEF BlocksOK
<1>4. FreeIn(bl) = FreeIn(block) \ {p}
  <2>1. ASSUME NEW x \in Pool PROVE x \in FreeIn(bl) <=> x \in FreeIn(block) /\ x # p
    BY <1>1, <1>2, <1>3, PoolAssumption DEF FreeIn, Vector
  <2>. QED  BY <2>1 DEF FreeIn
<1>5. \A u, v \in Vector : u # v /\ bl[u] # "none" => bl[u] # bl[v]
  BY <1>1, <1>2 DEF BlocksOK
<1>6. BlocksOK(bl, "factoring", build)
  BY <1>1, <1>2, <1>5 DEF BlocksOK, Blocks
<1>7. bl["temp"] = block["temp"]
  BY <1>1, <1>2
<1>. QED  BY <1>1, <1>2, <1>4, <1>6, <1>7 DEF bl

LEMMA ConstructSparseStep ==
  ASSUME IInv, SolverQueues = {"default"}, Construct, ConstructSparse PROVE IInv'
<1>1. /\ g_handle = "default" /\ phase = "none" /\ phase' = "factoring"
      /\ UNCHANGED <<build, g_handle, expected, answered>>
      /\ BlocksOK(block, "none", build) /\ block \in Blocks
      /\ Good(dev, block) /\ BackendOK(dev, "default", build)
      /\ AppOK(Final(dev), expected) /\ build \in Build
  BY ConstructStart
<1>2. PICK p, s \in Free :
        /\ p # s /\ block' = [block EXCEPT !["d_A"] = p]
        /\ dev' = BatchedCall(build.backend, CopyBatchData(dev, p), "default",
                              <<GetrfNpvtBatched(Pointers(p))>>, {s})
  BY <1>1 DEF ConstructSparse, CallOn
<1>. DEFINE bl == block'
            c == CopyBatchData(dev, p)
            op == Batched(p, "lu_npvt", <<p>>)
            ops == <<op>>
            n == Executed(Final(c), op)
            S == {s}
<1>3. build.kind = "sparse" /\ build.backend # "host"
      /\ build.kind \in {"invert", "sparse"}
  BY <1>1, HostAssumption DEF ConstructSparse
<1>4. /\ bl \in Blocks /\ bl["d_A"] = p /\ p \in Pool /\ p # "none"
      /\ bl["temp"] = block["temp"]
      /\ FreeIn(bl) \subseteq FreeIn(block) /\ FreeIn(bl) = FreeIn(block) \ {p}
      /\ BlocksOK(bl, "factoring", build)
  <2>2. bl = [block EXCEPT !["d_A"] = p]
    BY <1>2
  <2>. HIDE DEF bl
  <2>. QED  BY <1>1, <1>3, <2>2, TakenBlock
<1>5. S \in SUBSET FreeIn(bl) /\ \E x \in S : S = {x}
  BY <1>2, <1>4 DEF Free, FreeIn
<1>6. p \in Arrays /\ p \notin AppArray /\ <<p>> \in Seq(Arrays) /\ "lu_npvt" \in Name
      /\ "lu_npvt" # "copy"
  BY <1>4, ArraysAre DEF ArrayFacts, Arrays, Name
<1>7. GetrfNpvtBatched(Pointers(p)) = op
  BY LapackOps
<1>. HIDE DEF S
<1>8. dev' = BatchedCall(build.backend, c, "default", ops, S)
  BY <1>2, <1>7 DEF S
<1>9. Good(dev, bl)
  BY <1>1, <1>4, TakeBlocks
<1>. HIDE DEF bl
<1>10. /\ Good(c, bl) /\ IsMemory(Final(c)) /\ AppOK(Final(c), expected)
       /\ BackendOK(c, "default", build)
       /\ \A b \in Batch : Final(c)[Buffer(p, b)] = Matrix(b)
  BY <1>1, <1>6, <1>9, CopiedMatrix
<1>. HIDE DEF c
<1>11. Clear(op, bl) /\ op \in Operation
  <2>1. BufferOf({p}) \subseteq Owned(bl)
    <3>1. "d_A" \in Vector /\ "d_A" # "temp"
      BY DEF Vector
    <3>. QED  BY <1>4, <3>1, BlockOwned
  <2>. DEFINE from == <<p>>
  <2>2. from \in Seq(Arrays) /\ \A i \in 1 .. Len(from) : BufferOf({from[i]}) \subseteq Owned(bl)
    BY <1>6, <2>1
  <2>3. op = Batched(p, "lu_npvt", from)
    OBVIOUS
  <2>. HIDE DEF op, from
  <2>4. Clear(op, bl)
    BY <1>4, <1>6, <2>1, <2>2, <2>3, BatchedClear
  <2>. QED  BY <2>4 DEF Clear
<1>12. \A b \in Batch : n[Buffer(p, b)] = <<"lu_npvt", Matrix(b)>>
  <2>1. ASSUME NEW b \in Batch PROVE n[Buffer(p, b)] = <<"lu_npvt", Final(c)[Buffer(p, b)]>>
    BY <1>6, <1>10, OneValue
  <2>. HIDE DEF n
  <2>. QED  BY <1>10, <2>1
<1>13. AppOK(n, expected)
  <2>1. Wrote(n, Final(c), p)
    BY <1>6, <1>10, BatchedWrote
  <2>. QED  BY <1>6, <1>10, <2>1, AppKept
<1>. HIDE DEF op
<1>14. ops \in Seq(Operation) /\ Len(ops) = 1 /\ ops[1] = op /\ Done(Final(c), ops) = n
  BY <1>11, DoneOne
<1>. HIDE DEF ops, n
<1>15. Effect(dev', c, ops, bl, "default", build)
  <2>1. \A i \in 1 .. Len(ops) : Clear(ops[i], bl)
    BY <1>11, <1>14
  <2>2. HandleOK(c, "default", build)
    BY <1>10 DEF HandleOK, Queue
  <2>. QED  BY <1>1, <1>3, <1>4, <1>5, <1>8, <1>10, <1>14, <2>1, <2>2, BatchedCallIs
<1>16. Good(dev', bl) /\ BackendOK(dev', "default", build) /\ Same(Final(dev'), n, bl)
  BY <1>14, <1>15 DEF Effect
<1>17. FactorsOK(n, bl, "factoring", build)
  BY <1>3, <1>4, <1>12 DEF FactorsOK
<1>18. Sound(dev', bl, "factoring", build, "default", expected)
  BY <1>1, <1>4, <1>13, <1>16, <1>17, NowFactoring
<1>. QED  BY <1>1, <1>18, IInvAfter DEF IInv, bl

(* The same for one, two and three arrays.                                 *)
LEMMA ClearOne ==
  ASSUME NEW bl \in Blocks, NEW to \in Arrays, NEW name \in Name, NEW x \in Arrays,
         BufferOf({to}) \subseteq Owned(bl), BufferOf({x}) \subseteq Owned(bl)
  PROVE  Clear(Batched(to, name, <<x>>), bl)
<1>. DEFINE from == <<x>>
<1>1. from \in Seq(Arrays) /\ \A i \in 1 .. Len(from) : from[i] = x
  OBVIOUS
<1>. HIDE DEF from
<1>2. Clear(Batched(to, name, from), bl)
  BY <1>1, BatchedClear
<1>. QED  BY <1>2 DEF from

LEMMA ClearTwo ==
  ASSUME NEW bl \in Blocks, NEW to \in Arrays, NEW name \in Name,
         NEW x \in Arrays, NEW y \in Arrays,
         BufferOf({to}) \subseteq Owned(bl), BufferOf({x}) \subseteq Owned(bl),
         BufferOf({y}) \subseteq Owned(bl)
  PROVE  Clear(Batched(to, name, <<x, y>>), bl)
<1>. DEFINE from == <<x, y>>
<1>1. from \in Seq(Arrays) /\ Len(from) = 2 /\ from[1] = x /\ from[2] = y
  OBVIOUS
<1>. HIDE DEF from
<1>2. ASSUME NEW i \in 1 .. Len(from) PROVE BufferOf({from[i]}) \subseteq Owned(bl)
  <2>1. from[i] = x \/ from[i] = y
    <3>1. i = 1 \/ i = 2
      BY <1>1
    <3>. QED  BY <1>1, <3>1
  <2>. QED  BY <2>1
<1>3. Clear(Batched(to, name, from), bl)
  BY <1>1, <1>2, BatchedClear
<1>. QED  BY <1>3 DEF from

LEMMA ClearThree ==
  ASSUME NEW bl \in Blocks, NEW to \in Arrays, NEW name \in Name,
         NEW x \in Arrays, NEW y \in Arrays, NEW z \in Arrays,
         BufferOf({to}) \subseteq Owned(bl), BufferOf({x}) \subseteq Owned(bl),
         BufferOf({y}) \subseteq Owned(bl), BufferOf({z}) \subseteq Owned(bl)
  PROVE  Clear(Batched(to, name, <<x, y, z>>), bl)
<1>. DEFINE from == <<x, y, z>>
<1>1. from \in Seq(Arrays)
  OBVIOUS
<1>2. Len(from) = 3 /\ from[1] = x /\ from[2] = y /\ from[3] = z
  OBVIOUS
<1>. HIDE DEF from
<1>3. ASSUME NEW i \in 1 .. Len(from) PROVE BufferOf({from[i]}) \subseteq Owned(bl)
  <2>1. from[i] = x \/ from[i] = y \/ from[i] = z
    <3>1. i = 1 \/ i = 2 \/ i = 3
      BY <1>2
    <3>. QED  BY <1>2, <3>1
  <2>. QED  BY <2>1
<1>4. Clear(Batched(to, name, from), bl)
  BY <1>1, <1>3, BatchedClear
<1>. QED  BY <1>4 DEF from

LEMMA ConstructInvertStep ==
  ASSUME IInv, SolverQueues = {"default"}, Construct, ConstructInvert PROVE IInv'
<1>1. /\ g_handle = "default" /\ phase = "none" /\ phase' = "factoring"
      /\ UNCHANGED <<build, g_handle, expected, answered>>
      /\ BlocksOK(block, "none", build) /\ block \in Blocks
      /\ Good(dev, block) /\ BackendOK(dev, "default", build)
      /\ AppOK(Final(dev), expected) /\ build \in Build
      /\ "matrix_data_" \in Array /\ "pivot_data_" \in Array
      /\ "matrix_data_" \notin AppArray
  BY ConstructStart
<1>. DEFINE A == Pointers("matrix_data_")
            getrf == GetrfBatched(A, "pivot_data_")
            c == CopyBatchData(dev, "matrix_data_")
<1>2. PICK p, s \in Free :
        /\ p # s /\ block' = [block EXCEPT !["d_A"] = p]
        /\ dev' = BatchedCall(build.backend,
                    Submit(BatchedCall(build.backend, c, "default", <<getrf>>, {s}),
                           "default", CopyBatched("matrix_data_", p)),
                    "default", Getri(build.backend, Pointers(p), "pivot_data_", A), {s})
  BY <1>1 DEF ConstructInvert, CallOn
<1>. DEFINE bl == block'
            S == {s}
            d1 == BatchedCall(build.backend, c, "default", <<getrf>>, S)
            cp == Batched(p, "copy", <<"matrix_data_">>)
            d2 == Submit(d1, "default", cp)
            gi == Batched("matrix_data_", "getri", <<p, "pivot_data_">>)
            steps == Getri(build.backend, Pointers(p), "pivot_data_", A)
            n == Executed(Final(c), getrf)
            n2 == Executed(n, cp)
            n3 == Executed(n2, gi)
<1>3. build.kind = "invert" /\ build.backend # "host"
      /\ build.kind \in {"invert", "sparse"}
  BY <1>1, HostAssumption DEF ConstructInvert
<1>4. /\ bl \in Blocks /\ bl["d_A"] = p /\ p \in Pool /\ p # "none"
      /\ bl["temp"] = block["temp"]
      /\ FreeIn(bl) \subseteq FreeIn(block) /\ FreeIn(bl) = FreeIn(block) \ {p}
      /\ BlocksOK(bl, "factoring", build)
  <2>2. bl = [block EXCEPT !["d_A"] = p]
    BY <1>2
  <2>. HIDE DEF bl
  <2>. QED  BY <1>1, <1>3, <2>2, TakenBlock
<1>5. S \in SUBSET FreeIn(bl) /\ \E x \in S : S = {x}
  BY <1>2, <1>4 DEF Free, FreeIn
<1>6. /\ p \in Arrays /\ p \notin AppArray /\ "matrix_data_" \in Arrays /\ "pivot_data_" \in Arrays
      /\ "lu_npvt" \in Name /\ "copy" \in Name /\ "getri" \in Name /\ "getri" # "copy"
      /\ p # "matrix_data_" /\ p # "pivot_data_"
  BY <1>1, <1>4, ArraysAre DEF ArrayFacts, Arrays, Name
<1>7. dev' = BatchedCall(build.backend, d2, "default", steps, S)
  BY <1>2 DEF CopyBatched
<1>. HIDE DEF S
<1>8. /\ BufferOf({p}) \subseteq Owned(bl)
      /\ BufferOf({"matrix_data_"}) \subseteq Owned(bl)
      /\ BufferOf({"pivot_data_"}) \subseteq Owned(bl)
  <2>1. "d_A" \in Vector /\ "d_A" # "temp"
    BY DEF Vector
  <2>. QED  BY <1>1, <1>4, <2>1, BlockOwned, OwnArray
<1>9. Good(dev, bl)
  BY <1>1, <1>4, TakeBlocks
<1>. HIDE DEF bl
<1>10. /\ Good(c, bl) /\ IsMemory(Final(c)) /\ AppOK(Final(c), expected)
       /\ BackendOK(c, "default", build)
       /\ \A b \in Batch : Final(c)[Buffer("matrix_data_", b)] = Matrix(b)
  BY <1>1, <1>6, <1>9, CopiedMatrix
<1>. HIDE DEF c
<1>11. Good(d1, bl) /\ BackendOK(d1, "default", build) /\ Same(Final(d1), n, bl)
  BY <1>1, <1>3, <1>4, <1>5, <1>10, FactorCall
<1>12. /\ IsMemory(n) /\ AppOK(n, expected)
       /\ \A b \in Batch : /\ n[Buffer("matrix_data_", b)] = <<"lu", Matrix(b)>>
                           /\ n[Buffer("pivot_data_", b)] = <<"pivots", Matrix(b)>>
  BY <1>10, Factored
<1>. HIDE DEF d1, n
<1>13. Clear(cp, bl) /\ cp \in Operation
  <2>1. Clear(cp, bl)
    BY <1>4, <1>6, <1>8, ClearOne
  <2>. QED  BY <2>1 DEF Clear
<1>14. Good(d2, bl) /\ BackendOK(d2, "default", build) /\ Same(Final(d2), n2, bl)
  <2>. HIDE DEF cp
  <2>1. Good(d2, bl)
    BY <1>4, <1>11, <1>13, GoodSubmit
  <2>2. /\ Final(d2) = Executed(Final(d1), cp)
        /\ d2.queue["stream"] = d1.queue["stream"]
    BY <1>11, <1>13, SubmitDefault DEF Good
  <2>3. Same(Final(d2), n2, bl)
    BY <1>11, <1>13, <2>2, ClearSame
  <2>4. BackendOK(d2, "default", build)
    BY <1>3, <1>11, <2>2 DEF BackendOK
  <2>. QED  BY <2>1, <2>3, <2>4
<1>15. /\ IsMemory(n2) /\ AppOK(n2, expected)
       /\ \A b \in Batch : /\ n2[Buffer(p, b)] = <<"lu", Matrix(b)>>
                           /\ n2[Buffer("pivot_data_", b)] = <<"pivots", Matrix(b)>>
  <2>1. <<"matrix_data_">> \in Seq(Arrays)
    BY <1>6
  <2>2. Wrote(n2, n, p)
    BY <1>6, <1>12, <2>1, BatchedWrote
  <2>3. ASSUME NEW b \in Batch PROVE n2[Buffer(p, b)] = n[Buffer("matrix_data_", b)]
    BY <1>6, <1>12, CopyValue
  <2>4. ASSUME NEW b \in Batch
        PROVE  n2[Buffer("pivot_data_", b)] = n[Buffer("pivot_data_", b)]
    <3>1. Buffer("pivot_data_", b) \in Bufs /\ Buffer("pivot_data_", b) \notin BufferOf({p})
      BY <1>6, BufferIn DEF Bufs, Arrays
    <3>. QED  BY <2>2, <3>1 DEF Wrote
  <2>. HIDE DEF n2
  <2>5. AppOK(n2, expected)
    BY <1>6, <1>12, <2>2, AppKept
  <2>. QED  BY <1>12, <2>2, <2>3, <2>4, <2>5 DEF Wrote
<1>. HIDE DEF d2, n2
<1>16. Clear(gi, bl) /\ gi \in Operation
  <2>1. Clear(gi, bl)
    BY <1>4, <1>6, <1>8, ClearTwo
  <2>. QED  BY <2>1 DEF Clear
<1>17. /\ steps \in Seq(Operation) /\ \A i \in 1 .. Len(steps) : Clear(steps[i], bl)
       /\ Done(n2, steps) = n3
  <2>1. CASE build.backend \in {"sycl", "host"}
    <3>. DEFINE op1 == Batched("matrix_data_", "copy", <<p>>)
                op2 == Batched("matrix_data_", "getri", <<"matrix_data_", "pivot_data_">>)
                both == <<op1, op2>>
    <3>1. steps = both
      BY <2>1, LapackOps DEF Getri
    <3>2. Executed(Executed(n2, op1), op2) = n3
      <4>1. "pivot_data_" # "matrix_data_"
        OBVIOUS
      <4>. QED  BY <1>6, <1>15, <4>1, InPlaceIs
    <3>3. Clear(op1, bl)
      BY <1>4, <1>6, <1>8, ClearOne
    <3>4. Clear(op2, bl)
      BY <1>4, <1>6, <1>8, ClearTwo
    <3>. HIDE DEF op1, op2, steps
    <3>5. op1 \in Operation /\ op2 \in Operation
      BY <3>3, <3>4 DEF Clear
    <3>6. Done(n2, both) = n3
      BY <3>2, <3>5, DoneTwo
    <3>7. both \in Seq(Operation) /\ Len(both) = 2 /\ both[1] = op1 /\ both[2] = op2
      BY <3>5
    <3>. HIDE DEF both
    <3>. QED  BY <3>1, <3>3, <3>4, <3>6, <3>7
  <2>2. CASE build.backend \notin {"sycl", "host"}
    <3>1. steps = <<gi>>
      BY <2>2, LapackOps DEF Getri
    <3>. HIDE DEF steps, gi
    <3>2. Done(n2, <<gi>>) = n3
      BY <1>16, DoneOne
    <3>3. <<gi>> \in Seq(Operation) /\ Len(<<gi>>) = 1 /\ <<gi>>[1] = gi
      BY <1>16
    <3>. QED  BY <1>16, <3>1, <3>2, <3>3
  <2>. QED  BY <2>1, <2>2
<1>. HIDE DEF steps
<1>18. Effect(dev', d2, steps, bl, "default", build)
  <2>1. HandleOK(d2, "default", build)
    BY <1>14 DEF HandleOK, Queue
  <2>. QED  BY <1>1, <1>3, <1>4, <1>5, <1>7, <1>14, <1>17, <2>1, BatchedCallIs
<1>19. Same(Final(dev'), n3, bl)
  BY <1>14, <1>17, <1>18, EffectThen
<1>20. \A b \in Batch : n3[Buffer("matrix_data_", b)] =
                          <<"getri", <<"lu", Matrix(b)>>, <<"pivots", Matrix(b)>>>>
  <2>1. ASSUME NEW b \in Batch
        PROVE  n3[Buffer("matrix_data_", b)] =
                 <<"getri", n2[Buffer(p, b)], n2[Buffer("pivot_data_", b)]>>
    BY <1>6, <1>15, TwoValue
  <2>. HIDE DEF n3
  <2>. QED  BY <1>15, <2>1
<1>21. AppOK(n3, expected)
  <2>1. <<p, "pivot_data_">> \in Seq(Arrays)
    BY <1>6
  <2>2. Wrote(n3, n2, "matrix_data_")
    BY <1>6, <1>15, <2>1, BatchedWrote
  <2>. HIDE DEF n3
  <2>. QED  BY <1>1, <1>15, <2>2, AppKept
<1>. HIDE DEF n3
<1>22. FactorsOK(n3, bl, "factoring", build)
  BY <1>3, <1>20 DEF FactorsOK
<1>23. Good(dev', bl) /\ BackendOK(dev', "default", build)
  BY <1>18 DEF Effect
<1>24. Sound(dev', bl, "factoring", build, "default", expected)
  BY <1>1, <1>4, <1>19, <1>21, <1>22, <1>23, NowFactoring
<1>. QED  BY <1>1, <1>24, IInvAfter DEF IInv, bl

LEMMA ConstructDenseSyclStep ==
  ASSUME IInv, SolverQueues = {"default"}, Construct, ConstructDenseSycl PROVE IInv'
<1>1. /\ g_handle = "default" /\ phase = "none" /\ phase' = "factoring"
      /\ UNCHANGED <<build, g_handle, expected, answered>>
      /\ BlocksOK(block, "none", build) /\ block \in Blocks
      /\ Good(dev, block) /\ BackendOK(dev, "default", build)
      /\ AppOK(Final(dev), expected) /\ build \in Build
      /\ "matrix_data_" \in Array /\ "pivot_data_" \in Array
      /\ "matrix_data_" \notin AppArray
  BY ConstructStart
<1>. DEFINE c == CopyBatchData(dev, "matrix_data_")
            op == GetrfBatched(Pointers("matrix_data_"), "pivot_data_")
            n == Executed(Final(c), op)
<1>2. PICK p1, p2 \in Free :
        /\ p1 # p2
        /\ block' = [block EXCEPT !["scratch_"] = p1, !["prep_scratch"] = p2]
        /\ dev' = Submit(c, "default", op \cup Scratch({p2}))
  BY <1>1 DEF ConstructDenseSycl, SyclStrided
<1>. DEFINE bl == block'
            sc == Scratch({p2})
<1>3. build.kind = "dense" /\ build.backend = "sycl"
  BY DEF ConstructDenseSycl
<1>4. /\ bl \in Blocks /\ bl["prep_scratch"] = p2 /\ p2 \in Pool /\ p2 # "none"
      /\ p2 \in FreeIn(block)
      /\ bl["temp"] = block["temp"]
      /\ FreeIn(bl) \subseteq FreeIn(block)
      /\ BlocksOK(bl, "factoring", build)
  <2>1. /\ p1 \in Pool /\ p2 \in Pool /\ p1 # "none" /\ p2 # "none" /\ p2 \in FreeIn(block)
        /\ \A v \in Vector : block[v] # p1 /\ block[v] # p2
    BY PoolAssumption DEF Free, FreeIn
  <2>2. /\ bl \in Blocks /\ bl["scratch_"] = p1 /\ bl["prep_scratch"] = p2
        /\ \A v \in Vector : v # "scratch_" /\ v # "prep_scratch" => bl[v] = block[v]
    BY <1>1, <1>2, <2>1 DEF Blocks, Vector
  <2>. HIDE DEF bl
  <2>3. bl["temp"] = block["temp"]
    BY <2>2 DEF Vector
  <2>4. block["scratch_"] = "none" /\ block["prep_scratch"] = "none"
    BY <1>1 DEF BlocksOK
  <2>5. FreeIn(bl) \subseteq FreeIn(block)
    <3>1. ASSUME NEW x \in Pool, \A v \in Vector : bl[v] # x
          PROVE  \A v \in Vector : block[v] # x
      BY <2>2, <2>4, <3>1, PoolAssumption DEF Vector
    <3>. QED  BY <3>1 DEF FreeIn
  <2>6. \A u, v \in Vector : u # v /\ bl[u] # "none" => bl[u] # bl[v]
    BY <1>1, <1>2, <2>1, <2>2 DEF BlocksOK
  <2>7. BlocksOK(bl, "factoring", build)
    BY <1>3, <2>1, <2>2, <2>6 DEF BlocksOK, Blocks
  <2>. QED  BY <2>1, <2>2, <2>3, <2>5, <2>7
<1>. HIDE DEF bl
<1>5. /\ Good(c, block) /\ IsMemory(Final(c)) /\ AppOK(Final(c), expected)
      /\ BackendOK(c, "default", build)
      /\ \A b \in Batch : Final(c)[Buffer("matrix_data_", b)] = Matrix(b)
  <2>1. "matrix_data_" \in Arrays
    BY <1>1, OwnArray
  <2>. QED  BY <1>1, <2>1, CopiedMatrix
<1>. HIDE DEF c
<1>6. /\ AppOK(n, expected) /\ IsMemory(n)
      /\ \A b \in Batch : /\ n[Buffer("matrix_data_", b)] = <<"lu", Matrix(b)>>
                          /\ n[Buffer("pivot_data_", b)] = <<"pivots", Matrix(b)>>
  BY <1>5, Factored
<1>7. /\ op \in Operation /\ Writes(op) = BufferOf({"matrix_data_", "pivot_data_"})
      /\ Reads(op) \subseteq BufferOf({"matrix_data_", "pivot_data_"})
  <2>1. "matrix_data_" \in Arrays /\ "pivot_data_" \in Arrays /\ "matrix_data_" # "pivot_data_"
    BY <1>1, OwnArray
  <2>2. op \in Operation /\ Writes(op) = BufferOf({"matrix_data_", "pivot_data_"})
        /\ Reads(op) \subseteq BufferOf({"matrix_data_"})
    BY <2>1, FactorIs
  <2>. HIDE DEF op
  <2>. QED  BY <2>2 DEF BufferOf
<1>. HIDE DEF op
<1>8. /\ sc \in Operation /\ Writes(sc) = BufferOf({p2}) /\ Reads(sc) = {}
  BY <1>4, ScratchIs
<1>. HIDE DEF sc
<1>9. BufferOf({"matrix_data_", "pivot_data_"}) \subseteq BufferOf(Array)
  BY <1>1 DEF BufferOf
<1>10. /\ BufferOf(Array) \subseteq Owned(block)
       /\ BufferOf(Array) \subseteq Owned(bl)
       /\ BufferOf({p2}) \subseteq Owned(bl)
       /\ BufferOf({p2}) \cap Owned(block) = {}
  <2>1. "prep_scratch" \in Vector /\ "prep_scratch" # "temp"
    BY DEF Vector
  <2>2. BufferOf({p2}) \subseteq BufferOf(FreeIn(block))
    BY <1>4 DEF BufferOf
  <2>3. BufferOf({p2}) \cap Owned(block) = {}
    BY <2>2 DEF Owned
  <2>4. BufferOf({p2}) \subseteq Owned(bl)
    BY <1>4, <2>1, BlockOwned
  <2>. QED  BY <1>1, <1>4, <2>3, <2>4, ArrayOwned
<1>11. /\ op \cup sc \in Operation
       /\ Writes(op \cup sc) = Writes(op) \cup Writes(sc)
       /\ Reads(op \cup sc) = Reads(op) \cup Reads(sc)
  <2>1. Writes(op) \cap Writes(sc) = {}
    BY <1>7, <1>8, <1>9, <1>10
  <2>. QED  BY <1>7, <1>8, <2>1, UnionIs
<1>. DEFINE all == op \cup sc
<1>12. Clear(all, bl)
  BY <1>7, <1>8, <1>9, <1>10, <1>11 DEF Clear, Touches
<1>13. Clear(op, block)
  BY <1>7, <1>9, <1>10 DEF Clear, Touches
<1>14. Same(Executed(Final(c), all), n, block)
  BY <1>5, <1>7, <1>8, <1>10, <1>11, <1>13, ScratchSame
<1>15. dev' = Submit(c, "default", all)
  BY <1>2 DEF sc, op
<1>16. all \in Operation
  BY <1>11
<1>. HIDE DEF all, n
<1>17. Good(c, bl)
  BY <1>1, <1>4, <1>5, TakeBlocks
<1>18. Good(dev', bl)
  BY <1>4, <1>12, <1>15, <1>17, GoodSubmit
<1>19. Final(dev') = Executed(Final(c), all) /\ BackendOK(dev', "default", build)
  BY <1>3, <1>5, <1>15, <1>16, SubmitDefault DEF Good, BackendOK
<1>20. IsMemory(Final(dev'))
  BY <1>18, FinalMemory DEF Good
<1>21. AppOK(Final(dev'), expected) /\ FactorsOK(Final(dev'), bl, "factoring", build)
  <2>1. \A x \in BufferOf(Array) : Final(dev')[x] = n[x]
    BY <1>10, <1>14, <1>19 DEF Same
  <2>2. AppOK(Final(dev'), expected)
    BY <1>4, <1>6, <2>1, ArrayOwned DEF AppOK
  <2>3. ASSUME NEW b \in Batch
        PROVE  /\ Final(dev')[Buffer("matrix_data_", b)] = <<"lu", Matrix(b)>>
               /\ Final(dev')[Buffer("pivot_data_", b)] = <<"pivots", Matrix(b)>>
    <3>1. Buffer("matrix_data_", b) \in BufferOf(Array) /\ Buffer("pivot_data_", b) \in BufferOf(Array)
      BY <1>1, BufferIn
    <3>. QED  BY <1>6, <2>1, <3>1
  <2>4. FactorsOK(Final(dev'), bl, "factoring", build)
    BY <1>3, <2>3 DEF FactorsOK
  <2>. QED  BY <2>2, <2>4
<1>22. Same(Final(dev'), Final(dev'), bl)
  BY <1>20 DEF Same
<1>23. Sound(dev', bl, "factoring", build, "default", expected)
  BY <1>1, <1>4, <1>18, <1>19, <1>21, <1>22, NowFactoring
<1>. QED  BY <1>1, <1>23, IInvAfter DEF IInv, bl

LEMMA ConstructStep == ASSUME IInv, SolverQueues = {"default"}, Construct PROVE IInv'
<1>1. ConstructDenseSycl \/ ConstructDense \/ ConstructInvert \/ ConstructSparse
  BY DEF Construct
<1>. QED  BY <1>1, ConstructDenseSyclStep, ConstructDenseStep, ConstructInvertStep,
             ConstructSparseStep

-----------------------------------------------------------------------------
(* The end of a constructor, and the destructor. *)

LEMMA DestroyStep == ASSUME IInv, Destroy PROVE IInv'
<1>. DEFINE w == Waited(dev, "default")
            bl == block'
<1>1. /\ phase = "ready" /\ dev' = w /\ block' = [block EXCEPT !["scratch_"] = "none"]
      /\ phase' = "none" /\ UNCHANGED <<build, g_handle, expected, answered>>
  BY DEF Destroy
<1>2. Sound(dev, block, "ready", build, g_handle, expected)
      /\ BlocksOK(block, "ready", build) /\ block \in Blocks /\ DevOK(dev)
  BY <1>1 DEF IInv, Sound, BlocksOK, Blocks
<1>3. Sound(w, block, "ready", build, g_handle, expected) /\ w.queue["default"] = << >>
  BY <1>2, WaitSound, WaitDefault
<1>. HIDE DEF w
<1>4. /\ bl \in Blocks /\ bl["scratch_"] = "none"
      /\ \A u \in Vector : u # "scratch_" => bl[u] = block[u]
  BY <1>1, <1>2 DEF Blocks, Vector
<1>. HIDE DEF bl
<1>5. BlocksOK(bl, "none", build)
  BY <1>2, <1>4 DEF BlocksOK, Blocks, Vector
<1>6. bl["temp"] = block["temp"]
  BY <1>4 DEF Vector
<1>7. Good(w, bl)
  BY <1>3, <1>6, IdleDefault DEF Good, Sound
<1>8. FactorsOK(Final(w), bl, "none", build)
  BY DEF FactorsOK
<1>9. Sound(w, bl, "none", build, g_handle, expected)
  BY <1>3, <1>5, <1>7, <1>8 DEF Sound, Good
<1>. QED  BY <1>1, <1>9, IInvAfter DEF IInv, bl

(* The temporaries of a constructor are given back.                        *)
LEMMA GivenBack ==
  ASSUME BlocksOK(block, "factoring", build),
         NEW bl, bl = [block EXCEPT !["prep_scratch"] = "none", !["d_A"] = "none"]
  PROVE  /\ bl \in Blocks /\ bl["temp"] = block["temp"]
         /\ BlocksOK(bl, "ready", build)
<1>1. /\ bl \in Blocks /\ bl["prep_scratch"] = "none" /\ bl["d_A"] = "none"
      /\ \A u \in Vector : u # "prep_scratch" /\ u # "d_A" => bl[u] = block[u]
  BY DEF BlocksOK, Blocks, Vector
<1>2. bl["temp"] = block["temp"] /\ bl["scratch_"] = block["scratch_"]
  BY <1>1 DEF Vector
<1>3. \A u, v \in Vector : u # v /\ bl[u] # "none" => bl[u] # bl[v]
  BY <1>1 DEF BlocksOK
<1>4. BlocksOK(bl, "ready", build)
  BY <1>1, <1>2, <1>3 DEF BlocksOK, Blocks
<1>. QED  BY <1>1, <1>2, <1>4

(* The libraries of the sparse solvers, in one form.                       *)
WorkOf(lib) == IF lib \in {"trsv", "generic"} THEN "result_tmp_" ELSE "rhs_tmp_"

UpperInfo(lib) == IF lib = "trsv" THEN "l_info_" ELSE "u_info_"

LEMMA LibraryIs ==
  ASSUME NEW lib \in {"trsv", "csrsm2", "bsrsm2", "hip", "generic", "none"}
  PROVE  /\ Library[lib].work = WorkOf(lib)
         /\ lib = "trsv" =>
              Library[lib].analysis = <<Batched("l_info_", "analysis", <<"csr">>)>>
         /\ lib # "trsv" =>
              Library[lib].analysis = <<Batched("l_info_", "analysis", <<"csr">>),
                                        Batched("u_info_", "analysis", <<"csr">>)>>
         /\ Library[lib].solve =
              <<Batched("rhs_tmp_", "lower", <<"csr", "l_info_", WorkOf(lib)>>),
                Batched(WorkOf(lib), "upper", <<"csr", UpperInfo(lib), "rhs_tmp_">>)>>
<1>1. /\ Library["trsv"] = Trsv /\ Library["generic"] = Generic
      /\ lib \notin {"trsv", "generic"} => Library[lib] = InPlace
  BY DEF Library, Csrsm2, Bsrsm2, HipCsrsm
<1>2. CASE lib = "trsv"
  BY <1>1, <1>2 DEF Trsv, WorkOf, UpperInfo
<1>3. CASE lib = "generic"
  BY <1>1, <1>3 DEF Generic, InPlace, WorkOf, UpperInfo
<1>4. CASE lib \notin {"trsv", "generic"}
  BY <1>1, <1>4 DEF InPlace, WorkOf, UpperInfo
<1>. QED  BY <1>2, <1>3, <1>4

(* What the analysis of a sparse solver's factors leaves in its arrays.    *)
LEMMA Analysed ==
  ASSUME NEW lib \in {"trsv", "csrsm2", "bsrsm2", "hip", "generic", "none"},
         NEW m, IsMemory(m), NEW e, AppOK(m, e),
         \A b \in Batch : m[Buffer("csr", b)] = Csr(b),
         NEW bl \in Blocks
  PROVE  LET ops == Library[lib].analysis
             n == Done(m, ops)
         IN  /\ ops \in Seq(Operation) /\ \A i \in 1 .. Len(ops) : Clear(ops[i], bl)
             /\ IsMemory(n) /\ AppOK(n, e)
             /\ \A b \in Batch :
                  /\ n[Buffer("csr", b)] = Csr(b)
                  /\ n[Buffer("l_info_", b)] = <<"analysis", Csr(b)>>
                  /\ lib # "trsv" => n[Buffer("u_info_", b)] = <<"analysis", Csr(b)>>
<1>. DEFINE op1 == Batched("l_info_", "analysis", <<"csr">>)
            op2 == Batched("u_info_", "analysis", <<"csr">>)
            m1 == Executed(m, op1)
            m2 == Executed(m1, op2)
            ops == Library[lib].analysis
<1>1. /\ "csr" \in Array /\ "l_info_" \in Array /\ "u_info_" \in Array
      /\ "csr" \notin AppArray /\ "l_info_" \notin AppArray /\ "u_info_" \notin AppArray
      /\ "analysis" \in Name /\ "analysis" # "copy"
  BY DEF Array, AppArray, Name
<1>2. /\ "csr" \in Arrays /\ "l_info_" \in Arrays /\ "u_info_" \in Arrays
      /\ BufferOf({"csr"}) \subseteq Owned(bl) /\ BufferOf({"l_info_"}) \subseteq Owned(bl)
      /\ BufferOf({"u_info_"}) \subseteq Owned(bl)
  BY <1>1, OwnArray
<1>3. Clear(op1, bl) /\ Clear(op2, bl)
  BY <1>1, <1>2, ClearOne
<1>4. <<"csr">> \in Seq(Arrays)
  BY <1>2
<1>5. Wrote(m1, m, "l_info_")
  BY <1>1, <1>2, <1>4, BatchedWrote
<1>6. ASSUME NEW b \in Batch
      PROVE  /\ m1[Buffer("csr", b)] = Csr(b)
             /\ m1[Buffer("l_info_", b)] = <<"analysis", Csr(b)>>
  <2>1. m1[Buffer("l_info_", b)] = <<"analysis", m[Buffer("csr", b)]>>
    BY <1>1, <1>2, OneValue
  <2>2. Buffer("csr", b) \in Bufs /\ Buffer("csr", b) \notin BufferOf({"l_info_"})
    BY <1>1, BufferIn DEF Bufs
  <2>. HIDE DEF m1
  <2>. QED  BY <1>5, <2>1, <2>2 DEF Wrote
<1>7. IsMemory(m1)
  BY <1>5 DEF Wrote
<1>8. Wrote(m2, m1, "u_info_")
  <2>. HIDE DEF m1
  <2>. QED  BY <1>1, <1>2, <1>4, <1>7, BatchedWrote
<1>9. ASSUME NEW b \in Batch
      PROVE  /\ m2[Buffer("csr", b)] = Csr(b)
             /\ m2[Buffer("l_info_", b)] = <<"analysis", Csr(b)>>
             /\ m2[Buffer("u_info_", b)] = <<"analysis", Csr(b)>>
  <2>. HIDE DEF m1
  <2>1. m2[Buffer("u_info_", b)] = <<"analysis", m1[Buffer("csr", b)]>>
    BY <1>1, <1>2, <1>7, OneValue
  <2>2. /\ Buffer("csr", b) \in Bufs /\ Buffer("csr", b) \notin BufferOf({"u_info_"})
        /\ Buffer("l_info_", b) \in Bufs /\ Buffer("l_info_", b) \notin BufferOf({"u_info_"})
    BY <1>1, BufferIn DEF Bufs
  <2>. HIDE DEF m2
  <2>. QED  BY <1>6, <1>8, <2>1, <2>2 DEF Wrote
<1>. HIDE DEF m2
<1>10. AppOK(m1, e)
  BY <1>1, <1>5, AppKept
<1>11. AppOK(m2, e) /\ IsMemory(m2)
  BY <1>1, <1>8, <1>10, AppKept DEF Wrote
<1>12. op1 \in Operation /\ op2 \in Operation
  BY <1>3 DEF Clear
<1>13. CASE lib = "trsv"
  <2>1. ops = <<op1>>
    BY <1>13, LibraryIs
  <2>. HIDE DEF ops, op1
  <2>2. Done(m, ops) = m1
    BY <1>12, <2>1, DoneOne
  <2>3. ops \in Seq(Operation) /\ Len(ops) = 1 /\ ops[1] = op1
    BY <1>12, <2>1
  <2>. HIDE DEF m1
  <2>. QED  BY <1>3, <1>6, <1>7, <1>10, <1>13, <2>2, <2>3 DEF ops
<1>14. CASE lib # "trsv"
  <2>1. ops = <<op1, op2>>
    BY <1>14, LibraryIs
  <2>. HIDE DEF ops, op1, op2
  <2>2. Done(m, ops) = m2
    BY <1>12, <2>1, DoneTwo DEF m2
  <2>3. ops \in Seq(Operation) /\ Len(ops) = 2 /\ ops[1] = op1 /\ ops[2] = op2
    BY <1>12, <2>1
  <2>4. \A i \in 1 .. Len(ops) : Clear(ops[i], bl)
    BY <1>3, <2>3
  <2>. QED  BY <1>9, <1>11, <2>2, <2>3, <2>4 DEF ops
<1>. QED  BY <1>13, <1>14

(* The conversion of the factors in the temporary d_A.                     *)
LEMMA Converted ==
  ASSUME Sound(dev, block, "factoring", build, g_handle, expected), build.kind = "sparse",
         NEW d1, d1 = Waited(dev, "default"),
         NEW d2, d2 = Waited(Submit(d1, "default", Batched("csr", "csr", <<block["d_A"]>>)),
                             "default")
  PROVE  /\ Good(d2, block) /\ BackendOK(d2, g_handle, build)
         /\ d2.queue["default"] = << >>
         /\ IsMemory(Final(d2)) /\ AppOK(Final(d2), expected)
         /\ \A b \in Batch : Final(d2)[Buffer("csr", b)] = Csr(b)
<1>. DEFINE cs == Batched("csr", "csr", <<block["d_A"]>>)
            s == Submit(d1, "default", cs)
<1>1. /\ BlocksOK(block, "factoring", build) /\ block \in Blocks /\ Good(dev, block)
      /\ build \in Build /\ DevOK(dev)
  BY DEF Sound, BlocksOK, Blocks, Good
<1>2. build.backend # "host"
  BY <1>1, HostAssumption
<1>3. Sound(d1, block, "factoring", build, g_handle, expected) /\ Good(d1, block)
  BY WaitSound DEF Sound, Good
<1>4. block["d_A"] # "none"
  BY <1>1 DEF BlocksOK
<1>5. block["d_A"] \in Pool /\ BufferOf({block["d_A"]}) \subseteq Owned(block)
  <2>1. "d_A" \in Vector /\ "d_A" # "temp"
    BY DEF Vector
  <2>. QED  BY <1>1, <1>4, <2>1, BlockOwned
<1>6. /\ block["d_A"] \in Arrays /\ "csr" \in Array /\ "csr" \in Arrays /\ "csr" \notin AppArray
      /\ "csr" \in Name /\ "csr" # "copy"
      /\ BufferOf({"csr"}) \subseteq Owned(block)
  <2>1. "csr" \in Array /\ "csr" \notin AppArray
    BY DEF Array, AppArray
  <2>2. "csr" \in Name /\ "csr" # "copy"
    BY DEF Name
  <2>. QED  BY <1>1, <1>5, <2>1, <2>2, OwnArray DEF Arrays
<1>7. Clear(cs, block) /\ cs \in Operation
  <2>1. Clear(cs, block)
    BY <1>1, <1>5, <1>6, ClearOne
  <2>. QED  BY <2>1 DEF Clear
<1>8. IsMemory(Final(d1))
  BY <1>3, FinalMemory DEF Good
<1>9. ASSUME NEW b \in Batch PROVE Executed(Final(d1), cs)[Buffer("csr", b)] = Csr(b)
  <2>1. Executed(Final(d1), cs)[Buffer("csr", b)] = <<"csr", Final(d1)[Buffer(block["d_A"], b)]>>
    BY <1>6, <1>8, OneValue
  <2>2. Final(d1)[Buffer(block["d_A"], b)] = <<"lu_npvt", Matrix(b)>>
    BY <1>3 DEF Sound, FactorsOK
  <2>. QED  BY <2>1, <2>2 DEF Csr
<1>10. AppOK(Executed(Final(d1), cs), expected)
  <2>1. <<block["d_A"]>> \in Seq(Arrays)
    BY <1>6
  <2>2. Wrote(Executed(Final(d1), cs), Final(d1), "csr")
    BY <1>6, <1>8, <2>1, BatchedWrote
  <2>. HIDE DEF cs
  <2>. QED  BY <1>3, <1>6, <2>2, AppKept DEF Sound
<1>11. d2 = Waited(s, "default")
  OBVIOUS
<1>. HIDE DEF cs
<1>12. Good(s, block) /\ Final(s) = Executed(Final(d1), cs)
       /\ s.queue["stream"] = d1.queue["stream"]
  BY <1>1, <1>3, <1>7, GoodSubmit, SubmitDefault DEF Good
<1>. HIDE DEF s
<1>13. /\ Good(d2, block) /\ Final(d2) = Final(s) /\ d2.queue["default"] = << >>
       /\ d2.queue["stream"] = s.queue["stream"]
  BY <1>11, <1>12, GoodWait, WaitDefault DEF Good
<1>14. BackendOK(d2, g_handle, build)
  BY <1>2, <1>3, <1>12, <1>13 DEF BackendOK, Sound
<1>15. IsMemory(Final(d2))
  BY <1>13, FinalMemory DEF Good
<1>. QED  BY <1>9, <1>10, <1>12, <1>13, <1>14, <1>15

LEMMA FinishConstructStep == ASSUME IInv, FinishConstruct PROVE IInv'
<1>. DEFINE bl == block'
            d1 == Waited(dev, "default")
            d2 == Waited(Submit(d1, "default", Batched("csr", "csr", <<block["d_A"]>>)),
                         "default")
            ops == Library[build.library].analysis
<1>1. /\ phase = "factoring" /\ phase' = "ready"
      /\ UNCHANGED <<build, g_handle, expected, answered>>
      /\ block' = [block EXCEPT !["prep_scratch"] = "none", !["d_A"] = "none"]
      /\ build.kind = "sparse" => dev' = SubmitAll(d2, "default", ops)
      /\ build.kind # "sparse" => dev' = d1
  BY DEF FinishConstruct
<1>2. /\ Sound(dev, block, "factoring", build, g_handle, expected)
      /\ BlocksOK(block, "factoring", build) /\ DevOK(dev) /\ build \in Build
  BY <1>1 DEF IInv, Sound
<1>3. /\ bl \in Blocks /\ bl["temp"] = block["temp"] /\ BlocksOK(bl, "ready", build)
  BY <1>1, <1>2, GivenBack
<1>. HIDE DEF bl
<1>4. CASE build.kind # "sparse"
  <2>1. Sound(d1, block, "factoring", build, g_handle, expected) /\ d1.queue["default"] = << >>
    BY <1>2, WaitSound, WaitDefault
  <2>. HIDE DEF d1
  <2>2. Good(d1, bl)
    BY <1>3, <2>1, IdleDefault DEF Good, Sound
  <2>3. FactorsOK(Final(d1), bl, "ready", build)
    BY <1>4, <2>1 DEF Sound, FactorsOK
  <2>4. Sound(d1, bl, "ready", build, g_handle, expected)
    BY <1>3, <2>1, <2>2, <2>3 DEF Sound, Good
  <2>. QED  BY <1>1, <1>4, <2>4, IInvAfter DEF IInv, bl
<1>5. CASE build.kind = "sparse"
  <2>1. /\ Good(d2, block) /\ BackendOK(d2, g_handle, build)
        /\ d2.queue["default"] = << >>
        /\ IsMemory(Final(d2)) /\ AppOK(Final(d2), expected)
        /\ \A b \in Batch : Final(d2)[Buffer("csr", b)] = Csr(b)
    BY <1>2, <1>5, Converted
  <2>. HIDE DEF d2
  <2>2. Good(d2, bl)
    BY <1>3, <2>1, IdleDefault
  <2>. DEFINE n == Done(Final(d2), ops)
  <2>3. build.library \in {"trsv", "csrsm2", "bsrsm2", "hip", "generic", "none"}
        /\ build.backend # "host"
    BY <1>2, <1>5, BuildIs, HostAssumption DEF BuildType
  <2>4. /\ ops \in Seq(Operation) /\ \A i \in 1 .. Len(ops) : Clear(ops[i], bl)
        /\ IsMemory(n) /\ AppOK(n, expected)
        /\ \A b \in Batch :
             /\ n[Buffer("csr", b)] = Csr(b)
             /\ n[Buffer("l_info_", b)] = <<"analysis", Csr(b)>>
             /\ build.library # "trsv" => n[Buffer("u_info_", b)] = <<"analysis", Csr(b)>>
    BY <1>3, <2>1, <2>3, Analysed
  <2>. HIDE DEF ops
  <2>5. Good(dev', bl)
    BY <1>1, <1>3, <1>5, <2>2, <2>4, GoodSubmitAll
  <2>6. /\ Final(dev') = n /\ dev'.queue["stream"] = d2.queue["stream"]
    BY <1>1, <1>5, <2>2, <2>4, SubmitAllDefault DEF Good
  <2>7. BackendOK(dev', g_handle, build)
    BY <2>1, <2>3, <2>6 DEF BackendOK
  <2>8. FactorsOK(Final(dev'), bl, "ready", build)
    BY <1>5, <2>4, <2>6 DEF FactorsOK
  <2>9. Sound(dev', bl, "ready", build, g_handle, expected)
    BY <1>2, <1>3, <2>4, <2>5, <2>6, <2>7, <2>8 DEF Sound, Good
  <2>. QED  BY <1>1, <2>9, IInvAfter DEF IInv, bl
<1>. QED  BY <1>4, <1>5

-----------------------------------------------------------------------------
(* The solvers' solve(). *)

WorkArray == {"rhs_data_", "rhs_input_data_", "rhs_tmp_", "result_tmp_"}

(* The factors and what the application has are left alone.                *)
Kept(m2, m1) ==
  IsMemory(m2) /\ \A c \in BufferOf(FactorArray \cup AppArray) : m2[c] = m1[c]

LEMMA KeptIs ==
  ASSUME NEW m1, NEW m2, NEW to \in WorkArray, Wrote(m2, m1, to)
  PROVE  Kept(m2, m1)
<1>1. SUFFICES ASSUME NEW c \in BufferOf(FactorArray \cup AppArray) PROVE m2[c] = m1[c]
  BY DEF Kept, Wrote
<1>2. c[1] \in FactorArray \cup AppArray /\ c[2] \in Batch /\ c = Buffer(c[1], c[2])
  BY InBufferOf
<1>3. c[1] \in Array /\ c[1] # to
  BY <1>2 DEF FactorArray, AppArray, WorkArray, Array
<1>4. c \in Bufs /\ c \notin BufferOf({to})
  BY <1>2, <1>3, BufferIn DEF Bufs
<1>. QED  BY <1>4 DEF Wrote

LEMMA KeptTwice ==
  ASSUME NEW m1, NEW m2, NEW m3, Kept(m2, m1), Kept(m3, m2)
  PROVE  Kept(m3, m1)
  BY DEF Kept

LEMMA KeptApp ==
  ASSUME NEW m1, NEW m2, Kept(m2, m1), NEW e, AppOK(m1, e)
  PROVE  /\ AppOK(m2, e)
         /\ \A a \in FactorArray, b \in Batch : m2[Buffer(a, b)] = m1[Buffer(a, b)]
<1>1. BufferOf(AppArray) \subseteq BufferOf(FactorArray \cup AppArray)
  BY DEF BufferOf
<1>2. ASSUME NEW a \in FactorArray, NEW b \in Batch
      PROVE  Buffer(a, b) \in BufferOf(FactorArray \cup AppArray)
  BY BufferIn
<1>. QED  BY <1>1, <1>2 DEF Kept, AppOK

(* What is known when solve() begins.                                      *)
LEMMA SolveStart ==
  ASSUME IInv, SolverQueues = {"default"}, Solve
  PROVE  /\ g_handle = "default" /\ phase = "ready"
         /\ UNCHANGED <<build, block, phase, g_handle, answered>>
         /\ expected' = [c \in DOMAIN expected |->
                           IF c[1] = "result" THEN Solution(c[2], expected[Buffer("rhs", c[2])])
                                              ELSE expected[c]]
         /\ Sound(dev, block, "ready", build, "default", expected)
         /\ BlocksOK(block, "ready", build) /\ block \in Blocks
         /\ Good(dev, block) /\ BackendOK(dev, "default", build)
         /\ AppOK(Final(dev), expected) /\ build \in Build
         /\ FactorsOK(Final(dev), block, "ready", build)
<1>1. /\ g_handle = "default" /\ phase = "ready"
      /\ UNCHANGED <<build, block, phase, g_handle, answered>>
      /\ expected' = [c \in DOMAIN expected |->
                        IF c[1] = "result" THEN Solution(c[2], expected[Buffer("rhs", c[2])])
                                           ELSE expected[c]]
  BY DEF Solve
<1>2. Sound(dev, block, phase, build, g_handle, expected)
  BY DEF IInv
<1>. QED  BY <1>1, <1>2 DEF Sound, BlocksOK, Blocks, Good

(* The right-hand side is copied to an array of the solver.                *)
LEMMA CopiedIn ==
  ASSUME NEW bl \in Blocks, NEW bu, bu.backend # "host",
         NEW d, Good(d, bl), BackendOK(d, "default", bu),
         NEW e, AppOK(Final(d), e),
         NEW to \in WorkArray, NEW d1, d1 = Submit(d, "default", CopyBatched("rhs", to))
  PROVE  /\ Good(d1, bl) /\ BackendOK(d1, "default", bu) /\ Kept(Final(d1), Final(d))
         /\ \A b \in Batch : Final(d1)[Buffer(to, b)] = e[Buffer("rhs", b)]
<1>. DEFINE op == Batched(to, "copy", <<"rhs">>)
            m == Final(d)
            n == Executed(m, op)
<1>1. to \in Array /\ "rhs" \in Array /\ "rhs" \in AppArray /\ "copy" \in Name
  BY DEF WorkArray, Array, AppArray, Name
<1>2. to \in Arrays /\ "rhs" \in Arrays /\ BufferOf({to}) \subseteq Owned(bl)
      /\ BufferOf({"rhs"}) \subseteq Owned(bl)
  BY <1>1, OwnArray
<1>3. Clear(op, bl) /\ op \in Operation
  <2>1. Clear(op, bl)
    BY <1>1, <1>2, ClearOne
  <2>. QED  BY <2>1 DEF Clear
<1>4. IsMemory(m)
  BY FinalMemory DEF Good
<1>5. d1 = Submit(d, "default", op)
  BY DEF CopyBatched
<1>6. <<"rhs">> \in Seq(Arrays)
  BY <1>2
<1>7. Wrote(n, m, to)
  BY <1>1, <1>2, <1>4, <1>6, BatchedWrote
<1>8. ASSUME NEW b \in Batch PROVE n[Buffer(to, b)] = e[Buffer("rhs", b)]
  <2>1. n[Buffer(to, b)] = m[Buffer("rhs", b)]
    BY <1>2, <1>4, CopyValue
  <2>2. Buffer("rhs", b) \in BufferOf(AppArray)
    BY <1>1, BufferIn
  <2>. QED  BY <2>1, <2>2 DEF AppOK
<1>. HIDE DEF op
<1>9. Good(d1, bl) /\ Final(d1) = n /\ d1.queue["stream"] = d.queue["stream"]
  BY <1>3, <1>5, GoodSubmit, SubmitDefault DEF Good
<1>. HIDE DEF n
<1>10. Kept(n, m)
  BY <1>7, KeptIs
<1>11. BackendOK(d1, "default", bu)
  BY <1>9 DEF BackendOK
<1>. QED  BY <1>8, <1>9, <1>10, <1>11

(* The solution is in an array of the solver, and copied to the result.    *)
LEMMA CopiedOut ==
  ASSUME IInv, SolverQueues = {"default"}, Solve, build.backend # "host",
         NEW d2, Good(d2, block), BackendOK(d2, "default", build),
         NEW m, Same(Final(d2), m, block), Kept(m, Final(dev)),
         NEW from \in WorkArray,
         \A b \in Batch : m[Buffer(from, b)] = Solution(b, expected[Buffer("rhs", b)]),
         dev' = CopyOut(d2, from)
  PROVE  IInv'
<1>1. /\ g_handle = "default" /\ phase = "ready"
      /\ UNCHANGED <<build, block, phase, g_handle, answered>>
      /\ expected' = [c \in DOMAIN expected |->
                        IF c[1] = "result" THEN Solution(c[2], expected[Buffer("rhs", c[2])])
                                           ELSE expected[c]]
      /\ Sound(dev, block, "ready", build, "default", expected)
      /\ BlocksOK(block, "ready", build) /\ block \in Blocks
      /\ AppOK(Final(dev), expected) /\ FactorsOK(Final(dev), block, "ready", build)
  BY SolveStart
<1>. DEFINE op == Batched("result", "copy", <<from>>)
            n == Executed(m, op)
<1>2. from \in Array /\ "result" \in Array /\ "copy" \in Name
  BY DEF WorkArray, Array, Name
<1>3. from \in Arrays /\ "result" \in Arrays /\ BufferOf({from}) \subseteq Owned(block)
      /\ BufferOf({"result"}) \subseteq Owned(block)
  BY <1>1, <1>2, OwnArray
<1>4. Clear(op, block) /\ op \in Operation
  <2>1. Clear(op, block)
    BY <1>1, <1>2, <1>3, ClearOne
  <2>. QED  BY <2>1 DEF Clear
<1>5. dev' = Submit(d2, "default", op)
  BY DEF CopyOut, CopyBatched
<1>6. IsMemory(m) /\ <<from>> \in Seq(Arrays)
  BY <1>3 DEF Kept
<1>7. Wrote(n, m, "result")
  BY <1>2, <1>3, <1>6, BatchedWrote
<1>8. ASSUME NEW b \in Batch
      PROVE  n[Buffer("result", b)] = Solution(b, expected[Buffer("rhs", b)])
  <2>1. n[Buffer("result", b)] = m[Buffer(from, b)]
    BY <1>3, <1>6, CopyValue
  <2>. QED  BY <2>1
<1>. HIDE DEF op
<1>9. Good(dev', block) /\ Final(dev') = Executed(Final(d2), op)
      /\ dev'.queue["stream"] = d2.queue["stream"]
  BY <1>1, <1>4, <1>5, GoodSubmit, SubmitDefault DEF Good
<1>10. Same(Final(dev'), n, block)
  BY <1>4, <1>9, ClearSame
<1>. HIDE DEF n
<1>11. AppOK(m, expected)
       /\ \A a \in FactorArray, b \in Batch : m[Buffer(a, b)] = Final(dev)[Buffer(a, b)]
  BY <1>1, KeptApp
<1>12. expected' = [c \in BufferOf(AppArray) |->
                      IF c[1] = "result" THEN Solution(c[2], expected[Buffer("rhs", c[2])])
                                         ELSE expected[c]]
  BY <1>1 DEF Sound, IsExpected
<1>13. AppOK(n, expected')
  <2>1. SUFFICES ASSUME NEW c \in BufferOf(AppArray) PROVE n[c] = expected'[c]
    BY DEF AppOK
  <2>2. c[1] \in AppArray /\ c[2] \in Batch /\ c = Buffer(c[1], c[2])
    BY InBufferOf
  <2>3. CASE c[1] = "result"
    BY <1>8, <1>12, <2>2, <2>3
  <2>4. CASE c[1] # "result"
    <3>1. c \notin BufferOf({"result"}) /\ c \in Bufs
      BY <2>2, <2>4, BufferIn, ArraysAre DEF ArrayFacts, Bufs
    <3>. QED  BY <1>7, <1>11, <1>12, <2>4, <3>1 DEF Wrote, AppOK
  <2>. QED  BY <2>3, <2>4
<1>14. FactorsOK(n, block, "ready", build)
  <2>1. ASSUME NEW a \in FactorArray, NEW b \in Batch
        PROVE  n[Buffer(a, b)] = Final(dev)[Buffer(a, b)]
    <3>1. a \in Array /\ a # "result"
      BY DEF FactorArray, Array
    <3>2. Buffer(a, b) \in Bufs /\ Buffer(a, b) \notin BufferOf({"result"})
      BY <3>1, BufferIn DEF Bufs
    <3>. QED  BY <1>7, <1>11, <3>2 DEF Wrote
  <2>. QED  BY <1>1, <2>1, FactorsKept
<1>15. AppOK(Final(dev'), expected') /\ FactorsOK(Final(dev'), block, "ready", build)
  BY <1>1, <1>10, <1>13, <1>14, SameKeeps
<1>16. BackendOK(dev', "default", build)
  BY <1>9 DEF BackendOK
<1>17. IsExpected(expected')
  BY <1>12 DEF IsExpected
<1>18. Sound(dev', block, "ready", build, "default", expected')
  BY <1>1, <1>9, <1>15, <1>16, <1>17 DEF Sound, Good
<1>. QED  BY <1>1, <1>18, IInvAfter DEF IInv

(* The memory once an array of the solver has been computed.               *)
LEMMA SolvedIs ==
  ASSUME NEW m1, NEW m0, Kept(m1, m0), NEW to \in WorkArray, NEW name \in Name,
         NEW from \in Seq(Arrays)
  PROVE  Kept(Executed(m1, Batched(to, name, from)), m0)
         /\ Wrote(Executed(m1, Batched(to, name, from)), m1, to)
<1>1. to \in Arrays /\ IsMemory(m1)
  BY DEF Arrays, Array, WorkArray, Kept
<1>2. Wrote(Executed(m1, Batched(to, name, from)), m1, to)
  BY <1>1, BatchedWrote
<1>. QED  BY <1>2, KeptIs, KeptTwice

(* One operation of BLAS on the default queue, and its effect.             *)
LEMMA SolverCall ==
  ASSUME NEW bl \in Blocks, NEW bu \in Build, bu.backend # "host",
         NEW d1, Good(d1, bl), BackendOK(d1, "default", bu),
         NEW op, Clear(op, bl),
         NEW d2, d2 = BatchedCall(bu.backend, d1, "default", <<op>>, {})
  PROVE  /\ Good(d2, bl) /\ BackendOK(d2, "default", bu)
         /\ Same(Final(d2), Executed(Final(d1), op), bl)
<1>. DEFINE ops == <<op>>
            S == {}
<1>1. op \in Operation
  BY DEF Clear
<1>2. ops \in Seq(Operation) /\ Len(ops) = 1 /\ ops[1] = op
  BY <1>1
<1>3. Done(Final(d1), ops) = Executed(Final(d1), op)
  BY <1>1, DoneOne
<1>4. HandleOK(d1, "default", bu) /\ S \in SUBSET FreeIn(bl) /\ S = {}
  BY DEF HandleOK, Queue
<1>5. d2 = BatchedCall(bu.backend, d1, "default", ops, S)
  OBVIOUS
<1>. HIDE DEF ops, S
<1>6. \A i \in 1 .. Len(ops) : Clear(ops[i], bl)
  BY <1>2
<1>7. Effect(d2, d1, ops, bl, "default", bu)
  BY <1>2, <1>4, <1>5, <1>6, BatchedCallIs
<1>. QED  BY <1>3, <1>7 DEF Effect

LEMMA SolveInvertStep ==
  ASSUME IInv, SolverQueues = {"default"}, Solve, build.kind = "invert" PROVE IInv'
<1>. DEFINE d1 == Submit(dev, "default", CopyBatched("rhs", "rhs_input_data_"))
            op == Batched("rhs_data_", "gemm", <<"matrix_data_", "rhs_input_data_">>)
            d2 == BatchedCall(build.backend, d1, "default", <<op>>, {})
            m1 == Final(d1)
            m == Executed(m1, op)
<1>1. /\ g_handle = "default" /\ block \in Blocks /\ build \in Build
      /\ Good(dev, block) /\ BackendOK(dev, "default", build)
      /\ AppOK(Final(dev), expected) /\ FactorsOK(Final(dev), block, "ready", build)
  BY SolveStart
<1>2. build.backend # "host"
  BY <1>1, HostAssumption
<1>3. dev' = CopyOut(d2, "rhs_data_")
  <2>1. dev' = SolveInvert
    BY DEF Solve
  <2>2. GemmBatched(Pointers("matrix_data_"), Pointers("rhs_input_data_"), Pointers("rhs_data_")) = op
    BY LapackOps
  <2>. QED  BY <1>1, <2>1, <2>2 DEF SolveInvert, CopyIn, CallOn
<1>4. /\ "rhs_data_" \in WorkArray /\ "rhs_input_data_" \in WorkArray
      /\ "rhs_data_" \in Array /\ "rhs_input_data_" \in Array /\ "matrix_data_" \in Array
      /\ "matrix_data_" \in FactorArray
      /\ "gemm" \in Name /\ "gemm" # "copy"
  BY DEF WorkArray, Array, FactorArray, Name
<1>5. /\ "rhs_data_" \in Arrays /\ "rhs_input_data_" \in Arrays /\ "matrix_data_" \in Arrays
      /\ BufferOf({"rhs_data_"}) \subseteq Owned(block)
      /\ BufferOf({"rhs_input_data_"}) \subseteq Owned(block)
      /\ BufferOf({"matrix_data_"}) \subseteq Owned(block)
  BY <1>1, <1>4, OwnArray
<1>6. Clear(op, block)
  BY <1>1, <1>4, <1>5, ClearTwo
<1>7. /\ Good(d1, block) /\ BackendOK(d1, "default", build) /\ Kept(m1, Final(dev))
      /\ \A b \in Batch : m1[Buffer("rhs_input_data_", b)] = expected[Buffer("rhs", b)]
  BY <1>1, <1>2, <1>4, CopiedIn
<1>. HIDE DEF d1
<1>8. <<"matrix_data_", "rhs_input_data_">> \in Seq(Arrays)
  BY <1>5
<1>9. Kept(m, Final(dev))
  BY <1>4, <1>7, <1>8, SolvedIs
<1>10. ASSUME NEW b \in Batch
       PROVE  m[Buffer("rhs_data_", b)] = Solution(b, expected[Buffer("rhs", b)])
  <2>1. IsMemory(m1)
    BY <1>7 DEF Kept
  <2>2. m[Buffer("rhs_data_", b)] =
          <<"gemm", m1[Buffer("matrix_data_", b)], m1[Buffer("rhs_input_data_", b)]>>
    BY <1>4, <1>5, <2>1, TwoValue
  <2>3. m1[Buffer("matrix_data_", b)] = Final(dev)[Buffer("matrix_data_", b)]
    BY <1>1, <1>4, <1>7, KeptApp
  <2>4. Final(dev)[Buffer("matrix_data_", b)] =
          <<"getri", <<"lu", Matrix(b)>>, <<"pivots", Matrix(b)>>>>
    BY <1>1 DEF FactorsOK
  <2>5. Solution(b, expected[Buffer("rhs", b)]) =
          <<"gemm", <<"getri", <<"lu", Matrix(b)>>, <<"pivots", Matrix(b)>>>>,
            expected[Buffer("rhs", b)]>>
    BY DEF Solution
  <2>. HIDE DEF m, m1
  <2>. QED  BY <1>7, <2>2, <2>3, <2>4, <2>5 DEF m1
<1>. HIDE DEF op, m
<1>11. Good(d2, block) /\ BackendOK(d2, "default", build) /\ Same(Final(d2), m, block)
  BY <1>1, <1>2, <1>6, <1>7, SolverCall DEF m
<1>. HIDE DEF d2
<1>. QED  BY <1>2, <1>3, <1>4, <1>9, <1>10, <1>11, CopiedOut

LEMMA SolveSparseStep ==
  ASSUME IInv, SolverQueues = {"default"}, Solve, build.kind = "sparse" PROVE IInv'
<1>. DEFINE lib == build.library
            w == WorkOf(lib)
            u == UpperInfo(lib)
            d1 == Submit(dev, "default", CopyBatched("rhs", w))
            op1 == Batched("rhs_tmp_", "lower", <<"csr", "l_info_", w>>)
            op2 == Batched(w, "upper", <<"csr", u, "rhs_tmp_">>)
            ops == <<op1, op2>>
            d2 == SubmitAll(d1, "default", ops)
            m0 == Final(dev)
            m1 == Final(d1)
            n == Executed(m1, op1)
            m == Executed(n, op2)
<1>1. /\ g_handle = "default" /\ block \in Blocks /\ build \in Build
      /\ Good(dev, block) /\ BackendOK(dev, "default", build)
      /\ AppOK(m0, expected) /\ FactorsOK(m0, block, "ready", build)
  BY SolveStart
<1>2. build.backend # "host"
      /\ lib \in {"trsv", "csrsm2", "bsrsm2", "hip", "generic", "none"}
  BY <1>1, HostAssumption, BuildIs DEF BuildType
<1>3. dev' = CopyOut(d2, w)
  <2>1. dev' = SolveSparse
    BY DEF Solve
  <2>2. Library[lib].work = w /\ Library[lib].solve = ops
    BY <1>2, LibraryIs
  <2>. HIDE DEF ops, w
  <2>. QED  BY <2>1, <2>2 DEF SolveSparse, CopyIn, CopyOut
<1>4. /\ w \in WorkArray /\ "rhs_tmp_" \in WorkArray /\ w \in Array /\ "rhs_tmp_" \in Array
      /\ "csr" \in Array /\ "l_info_" \in Array /\ u \in Array
      /\ "csr" \in FactorArray /\ "l_info_" \in FactorArray /\ u \in FactorArray
  BY DEF WorkArray, Array, FactorArray, WorkOf, UpperInfo
<1>5. "lower" \in Name /\ "lower" # "copy" /\ "upper" \in Name /\ "upper" # "copy"
  BY DEF Name
<1>6. u = "l_info_" \/ (u = "u_info_" /\ lib # "trsv")
  BY DEF UpperInfo
<1>. HIDE DEF w, u
<1>7. /\ w \in Arrays /\ "rhs_tmp_" \in Arrays /\ "csr" \in Arrays /\ "l_info_" \in Arrays
      /\ u \in Arrays
      /\ BufferOf({w}) \subseteq Owned(block) /\ BufferOf({"rhs_tmp_"}) \subseteq Owned(block)
      /\ BufferOf({"csr"}) \subseteq Owned(block) /\ BufferOf({"l_info_"}) \subseteq Owned(block)
      /\ BufferOf({u}) \subseteq Owned(block)
  BY <1>1, <1>4, OwnArray
<1>8. Clear(op1, block) /\ Clear(op2, block)
  <2>1. Clear(op1, block)
    BY <1>1, <1>5, <1>7, ClearThree
  <2>2. Clear(op2, block)
    BY <1>1, <1>5, <1>7, ClearThree
  <2>. QED  BY <2>1, <2>2
<1>9. /\ Good(d1, block) /\ BackendOK(d1, "default", build) /\ Kept(m1, m0)
      /\ \A b \in Batch : m1[Buffer(w, b)] = expected[Buffer("rhs", b)]
  BY <1>1, <1>2, <1>4, CopiedIn
<1>. HIDE DEF d1
<1>10. <<"csr", "l_info_", w>> \in Seq(Arrays)
  BY <1>7
<1>11. <<"csr", u, "rhs_tmp_">> \in Seq(Arrays)
  BY <1>7
<1>12. Kept(n, m0)
  BY <1>4, <1>5, <1>9, <1>10, SolvedIs
<1>13. Kept(m, m0)
  <2>. HIDE DEF n
  <2>. QED  BY <1>4, <1>5, <1>11, <1>12, SolvedIs
<1>14. ASSUME NEW b \in Batch
       PROVE  /\ m0[Buffer("csr", b)] = Csr(b)
              /\ m0[Buffer("l_info_", b)] = <<"analysis", Csr(b)>>
              /\ m0[Buffer(u, b)] = <<"analysis", Csr(b)>>
  BY <1>1, <1>6 DEF FactorsOK
<1>15. ASSUME NEW b \in Batch
       PROVE  n[Buffer("rhs_tmp_", b)] =
                <<"lower", Csr(b), <<"analysis", Csr(b)>>, expected[Buffer("rhs", b)]>>
  <2>1. IsMemory(m1)
    BY <1>9 DEF Kept
  <2>2. n[Buffer("rhs_tmp_", b)] =
          <<"lower", m1[Buffer("csr", b)], m1[Buffer("l_info_", b)], m1[Buffer(w, b)]>>
    BY <1>5, <1>7, <2>1, ThreeValue
  <2>3. /\ m1[Buffer("csr", b)] = m0[Buffer("csr", b)]
        /\ m1[Buffer("l_info_", b)] = m0[Buffer("l_info_", b)]
    BY <1>1, <1>4, <1>9, KeptApp
  <2>4. m1[Buffer(w, b)] = expected[Buffer("rhs", b)]
    BY <1>9
  <2>. HIDE DEF n, m1
  <2>. QED  BY <1>14, <2>2, <2>3, <2>4
<1>16. ASSUME NEW b \in Batch
       PROVE  m[Buffer(w, b)] = Solution(b, expected[Buffer("rhs", b)])
  <2>. HIDE DEF n
  <2>1. IsMemory(n)
    BY <1>12 DEF Kept
  <2>2. m[Buffer(w, b)] =
          <<"upper", n[Buffer("csr", b)], n[Buffer(u, b)], n[Buffer("rhs_tmp_", b)]>>
    BY <1>5, <1>7, <2>1, ThreeValue
  <2>3. /\ n[Buffer("csr", b)] = m0[Buffer("csr", b)]
        /\ n[Buffer(u, b)] = m0[Buffer(u, b)]
    BY <1>1, <1>4, <1>12, KeptApp
  <2>4. Solution(b, expected[Buffer("rhs", b)]) =
          <<"upper", Csr(b), <<"analysis", Csr(b)>>,
            <<"lower", Csr(b), <<"analysis", Csr(b)>>, expected[Buffer("rhs", b)]>>>>
    BY DEF Solution, Csr
  <2>. HIDE DEF m
  <2>. QED  BY <1>14, <1>15, <2>2, <2>3, <2>4
<1>17. op1 \in Operation /\ op2 \in Operation
  BY <1>8 DEF Clear
<1>. HIDE DEF op1, op2
<1>18. Done(m1, ops) = m
  BY <1>17, DoneTwo
<1>19. ops \in Seq(Operation) /\ Len(ops) = 2 /\ ops[1] = op1 /\ ops[2] = op2
  BY <1>17
<1>. HIDE DEF ops, m
<1>20. \A i \in 1 .. Len(ops) : Clear(ops[i], block)
  BY <1>8, <1>19
<1>21. Effect(d2, d1, ops, block, "default", build)
  BY <1>1, <1>2, <1>9, <1>19, <1>20, SubmitEffect
<1>. HIDE DEF d2
<1>22. Good(d2, block) /\ BackendOK(d2, "default", build) /\ Same(Final(d2), m, block)
  BY <1>18, <1>21 DEF Effect
<1>. QED  BY <1>2, <1>3, <1>4, <1>13, <1>16, <1>22, CopiedOut

(* The dense solvers, up to the copy of the solution.                      *)
LEMMA DenseSolved ==
  ASSUME IInv, SolverQueues = {"default"}, Solve, build.kind = "dense",
         NEW d1, d1 = CopyIn("rhs_data_")
  PROVE  LET m == Executed(Final(d1), GetrsHere)
         IN  /\ Good(d1, block) /\ BackendOK(d1, "default", build)
             /\ Clear(GetrsHere, block)
             /\ Touches(GetrsHere) \subseteq BufferOf(Array)
             /\ Kept(m, Final(dev))
             /\ \A b \in Batch :
                  m[Buffer("rhs_data_", b)] = Solution(b, expected[Buffer("rhs", b)])
<1>. DEFINE op == Batched("rhs_data_", "getrs", <<"matrix_data_", "pivot_data_", "rhs_data_">>)
            m1 == Final(d1)
            m == Executed(m1, op)
<1>1. /\ g_handle = "default" /\ block \in Blocks /\ build \in Build
      /\ Good(dev, block) /\ BackendOK(dev, "default", build)
      /\ AppOK(Final(dev), expected) /\ FactorsOK(Final(dev), block, "ready", build)
  BY SolveStart
<1>2. build.backend # "host"
  BY <1>1, HostAssumption
<1>3. GetrsHere = op
  BY LapackOps DEF GetrsHere
<1>4. /\ "rhs_data_" \in WorkArray
      /\ "rhs_data_" \in Array /\ "pivot_data_" \in Array /\ "matrix_data_" \in Array
      /\ "matrix_data_" \in FactorArray /\ "pivot_data_" \in FactorArray
      /\ "getrs" \in Name /\ "getrs" # "copy"
  BY DEF WorkArray, Array, FactorArray, Name
<1>5. /\ "rhs_data_" \in Arrays /\ "pivot_data_" \in Arrays /\ "matrix_data_" \in Arrays
      /\ BufferOf({"rhs_data_"}) \subseteq Owned(block)
      /\ BufferOf({"pivot_data_"}) \subseteq Owned(block)
      /\ BufferOf({"matrix_data_"}) \subseteq Owned(block)
  BY <1>1, <1>4, OwnArray
<1>6. Clear(op, block)
  BY <1>1, <1>4, <1>5, ClearThree
<1>. DEFINE from == <<"matrix_data_", "pivot_data_", "rhs_data_">>
<1>7. from \in Seq(Arrays)
  BY <1>5
<1>8. ToSet(from) \subseteq Array
  <2>1. from \in Seq(Array)
    BY <1>4
  <2>. QED  BY <2>1 DEF ToSet
<1>9. op = Batched("rhs_data_", "getrs", from)
  OBVIOUS
<1>. HIDE DEF from, op
<1>10. Touches(op) \subseteq BufferOf(Array)
  <2>1. Writes(op) = BufferOf({"rhs_data_"}) /\ Reads(op) \subseteq BufferOf(ToSet(from))
    BY <1>4, <1>5, <1>7, <1>9, BatchedIs
  <2>2. BufferOf({"rhs_data_"}) \subseteq BufferOf(Array)
    BY <1>4 DEF BufferOf
  <2>3. BufferOf(ToSet(from)) \subseteq BufferOf(Array)
    BY <1>8 DEF BufferOf
  <2>. QED  BY <2>1, <2>2, <2>3 DEF Touches
<1>11. /\ Good(d1, block) /\ BackendOK(d1, "default", build) /\ Kept(m1, Final(dev))
       /\ \A b \in Batch : m1[Buffer("rhs_data_", b)] = expected[Buffer("rhs", b)]
  BY <1>1, <1>2, <1>4, CopiedIn DEF CopyIn
<1>12. Kept(m, Final(dev))
  BY <1>4, <1>7, <1>9, <1>11, SolvedIs
<1>13. ASSUME NEW b \in Batch
       PROVE  m[Buffer("rhs_data_", b)] = Solution(b, expected[Buffer("rhs", b)])
  <2>1. IsMemory(m1)
    BY <1>11 DEF Kept
  <2>2. m[Buffer("rhs_data_", b)] =
          <<"getrs", m1[Buffer("matrix_data_", b)], m1[Buffer("pivot_data_", b)],
            m1[Buffer("rhs_data_", b)]>>
    BY <1>4, <1>5, <2>1, ThreeValue DEF op
  <2>3. /\ m1[Buffer("matrix_data_", b)] = Final(dev)[Buffer("matrix_data_", b)]
        /\ m1[Buffer("pivot_data_", b)] = Final(dev)[Buffer("pivot_data_", b)]
    BY <1>1, <1>4, <1>11, KeptApp
  <2>4. /\ Final(dev)[Buffer("matrix_data_", b)] = <<"lu", Matrix(b)>>
        /\ Final(dev)[Buffer("pivot_data_", b)] = <<"pivots", Matrix(b)>>
    BY <1>1 DEF FactorsOK
  <2>5. Solution(b, expected[Buffer("rhs", b)]) =
          <<"getrs", <<"lu", Matrix(b)>>, <<"pivots", Matrix(b)>>, expected[Buffer("rhs", b)]>>
    BY DEF Solution
  <2>6. m1[Buffer("rhs_data_", b)] = expected[Buffer("rhs", b)]
    BY <1>11
  <2>. HIDE DEF m, m1
  <2>. QED  BY <2>2, <2>3, <2>4, <2>5, <2>6
<1>. HIDE DEF m
<1>. QED  BY <1>3, <1>6, <1>10, <1>11, <1>12, <1>13 DEF m

LEMMA SolveDenseStep ==
  ASSUME IInv, SolverQueues = {"default"}, Solve,
         build.kind = "dense", build.backend # "sycl"
  PROVE  IInv'
<1>. DEFINE d1 == CopyIn("rhs_data_")
            d2 == BatchedCall(build.backend, d1, "default", <<GetrsHere>>, {})
            m == Executed(Final(d1), GetrsHere)
<1>1. g_handle = "default" /\ block \in Blocks /\ build \in Build
  BY SolveStart
<1>2. build.backend # "host"
  BY <1>1, HostAssumption
<1>3. dev' = CopyOut(d2, "rhs_data_")
  <2>1. dev' = SolveDense
    BY DEF Solve
  <2>. QED  BY <1>1, <2>1 DEF SolveDense, CallOn
<1>4. /\ Good(d1, block) /\ BackendOK(d1, "default", build)
      /\ Clear(GetrsHere, block) /\ Kept(m, Final(dev))
      /\ \A b \in Batch : m[Buffer("rhs_data_", b)] = Solution(b, expected[Buffer("rhs", b)])
  BY DenseSolved
<1>. HIDE DEF d1
<1>5. Good(d2, block) /\ BackendOK(d2, "default", build) /\ Same(Final(d2), m, block)
  BY <1>1, <1>2, <1>4, SolverCall
<1>6. "rhs_data_" \in WorkArray
  BY DEF WorkArray
<1>. HIDE DEF d2, m
<1>. QED  BY <1>2, <1>3, <1>4, <1>5, <1>6, CopiedOut

(* The scratch memory of the dense solver is written to by the same work,  *)
(* which does not depend on what it held.                                  *)
LEMMA SolveDenseSyclStep ==
  ASSUME IInv, SolverQueues = {"default"}, Solve,
         build.kind = "dense", build.backend = "sycl"
  PROVE  IInv'
<1>. DEFINE d1 == CopyIn("rhs_data_")
            p == block["scratch_"]
            sc == Scratch({p})
            all == GetrsHere \cup sc
            d2 == Submit(d1, "default", all)
            n == Executed(Final(d1), GetrsHere)
            m == Executed(Final(d1), all)
            bl == [block EXCEPT !["scratch_"] = "none"]
<1>1. /\ g_handle = "default" /\ block \in Blocks /\ build \in Build
      /\ BlocksOK(block, "ready", build)
  BY SolveStart
<1>2. dev' = CopyOut(d2, "rhs_data_")
  <2>1. dev' = SolveDenseSycl
    BY DEF Solve
  <2>. QED  BY <1>1, <2>1 DEF SolveDenseSycl, SyclStrided
<1>3. /\ Good(d1, block) /\ BackendOK(d1, "default", build)
      /\ Clear(GetrsHere, block) /\ Touches(GetrsHere) \subseteq BufferOf(Array)
      /\ Kept(n, Final(dev))
      /\ \A b \in Batch : n[Buffer("rhs_data_", b)] = Solution(b, expected[Buffer("rhs", b)])
  BY DenseSolved
<1>4. "scratch_" \in Vector /\ "scratch_" # "temp" /\ p # "none"
  BY <1>1 DEF BlocksOK, Vector
<1>5. p \in Pool /\ BufferOf({p}) \subseteq Owned(block)
  BY <1>1, <1>4, BlockOwned
<1>6. /\ bl \in Blocks /\ bl["scratch_"] = "none"
      /\ \A v \in Vector : v # "scratch_" => bl[v] = block[v]
  BY <1>1 DEF Blocks, Vector
<1>. HIDE DEF bl
<1>7. p \in FreeIn(bl)
  <2>1. \A v \in Vector : v # "scratch_" => block[v] # p
    BY <1>1, <1>4 DEF BlocksOK
  <2>. QED  BY <1>5, <1>6, <2>1, PoolAssumption DEF FreeIn
<1>8. /\ sc \in Operation /\ Writes(sc) = BufferOf({p}) /\ Reads(sc) = {}
  BY <1>5, ScratchIs
<1>9. BufferOf({p}) \cap Owned(bl) = {}
  <2>1. BufferOf({p}) \subseteq BufferOf(FreeIn(bl))
    BY <1>7 DEF BufferOf
  <2>. QED  BY <2>1 DEF Owned
<1>10. BufferOf(Array) \subseteq Owned(bl)
  BY <1>6, ArrayOwned
<1>11. GetrsHere \in Operation /\ Clear(GetrsHere, bl)
  BY <1>3, <1>10 DEF Clear
<1>. HIDE DEF sc, p
<1>12. /\ all \in Operation /\ Writes(all) = Writes(GetrsHere) \cup Writes(sc)
       /\ Reads(all) = Reads(GetrsHere) \cup Reads(sc)
  <2>1. Writes(GetrsHere) \cap Writes(sc) = {}
    BY <1>3, <1>8, <1>9, <1>10 DEF Touches
  <2>. QED  BY <1>8, <1>11, <2>1, UnionIs
<1>13. Clear(all, block)
  BY <1>3, <1>5, <1>8, <1>12 DEF Clear, Touches
<1>14. IsMemory(Final(d1))
  BY <1>3, FinalMemory DEF Good
<1>15. Same(m, n, bl)
  BY <1>8, <1>9, <1>11, <1>12, <1>14, ScratchSame
<1>. HIDE DEF all, d1
<1>16. Good(d2, block) /\ Final(d2) = m /\ BackendOK(d2, "default", build)
  <2>1. Good(d2, block)
    BY <1>1, <1>3, <1>13, GoodSubmit
  <2>2. Final(d2) = m /\ d2.queue["stream"] = d1.queue["stream"]
    BY <1>3, <1>12, SubmitDefault DEF Good
  <2>. HIDE DEF d2
  <2>. QED  BY <2>1, <2>2 DEF BackendOK
<1>. HIDE DEF m, n, d2
<1>17. \A c \in BufferOf(Array) : m[c] = n[c]
  BY <1>10, <1>15 DEF Same
<1>18. Kept(m, Final(dev))
  <2>1. BufferOf(FactorArray \cup AppArray) \subseteq BufferOf(Array)
    <3>1. FactorArray \cup AppArray \subseteq Array
      BY DEF FactorArray, AppArray, Array
    <3>. QED  BY <3>1 DEF BufferOf
  <2>. QED  BY <1>3, <1>15, <1>17, <2>1 DEF Kept, Same
<1>19. "rhs_data_" \in WorkArray /\ "rhs_data_" \in Array
  BY DEF WorkArray, Array
<1>20. \A b \in Batch : m[Buffer("rhs_data_", b)] = Solution(b, expected[Buffer("rhs", b)])
  BY <1>3, <1>17, <1>19, BufferIn
<1>21. Same(Final(d2), m, block)
  BY <1>16, <1>18 DEF Same, Kept
<1>22. build.backend # "host"
  OBVIOUS
<1>. QED  BY <1>2, <1>16, <1>18, <1>19, <1>20, <1>21, <1>22, CopiedOut

LEMMA SolveStep == ASSUME IInv, SolverQueues = {"default"}, Solve PROVE IInv'
<1>2. CASE build.kind = "dense"
  BY <1>2, SolveDenseStep, SolveDenseSyclStep
<1>3. CASE build.kind = "invert"
  BY <1>3, SolveInvertStep
<1>4. CASE build.kind = "sparse"
  BY <1>4, SolveSparseStep
<1>5. build.kind \in {"dense", "invert", "sparse"}
  BY DEF IInv, Sound, BlocksOK, Solve
<1>. QED  BY <1>2, <1>3, <1>4, <1>5

-----------------------------------------------------------------------------
(* The invariant of the specification. *)

LEMMA InitSound == ASSUME Init PROVE IInv
<1>. DEFINE s == << >>
            t == << >>
            m == [b \in Bufs |-> Junk]
<1>1. IsMemory(m)
  BY DEF IsMemory
<1>2. s \in Seq(Operation) /\ t \in Seq(Operation)
  OBVIOUS
<1>3. dev = [mem |-> m, queue |-> [q \in Queue |-> IF q = "default" THEN s ELSE t]]
  BY DEF Init, Bufs
<1>. HIDE DEF s, t, m
<1>4. /\ DevOK(dev) /\ dev.mem = m /\ Final(dev) = Done(m, s)
      /\ dev.queue["default"] = s /\ dev.queue["stream"] = t
  BY <1>1, <1>2, <1>3, DeviceOf
<1>5. Final(dev) = m
  BY <1>4, DoneEmpty DEF s
<1>6. /\ build \in Build /\ block = [w \in Vector |-> "none"]
      /\ phase = "none" /\ g_handle = "null"
      /\ expected = [b \in BufferOf(AppArray) |-> Junk] /\ answered = TRUE
  BY DEF Init
<1>7. IsExpected(expected)
  BY <1>6 DEF IsExpected
<1>8. AppOK(Final(dev), expected)
  <2>1. BufferOf(AppArray) \subseteq Bufs
    BY ArraysAre DEF ArrayFacts, Bufs, BufferOf
  <2>. QED  BY <1>5, <1>6, <2>1 DEF AppOK, m
<1>9. BlocksOK(block, "none", build)
  BY <1>6 DEF BlocksOK, Vector
<1>10. QueuesOK(dev, block)
  BY <1>4 DEF QueuesOK, s, t
<1>11. BackendOK(dev, "null", build)
  BY <1>4 DEF BackendOK, s, t
<1>12. FactorsOK(Final(dev), block, "none", build)
  BY DEF FactorsOK
<1>. QED  BY <1>4, <1>6, <1>7, <1>8, <1>9, <1>10, <1>11, <1>12 DEF IInv, Sound

LEMMA NextSound ==
  ASSUME IInv, SolverQueues = {"default"}, [Next]_vars
  PROVE  IInv'
<1>1. CASE UNCHANGED vars
  BY <1>1, IInvAfter DEF vars, IInv
<1>2. CASE Next
  <2>1. \/ CreateHandle \/ DestroyHandle \/ \E q \in Queue : SetStream(q)
        \/ Synchronize \/ SynchronizeStream \/ \E q \in Queue : DeviceStep(q)
        \/ Construct \/ FinishConstruct \/ Solve \/ Destroy
        \/ Level12 \/ Dot \/ Lapack
        \/ \E r \in Rhs : SetRhs(r)
        \/ SetMatrix \/ CreateTemp \/ DestroyTemp
        \/ \E q \in Queue : LaunchTemp(q)
    BY <1>2, Zenon DEF Next
  <2>2. CASE CreateHandle \/ DestroyHandle \/ \E q \in Queue : SetStream(q)
    BY <2>2, HandleSteps
  <2>3. CASE Synchronize \/ SynchronizeStream \/ \E q \in Queue : DeviceStep(q)
    BY <2>3, QueueSteps
  <2>4. CASE Construct
    BY <2>4, ConstructStep
  <2>5. CASE FinishConstruct
    BY <2>5, FinishConstructStep
  <2>6. CASE Solve
    BY <2>6, SolveStep
  <2>7. CASE Destroy
    BY <2>7, DestroyStep
  <2>8. CASE Level12
    BY <2>8, Level12Step
  <2>9. CASE Dot
    BY <2>9, DotStep
  <2>10. CASE Lapack
    BY <2>10, LapackStep
  <2>11. CASE \E r \in Rhs : SetRhs(r)
    BY <2>11, SetRhsStep
  <2>12. CASE SetMatrix
    BY <2>12, SetMatrixStep
  <2>13. CASE CreateTemp
    BY <2>13, CreateTempStep
  <2>14. CASE DestroyTemp
    BY <2>14, DestroyTempStep
  <2>15. CASE \E q \in Queue : LaunchTemp(q)
    BY <2>15, LaunchTempStep
  <2>. QED  BY <2>1, <2>2, <2>3, <2>4, <2>5, <2>6, <2>7, <2>8, <2>9, <2>10, <2>11,
               <2>12, <2>13, <2>14, <2>15, Zenon
<1>. QED  BY <1>1, <1>2

(* What the invariant says of a queued operation.                          *)
LEMMA PendingIs ==
  ASSUME IInv, NEW op \in Pending(dev)
  PROVE  \/ \E i \in 1 .. Len(dev.queue["default"]) : op = dev.queue["default"][i]
         \/ \E i \in 1 .. Len(dev.queue["stream"]) : op = dev.queue["stream"][i]
<1>1. DevOK(dev)
  BY DEF IInv, Sound
<1>2. DOMAIN dev.queue = Queue /\ dev.queue["default"] \in Seq(Operation)
      /\ dev.queue["stream"] \in Seq(Operation)
  BY <1>1 DEF DevOK, Queue
<1>3. PICK q \in Queue : op \in ToSet(dev.queue[q])
  BY <1>2 DEF Pending
<1>4. q = "default" \/ q = "stream"
  BY DEF Queue
<1>. QED  BY <1>2, <1>3, <1>4 DEF ToSet

(* Queued operations keep to memory that has an owner.                     *)
LEMMA PendingOwned ==
  ASSUME IInv, NEW op \in Pending(dev)
  PROVE  /\ Touches(op) \cap BufferOf(Free) = {}
         /\ Touches(op) \subseteq Bufs
<1>1. Good(dev, block) /\ block \in Blocks
  BY DEF IInv, Sound, Good, BlocksOK, Blocks
<1>2. Clear(op, block) \/ (block["temp"] # "none" /\ op = Work(block))
  BY <1>1, PendingIs DEF Good, QueuesOK
<1>3. Free = FreeIn(block)
  BY DEF Free, FreeIn
<1>4. CASE Clear(op, block)
  BY <1>1, <1>3, <1>4, FreeIs DEF Clear
<1>5. CASE block["temp"] # "none" /\ op = Work(block)
  BY <1>1, <1>3, <1>5, WorkIs
<1>. QED  BY <1>2, <1>4, <1>5

LEMMA IInvTypeOK == ASSUME IInv PROVE TypeOK
<1>1. Sound(dev, block, phase, build, g_handle, expected) /\ answered = TRUE
  BY DEF IInv
<1>2. DOMAIN dev.mem = Bufs /\ DOMAIN expected = BufferOf(AppArray)
  BY <1>1 DEF Sound, DevOK, IsMemory, IsExpected
<1>3. \A op \in Pending(dev) : Touches(op) \subseteq DOMAIN dev.mem
  BY <1>2, PendingOwned
<1>. QED  BY <1>1, <1>2, <1>3 DEF TypeOK, Sound, BlocksOK, Bufs

LEMMA IInvScratchSafe == ASSUME IInv PROVE ScratchSafeToDestroy
  BY PendingOwned DEF ScratchSafeToDestroy

LEMMA IInvSequential == ASSUME IInv PROVE AsIfSequential
<1>1. /\ Good(dev, block) /\ block \in Blocks /\ DevOK(dev)
      /\ AppOK(Final(dev), expected)
  BY DEF IInv, Sound, Good, BlocksOK, Blocks
<1>2. /\ DOMAIN dev.queue = Queue /\ dev.queue["default"] \in Seq(Operation)
      /\ dev.queue["stream"] \in Seq(Operation)
  BY <1>1 DEF DevOK, Queue
<1>3. ASSUME NEW op1 \in ToSet(dev.queue["default"]), NEW op2 \in ToSet(dev.queue["stream"])
      PROVE  ~ Conflict(op1, op2) /\ ~ Conflict(op2, op1)
  <2>1. PICK j \in 1 .. Len(dev.queue["stream"]) : op2 = dev.queue["stream"][j]
    BY <1>2 DEF ToSet
  <2>2. block["temp"] # "none" /\ op2 = Work(block)
    BY <1>1, <2>1 DEF Good, QueuesOK
  <2>3. dev.queue["stream"] # << >>
    BY <2>1
  <2>4. PICK i \in 1 .. Len(dev.queue["default"]) : op1 = dev.queue["default"][i]
    BY <1>2 DEF ToSet
  <2>5. Touches(op1) \subseteq Owned(block)
    BY <1>1, <2>3, <2>4, StreamWork DEF Clear
  <2>6. Touches(op2) = Temp(block) /\ Temp(block) \cap Owned(block) = {}
    BY <1>1, <2>2, WorkIs
  <2>. QED  BY <2>5, <2>6 DEF Conflict, Touches
<1>4. NoRace(dev)
  <2>1. ASSUME NEW q1 \in Queue, NEW q2 \in Queue, q1 # q2
        PROVE  \/ q1 = "default" /\ q2 = "stream"
               \/ q1 = "stream" /\ q2 = "default"
    BY <2>1 DEF Queue
  <2>. QED  BY <1>2, <1>3, <2>1 DEF NoRace
<1>5. ASSUME Idle(dev), NEW c \in BufferOf(AppArray) PROVE dev.mem[c] = expected[c]
  <2>1. dev.queue["default"] = << >>
    BY <1>2, <1>5 DEF Idle, Queue
  <2>2. Final(dev) = dev.mem
    BY <1>1, <2>1, FinalMemory
  <2>. QED  BY <1>1, <2>2 DEF AppOK
<1>. QED  BY <1>4, <1>5 DEF AsIfSequential

(* The invariant holds in every state the program reaches while its        *)
(* solvers' handle is on the default queue when they are called.           *)
THEOREM Invariance == ASSUME SolverQueues = {"default"} PROVE Spec => []IInv
<1>1. Init => IInv
  BY InitSound
<1>2. IInv /\ [Next]_vars => IInv'
  BY NextSound
<1>. QED  BY <1>1, <1>2, PTL DEF Spec

(* Owners, phases, the handle and the queued work keep their ranges: no    *)
(* queued operation refers to memory that is not there.                    *)
THEOREM TypeCorrect == ASSUME SolverQueues = {"default"} PROVE Spec => []TypeOK
<1>1. IInv => TypeOK
  BY IInvTypeOK
<1>. QED  BY <1>1, Invariance, PTL

(* Scratch memory and temporaries that solvers, BLAS calls and the         *)
(* application give back to the pool are not used by work still queued,    *)
(* in whatever order they are constructed, called and destroyed.           *)
THEOREM ScratchSafe ==
  ASSUME SolverQueues = {"default"} PROVE Spec => []ScratchSafeToDestroy
<1>1. IInv => ScratchSafeToDestroy
  BY IInvScratchSafe
<1>. QED  BY <1>1, Invariance, PTL

(* When the device has caught up, the application's arrays hold what they  *)
(* would if every call had been finished before the next one, and the two  *)
(* queues never work on the same memory: for every library and backend a   *)
(* solver gives the solution for the last right-hand side, whatever its    *)
(* scratch memory held and wherever the pool put it.                       *)
THEOREM Sequential ==
  ASSUME SolverQueues = {"default"} PROVE Spec => []AsIfSequential
<1>1. IInv => AsIfSequential
  BY IInvSequential
<1>. QED  BY <1>1, Invariance, PTL

(* A dot product the host reads is that of the vectors as all calls before *)
(* it left them.                                                           *)
THEOREM Answers ==
  ASSUME SolverQueues = {"default"} PROVE Spec => []AnswersInOrder
<1>1. IInv => AnswersInOrder
  BY DEF IInv, AnswersInOrder
<1>. QED  BY <1>1, Invariance, PTL

-----------------------------------------------------------------------------
(* THE SPARSE MATRIX                                                       *)
(*                                                                         *)
(* For dense batches of any shape: the two kernels agree on where the      *)
(* elements of a row belong, so that no two threads of the second one ever *)
(* write the same entry, and the matrix they leave reads back as the batch *)
(* it was made of, with sorted rows.                                       *)
(*                                                                         *)
(* The inductive invariant relates what the passes compute separately: the *)
(* first counts a row (Counted), the host adds the counts up (RowPtrSums,  *)
(* RowPtrGrows), and the room between a thread's offset and the end of its *)
(* row is what the thread has still to write (OffsetsFit).  What a thread  *)
(* has written so far are the nonzeros up to its column (RowsWritten).     *)

(* Of these facts, those about numbers: no fold is involved here, and which *)
(* operator takes the place of the one folds apply makes no difference.     *)
Numbers == INSTANCE InductionFacts WITH Op <- Cell

-----------------------------------------------------------------------------
(* Index arithmetic. *)

(* Rows of a batch are behind all the rows of the batches before it.       *)
LEMMA BatchesApart ==
  ASSUME NEW n \in Nat, NEW b \in Nat, NEW c \in Nat, b < c
  PROVE  b * n + n <= c * n
<1>1. PICK d \in Nat : c = b + 1 + d
  <2>1. c - b - 1 \in Nat
    OBVIOUS
  <2>. QED  BY <2>1
<1>2. c * n = b * n + n + d * n
  BY <1>1
<1>3. d * n \in Nat
  OBVIOUS
<1>. QED  BY <1>2, <1>3

(* The shape is made of natural numbers.                                   *)
LEMMA ShapeNat ==
  ASSUME shape \in Shapes
  PROVE  nrows \in Nat /\ ncols \in Nat /\ nbatches \in Nat /\ Rows \in Nat
  BY ShapesAssumption DEF ShapesAssumption, nrows, ncols, nbatches, Rows

(* The threads of a kernel, and their row, which is one of the matrix.     *)
LEMMA RowOfThread ==
  ASSUME shape \in Shapes, NEW t \in Threads
  PROVE  /\ t[1] \in 0 .. nrows - 1
         /\ t[2] \in 0 .. nbatches - 1
         /\ RowOf(t) \in 0 .. Rows - 1
         /\ RowOf(t) \in 0 .. Rows
         /\ RowOf(t) + 1 \in 0 .. Rows
         /\ PositionOf(t) = RowOf(t)
<1>1. t[1] \in 0 .. nrows - 1 /\ t[2] \in 0 .. nbatches - 1
  BY ShapeNat DEF Threads, ThreadsOf, nrows, nbatches
<1>2. nrows \in Nat /\ nbatches \in Nat /\ Rows \in Nat
  BY ShapeNat
<1>3. t[2] * nrows \in Nat
  BY <1>1, <1>2
<1>4. t[2] * nrows + nrows <= nbatches * nrows
  BY <1>1, <1>2, BatchesApart
<1>5. nbatches * nrows = Rows
  BY <1>2 DEF Rows
<1>6. PositionOf(t) = RowOf(t)
  BY <1>1, <1>2 DEF PositionOf, RowOf
<1>. QED  BY <1>1, <1>2, <1>3, <1>4, <1>5, <1>6 DEF RowOf

(* No two threads have the same row.                                       *)
LEMMA RowsApart ==
  ASSUME shape \in Shapes, NEW t \in Threads, NEW u \in Threads, RowOf(t) = RowOf(u)
  PROVE  t = u
<1>1. /\ t[1] \in 0 .. nrows - 1 /\ u[1] \in 0 .. nrows - 1
      /\ t[2] \in Nat /\ u[2] \in Nat /\ nrows \in Nat
  BY RowOfThread, ShapeNat
<1>2. t[1] + t[2] * nrows = u[1] + u[2] * nrows
  BY DEF RowOf
<1>3. t[2] * nrows \in Nat /\ u[2] * nrows \in Nat
  BY <1>1
<1>4. ~(t[2] < u[2])
  <2>1. SUFFICES ASSUME t[2] < u[2] PROVE FALSE
    OBVIOUS
  <2>2. t[2] * nrows + nrows <= u[2] * nrows
    BY <1>1, <2>1, BatchesApart
  <2>. QED  BY <1>1, <1>2, <1>3, <2>2
<1>5. ~(u[2] < t[2])
  <2>1. SUFFICES ASSUME u[2] < t[2] PROVE FALSE
    OBVIOUS
  <2>2. u[2] * nrows + nrows <= t[2] * nrows
    BY <1>1, <2>1, BatchesApart
  <2>. QED  BY <1>1, <1>2, <1>3, <2>2
<1>6. t[2] = u[2]
  BY <1>1, <1>4, <1>5
<1>7. t[1] = u[1]
  BY <1>1, <1>2, <1>3, <1>6
<1>. QED  BY <1>6, <1>7 DEF Threads, ThreadsOf

(* What a thread writes is a finite set.                                   *)
LEMMA ColumnsFinite ==
  ASSUME shape \in Shapes, NEW t \in Threads
  PROVE  /\ IsFiniteSet(NonzeroColumns(t))
         /\ Cardinality(NonzeroColumns(t)) \in Nat
         /\ IsFiniteSet(Left(t))
         /\ Cardinality(Left(t)) \in Nat
<1>1. IsFiniteSet(0 .. ncols - 1)
  BY ShapeNat, FS_Interval
<1>2. NonzeroColumns(t) \subseteq 0 .. ncols - 1 /\ Left(t) \subseteq 0 .. ncols - 1
  BY DEF NonzeroColumns, Left
<1>. QED  BY <1>1, <1>2, FS_Subset, FS_CardinalityType

-----------------------------------------------------------------------------
(* Type correctness. *)

(* Every array has its shape and every variable its range, whatever the    *)
(* order of the threads.                                                   *)
LEMMA SparseTypeStep == ASSUME SparseTypeOK, [SparseNext]_sparseVars PROVE SparseTypeOK'
<1>. USE DEF SparseTypeOK
<1>0. nrows \in Nat /\ ncols \in Nat /\ nbatches \in Nat /\ Rows \in Nat
  BY ShapeNat
<1>1. CASE UNCHANGED sparseVars
  BY <1>1 DEF sparseVars, Threads, ThreadsOf, CellsOf, Rows, nrows, ncols, nbatches
<1>s. ASSUME shape' = shape
      PROVE  /\ Threads' = Threads /\ Rows' = Rows /\ ncols' = ncols
             /\ CellsOf(shape)' = CellsOf(shape)
  BY <1>s DEF Threads, ThreadsOf, CellsOf, Rows, nrows, ncols, nbatches
<1>2. CASE ConstructMatrix
  BY <1>2, <1>s DEF ConstructMatrix, Stage
<1>3. ASSUME NEW t \in running, CountRow(t) PROVE SparseTypeOK'
  <2>1. Cardinality(NonzeroColumns(t)) \in Nat
    BY ColumnsFinite
  <2>. QED  BY <1>3, <1>s, <2>1 DEF CountRow, Count
<1>4. CASE CopyCounts
  BY <1>4, <1>s, <1>0 DEF CopyCounts, Stage
<1>5. CASE PartialSum
  <2>1. PICK t \in Threads :
          /\ PositionOf(t) = summed
          /\ row_ptr' = [row_ptr EXCEPT ![summed + 1] = row_ptr[summed] + counts[t]]
    BY <1>5 DEF PartialSum
  <2>2. summed + 1 \in 0 .. Rows
    BY <2>1, RowOfThread
  <2>3. row_ptr[summed] + counts[t] \in Nat
    BY <2>1
  <2>. QED  BY <1>5, <1>s, <2>1, <2>2, <2>3 DEF PartialSum
<1>6. CASE Convert
  <2>1. row_ptr[Rows] \in Nat
    BY <1>0
  <2>2. ASSUME NEW t \in Threads PROVE row_ptr[RowOf(t)] \in Nat
    <3>1. RowOf(t) \in 0 .. Rows
      BY <1>0, RowOfThread
    <3>. QED  BY <3>1
  <2>. QED  BY <1>0, <1>6, <1>s, <2>1, <2>2 DEF Convert, Stage
<1>7. ASSUME NEW t \in running, ConvertElement(t) PROVE SparseTypeOK'
  <2>1. t \in Threads /\ at[t] \in 0 .. ncols - 1
    BY <1>0, <1>7 DEF ConvertElement, Pass
  <2>2. at' \in [Threads -> 0 .. ncols]
    BY <1>0, <1>7, <2>1 DEF ConvertElement, Pass
  <2>3. Cell(t, at[t]) \in nonzero => Cell(t, at[t]) \in CellsOf(shape)
    OBVIOUS
  <2>4. ncols * t[2] + at[t] \in Nat
    <3>1. t[2] \in Nat
      BY <2>1, RowOfThread
    <3>2. ncols * t[2] \in Nat
      BY <1>0, <3>1
    <3>. QED  BY <1>0, <2>1, <3>2
  <2>5. StoreElement(t, ncols * t[2] + at[t])
    BY <1>7 DEF ConvertElement, Pass
  <2>6. values' \in [0 .. nnz - 1 -> CellsOf(shape) \cup {None}]
    BY <2>3, <2>5 DEF StoreElement
  <2>7. col_ind' \in [0 .. nnz - 1 -> Nat \cup {None}]
    BY <2>4, <2>5 DEF StoreElement
  <2>8. offset' \in [Threads -> Nat]
    BY <2>1, <2>5 DEF StoreElement
  <2>. QED  BY <1>7, <1>s, <2>2, <2>6, <2>7, <2>8 DEF ConvertElement, Pass
<1>8. ASSUME NEW t \in running, EndThread(t) PROVE SparseTypeOK'
  BY <1>8, <1>s DEF EndThread
<1>9. CASE Release
  <2>1. CellsOf(shape) \in SUBSET CellsOf(shape)
    OBVIOUS
  <2>. QED  BY <1>0, <1>9, <1>s DEF Release, Stage
<1>. QED  BY <1>1, <1>2, <1>3, <1>4, <1>5, <1>6, <1>7, <1>8, <1>9 DEF SparseNext

LEMMA SparseTypeInit == SparseInit => SparseTypeOK
<1>. SUFFICES ASSUME SparseInit PROVE SparseTypeOK
  OBVIOUS
<1>1. nrows \in Nat /\ ncols \in Nat /\ nbatches \in Nat /\ Rows \in Nat
  BY ShapeNat DEF SparseInit
<1>. QED  BY <1>1 DEF SparseInit, SparseTypeOK, Stage, Threads

(* Every array keeps its shape and every variable its range, for dense     *)
(* batches of any shape.                                                   *)
THEOREM SparseTypeCorrect == SparseSpec => []SparseTypeOK
  BY SparseTypeInit, SparseTypeStep, PTL DEF SparseSpec

-----------------------------------------------------------------------------
(* The inductive invariant. *)

(* The counts are those of the rows, of the threads that have finished.    *)
Counted ==
  stage # "none" =>
    \A t \in Threads : t \notin running \/ stage # "count" =>
      counts[t] = Cardinality(NonzeroColumns(t))

(* The entries of row_ptr that are summed are as far apart as the counts.  *)
RowPtrSums ==
  stage \in {"scan", "convert"} =>
    \A t \in Threads : RowOf(t) < summed =>
      row_ptr[RowOf(t) + 1] = row_ptr[RowOf(t)] + counts[t]

(* They do not decrease.                                                   *)
RowPtrGrows ==
  stage \in {"scan", "convert"} =>
    \A k, l \in 0 .. summed : k <= l => row_ptr[k] <= row_ptr[l]

(* What a thread has still to write ends where its row ends.               *)
OffsetsFit ==
  stage = "convert" =>
    /\ summed = Rows
    /\ nnz = row_ptr[Rows]
    /\ \A t \in Threads :
         /\ row_ptr[RowOf(t)] <= offset[t]
         /\ offset[t] + Cardinality(Left(t)) = row_ptr[RowOf(t) + 1]

SparseInv == SparseTypeOK /\ Counted /\ RowPtrSums /\ RowPtrGrows /\ OffsetsFit

(* What the invariant says of the row of a thread.                         *)
LEMMA InvRow ==
  ASSUME SparseInv, NEW t \in Threads
  PROVE  /\ shape \in Shapes /\ Rows \in Nat
         /\ RowOf(t) \in 0 .. Rows - 1 /\ RowOf(t) \in 0 .. Rows /\ RowOf(t) \in Nat
         /\ RowOf(t) + 1 \in 0 .. Rows
         /\ row_ptr[RowOf(t)] \in Nat /\ row_ptr[RowOf(t) + 1] \in Nat
<1>1. shape \in Shapes /\ row_ptr \in [0 .. Rows -> Nat]
  BY DEF SparseInv, SparseTypeOK
<1>2. /\ RowOf(t) \in 0 .. Rows - 1 /\ RowOf(t) \in 0 .. Rows
      /\ RowOf(t) + 1 \in 0 .. Rows /\ Rows \in Nat
  BY <1>1, RowOfThread, ShapeNat
<1>. QED  BY <1>1, <1>2

(* The invariant implies the property: rows do not overlap because row_ptr *)
(* grows, and a thread with something left is short of the end of its row. *)
LEMMA InvImpliesDisjoint == SparseInv => WritesDisjoint
<1>. SUFFICES ASSUME SparseInv, stage = "convert", NEW t \in Threads, Left(t) # {}
              PROVE  /\ offset[t] \in row_ptr[RowOf(t)] .. row_ptr[RowOf(t) + 1] - 1
                     /\ offset[t] < nnz
                     /\ \A u \in Threads \ {t} : Left(u) # {} => offset[u] # offset[t]
  BY DEF WritesDisjoint
<1>. USE DEF SparseInv
<1>1. ASSUME NEW u \in Threads, Left(u) # {}
      PROVE  /\ RowOf(u) \in 0 .. Rows /\ RowOf(u) + 1 \in 0 .. Rows
             /\ row_ptr[RowOf(u)] \in Nat /\ row_ptr[RowOf(u) + 1] \in Nat
             /\ offset[u] \in Nat
             /\ row_ptr[RowOf(u)] <= offset[u]
             /\ offset[u] < row_ptr[RowOf(u) + 1]
  <2>1. RowOf(u) \in 0 .. Rows /\ RowOf(u) + 1 \in 0 .. Rows
    BY InvRow
  <2>2. row_ptr[RowOf(u)] \in Nat /\ row_ptr[RowOf(u) + 1] \in Nat /\ offset[u] \in Nat
    BY InvRow DEF SparseTypeOK
  <2>3. Cardinality(Left(u)) \in Nat /\ Cardinality(Left(u)) # 0
    <3>1. shape \in Shapes
      BY DEF SparseTypeOK
    <3>2. IsFiniteSet(Left(u)) /\ Cardinality(Left(u)) \in Nat
      BY <3>1, ColumnsFinite
    <3>. QED  BY <1>1, <3>2, FS_EmptySet
  <2>4. /\ row_ptr[RowOf(u)] <= offset[u]
        /\ offset[u] + Cardinality(Left(u)) = row_ptr[RowOf(u) + 1]
    BY DEF OffsetsFit
  <2>. QED  BY <2>1, <2>2, <2>3, <2>4
<1>2. \A k, l \in 0 .. Rows : k <= l => row_ptr[k] <= row_ptr[l]
  BY DEF RowPtrGrows, OffsetsFit
<1>3. offset[t] < nnz
  <2>1. Rows \in Nat /\ row_ptr[Rows] \in Nat /\ nnz = row_ptr[Rows]
    BY ShapeNat DEF SparseTypeOK, OffsetsFit
  <2>2. row_ptr[RowOf(t) + 1] <= row_ptr[Rows]
    BY <1>1, <1>2, <2>1
  <2>. QED  BY <1>1, <2>1, <2>2
<1>4. ASSUME NEW u \in Threads, NEW v \in Threads, Left(u) # {}, Left(v) # {},
             RowOf(u) < RowOf(v)
      PROVE  offset[u] < offset[v]
  <2>1. row_ptr[RowOf(u) + 1] <= row_ptr[RowOf(v)]
    BY <1>1, <1>2, <1>4
  <2>. QED  BY <1>1, <1>4, <2>1
<1>5. ASSUME NEW u \in Threads \ {t}, Left(u) # {} PROVE offset[u] # offset[t]
  <2>1. RowOf(u) # RowOf(t)
    BY RowsApart DEF SparseTypeOK
  <2>2. RowOf(u) \in Nat /\ RowOf(t) \in Nat /\ offset[u] \in Nat /\ offset[t] \in Nat
    BY <1>1, <1>5
  <2>. QED  BY <1>4, <1>5, <2>1, <2>2
<1>. QED  BY <1>1, <1>3, <1>5

LEMMA SparseInvInit == SparseInit => SparseInv
  BY SparseTypeInit DEF SparseInit, SparseInv, Counted, RowPtrSums, RowPtrGrows, OffsetsFit

(* As long as the matrix and the shape stay, so do rows and columns.       *)
LEMMA Unchanged ==
  ASSUME shape' = shape, nonzero' = nonzero
  PROVE  /\ Threads' = Threads /\ Rows' = Rows
         /\ \A t : /\ RowOf(t)' = RowOf(t)
                  /\ NonzeroColumns(t)' = NonzeroColumns(t)
  BY DEF Threads, ThreadsOf, Rows, RowOf, NonzeroColumns, Cell, nrows, ncols, nbatches

(* A step of the host's sum.                                               *)
LEMMA SumStep ==
  ASSUME SparseInv, SparseTypeOK', PartialSum
  PROVE  SparseInv'
<1>1. PICK t \in Threads :
        /\ PositionOf(t) = summed
        /\ row_ptr' = [row_ptr EXCEPT ![summed + 1] = row_ptr[summed] + counts[t]]
  BY DEF PartialSum
<1>2. RowOf(t) = summed /\ summed + 1 \in 0 .. Rows /\ Rows \in Nat /\ summed \in Nat
  BY <1>1, RowOfThread, ShapeNat DEF SparseInv, SparseTypeOK
<1>3. /\ Threads' = Threads /\ Rows' = Rows /\ stage = "scan" /\ stage' = "scan"
      /\ \A u : RowOf(u)' = RowOf(u) /\ NonzeroColumns(u)' = NonzeroColumns(u)
      /\ counts' = counts /\ running' = running /\ summed' = summed + 1
  BY Unchanged DEF PartialSum
<1>4. /\ row_ptr'[summed + 1] = row_ptr[summed] + counts[t]
      /\ \A k \in 0 .. summed : row_ptr'[k] = row_ptr[k]
      /\ row_ptr \in [0 .. Rows -> Nat] /\ counts[t] \in Nat
  BY <1>1, <1>2 DEF SparseInv, SparseTypeOK
<1>5. Counted'
  BY <1>3 DEF SparseInv, Counted
<1>6. RowPtrSums'
  <2>1. SUFFICES ASSUME NEW u \in Threads, RowOf(u) < summed + 1
                 PROVE  row_ptr'[RowOf(u) + 1] = row_ptr'[RowOf(u)] + counts[u]
    BY <1>3 DEF RowPtrSums
  <2>2. RowOf(u) \in Nat
    BY InvRow
  <2>3. CASE RowOf(u) < summed
    <3>1. row_ptr[RowOf(u) + 1] = row_ptr[RowOf(u)] + counts[u]
      BY <1>3, <2>3 DEF SparseInv, RowPtrSums
    <3>2. RowOf(u) \in 0 .. summed /\ RowOf(u) + 1 \in 0 .. summed
      BY <1>2, <2>2, <2>3
    <3>. QED  BY <1>4, <3>1, <3>2
  <2>4. CASE RowOf(u) = summed
    <3>1. u = t
      BY <1>2, <2>4, RowsApart DEF SparseInv, SparseTypeOK
    <3>. QED  BY <1>2, <1>4, <2>4, <3>1
  <2>. QED  BY <1>2, <2>1, <2>2, <2>3, <2>4
<1>7. RowPtrGrows'
  <2>1. SUFFICES ASSUME NEW k \in 0 .. summed + 1, NEW l \in 0 .. summed + 1, k <= l
                 PROVE  row_ptr'[k] <= row_ptr'[l]
    BY <1>3 DEF RowPtrGrows
  <2>2. \A i, j \in 0 .. summed : i <= j => row_ptr[i] <= row_ptr[j]
    BY <1>3 DEF SparseInv, RowPtrGrows
  <2>3. \A i \in 0 .. summed : row_ptr[i] \in Nat
    BY <1>2, <1>4
  <2>4. CASE l <= summed
    BY <1>2, <1>4, <2>1, <2>2, <2>4
  <2>5. CASE l = summed + 1 /\ k <= summed
    <3>1. row_ptr'[k] <= row_ptr[summed]
      BY <1>2, <1>4, <2>1, <2>2, <2>5
    <3>. QED  BY <1>2, <1>4, <2>1, <2>3, <2>5, <3>1
  <2>6. CASE l = summed + 1 /\ k = summed + 1
    <3>1. row_ptr'[l] \in Nat
      BY <1>2, <1>4, <2>3, <2>6
    <3>. QED  BY <2>6, <3>1
  <2>. QED  BY <1>2, <2>1, <2>4, <2>5, <2>6
<1>8. OffsetsFit'
  BY <1>3 DEF OffsetsFit
<1>. QED  BY <1>5, <1>6, <1>7, <1>8 DEF SparseInv

(* The launch of the second kernel: every thread has its whole row left.   *)
LEMMA ConvertStep ==
  ASSUME SparseInv, SparseTypeOK', Convert
  PROVE  SparseInv'
<1>1. /\ Threads' = Threads /\ Rows' = Rows /\ stage = "scan" /\ stage' = "convert"
      /\ \A u : RowOf(u)' = RowOf(u) /\ NonzeroColumns(u)' = NonzeroColumns(u)
      /\ counts' = counts /\ row_ptr' = row_ptr /\ summed' = summed /\ summed = Rows
      /\ nnz' = row_ptr[Rows]
  BY Unchanged DEF Convert
<1>2. Counted'
  BY <1>1 DEF SparseInv, Counted
<1>3. RowPtrSums'
  BY <1>1 DEF SparseInv, RowPtrSums
<1>4. RowPtrGrows'
  BY <1>1 DEF SparseInv, RowPtrGrows
<1>5. ASSUME NEW t \in Threads
      PROVE  /\ row_ptr[RowOf(t)] <= offset'[t]
             /\ offset'[t] + Cardinality(Left(t)') = row_ptr[RowOf(t) + 1]
  <2>1. offset'[t] = row_ptr[RowOf(t)] /\ at'[t] = 0
    BY DEF Convert
  <2>2. Left(t)' = NonzeroColumns(t)
    BY <1>1, <2>1 DEF Left, NonzeroColumns
  <2>3. RowOf(t) \in 0 .. Rows - 1 /\ RowOf(t) \in 0 .. Rows
    BY InvRow
  <2>4. row_ptr[RowOf(t) + 1] = row_ptr[RowOf(t)] + Cardinality(NonzeroColumns(t))
    <3>1. Rows \in Nat
      BY ShapeNat DEF SparseInv, SparseTypeOK
    <3>2. RowOf(t) < summed
      BY <1>1, <2>3, <3>1
    <3>. QED  BY <1>1, <3>2 DEF SparseInv, RowPtrSums, Counted
  <2>5. row_ptr[RowOf(t)] \in Nat
    BY <2>3 DEF SparseInv, SparseTypeOK
  <2>. QED  BY <2>1, <2>2, <2>4, <2>5
<1>6. OffsetsFit'
  BY <1>1, <1>5 DEF OffsetsFit
<1>. QED  BY <1>2, <1>3, <1>4, <1>6 DEF SparseInv

(* A pass of a thread of the second kernel: it writes an element and has   *)
(* one less to write, or it does neither.                                  *)
LEMMA ElementStep ==
  ASSUME SparseInv, SparseTypeOK', NEW t \in running, ConvertElement(t)
  PROVE  SparseInv'
<1>1. /\ Threads' = Threads /\ Rows' = Rows /\ stage = "convert" /\ stage' = "convert"
      /\ \A u : RowOf(u)' = RowOf(u) /\ NonzeroColumns(u)' = NonzeroColumns(u)
      /\ counts' = counts /\ row_ptr' = row_ptr /\ summed' = summed /\ nnz' = nnz
  BY Unchanged DEF ConvertElement, Pass
<1>2. t \in Threads /\ at[t] \in Nat /\ at \in [Threads -> 0 .. ncols]
      /\ ncols \in Nat /\ at[t] \in 0 .. ncols - 1
  BY ShapeNat DEF SparseInv, SparseTypeOK, ConvertElement, Pass
<1>3. at' = [at EXCEPT ![t] = @ + 1] /\ StoreElement(t, ncols * t[2] + at[t])
  BY DEF ConvertElement, Pass
<1>4. ASSUME NEW u \in Threads
      PROVE  /\ row_ptr[RowOf(u)] <= offset'[u]
             /\ offset'[u] + Cardinality(Left(u)') = row_ptr[RowOf(u) + 1]
  <2>1. /\ row_ptr[RowOf(u)] <= offset[u]
        /\ offset[u] + Cardinality(Left(u)) = row_ptr[RowOf(u) + 1]
        /\ offset[u] \in Nat
    BY <1>1 DEF SparseInv, OffsetsFit, SparseTypeOK
  <2>2. IsFiniteSet(Left(u)) /\ Cardinality(Left(u)) \in Nat
    BY ColumnsFinite DEF SparseInv, SparseTypeOK
  <2>3. row_ptr[RowOf(u)] \in Nat
    BY InvRow
  <2>4. CASE u # t
    <3>1. offset'[u] = offset[u] /\ at'[u] = at[u]
      BY <1>2, <1>3, <2>4 DEF StoreElement, SparseInv, SparseTypeOK
    <3>2. Left(u)' = Left(u)
      BY <1>1, <3>1 DEF Left
    <3>. QED  BY <2>1, <3>1, <3>2
  <2>5. CASE u = t /\ Cell(t, at[t]) \in nonzero
    <3>1. offset'[u] = offset[u] + 1 /\ at'[u] = at[u] + 1
      BY <1>2, <1>3, <2>5 DEF StoreElement, SparseInv, SparseTypeOK
    <3>2. Left(u)' = Left(u) \ {at[u]} /\ at[u] \in Left(u)
      <4>1. NonzeroColumns(u) \subseteq Int
        BY DEF NonzeroColumns
      <4>2. Left(u)' = {j \in NonzeroColumns(u) : at[u] + 1 <= j}
        BY <1>1, <3>1 DEF Left
      <4>3. at[u] \in NonzeroColumns(u)
        BY <1>2, <2>5 DEF NonzeroColumns
      <4>. QED  BY <1>2, <2>5, <4>1, <4>2, <4>3 DEF Left
    <3>3. Cardinality(Left(u)') = Cardinality(Left(u)) - 1
      BY <2>2, <3>2, FS_RemoveElement
    <3>. QED  BY <2>1, <2>2, <2>3, <3>1, <3>3
  <2>6. CASE u = t /\ Cell(t, at[t]) \notin nonzero
    <3>1. offset'[u] = offset[u] /\ at'[u] = at[u] + 1
      BY <1>2, <1>3, <2>6 DEF StoreElement
    <3>2. Left(u)' = Left(u)
      <4>1. NonzeroColumns(u) \subseteq Int
        BY DEF NonzeroColumns
      <4>2. Left(u)' = {j \in NonzeroColumns(u) : at[u] + 1 <= j}
        BY <1>1, <3>1 DEF Left
      <4>3. at[u] \notin NonzeroColumns(u)
        BY <2>6 DEF NonzeroColumns
      <4>. QED  BY <1>2, <2>6, <4>1, <4>2, <4>3 DEF Left
    <3>. QED  BY <2>1, <3>1, <3>2
  <2>. QED  BY <2>4, <2>5, <2>6
<1>5. OffsetsFit'
  BY <1>1, <1>4 DEF SparseInv, OffsetsFit
<1>. QED  BY <1>1, <1>5 DEF SparseInv, Counted, RowPtrSums, RowPtrGrows

LEMMA SparseInvStep == ASSUME SparseInv, [SparseNext]_sparseVars PROVE SparseInv'
<1>0. SparseTypeOK'
  BY SparseTypeStep DEF SparseInv
<1>. USE DEF SparseInv, Counted, RowPtrSums, RowPtrGrows, OffsetsFit
<1>1. CASE UNCHANGED sparseVars
  <2>1. /\ Threads' = Threads /\ Rows' = Rows
        /\ \A u : NonzeroColumns(u)' = NonzeroColumns(u) /\ RowOf(u)' = RowOf(u)
    BY <1>1, Unchanged DEF sparseVars
  <2>2. \A u : Left(u)' = Left(u)
    BY <1>1, <2>1 DEF Left, sparseVars
  <2>. QED  BY <1>0, <1>1, <2>1, <2>2 DEF sparseVars
<1>2. CASE ConstructMatrix
  <2>1. Threads' = Threads /\ stage' = "count" /\ running' = Threads
    BY <1>2 DEF ConstructMatrix, Threads, ThreadsOf
  <2>2. /\ stage' # "scan" /\ stage' # "convert"
    BY <2>1
  <2>3. Counted'
    BY <2>1
  <2>4. RowPtrSums' /\ RowPtrGrows'
    BY <2>2
  <2>5. OffsetsFit'
    BY <2>2
  <2>. QED  BY <1>0, <2>3, <2>4, <2>5
<1>3. ASSUME NEW t \in running, CountRow(t) PROVE SparseInv'
  <2>1. /\ Threads' = Threads /\ stage = "count" /\ stage' = "count"
        /\ \A u : NonzeroColumns(u)' = NonzeroColumns(u)
        /\ running' = running \ {t} /\ t \in Threads
        /\ counts' = [counts EXCEPT ![t] = Cardinality(NonzeroColumns(t))]
    BY <1>3, Unchanged DEF CountRow, Count, SparseTypeOK
  <2>2. Counted'
    BY <2>1 DEF SparseTypeOK
  <2>. QED  BY <1>0, <2>1, <2>2
<1>4. CASE CopyCounts
  <2>1. /\ Threads' = Threads /\ stage = "count" /\ stage' = "scan" /\ summed' = 0
        /\ \A u : NonzeroColumns(u)' = NonzeroColumns(u) /\ RowOf(u)' = RowOf(u)
        /\ running = {} /\ counts' = counts
    BY <1>4, Unchanged DEF CopyCounts
  <2>2. Counted'
    BY <2>1
  <2>3. RowPtrSums'
    <3>1. \A t \in Threads : RowOf(t) \in Nat
      BY RowOfThread DEF SparseTypeOK
    <3>. QED  BY <2>1, <3>1
  <2>4. RowPtrGrows'
    <3>1. row_ptr'[0] \in Nat
      BY <1>0, <2>1, ShapeNat DEF SparseTypeOK
    <3>2. \A k \in 0 .. summed' : k = 0
      BY <2>1
    <3>. QED  BY <2>1, <3>1, <3>2
  <2>. QED  BY <1>0, <2>1, <2>2, <2>3, <2>4
<1>5. CASE PartialSum
  BY <1>0, <1>5, SumStep
<1>6. CASE Convert
  BY <1>0, <1>6, ConvertStep
<1>7. ASSUME NEW t \in running, ConvertElement(t) PROVE SparseInv'
  BY <1>0, <1>7, ElementStep
<1>8. ASSUME NEW t \in running, EndThread(t) PROVE SparseInv'
  <2>1. /\ Threads' = Threads /\ Rows' = Rows /\ stage = "convert" /\ stage' = "convert"
        /\ \A u : /\ NonzeroColumns(u)' = NonzeroColumns(u) /\ RowOf(u)' = RowOf(u)
                 /\ Left(u)' = Left(u)
        /\ counts' = counts /\ row_ptr' = row_ptr /\ summed' = summed /\ nnz' = nnz
        /\ offset' = offset
    <3>1. \A u : NonzeroColumns(u)' = NonzeroColumns(u) /\ at' = at
      BY <1>8, Unchanged DEF EndThread
    <3>2. \A u : Left(u)' = Left(u)
      BY <3>1 DEF Left
    <3>. QED  BY <1>8, <3>1, <3>2, Unchanged DEF EndThread
  <2>. QED  BY <1>0, <2>1
<1>9. CASE Release
  BY <1>0, <1>9 DEF Release
<1>. QED  BY <1>1, <1>2, <1>3, <1>4, <1>5, <1>6, <1>7, <1>8, <1>9 DEF SparseNext

(* No two threads of the converting kernel write the same entry, and none  *)
(* writes outside of the arrays or of its row: for dense batches of any    *)
(* shape and any pattern of zeros.                                         *)
THEOREM WritesAreDisjoint == SparseSpec => []WritesDisjoint
<1>1. SparseSpec => []SparseInv
  BY SparseInvInit, SparseInvStep, PTL DEF SparseSpec
<1>. QED  BY <1>1, InvImpliesDisjoint, PTL

-----------------------------------------------------------------------------
(* What the matrix contains. *)

(* The entries a thread of the converting kernel has written.              *)
Entries(t) == row_ptr[RowOf(t)] .. offset[t] - 1

(* All of them are elements of its row that it has passed, in their column *)
(* of the sparse matrix.                                                   *)
OnlyElements(t) ==
  \A k \in Entries(t) :
    \E j \in NonzeroColumns(t) :
      j < at[t] /\ values[k] = Cell(t, j) /\ col_ind[k] = ncols * t[2] + j

(* None that it has passed is missing.                                     *)
AllElements(t) ==
  \A j \in NonzeroColumns(t) : j < at[t] => \E k \in Entries(t) : values[k] = Cell(t, j)

(* Their columns increase.                                                 *)
Increasing(t) == \A k, l \in Entries(t) : k < l => col_ind[k] < col_ind[l]

(* A thread ends behind its last column.                                   *)
EndsAtEnd(t) == t \notin running => at[t] = ncols

RowWritten(t) == OnlyElements(t) /\ AllElements(t) /\ Increasing(t) /\ EndsAtEnd(t)

(* The first row starts at 0, and every row is written as far as its       *)
(* thread has come.                                                        *)
RowsWritten ==
  /\ stage \in {"scan", "convert"} => row_ptr[0] = 0
  /\ stage = "convert" => \A t \in Threads : RowWritten(t)

CInv == SparseInv /\ RowsWritten

(* The row of a thread is where its thread writes: it lies inside of the   *)
(* arrays and apart from the rows of the other threads.                    *)
LEMMA RowsOfThreadsApart ==
  ASSUME SparseInv, stage = "convert", NEW t \in Threads
  PROVE  /\ row_ptr[RowOf(t)] \in Nat /\ row_ptr[RowOf(t) + 1] \in Nat
         /\ offset[t] \in Nat /\ row_ptr[RowOf(t)] <= offset[t]
         /\ offset[t] <= row_ptr[RowOf(t) + 1]
         /\ row_ptr[RowOf(t) + 1] <= nnz /\ nnz \in Nat
         /\ \A u \in Threads \ {t} :
              \/ row_ptr[RowOf(t) + 1] <= row_ptr[RowOf(u)]
              \/ row_ptr[RowOf(u) + 1] <= row_ptr[RowOf(t)]
<1>1. \A k, l \in 0 .. Rows : k <= l => row_ptr[k] <= row_ptr[l]
  BY DEF SparseInv, RowPtrGrows, OffsetsFit
<1>2. /\ row_ptr[RowOf(t)] \in Nat /\ row_ptr[RowOf(t) + 1] \in Nat
      /\ RowOf(t) + 1 \in 0 .. Rows /\ Rows \in Nat /\ RowOf(t) \in Nat
  BY InvRow
<1>3. offset[t] \in Nat /\ nnz \in Nat /\ nnz = row_ptr[Rows]
  BY DEF SparseInv, SparseTypeOK, OffsetsFit
<1>4. /\ row_ptr[RowOf(t)] <= offset[t]
      /\ offset[t] + Cardinality(Left(t)) = row_ptr[RowOf(t) + 1]
  BY DEF SparseInv, OffsetsFit
<1>5. Cardinality(Left(t)) \in Nat
  BY ColumnsFinite DEF SparseInv, SparseTypeOK
<1>6. offset[t] <= row_ptr[RowOf(t) + 1]
  BY <1>2, <1>3, <1>4, <1>5
<1>7. row_ptr[RowOf(t) + 1] <= nnz
  BY <1>1, <1>2, <1>3
<1>8. ASSUME NEW u \in Threads \ {t}
      PROVE  \/ row_ptr[RowOf(t) + 1] <= row_ptr[RowOf(u)]
             \/ row_ptr[RowOf(u) + 1] <= row_ptr[RowOf(t)]
  <2>1. RowOf(u) # RowOf(t)
    BY RowsApart DEF SparseInv, SparseTypeOK
  <2>2. RowOf(u) + 1 \in 0 .. Rows /\ RowOf(u) \in Nat
    BY InvRow
  <2>3. RowOf(u) \in 0 .. Rows /\ RowOf(t) \in 0 .. Rows
    BY <1>2, <2>2
  <2>4. RowOf(t) + 1 <= RowOf(u) \/ RowOf(u) + 1 <= RowOf(t)
    BY <1>2, <2>1, <2>2
  <2>. QED  BY <1>1, <1>2, <2>2, <2>3, <2>4
<1>. QED  BY <1>2, <1>3, <1>4, <1>6, <1>7, <1>8

(* The other rows stay as they are when a thread writes an element of its  *)
(* own.                                                                    *)
LEMMA OtherRowsStay ==
  ASSUME SparseInv, stage = "convert", NEW t \in running, ConvertElement(t),
         NEW u \in Threads, u # t, RowWritten(u)
  PROVE  RowWritten(u)'
<1>1. /\ \A v : RowOf(v)' = RowOf(v) /\ NonzeroColumns(v)' = NonzeroColumns(v)
      /\ row_ptr' = row_ptr /\ running' = running /\ ncols' = ncols
  BY Unchanged DEF ConvertElement, Pass, ncols
<1>2. t \in Threads /\ at \in [Threads -> 0 .. ncols] /\ offset \in [Threads -> Nat]
  BY DEF SparseInv, SparseTypeOK
<1>3. at' = [at EXCEPT ![t] = @ + 1] /\ StoreElement(t, ncols * t[2] + at[t])
  BY DEF ConvertElement, Pass
<1>4. at'[u] = at[u] /\ offset'[u] = offset[u]
  BY <1>2, <1>3 DEF StoreElement
<1>5. Entries(u)' = Entries(u)
  BY <1>1, <1>4 DEF Entries
<1>6. ASSUME NEW k \in Entries(u) PROVE values'[k] = values[k] /\ col_ind'[k] = col_ind[k]
  <2>1. CASE Cell(t, at[t]) \notin nonzero
    BY <1>3, <2>1 DEF StoreElement
  <2>2. CASE Cell(t, at[t]) \in nonzero
    <3>1. at[t] \in Left(t)
      <4>1. at[t] \in 0 .. ncols - 1
        BY <1>2, ShapeNat DEF ConvertElement, Pass, SparseInv, SparseTypeOK
      <4>. QED  BY <2>2, <4>1 DEF Left, NonzeroColumns
    <3>2. offset[t] \in row_ptr[RowOf(t)] .. row_ptr[RowOf(t) + 1] - 1
      BY <1>2, <3>1, InvImpliesDisjoint DEF WritesDisjoint
    <3>3. k # offset[t]
      <4>1. k \in row_ptr[RowOf(u)] .. offset[u] - 1
        BY <1>6 DEF Entries
      <4>2. /\ row_ptr[RowOf(u)] \in Nat /\ row_ptr[RowOf(u) + 1] \in Nat
            /\ offset[u] \in Nat /\ offset[u] <= row_ptr[RowOf(u) + 1]
            /\ \/ row_ptr[RowOf(u) + 1] <= row_ptr[RowOf(t)]
               \/ row_ptr[RowOf(t) + 1] <= row_ptr[RowOf(u)]
        BY <1>2, RowsOfThreadsApart
      <4>3. row_ptr[RowOf(t)] \in Nat /\ row_ptr[RowOf(t) + 1] \in Nat
        BY <1>2, InvRow
      <4>. QED  BY <3>2, <4>1, <4>2, <4>3
    <3>4. /\ values' = [values EXCEPT ![offset[t]] = Cell(t, at[t])]
          /\ col_ind' = [col_ind EXCEPT ![offset[t]] = ncols * t[2] + at[t]]
      BY <1>3, <2>2 DEF StoreElement
    <3>5. values'[k] = values[k]
      BY <3>3, <3>4 DEF SparseInv, SparseTypeOK
    <3>6. col_ind'[k] = col_ind[k]
      BY <3>3, <3>4 DEF SparseInv, SparseTypeOK
    <3>. QED  BY <3>5, <3>6
  <2>. QED  BY <2>1, <2>2
<1>7. OnlyElements(u)'
  <2>1. \A k \in Entries(u) :
          \E j \in NonzeroColumns(u) :
            j < at[u] /\ values[k] = Cell(u, j) /\ col_ind[k] = ncols * u[2] + j
    BY DEF RowWritten, OnlyElements
  <2>2. \A k \in Entries(u) :
          \E j \in NonzeroColumns(u) :
            j < at[u] /\ values'[k] = Cell(u, j) /\ col_ind'[k] = ncols * u[2] + j
    BY <1>6, <2>1
  <2>3. \A j : Cell(u, j)' = Cell(u, j)
    BY DEF Cell
  <2>. QED  BY <1>1, <1>4, <1>5, <2>2, <2>3 DEF OnlyElements
<1>8. AllElements(u)'
  <2>1. \A j \in NonzeroColumns(u) : j < at[u] => \E k \in Entries(u) : values[k] = Cell(u, j)
    BY DEF RowWritten, AllElements
  <2>2. \A j : Cell(u, j)' = Cell(u, j)
    BY DEF Cell
  <2>. QED  BY <1>1, <1>4, <1>5, <1>6, <2>1, <2>2 DEF AllElements
<1>9. Increasing(u)'
  BY <1>5, <1>6 DEF RowWritten, Increasing
<1>10. EndsAtEnd(u)'
  BY <1>1, <1>4 DEF RowWritten, EndsAtEnd
<1>. QED  BY <1>7, <1>8, <1>9, <1>10 DEF RowWritten

(* A pass over an element that is not zero adds it at the end of the row.  *)
LEMMA RowGrows ==
  ASSUME SparseInv, stage = "convert", NEW t \in running, ConvertElement(t),
         Cell(t, at[t]) \in nonzero, RowWritten(t)
  PROVE  RowWritten(t)'
<1>1. /\ RowOf(t)' = RowOf(t) /\ NonzeroColumns(t)' = NonzeroColumns(t)
      /\ row_ptr' = row_ptr /\ running' = running /\ ncols' = ncols
      /\ \A j : Cell(t, j)' = Cell(t, j)
  BY Unchanged DEF ConvertElement, Pass, ncols, Cell
<1>2. /\ t \in Threads /\ at \in [Threads -> 0 .. ncols] /\ offset \in [Threads -> Nat]
      /\ ncols \in Nat /\ nnz \in Nat
  BY ShapeNat DEF SparseInv, SparseTypeOK
<1>3. at[t] \in 0 .. ncols - 1
  BY <1>2 DEF ConvertElement, Pass
<1>4. at[t] \in NonzeroColumns(t) /\ at[t] \in Left(t)
  BY <1>3 DEF NonzeroColumns, Left
<1>5. at' = [at EXCEPT ![t] = @ + 1] /\ StoreElement(t, ncols * t[2] + at[t])
  BY DEF ConvertElement, Pass
<1>6. /\ values' = [values EXCEPT ![offset[t]] = Cell(t, at[t])]
      /\ col_ind' = [col_ind EXCEPT ![offset[t]] = ncols * t[2] + at[t]]
      /\ offset' = [offset EXCEPT ![t] = @ + 1]
  BY <1>5 DEF StoreElement
<1>7. at'[t] = at[t] + 1 /\ offset'[t] = offset[t] + 1
  BY <1>2, <1>5, <1>6
<1>8. /\ row_ptr[RowOf(t)] \in Nat /\ offset[t] \in Nat
      /\ row_ptr[RowOf(t)] <= offset[t] /\ offset[t] < nnz
  BY <1>2, <1>4, RowsOfThreadsApart, InvImpliesDisjoint DEF WritesDisjoint
<1>9. Entries(t)' = Entries(t) \cup {offset[t]}
  BY <1>1, <1>7, <1>8 DEF Entries
<1>10. values'[offset[t]] = Cell(t, at[t]) /\ col_ind'[offset[t]] = ncols * t[2] + at[t]
  BY <1>2, <1>6, <1>8 DEF SparseInv, SparseTypeOK
<1>11. \A k \in Entries(t) : /\ k \in Int /\ k < offset[t]
                             /\ values'[k] = values[k] /\ col_ind'[k] = col_ind[k]
  BY <1>2, <1>6, <1>8 DEF Entries, SparseInv, SparseTypeOK
<1>12. OnlyElements(t)'
  <2>1. SUFFICES ASSUME NEW k \in Entries(t) \cup {offset[t]}
                 PROVE  \E j \in NonzeroColumns(t) :
                          /\ j < at[t] + 1 /\ values'[k] = Cell(t, j)
                          /\ col_ind'[k] = ncols * t[2] + j
    BY <1>1, <1>7, <1>9 DEF OnlyElements
  <2>2. CASE k = offset[t]
    BY <1>3, <1>4, <1>10, <2>2
  <2>3. CASE k \in Entries(t)
    <3>1. PICK j \in NonzeroColumns(t) :
            j < at[t] /\ values[k] = Cell(t, j) /\ col_ind[k] = ncols * t[2] + j
      BY <2>3 DEF RowWritten, OnlyElements
    <3>2. j < at[t] + 1
      BY <1>3, <3>1 DEF NonzeroColumns
    <3>. QED  BY <1>11, <2>3, <3>1, <3>2
  <2>. QED  BY <2>1, <2>2, <2>3
<1>13. AllElements(t)'
  <2>1. SUFFICES ASSUME NEW j \in NonzeroColumns(t), j < at[t] + 1
                 PROVE  \E k \in Entries(t) \cup {offset[t]} : values'[k] = Cell(t, j)
    BY <1>1, <1>7, <1>9 DEF AllElements
  <2>2. CASE j = at[t]
    BY <1>10, <2>2
  <2>3. CASE j < at[t]
    <3>1. PICK k \in Entries(t) : values[k] = Cell(t, j)
      BY <2>3 DEF RowWritten, AllElements
    <3>. QED  BY <1>11, <3>1
  <2>4. j = at[t] \/ j < at[t]
    BY <1>3, <2>1 DEF NonzeroColumns
  <2>. QED  BY <2>2, <2>3, <2>4
<1>14. Increasing(t)'
  <2>1. SUFFICES ASSUME NEW k \in Entries(t) \cup {offset[t]},
                        NEW l \in Entries(t) \cup {offset[t]}, k < l
                 PROVE  col_ind'[k] < col_ind'[l]
    BY <1>9 DEF Increasing
  <2>2. CASE l = offset[t]
    <3>1. k \in Entries(t)
      BY <1>8, <2>1, <2>2
    <3>2. PICK j \in NonzeroColumns(t) : j < at[t] /\ col_ind[k] = ncols * t[2] + j
      BY <3>1 DEF RowWritten, OnlyElements
    <3>3. t[2] \in Nat /\ j \in Nat
      BY <1>2, RowOfThread DEF NonzeroColumns, SparseInv, SparseTypeOK
    <3>4. ncols * t[2] \in Nat
      BY <1>2, <3>3
    <3>5. ncols * t[2] + j < ncols * t[2] + at[t]
      BY <1>3, <3>2, <3>3, <3>4
    <3>. QED  BY <1>10, <1>11, <2>2, <3>1, <3>2, <3>5
  <2>3. CASE l \in Entries(t)
    <3>1. k \in Entries(t)
      BY <1>8, <1>11, <2>1, <2>3
    <3>2. col_ind[k] < col_ind[l]
      BY <2>1, <2>3, <3>1 DEF RowWritten, Increasing
    <3>. QED  BY <1>11, <2>3, <3>1, <3>2
  <2>. QED  BY <2>1, <2>2, <2>3
<1>15. EndsAtEnd(t)'
  BY <1>1 DEF EndsAtEnd
<1>. QED  BY <1>12, <1>13, <1>14, <1>15 DEF RowWritten

(* A pass over a zero leaves the row as it is.                             *)
LEMMA RowPasses ==
  ASSUME SparseInv, stage = "convert", NEW t \in running, ConvertElement(t),
         Cell(t, at[t]) \notin nonzero, RowWritten(t)
  PROVE  RowWritten(t)'
<1>1. /\ RowOf(t)' = RowOf(t) /\ NonzeroColumns(t)' = NonzeroColumns(t)
      /\ row_ptr' = row_ptr /\ running' = running /\ ncols' = ncols
      /\ \A j : Cell(t, j)' = Cell(t, j)
  BY Unchanged DEF ConvertElement, Pass, ncols, Cell
<1>2. t \in Threads /\ at \in [Threads -> 0 .. ncols] /\ ncols \in Nat
  BY ShapeNat DEF SparseInv, SparseTypeOK
<1>3. at[t] \in 0 .. ncols - 1
  BY <1>2 DEF ConvertElement, Pass
<1>4. /\ at' = [at EXCEPT ![t] = @ + 1]
      /\ values' = values /\ col_ind' = col_ind /\ offset' = offset
  BY DEF ConvertElement, Pass, StoreElement
<1>5. at'[t] = at[t] + 1 /\ Entries(t)' = Entries(t)
  BY <1>1, <1>2, <1>4 DEF Entries
<1>6. OnlyElements(t)'
  <2>1. SUFFICES ASSUME NEW k \in Entries(t)
                 PROVE  \E j \in NonzeroColumns(t) :
                          /\ j < at[t] + 1 /\ values[k] = Cell(t, j)
                          /\ col_ind[k] = ncols * t[2] + j
    BY <1>1, <1>4, <1>5 DEF OnlyElements
  <2>2. PICK j \in NonzeroColumns(t) :
          j < at[t] /\ values[k] = Cell(t, j) /\ col_ind[k] = ncols * t[2] + j
    BY DEF RowWritten, OnlyElements
  <2>3. j < at[t] + 1
    BY <1>3, <2>2 DEF NonzeroColumns
  <2>. QED  BY <2>2, <2>3
<1>7. AllElements(t)'
  <2>1. SUFFICES ASSUME NEW j \in NonzeroColumns(t), j < at[t] + 1
                 PROVE  \E k \in Entries(t) : values[k] = Cell(t, j)
    BY <1>1, <1>4, <1>5 DEF AllElements
  <2>2. j # at[t]
    BY DEF NonzeroColumns
  <2>3. j < at[t]
    BY <1>3, <2>1, <2>2 DEF NonzeroColumns
  <2>. QED  BY <2>3 DEF RowWritten, AllElements
<1>8. Increasing(t)'
  BY <1>4, <1>5 DEF RowWritten, Increasing
<1>9. EndsAtEnd(t)'
  BY <1>1 DEF EndsAtEnd
<1>. QED  BY <1>6, <1>7, <1>8, <1>9 DEF RowWritten

(* Nothing is written when the second kernel is launched.                  *)
LEMMA NothingWritten ==
  ASSUME SparseInv, Convert, NEW t \in Threads
  PROVE  RowWritten(t)'
<1>1. /\ RowOf(t)' = RowOf(t) /\ NonzeroColumns(t)' = NonzeroColumns(t)
      /\ row_ptr' = row_ptr /\ running' = Threads
      /\ at'[t] = 0 /\ offset'[t] = row_ptr[RowOf(t)]
  BY Unchanged DEF Convert
<1>2. row_ptr[RowOf(t)] \in Nat
  BY InvRow
<1>3. Entries(t)' = {}
  BY <1>1, <1>2 DEF Entries
<1>4. \A j \in NonzeroColumns(t) : ~ (j < 0)
  <2>1. ncols \in Nat
    BY ShapeNat DEF SparseInv, SparseTypeOK
  <2>. QED  BY <2>1 DEF NonzeroColumns
<1>5. AllElements(t)'
  BY <1>1, <1>4 DEF AllElements
<1>. QED  BY <1>1, <1>3, <1>5 DEF RowWritten, OnlyElements, Increasing, EndsAtEnd

LEMMA WrittenStep == ASSUME CInv, [SparseNext]_sparseVars PROVE RowsWritten'
<1>. USE DEF CInv
<1>1. CASE UNCHANGED sparseVars
  <2>1. /\ Threads' = Threads /\ ncols' = ncols
        /\ \A u : /\ NonzeroColumns(u)' = NonzeroColumns(u) /\ RowOf(u)' = RowOf(u)
                 /\ \A j : Cell(u, j)' = Cell(u, j)
    BY <1>1, Unchanged DEF sparseVars, ncols, Cell
  <2>2. \A u : Entries(u)' = Entries(u)
    BY <1>1, <2>1 DEF Entries, sparseVars
  <2>3. \A u : RowWritten(u)' = RowWritten(u)
    BY <1>1, <2>1, <2>2
       DEF sparseVars, RowWritten, OnlyElements, AllElements, Increasing, EndsAtEnd
  <2>. QED  BY <1>1, <2>1, <2>3 DEF sparseVars, RowsWritten
<1>2. CASE ConstructMatrix
  BY <1>2 DEF ConstructMatrix, RowsWritten
<1>3. ASSUME NEW t \in running, CountRow(t) PROVE RowsWritten'
  BY <1>3 DEF CountRow, Count, RowsWritten
<1>4. CASE CopyCounts
  <2>1. 0 \in 0 .. Rows
    BY ShapeNat DEF SparseInv, SparseTypeOK
  <2>. QED  BY <1>4, <2>1 DEF CopyCounts, RowsWritten, SparseInv, SparseTypeOK
<1>5. CASE PartialSum
  <2>1. /\ row_ptr[0] = 0 /\ stage' = "scan" /\ summed \in 0 .. Rows
        /\ row_ptr \in [0 .. Rows -> Nat] /\ Rows \in Nat
    BY <1>5, ShapeNat DEF PartialSum, RowsWritten, SparseInv, SparseTypeOK
  <2>2. row_ptr'[0] = row_ptr[0]
    BY <1>5, <2>1 DEF PartialSum
  <2>. QED  BY <2>1, <2>2 DEF RowsWritten
<1>6. CASE Convert
  <2>1. Threads' = Threads /\ stage = "scan" /\ row_ptr' = row_ptr
    BY <1>6, Unchanged DEF Convert
  <2>. QED  BY <1>6, <2>1, NothingWritten DEF RowsWritten
<1>7. ASSUME NEW t \in running, ConvertElement(t) PROVE RowsWritten'
  <2>1. Threads' = Threads /\ stage = "convert" /\ row_ptr' = row_ptr /\ t \in Threads
    BY <1>7, Unchanged DEF ConvertElement, Pass, SparseInv, SparseTypeOK
  <2>2. ASSUME NEW u \in Threads PROVE RowWritten(u)'
    <3>1. RowWritten(u)
      BY <2>1 DEF RowsWritten
    <3>2. CASE u # t
      BY <1>7, <2>1, <3>1, <3>2, OtherRowsStay
    <3>3. CASE u = t /\ Cell(t, at[t]) \in nonzero
      BY <1>7, <2>1, <3>1, <3>3, RowGrows
    <3>4. CASE u = t /\ Cell(t, at[t]) \notin nonzero
      BY <1>7, <2>1, <3>1, <3>4, RowPasses
    <3>. QED  BY <3>2, <3>3, <3>4
  <2>. QED  BY <2>1, <2>2 DEF RowsWritten
<1>8. ASSUME NEW t \in running, EndThread(t) PROVE RowsWritten'
  <2>1. /\ Threads' = Threads /\ ncols' = ncols /\ stage = "convert" /\ row_ptr' = row_ptr
        /\ values' = values /\ col_ind' = col_ind /\ at' = at /\ offset' = offset
        /\ at[t] = ncols /\ running' = running \ {t}
        /\ \A u : /\ NonzeroColumns(u)' = NonzeroColumns(u) /\ RowOf(u)' = RowOf(u)
                 /\ \A j : Cell(u, j)' = Cell(u, j)
    BY <1>8, Unchanged DEF EndThread, ncols, Cell
  <2>2. \A u : Entries(u)' = Entries(u)
    BY <2>1 DEF Entries
  <2>3. ASSUME NEW u \in Threads PROVE RowWritten(u)'
    <3>1. RowWritten(u)
      BY <2>1 DEF RowsWritten
    <3>2. OnlyElements(u)' /\ AllElements(u)' /\ Increasing(u)'
      BY <2>1, <2>2, <3>1 DEF RowWritten, OnlyElements, AllElements, Increasing
    <3>3. EndsAtEnd(u)'
      BY <2>1, <3>1 DEF RowWritten, EndsAtEnd
    <3>. QED  BY <3>2, <3>3 DEF RowWritten
  <2>. QED  BY <2>1, <2>3 DEF RowsWritten
<1>9. CASE Release
  BY <1>9 DEF Release, RowsWritten
<1>. QED  BY <1>1, <1>2, <1>3, <1>4, <1>5, <1>6, <1>7, <1>8, <1>9 DEF SparseNext

LEMMA ContentsInvariant == SparseSpec => []CInv
<1>1. SparseInit => CInv
  BY SparseInvInit DEF SparseInit, CInv, RowsWritten
<1>2. CInv /\ [SparseNext]_sparseVars => CInv'
  BY SparseInvStep, WrittenStep DEF CInv
<1>. QED  BY <1>1, <1>2, PTL DEF SparseSpec

(* Every row of the matrix is that of a thread.                            *)
LEMMA ThreadOfRow ==
  ASSUME shape \in Shapes, NEW r \in 0 .. Rows - 1
  PROVE  /\ <<r % nrows, r \div nrows>> \in Threads
         /\ RowOf(<<r % nrows, r \div nrows>>) = r
<1>1. nrows \in Nat /\ nbatches \in Nat /\ Rows \in Nat /\ Rows = nrows * nbatches
  BY ShapeNat DEF Rows
<1>2. nrows > 0
  <2>1. SUFFICES ASSUME nrows = 0 PROVE FALSE
    BY <1>1
  <2>. QED  BY <1>1, <2>1
<1>3. /\ r \in Nat /\ r = nrows * (r \div nrows) + (r % nrows)
      /\ r % nrows \in 0 .. nrows - 1 /\ r \div nrows \in Nat
  BY <1>1, <1>2, Numbers!DivMod
<1>4. nrows * (r \div nrows) \in Nat /\ nrows * (r \div nrows) <= r
  <2>1. \A a, b \in Nat : a * b \in Nat
    OBVIOUS
  <2>. QED  BY <1>1, <1>3, <2>1
<1>5. r \div nrows < nbatches
  <2>1. SUFFICES ASSUME nbatches <= r \div nrows PROVE FALSE
    BY <1>1, <1>3
  <2>2. nbatches * nrows <= (r \div nrows) * nrows
    <3>1. CASE nbatches = r \div nrows
      BY <1>1, <1>3, <3>1
    <3>2. CASE nbatches < r \div nrows
      BY <1>1, <1>3, <3>2, BatchesApart
    <3>. QED  BY <1>1, <1>3, <2>1, <3>1, <3>2
  <2>. QED  BY <1>1, <1>3, <1>4, <2>2
<1>6. <<r % nrows, r \div nrows>> \in Threads
  <2>1. r \div nrows \in 0 .. nbatches - 1
    BY <1>1, <1>3, <1>5
  <2>2. Threads = (0 .. nrows - 1) \X (0 .. nbatches - 1)
    BY DEF Threads, ThreadsOf, nrows, nbatches
  <2>. QED  BY <1>3, <2>1, <2>2
<1>. QED  BY <1>1, <1>3, <1>6 DEF RowOf

(* When the threads are done, the row of each is written to its end.       *)
LEMMA ReadyRow ==
  ASSUME CInv, Ready, NEW t \in Threads
  PROVE  /\ RowWritten(t)
         /\ Entries(t) = row_ptr[RowOf(t)] .. row_ptr[RowOf(t) + 1] - 1
         /\ \A j \in NonzeroColumns(t) : j \in Nat /\ j < at[t]
<1>1. RowWritten(t) /\ at[t] = ncols /\ ncols \in Nat
  BY ShapeNat DEF CInv, RowsWritten, Ready, RowWritten, EndsAtEnd, SparseInv, SparseTypeOK
<1>2. \A j \in NonzeroColumns(t) : j \in Nat /\ j < at[t]
  BY <1>1 DEF NonzeroColumns
<1>3. Left(t) = {}
  BY <1>1, <1>2 DEF Left
<1>4. /\ offset[t] + Cardinality(Left(t)) = row_ptr[RowOf(t) + 1]
      /\ offset[t] \in Nat
  BY DEF CInv, SparseInv, OffsetsFit, Ready, SparseTypeOK
<1>5. offset[t] = row_ptr[RowOf(t) + 1]
  BY <1>3, <1>4, FS_EmptySet
<1>. QED  BY <1>1, <1>2, <1>5 DEF Entries

(* Every entry of the arrays belongs to a row: the first one that ends     *)
(* behind it.                                                              *)
LEMMA EntryInRow ==
  ASSUME CInv, stage = "convert", NEW k \in 0 .. nnz - 1
  PROVE  \E r \in 0 .. Rows - 1 : k \in row_ptr[r] .. row_ptr[r + 1] - 1
<1>. DEFINE T == {r \in 0 .. Rows : k < row_ptr[r]}
<1>1. /\ Rows \in Nat /\ row_ptr \in [0 .. Rows -> Nat] /\ nnz = row_ptr[Rows]
      /\ row_ptr[0] = 0 /\ nnz \in Nat
  BY ShapeNat DEF CInv, RowsWritten, SparseInv, SparseTypeOK, OffsetsFit
<1>2. T \subseteq Nat /\ Rows \in T
  BY <1>1
<1>3. PICK l \in T : \A m \in T : l <= m
  BY <1>2, Numbers!LeastElement
<1>4. l \in 0 .. Rows /\ k < row_ptr[l]
  BY <1>3
<1>5. l # 0
  BY <1>1, <1>4
<1>6. l - 1 \in 0 .. Rows - 1 /\ l - 1 \in 0 .. Rows /\ (l - 1) + 1 = l
  BY <1>1, <1>4, <1>5
<1>7. row_ptr[l - 1] \in Nat /\ row_ptr[l] \in Nat
  BY <1>1, <1>4, <1>6
<1>8. ~ (k < row_ptr[l - 1])
  BY <1>3, <1>4, <1>6
<1>9. k \in row_ptr[l - 1] .. row_ptr[(l - 1) + 1] - 1
  BY <1>4, <1>6, <1>7, <1>8
<1>. QED  BY <1>6, <1>9

LEMMA InvImpliesSorted == CInv => RowsSorted
<1>. SUFFICES ASSUME CInv, Ready
              PROVE  /\ \A k \in 0 .. nnz - 1 : values[k] # None
                     /\ \A r \in 0 .. Rows - 1 :
                          \A k, l \in row_ptr[r] .. row_ptr[r + 1] - 1 :
                            k < l => col_ind[k] < col_ind[l]
  BY DEF RowsSorted
<1>0. shape \in Shapes /\ stage = "convert"
  BY DEF CInv, SparseInv, SparseTypeOK, Ready
<1>1. ASSUME NEW r \in 0 .. Rows - 1
      PROVE  \E t \in Threads :
               /\ RowWritten(t)
               /\ Entries(t) = row_ptr[r] .. row_ptr[r + 1] - 1
  <2>1. PICK t \in Threads : RowOf(t) = r
    BY <1>0, ThreadOfRow
  <2>. QED  BY <2>1, ReadyRow
<1>2. ASSUME NEW k \in 0 .. nnz - 1 PROVE values[k] # None
  <2>1. PICK r \in 0 .. Rows - 1 : k \in row_ptr[r] .. row_ptr[r + 1] - 1
    BY <1>0, EntryInRow
  <2>2. PICK t \in Threads : RowWritten(t) /\ k \in Entries(t)
    BY <1>1, <2>1
  <2>3. PICK j \in NonzeroColumns(t) : values[k] = Cell(t, j)
    BY <2>2 DEF RowWritten, OnlyElements
  <2>4. Cell(t, j) \in CellsOf(shape)
    BY <2>3 DEF NonzeroColumns, CInv, SparseInv, SparseTypeOK
  <2>5. CellsOf(shape) \subseteq Nat \X Nat \X Nat
    BY <1>0, ShapesAssumption DEF CellsOf
  <2>. QED  BY <2>3, <2>4, <2>5, NoneAssumption
<1>3. ASSUME NEW r \in 0 .. Rows - 1,
             NEW k \in row_ptr[r] .. row_ptr[r + 1] - 1,
             NEW l \in row_ptr[r] .. row_ptr[r + 1] - 1, k < l
      PROVE  col_ind[k] < col_ind[l]
  BY <1>1, <1>3 DEF RowWritten, Increasing
<1>. QED  BY <1>2, <1>3

(* Min of FiniteSetsExt is the least element of a set of numbers.          *)
LEMMA MinIsLeast ==
  ASSUME NEW T, T \subseteq Nat, T # {}
  PROVE  Min(T) \in T /\ \A y \in T : Min(T) <= y
  BY Numbers!LeastElement DEF Min

(* The search of values_index through a row whose columns increase: it     *)
(* finds an entry of the column looked for if there is one.                *)
LEMMA SearchFinds ==
  ASSUME NEW i, NEW c, NEW k, row_ptr[i] \in Nat,
         k \in row_ptr[i] .. row_ptr[i + 1] - 1, row_ptr[i + 1] \in Nat,
         \A l \in row_ptr[i] .. row_ptr[i + 1] - 1 : col_ind[l] \in Int,
         \A l, m \in row_ptr[i] .. row_ptr[i + 1] - 1 : l < m => col_ind[l] < col_ind[m],
         col_ind[k] = c
  PROVE  values_index(i, c) = k
<1>. DEFINE row == row_ptr[i] .. row_ptr[i + 1] - 1
            ahead == {l \in row : col_ind[l] >= c}
<1>1. k \in ahead /\ ahead \subseteq Nat
  OBVIOUS
<1>2. Min(ahead) \in ahead /\ Min(ahead) <= k
  BY <1>1, MinIsLeast
<1>3. ~ (Min(ahead) < k)
  <2>1. SUFFICES ASSUME Min(ahead) < k PROVE FALSE
    OBVIOUS
  <2>2. Min(ahead) \in row /\ col_ind[Min(ahead)] >= c
    BY <1>2
  <2>3. col_ind[Min(ahead)] < col_ind[k]
    BY <2>1, <2>2
  <2>. QED  BY <2>2, <2>3
<1>4. Min(ahead) = k
  BY <1>1, <1>2, <1>3
<1>. HIDE DEF ahead
<1>5. values_index(i, c) = IF ahead # {} /\ col_ind[Min(ahead)] = c THEN Min(ahead) ELSE -1
  BY DEF values_index, ahead
<1>. QED  BY <1>1, <1>4, <1>5

(* It finds nothing if there is none.                                      *)
LEMMA SearchFails ==
  ASSUME NEW i, NEW c, row_ptr[i] \in Nat, row_ptr[i + 1] \in Nat,
         \A l \in row_ptr[i] .. row_ptr[i + 1] - 1 : col_ind[l] # c
  PROVE  values_index(i, c) = -1
<1>. DEFINE ahead == {l \in row_ptr[i] .. row_ptr[i + 1] - 1 : col_ind[l] >= c}
<1>1. ahead # {} => Min(ahead) \in ahead
  <2>1. ahead \subseteq Nat
    OBVIOUS
  <2>. QED  BY <2>1, MinIsLeast
<1>2. ahead # {} => col_ind[Min(ahead)] # c
  BY <1>1
<1>. HIDE DEF ahead
<1>3. values_index(i, c) = IF ahead # {} /\ col_ind[Min(ahead)] = c THEN Min(ahead) ELSE -1
  BY DEF values_index, ahead
<1>. QED  BY <1>2, <1>3

LEMMA InvImpliesReadsBack == CInv => ReadsBack
<1>. SUFFICES ASSUME CInv, Ready,
                     NEW r \in 0 .. MatrixShape[1] - 1, NEW c \in 0 .. MatrixShape[2] - 1
              PROVE  Read(r, c) =
                       IF c \div ncols = r \div nrows
                            /\ <<r % nrows, c % ncols, r \div nrows>> \in nonzero
                         THEN <<r % nrows, c % ncols, r \div nrows>> ELSE Zero
  BY DEF ReadsBack
<1>. DEFINE t == <<r % nrows, r \div nrows>>
            cell == <<r % nrows, c % ncols, r \div nrows>>
            row == row_ptr[r] .. row_ptr[r + 1] - 1
<1>1. /\ shape \in Shapes /\ stage = "convert"
      /\ nrows \in Nat /\ ncols \in Nat /\ nbatches \in Nat
  BY ShapeNat DEF CInv, SparseInv, SparseTypeOK, Ready
<1>2. r \in 0 .. Rows - 1 /\ c \in 0 .. ncols * nbatches - 1
  BY DEF MatrixShape, Rows
<1>3. ncols > 0 /\ c \in Nat
  <2>1. ncols # 0
    <3>1. SUFFICES ASSUME ncols = 0 PROVE FALSE
      OBVIOUS
    <3>2. ncols * nbatches = 0
      BY <1>1, <3>1
    <3>. QED  BY <1>2, <3>2
  <2>2. ncols * nbatches \in Nat
    BY <1>1
  <2>. QED  BY <1>1, <1>2, <2>1, <2>2
<1>4. /\ c = ncols * (c \div ncols) + (c % ncols)
      /\ c % ncols \in 0 .. ncols - 1 /\ c \div ncols \in Nat
  BY <1>1, <1>3, Numbers!DivMod
<1>5. t \in Threads /\ RowOf(t) = r /\ t[2] \in Nat
  <2>1. t \in Threads /\ RowOf(t) = r
    BY <1>1, <1>2, ThreadOfRow
  <2>. QED  BY <1>1, <2>1, RowOfThread
<1>6. /\ RowWritten(t) /\ Entries(t) = row
      /\ \A j \in NonzeroColumns(t) : j \in Nat /\ j < at[t]
  BY <1>5, ReadyRow
<1>7. row_ptr[r] \in Nat /\ row_ptr[r + 1] \in Nat
  BY <1>5, InvRow DEF CInv
<1>8. \A j : Cell(t, j) = <<r % nrows, j, r \div nrows>> /\ t[2] = r \div nrows
  BY DEF Cell
<1>. HIDE DEF t
<1>9. \A k \in row :
        \E j \in NonzeroColumns(t) :
          j \in 0 .. ncols - 1 /\ values[k] = Cell(t, j) /\ col_ind[k] = ncols * t[2] + j
  BY <1>6 DEF RowWritten, OnlyElements, NonzeroColumns
<1>10. CASE c \div ncols = r \div nrows /\ cell \in nonzero
  <2>1. c % ncols \in NonzeroColumns(t)
    BY <1>4, <1>8, <1>10 DEF NonzeroColumns
  <2>2. PICK k \in row : values[k] = Cell(t, c % ncols)
    BY <1>6, <2>1 DEF RowWritten, AllElements
  <2>3. PICK j \in NonzeroColumns(t) :
          j \in 0 .. ncols - 1 /\ values[k] = Cell(t, j) /\ col_ind[k] = ncols * t[2] + j
    BY <1>9, <2>2
  <2>4. j = c % ncols
    BY <1>8, <2>2, <2>3
  <2>5. col_ind[k] = c
    BY <1>4, <1>8, <1>10, <2>3, <2>4
  <2>6. \A l \in row : col_ind[l] \in Int
    <3>1. SUFFICES ASSUME NEW l \in row PROVE col_ind[l] \in Int
      OBVIOUS
    <3>2. PICK m \in 0 .. ncols - 1 : col_ind[l] = ncols * t[2] + m
      BY <1>9
    <3>3. ncols * t[2] \in Int
      BY <1>1, <1>5
    <3>. QED  BY <3>2, <3>3
  <2>7. \A l, m \in row : l < m => col_ind[l] < col_ind[m]
    BY <1>6 DEF RowWritten, Increasing
  <2>8. values_index(r, c) = k
    BY <1>7, <2>2, <2>5, <2>6, <2>7, SearchFinds
  <2>9. k # -1
    BY <1>7, <2>2
  <2>10. Read(r, c) = cell
    BY <1>8, <2>2, <2>8, <2>9 DEF Read
  <2>. QED  BY <1>10, <2>10
<1>11. CASE ~ (c \div ncols = r \div nrows /\ cell \in nonzero)
  <2>1. ASSUME NEW k \in row, col_ind[k] = c PROVE FALSE
    <3>1. PICK j \in NonzeroColumns(t) :
            j \in 0 .. ncols - 1 /\ col_ind[k] = ncols * t[2] + j
      BY <1>9, <2>1
    <3>2. c = ncols * t[2] + j
      BY <2>1, <3>1
    <3>3. c \div ncols = t[2] /\ c % ncols = j
      BY <1>1, <1>5, <3>1, <3>2, Numbers!DivModOf
    <3>4. Cell(t, j) \in nonzero
      BY DEF NonzeroColumns
    <3>. QED  BY <1>8, <1>11, <3>3, <3>4
  <2>2. values_index(r, c) = -1
    BY <1>7, <2>1, SearchFails
  <2>3. Read(r, c) = Zero
    BY <2>2 DEF Read
  <2>. QED  BY <1>11, <2>3
<1>. QED  BY <1>10, <1>11

(* No entry of the arrays is left unwritten and the columns of every row   *)
(* increase, which the search of values_index and the solvers rely on: for *)
(* dense batches of any shape and any pattern of zeros.                    *)
THEOREM RowsAreSorted == SparseSpec => []RowsSorted
  BY ContentsInvariant, InvImpliesSorted, PTL

(* The block diagonal matrix reads back as the dense batch it was made of, *)
(* zeros included, whatever the order in which the threads wrote it.       *)
THEOREM MatrixReadsBack == SparseSpec => []ReadsBack
  BY ContentsInvariant, InvImpliesReadsBack, PTL
=============================================================================
