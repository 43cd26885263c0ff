----------------------------- MODULE Assignment -----------------------------
(***************************************************************************)
(* Evaluation of expressions into arrays: operator= of containers, spans   *)
(* and views, fill(), gt::assign() and gt::launch(), with the loops and    *)
(* the kernels behind them (include/gtensor/assign.h, gcontainer.h,        *)
(* gfunction.h, and the launch part of gtensor.h).                         *)
(*                                                                         *)
(* Two arrays, "a" and "b", of one rank.  An operand is a part of one of   *)
(* them (the container itself or a view of it along its first dimension)   *)
(* or a scalar; an expression applies a function to one or two operands.   *)
(* That function is kept abstract: a value is the sequence of the atoms    *)
(* that went into it.  One assignment is evaluated at a time, thread by    *)
(* thread, in the order of the loops on the host and in any order on a     *)
(* device.                                                                 *)
(*                                                                         *)
(* An application here stays clear of what the library leaves undefined    *)
(* (Unaliased, SlicesKeepStrides, LaunchableSize): the README says what    *)
(* happens to one that does not.                                           *)
(***************************************************************************)
EXTENDS Indexing, FiniteSetsExt

CONSTANTS
  Backends,        \* of "host", "blocks", "linear blocks", "ranges", "linear ranges"
  Extents,         \* the pairs of shapes a and b start with
  Targets,         \* what is assigned to: records kind, of, part
  Expressions,     \* what is assigned: sequences of operands, records of, part
  BS,              \* BS_X, BS_Y and BS_LINEAR
  MaxAssignments   \* bound on the number of assignments

Parts == {"all", "head", "tail", "flip"}
Operands == [of : {"a", "b", "scalar"}, part : Parts]

ASSUME ConstantsAssumption ==
  /\ Backends \subseteq {"host", "blocks", "linear blocks", "ranges", "linear ranges"}
  /\ \A e \in Extents : e.a \in Seq(Nat) /\ e.b \in Seq(Nat) /\ Len(e.a) = Len(e.b)
                        /\ Len(e.a) \in 1..6
  /\ Targets \subseteq [kind : {"container", "span", "view"}, of : {"a", "b"}, part : Parts]
  /\ \A t \in Targets : t.kind = "container" => t.part = "all"
  /\ Expressions \subseteq Seq(Operands)
  /\ BS \in Nat \ {0} /\ MaxAssignments \in Nat

VARIABLES
  backend,   \* how this build evaluates
  arrays,    \* a and b: shape, strides and the value of each element
  kernel,    \* the loop or kernel under way, or Idle
  expected,  \* the values a and b ought to have when it is done
  issued     \* the number of assignments so far

vars == <<backend, arrays, kernel, expected, issued>>

Idle == [todo |-> <<>>]
Junk == <<-1>>     \* an element nothing was assigned to
Scalar == <<0>>    \* the value of scalar(v), and the 0 of fill(0)

(* The function of an expression, of the values of its operands.           *)
Applied(values) == FoldLeft(\o, <<>>, values)

(* gtensor(shape), with the elements numbered from first. *)
Array(shape, first) ==
  [shape |-> shape, strides |-> CalcStrides(shape),
   cells |-> [i \in 0..(CalcSize(shape) - 1) |-> <<first + i>>]]

(* A region is what the code reads and writes through: shape, strides and  *)
(* offset, as a container, a span and a view have them.                    *)
Shortened(shape) == [shape EXCEPT ![1] = IF @ = 0 THEN 0 ELSE @ - 1]

Region(as, o) ==
  LET Of(shape, strides, offset) ==
        [of |-> o.of, shape |-> shape, strides |-> strides, offset |-> offset]
      shape == as[o.of].shape
      strides == as[o.of].strides
  IN  IF o.of = "scalar" THEN Of(<<>>, <<>>, 0)
      ELSE CASE o.part = "all"  -> Of(shape, strides, 0)
             [] o.part = "head" -> Of(Shortened(shape), strides, 0)
             [] o.part = "tail" -> Of(Shortened(shape), strides, strides[1])
             [] o.part = "flip" -> Of(shape, [strides EXCEPT ![1] = -@],
                                      strides[1] * (shape[1] - 1))

(* view() refuses slices without elements. *)
Sliceable(as, o) ==
  o.of # "scalar" /\ o.part # "all" =>
    as[o.of].shape[1] >= IF o.part = "flip" THEN 1 ELSE 2

Address(r, idx) == r.offset + CalcIndex(r.strides, idx)
Addresses(r) == {Address(r, idx) : idx \in Indices(r.shape)}

ValueAt(as, r, idx) ==
  IF r.of = "scalar" THEN Scalar
  ELSE IF Address(r, idx) \in DOMAIN as[r.of].cells THEN as[r.of].cells[Address(r, idx)]
  ELSE Junk

-----------------------------------------------------------------------------
(* The shape of an expression. *)

(* The index of dimension d of to, counted from the end, in from. *)
Aligned(to, from, d) == d - Len(to) + Len(from)

CanBroadcast(to, from) ==
  \A d \in DOMAIN to :
     Aligned(to, from, d) \in DOMAIN from /\ to[d] # 1 =>
       from[Aligned(to, from, d)] \in {1, to[d]}

BroadcastShape(to, from) ==
  [d \in DOMAIN to |->
     IF Aligned(to, from, d) \in DOMAIN from /\ to[d] = 1 THEN from[Aligned(to, from, d)]
     ELSE to[d]]

(* calc_shape(): the operands one after the other, from a shape of ones. *)
Ones(rank) == [d \in 1..rank |-> 1]
Joining(to, r) == BroadcastShape(to, r.shape)
CalcShape(rank, regions) == FoldLeft(Joining, Ones(rank), regions)
HasShape(rank, regions) ==
  \A n \in DOMAIN regions :
     CanBroadcast(CalcShape(rank, SubSeq(regions, 1, n - 1)), regions[n].shape)

(* Mutant: nothing is checked. *)
AlwaysValid(lhsShape, rhsShape) == TRUE

ValidAssignBroadcast(lhsShape, rhsShape) ==
  \A d \in DOMAIN lhsShape : rhsShape[d] \in {1, lhsShape[d]}

-----------------------------------------------------------------------------
(* Loops and kernels.  The grid of the per-dimension kernels has three     *)
(* axes, each with the dimensions from FirstOn to LastOn on it, the first  *)
(* one fastest.                                                            *)

Axis(op, rank, d) ==
  IF op = "assign" /\ rank >= 5 THEN (d + 1) \div 2
  ELSE IF d <= 2 THEN d ELSE 3

FirstOn(op, rank, x) == IF op = "assign" /\ rank >= 5 THEN 2 * x - 1 ELSE x
LastOn(op, rank, x) ==
  LET last == IF op = "assign" /\ rank >= 5 THEN 2 * x ELSE IF x < 3 THEN x ELSE rank
  IN  IF last < rank THEN last ELSE rank

OnAxis(op, shape, x) == SubSeq(shape, FirstOn(op, Len(shape), x), LastOn(op, Len(shape), x))
Extent(op, shape, x) == Product(OnAxis(op, shape, x))

InBlocks(n, bs) == ((n - 1) \div bs + 1) * bs
NumThreads(op, shape, x) ==
  IF OnAxis(op, shape, x) = <<>> THEN 1
  ELSE IF x = 3 THEN Extent(op, shape, x)
  ELSE InBlocks(Extent(op, shape, x), BS)

Geometry(rank) ==
  IF backend = "ranges" /\ rank > 3 THEN "linear ranges" ELSE backend

Threads(op, shape) ==
  LET size == CalcSize(shape)
  IN  CASE Geometry(Len(shape)) \in {"host", "ranges"} -> Indices(shape)
        [] Geometry(Len(shape)) = "blocks" ->
             Indices([x \in 1..3 |-> NumThreads(op, shape, x)])
        [] Geometry(Len(shape)) = "linear ranges" -> Indices(<<size>>)
        [] Geometry(Len(shape)) = "linear blocks" ->
             Indices(<<InBlocks(size, IF BS > size THEN size ELSE BS)>>)

Inside(op, shape, t) ==
  CASE Geometry(Len(shape)) = "blocks" ->
         \A x \in 1..2 : t[x] < Extent(op, shape, x)
    [] Geometry(Len(shape)) = "linear blocks" -> t[1] < CalcSize(shape)
    [] OTHER -> TRUE

(* The index of dimension d: what is left of the axis above the dimensions *)
(* before d, without those behind it.                                      *)
Digit(op, shape, t, d) ==
  LET rank == Len(shape)
      axis == Axis(op, rank, d)
      rest == t[axis] \div Product(SubSeq(shape, FirstOn(op, rank, axis), d - 1))
  IN  IF d < LastOn(op, rank, axis) THEN rest % shape[d] ELSE rest

(* Mutant: every dimension above the third starts over at 0. *)
IndexRepeats(op, shape, t) ==
  CASE Geometry(Len(shape)) \in {"host", "ranges"} -> t
    [] Geometry(Len(shape)) = "blocks" ->
         [d \in DOMAIN shape |-> IF d > 3 THEN 0 ELSE Digit(op, shape, t, d)]
    [] OTHER -> Unravel(t[1], CalcStrides(shape))

Index(op, shape, t) ==
  CASE Geometry(Len(shape)) \in {"host", "ranges"} -> t
    [] Geometry(Len(shape)) = "blocks" -> [d \in DOMAIN shape |-> Digit(op, shape, t, d)]
    [] OTHER -> Unravel(t[1], CalcStrides(shape))

(* to do: the threads that have an element, with its index. *)
Run(op, lhs, rhs) ==
  LET active == {t \in Threads(op, lhs.shape) : Inside(op, lhs.shape, t)}
  IN  kernel' = IF active = {} THEN Idle
                ELSE [op |-> op, lhs |-> lhs, rhs |-> rhs,
                      todo |-> [t \in active |-> Index(op, lhs.shape, t)]]

-----------------------------------------------------------------------------
(* What an application must see to. *)

(* A view of extent 1 keeps the stride of what it slices, so it cannot be  *)
(* broadcast (gview.h:408).                                                *)
SlicesKeepStrides(shape, rhs) ==
  \A n \in DOMAIN rhs : \A d \in DOMAIN rhs[n].shape :
     rhs[n].shape[d] = 1 /\ shape[d] # 1 => rhs[n].strides[d] = 0

(* What is assigned reads the elements it is assigned to, or other ones.   *)
Unaliased(lhs, rhs) ==
  \A n \in DOMAIN rhs :
     rhs[n].of = lhs.of /\ rhs[n] # lhs =>
       Addresses(rhs[n]) \cap Addresses(lhs) = {}

(* The kernels cannot be launched with blocks or grids of size 0. *)
LaunchableSize(shape) ==
  backend \in {"blocks", "linear blocks"} => CalcSize(shape) > 0

-----------------------------------------------------------------------------
(* What an assignment means, in indices alone: the reference. *)

PartShape(as, o) ==
  IF o.part \in {"head", "tail"} THEN Shortened(as[o.of].shape) ELSE as[o.of].shape

Sized(e) == {n \in DOMAIN e : e[n].of # "scalar"}

(* In each dimension an operand has the extent of the whole, or 1. *)
Fits(as, e, shape) ==
  \A n \in Sized(e) : \A d \in DOMAIN shape : PartShape(as, e[n])[d] \in {1, shape[d]}

ShapeOf(as, e) ==
  [d \in DOMAIN as["a"].shape |->
     LET extents == {PartShape(as, e[n])[d] : n \in Sized(e)}
     IN  IF extents \subseteq {1} THEN 1 ELSE CHOOSE x \in extents : x # 1]

(* The place in its array of the element idx of a part. *)
PlaceOf(as, o, idx) ==
  LET shape == as[o.of].shape
  IN  Place(shape, [idx EXCEPT ![1] = CASE o.part = "tail" -> @ + 1
                                        [] o.part = "flip" -> shape[1] - 1 - @
                                        [] OTHER -> @])

Operand(as, o, idx) ==
  IF o.of = "scalar" THEN Scalar
  ELSE LET shape == PartShape(as, o)
       IN  as[o.of].cells[PlaceOf(as, o, [d \in DOMAIN idx |-> IF shape[d] = 1 THEN 0 ELSE idx[d]])]

Meaning(as, e, idx) == Applied([n \in DOMAIN e |-> Operand(as, e[n], idx)])

(* The values of the array of o once its part o has been assigned to. *)
Updated(as, o, e) ==
  [c \in DOMAIN as[o.of].cells |->
     LET hits == {idx \in Indices(PartShape(as, o)) : PlaceOf(as, o, idx) = c}
     IN  IF hits = {} THEN as[o.of].cells[c] ELSE Meaning(as, e, CHOOSE idx \in hits : TRUE)]

(* The values of a container that takes the shape of what it is assigned. *)
Replaced(as, e) ==
  [c \in 0..(CalcSize(ShapeOf(as, e)) - 1) |->
     Meaning(as, e, CHOOSE idx \in Indices(ShapeOf(as, e)) : Place(ShapeOf(as, e), idx) = c)]

-----------------------------------------------------------------------------
(* Operations. *)

Ready == kernel = Idle /\ issued < MaxAssignments
Issued == issued' = issued + 1 /\ UNCHANGED backend

CanBuild(t, e) ==
  /\ Sliceable(arrays, t)
  /\ \A n \in DOMAIN e : Sliceable(arrays, e[n])

Regions(as, e) == [n \in DOMAIN e |-> Region(as, e[n])]
Rank == Len(arrays["a"].shape)
IsScalar(e) == \A n \in DOMAIN e : e[n].of = "scalar"

(* Building the expression throws: the shapes of its operands do not fit.  *)
BuildThrows(e) ==
  /\ Ready
  /\ \A n \in DOMAIN e : Sliceable(arrays, e[n])
  /\ ~HasShape(Rank, Regions(arrays, e))
  /\ Issued
  /\ UNCHANGED <<arrays, kernel, expected>>

(* Mutant: the strides stay those of the old shape. *)
ResizedKeepsStrides(a, shape) ==
  [shape |-> shape, strides |-> a.strides,
   cells |-> [i \in 0..(CalcSize(shape) - 1) |->
                IF i \in DOMAIN a.cells THEN a.cells[i] ELSE Junk]]

(* gcontainer::resize *)
Resized(a, shape) ==
  [shape |-> shape, strides |-> CalcStrides(shape),
   cells |-> [i \in 0..(CalcSize(shape) - 1) |->
                IF i \in DOMAIN a.cells THEN a.cells[i] ELSE Junk]]

(* container = expression: it takes the shape of the expression, whose     *)
(* operands other than views look at the container as it is by then.       *)
ContainerAssign(t, e) ==
  /\ Ready
  /\ t.kind = "container" /\ ~IsScalar(e)
  /\ CanBuild(t, e) /\ HasShape(Rank, Regions(arrays, e))
  /\ LET shape == CalcShape(Rank, Regions(arrays, e))
         resized == [arrays EXCEPT ![t.of] = Resized(@, shape)]
         rhs == [n \in DOMAIN e |-> Region(IF e[n].part = "all" THEN resized ELSE arrays, e[n])]
         lhs == Region(resized, t)
     IN  /\ LaunchableSize(shape) /\ SlicesKeepStrides(shape, rhs) /\ Unaliased(lhs, rhs)
         /\ (\E n \in DOMAIN e : e[n].of = t.of) => shape = arrays[t.of].shape
         /\ arrays' = resized
         /\ Run("assign", lhs, rhs)
         /\ expected' = [expected EXCEPT ![t.of] = Replaced(arrays, e)]
  /\ Issued

(* view = expression, span = expression, gt::assign(), and every one of    *)
(* them with a scalar: nothing is resized, and shapes that do not fit are  *)
(* refused.                                                                *)
Assign(t, e) ==
  /\ Ready
  /\ CanBuild(t, e) /\ HasShape(Rank, Regions(arrays, e))
  /\ LET rhs == Regions(arrays, e)
         lhs == Region(arrays, t)
     IN  IF ValidAssignBroadcast(lhs.shape, CalcShape(Rank, rhs))
         THEN /\ LaunchableSize(lhs.shape) /\ SlicesKeepStrides(lhs.shape, rhs)
              /\ Unaliased(lhs, rhs)
              /\ Run("assign", lhs, rhs)
         ELSE UNCHANGED kernel
  /\ expected' = IF Fits(arrays, e, PartShape(arrays, t))
                 THEN [expected EXCEPT ![t.of] = Updated(arrays, t, e)]
                 ELSE expected
  /\ Issued
  /\ UNCHANGED arrays

(* gt::launch() and launch_host() of a function that assigns element by    *)
(* element, over the shape of its target: nothing is checked.              *)
Launch(t, e) ==
  /\ Ready
  /\ CanBuild(t, e) /\ HasShape(Rank, Regions(arrays, e))
  /\ LET rhs == Regions(arrays, e)
         lhs == Region(arrays, t)
     IN  /\ Fits(arrays, e, lhs.shape)
         /\ LaunchableSize(lhs.shape) /\ SlicesKeepStrides(lhs.shape, rhs)
         /\ Unaliased(lhs, rhs)
         /\ Run("launch", lhs, rhs)
         /\ expected' = [expected EXCEPT ![t.of] = Updated(arrays, t, e)]
  /\ Issued
  /\ UNCHANGED arrays

(* Mutant: the element behind the last one is filled as well. *)
FilledOneMore(r) == r.offset..(r.offset + CalcSize(r.shape))

Filled(r) == r.offset..(r.offset + CalcSize(r.shape) - 1)

(* fill(0) of a container or a span: a memset of size() elements from the  *)
(* first.  A span with gaps between its elements must not be filled so.    *)
FillZero(t) ==
  /\ Ready
  /\ t.kind \in {"container", "span"} /\ Sliceable(arrays, t)
  /\ LET lhs == Region(arrays, t)
     IN  /\ t.kind = "span" => lhs.strides = CalcStrides(lhs.shape)
         /\ arrays' = [arrays EXCEPT ![t.of].cells =
                         [i \in DOMAIN @ |-> IF i \in Filled(lhs) THEN Scalar ELSE @[i]]]
  /\ expected' = [expected EXCEPT ![t.of] =
                    Updated(arrays, t, <<[of |-> "scalar", part |-> "all"]>>)]
  /\ Issued
  /\ UNCHANGED kernel

(* The value that the thread at idx assigns. *)
Result(as, k, idx) ==
  Applied([n \in DOMAIN k.rhs |-> ValueAt(as, k.rhs[n], idx)])

(* One element.  The loops of the host run the first index fastest.        *)
Element(t) ==
  /\ backend = "host" =>
       \A u \in DOMAIN kernel.todo : Place(kernel.lhs.shape, t) <= Place(kernel.lhs.shape, u)
  /\ LET at == Address(kernel.lhs, kernel.todo[t])
     IN  arrays' = [arrays EXCEPT ![kernel.lhs.of].cells =
                      IF at \in DOMAIN @ THEN [@ EXCEPT ![at] = Result(arrays, kernel, kernel.todo[t])] ELSE @]
  /\ LET left == DOMAIN kernel.todo \ {t}
     IN  kernel' = IF left = {} THEN Idle
                   ELSE [kernel EXCEPT !.todo = Restrict(@, left)]
  /\ UNCHANGED <<backend, expected, issued>>

Init ==
  /\ backend \in Backends
  /\ \E e \in Extents :
       /\ arrays = [a |-> Array(e.a, 1), b |-> Array(e.b, 101)]
       /\ expected = [a |-> Array(e.a, 1).cells, b |-> Array(e.b, 101).cells]
  /\ kernel = Idle
  /\ issued = 0

Next ==
  \/ \E e \in Expressions :
       \/ BuildThrows(e)
       \/ \E t \in Targets : ContainerAssign(t, e) \/ Assign(t, e) \/ Launch(t, e)
  \/ \E t \in Targets : FillZero(t)
  \/ \E t \in DOMAIN kernel.todo : Element(t)

Spec == Init /\ [][Next]_vars

-----------------------------------------------------------------------------
(* Properties. *)

(* Containers hold one value per element of their shape, with column-major *)
(* strides, and a kernel has one region to write and regions of the same   *)
(* rank to read (gcontainer::resize, gt::assign).                          *)
TypeOK ==
  /\ backend \in Backends
  /\ issued \in 0..MaxAssignments
  /\ \A x \in {"a", "b"} :
       /\ Len(arrays[x].shape) = Rank
       /\ arrays[x].strides = CalcStrides(arrays[x].shape)
       /\ DOMAIN arrays[x].cells = 0..(CalcSize(arrays[x].shape) - 1)
  /\ kernel # Idle =>
       /\ kernel.op \in {"assign", "launch"}
       /\ Len(kernel.lhs.shape) = Rank
       /\ \A n \in DOMAIN kernel.rhs : Len(kernel.rhs[n].shape) \in {0, Rank}

(* When an assignment is done every element it is for has the value of the *)
(* expression there, computed from the values all operands had before it,  *)
(* broadcast as needed, and nothing else has changed.  One that throws     *)
(* changes nothing (assign.h, gcontainer.h:87, gview.h:308).               *)
AssignmentCorrect ==
  kernel = Idle => \A x \in {"a", "b"} : arrays[x].cells = expected[x]

(* No two threads write the same element, and none reads what another one  *)
(* writes, so that the order they run in does not matter (the kernels of   *)
(* assign.h and gtensor.h).                                                *)
RaceFree ==
  kernel # Idle =>
    LET At(r) == [t \in DOMAIN kernel.todo |-> Address(r, kernel.todo[t])]
        written == At(kernel.lhs)
    IN  /\ IsInjective(written)
        /\ \A n \in DOMAIN kernel.rhs :
             kernel.rhs[n].of = kernel.lhs.of =>
               LET read == At(kernel.rhs[n])
               IN  \A t, u \in DOMAIN kernel.todo : read[t] = written[u] => t = u

(* No loop or kernel reads or writes outside of an array: the threads that *)
(* fill up the last block do nothing, and extents that do not fit have     *)
(* been refused (the guards of the kernels, assign.h:518).                 *)
InBounds ==
  \A t \in DOMAIN kernel.todo :
     LET idx == kernel.todo[t]
     IN  /\ Address(kernel.lhs, idx) \in DOMAIN arrays[kernel.lhs.of].cells
         /\ \A n \in DOMAIN kernel.rhs :
              kernel.rhs[n].of # "scalar" =>
                Address(kernel.rhs[n], idx) \in DOMAIN arrays[kernel.rhs[n].of].cells
=============================================================================
