-------------------------------- MODULE Views --------------------------------
(***************************************************************************)
(* Lazy views of gtensor: slicing, new axes, reshape, flatten, swapaxes    *)
(* and transpose (include/gtensor/gview.h), on containers, spans and       *)
(* function expressions, and on views in turn.                             *)
(*                                                                         *)
(* An application builds one expression after the other.  expr is what the *)
(* code holds: a shape, strides, and the access by linear index that       *)
(* data_access() gives, as a function whose domain is what lies within the *)
(* memory.  elements says what the expression ought to be: the element of  *)
(* the underlying array that each index stands for, computed without       *)
(* strides or offsets.  gdesc::ALL is what the dimensions behind the last  *)
(* argument are treated as; gt::all is a slice without bounds.             *)
(***************************************************************************)
EXTENDS Indexing, FiniteSetsExt

CONSTANTS
  Shapes,    \* shapes of the arrays the application starts from
  Spans,     \* spans that lie in a larger array: records parent, offset, shape
  Slices,    \* the slices it asks for: records start, stop, step
  None,      \* gslice::none, a bound that is not given
  MaxViews,  \* bound on the expressions built on top of each other
  MaxDims,   \* bound on their number of dimensions
  Careful    \* TRUE: slices stay in range and an expiring span is contiguous

ASSUME ConstantsAssumption ==
  /\ None \notin Int
  /\ Shapes \subseteq Seq(Nat)
  /\ \A s \in Spans : /\ s.parent \in Seq(Nat) /\ s.shape \in Seq(Nat) /\ s.offset \in Nat
                      /\ Len(s.shape) = Len(s.parent)
                      /\ \A d \in DOMAIN s.shape : s.shape[d] <= s.parent[d]
                      /\ \A idx \in Indices(s.shape) :
                           s.offset + Place(s.parent, idx) < CalcSize(s.parent)
  /\ \A s \in Slices : {s.start, s.stop, s.step} \subseteq Int \cup {None}
  /\ MaxViews \in Nat /\ MaxDims \in Nat
  /\ Careful \in BOOLEAN

VARIABLES
  expr,      \* the expression: kind, shape, strides, data
  elements,  \* the element it should give for each index
  views      \* the number of expressions built so far

vars == <<expr, elements, views>>

(* e(idx...) *)
InMemory(e, idx) == CalcIndex(e.strides, idx) \in DOMAIN e.data
Element(e, idx) == e.data[CalcIndex(e.strides, idx)]

Expression(kind, shape, strides, data) ==
  [kind |-> kind, shape |-> shape, strides |-> strides, data |-> data]

(* A container, and the same array as a function expression (gfunction,    *)
(* ggenerator), which has no strides that a view could use.                *)
Array(kind, shape) ==
  Expression(kind, shape, CalcStrides(shape), [i \in 0..(CalcSize(shape) - 1) |-> i])

(* gtensor_span(data, shape, strides) into an array of shape s.parent. *)
SpanInto(s) ==
  Expression("span", s.shape, CalcStrides(s.parent),
             [i \in (-s.offset)..(CalcSize(s.parent) - 1 - s.offset) |-> i + s.offset])

IsFContiguous(e) == e.strides = CalcStrides(e.shape)

(* gview_adaptor: column-major strides over an expression's operator(). *)
Adapted(e) ==
  LET strides == CalcStrides(e.shape)
  IN  Expression("view", e.shape, strides,
                 [i \in 0..(CalcSize(e.shape) - 1) |-> Element(e, Unravel(i, strides))])

(* select_gview_adaptor: what has strides is used as it is. *)
Strided(e) == IF e.kind = "function" THEN Adapted(e) ELSE e

(* gview(e, offset, shape, strides) *)
GView(e, offset, shape, strides) ==
  Expression("view", shape, strides,
             [i \in {j - offset : j \in DOMAIN e.data} |-> e.data[offset + i]])

-----------------------------------------------------------------------------
(* view() *)

All == [type |-> "ALL"]
NewAxis == [type |-> "NEWAXIS"]
Value(v) == [type |-> "VALUE", value |-> v]
SliceDesc(s) == [type |-> "SLICE", slice |-> s]

(* Mutant: an open end of a slice with a negative step is the element 0.   *)
NormalizedStopsAtZero(s, n) ==
  LET step == IF s.step = None THEN 1 ELSE s.step
  IN [step |-> step,
      start |-> IF s.start = None THEN (IF step > 0 THEN 0 ELSE n - 1)
                ELSE IF s.start < 0 THEN s.start + n ELSE s.start,
      stop |-> IF s.stop = None THEN (IF step > 0 THEN n ELSE 0)
               ELSE IF (s.stop = 0 /\ step = 1) \/ s.stop < 0 THEN s.stop + n ELSE s.stop]

(* The bounds of slice s of a dimension of extent n: open ends and         *)
(* negative bounds replaced, and 0 taken as the end when the step is 1.    *)
Normalized(s, n) ==
  LET step == IF s.step = None THEN 1 ELSE s.step
  IN [step |-> step,
      start |-> IF s.start = None THEN (IF step > 0 THEN 0 ELSE n - 1)
                ELSE IF s.start < 0 THEN s.start + n ELSE s.start,
      stop |-> IF s.stop = None THEN (IF step > 0 THEN n ELSE -1)
               ELSE IF (s.stop = 0 /\ step = 1) \/ s.stop < 0 THEN s.stop + n ELSE s.stop]

SliceThrows(t, n) ==
  \/ t.step = 0
  \/ t.step > 0 /\ (t.start >= t.stop \/ t.stop > n)
  \/ t.step < 0 /\ (t.stop >= t.start \/ t.start > n)

SliceExtent(t) ==
  IF t.step > 0 THEN (t.stop - t.start - 1) \div t.step + 1
                ELSE (t.start - t.stop - 1) \div (-t.step) + 1

(* The dimension of the viewed expression that descs[i] is about, and that *)
(* of the view.                                                            *)
OldDim(descs, i) == Cardinality({j \in 1..i : descs[j].type # "NEWAXIS"})
NewDim(descs, i) == Cardinality({j \in 1..i : descs[j].type # "VALUE"})

(* The argument that dimension k of the view, or d of what it views, is    *)
(* about.                                                                  *)
NewDims(descs) ==
  [k \in 1..NewDim(descs, Len(descs)) |->
     CHOOSE i \in DOMAIN descs : descs[i].type # "VALUE" /\ NewDim(descs, i) = k]
OldDims(descs) ==
  [d \in 1..OldDim(descs, Len(descs)) |->
     CHOOSE i \in DOMAIN descs : descs[i].type # "NEWAXIS" /\ OldDim(descs, i) = d]

(* The arguments, filled up with ALL. *)
Filled(descs, n) ==
  descs \o [i \in 1..(n - OldDim(descs, Len(descs))) |-> All]

(* The new view, for descs that have been filled up. *)
ViewOf(e, descs) ==
  LET n(i) == e.shape[OldDim(descs, i)]
      stride(i) == e.strides[OldDim(descs, i)]
      slice(i) == Normalized(descs[i].slice, n(i))
      dims == NewDims(descs)
      offsets == [i \in DOMAIN descs |->
                    CASE descs[i].type = "VALUE" -> descs[i].value * stride(i)
                      [] descs[i].type = "SLICE" -> slice(i).start * stride(i)
                      [] OTHER -> 0]
  IN  GView(e, Total(offsets),
            [k \in DOMAIN dims |->
               CASE descs[dims[k]].type = "NEWAXIS" -> 1
                 [] descs[dims[k]].type = "SLICE" -> SliceExtent(slice(dims[k]))
                 [] OTHER -> n(dims[k])],
            [k \in DOMAIN dims |->
               CASE descs[dims[k]].type = "NEWAXIS" -> 0
                 [] descs[dims[k]].type = "SLICE" -> stride(dims[k]) * slice(dims[k]).step
                 [] OTHER -> stride(dims[k])])

(* The positions slice s means among 0..n-1, in the order of the view:     *)
(* every step-th of those between its bounds, from the one it starts at.   *)
StepOf(s) == IF s.step = None THEN 1 ELSE s.step

Between(s, n) ==
  LET FromEnd(b) == IF b < 0 THEN b + n ELSE b
      Before(p, q) == IF StepOf(s) > 0 THEN p < q ELSE q < p
      open == s.stop = None \/ (s.stop = 0 /\ StepOf(s) = 1)
  IN  {p \in 0..(n - 1) : /\ s.start # None => ~ Before(p, FromEnd(s.start))
                          /\ ~ open => Before(p, FromEnd(s.stop))}

Selected(s, n) ==
  LET between == Between(s, n)
      first == CHOOSE p \in between : \A q \in between : IF StepOf(s) > 0 THEN p <= q ELSE q <= p
      Nth(k) == first + (k - 1) * StepOf(s)
  IN  [k \in {m \in 1..n : Nth(m) \in between} |-> Nth(k)]

(* What view(args) means: for the indices it should have, the index of the *)
(* viewed expression each stands for.                                      *)
Meaning(shape, descs) ==
  LET dims == NewDims(descs)
      extent(i) == CASE descs[i].type = "NEWAXIS" -> 1
                     [] descs[i].type = "SLICE" -> Len(Selected(descs[i].slice, shape[OldDim(descs, i)]))
                     [] OTHER -> shape[OldDim(descs, i)]
  IN  [idx \in Indices([k \in DOMAIN dims |-> extent(dims[k])]) |->
         [d \in DOMAIN shape |->
            LET i == OldDims(descs)[d]
            IN CASE descs[i].type = "VALUE" -> descs[i].value
                 [] descs[i].type = "SLICE" -> Selected(descs[i].slice, shape[d])[idx[NewDim(descs, i)] + 1]
                 [] OTHER -> idx[NewDim(descs, i)]]]

(* What the application may ask of a dimension of extent n. *)
InRange(s, n) ==
  LET t == Normalized(s, n)
  IN  t.start \in 0..(n - 1) /\ t.stop \in -1..n

Askable(n) ==
  {Value(v) : v \in 0..(n - 1)}
    \cup {SliceDesc(s) : s \in {x \in Slices : ~ SliceThrows(Normalized(x, n), n)
                                               /\ (Careful => InRange(x, n))}}

-----------------------------------------------------------------------------
Init ==
  /\ \/ \E kind \in {"container", "function"}, shape \in Shapes :
          /\ expr = Array(kind, shape)
          /\ elements = [idx \in Indices(shape) |-> Place(shape, idx)]
     \/ \E s \in Spans :
          /\ expr = SpanInto(s)
          /\ elements = [idx \in Indices(s.shape) |-> s.offset + Place(s.parent, idx)]
  /\ views = 0

Build(e, meaning) ==
  /\ expr' = e
  /\ elements' = meaning
  /\ views' = views + 1

(* view(args...): an argument for some dimensions, new axes anywhere. A    *)
(* call that throws or reads a value out of range builds nothing.          *)
View ==
  \E n \in 0..Len(expr.shape) :
  \E args \in {a \in [1..n -> UNION {Askable(expr.shape[d]) : d \in 1..n}] :
                 \A d \in 1..n : a[d] \in Askable(expr.shape[d])} :
  \E axis \in 0..(n + 1) :
    LET descs == Filled(IF axis = 0 THEN args ELSE InsertAt(args, axis, NewAxis), Len(expr.shape))
        e == ViewOf(Strided(expr), descs)
        meaning == Meaning(expr.shape, descs)
    IN  /\ Len(e.shape) <= MaxDims
        /\ Build(e, [idx \in DOMAIN meaning |-> elements[meaning[idx]]])

(* select_reshape_gview_adaptor: containers, and spans that are passed as  *)
(* rvalues, keep their data_access().                                      *)
Reshapable(expiring) ==
  IF expr.kind = "container" \/ (expr.kind = "span" /\ expiring) THEN expr ELSE Adapted(expr)

(* reshape(e, shape), and flatten(e) for shape = <<size>>; one extent of   *)
(* shape may have been given as -1, which the code replaces.               *)
Reshape(shape, expiring) ==
  /\ CalcSize(shape) = CalcSize(expr.shape)
  /\ Careful /\ expiring => expr.kind = "span" /\ IsFContiguous(expr)
  /\ Build(GView(Reshapable(expiring), 0, shape, CalcStrides(shape)),
           [idx \in Indices(shape) |->
              elements[CHOOSE i \in Indices(expr.shape) :
                         Place(expr.shape, i) = Place(shape, idx)]])

(* transpose(e, axes), and swapaxes(e, axis1, axis2) for an exchange.      *)
Transpose(axes) ==
  LET e == Strided(expr)
      shape == [d \in DOMAIN axes |-> e.shape[axes[d]]]
  IN  Build(GView(e, 0, shape, [d \in DOMAIN axes |-> e.strides[axes[d]]]),
            [idx \in Indices(shape) |->
               elements[[d \in DOMAIN axes |-> idx[CHOOSE k \in DOMAIN axes : axes[k] = d]]]])

(* Mutant: the function is taken to have the strides of its argument.      *)
ApplyKeepsStrides ==
  /\ expr.kind # "function"
  /\ Build([expr EXCEPT !.kind = "function"], elements)

(* A function of the expression, such as -e: each element stands for its   *)
(* argument.                                                               *)
Apply ==
  /\ expr.kind # "function"
  /\ Build([Adapted(expr) EXCEPT !.kind = "function"], elements)

Permutation(n) == {p \in [1..n -> 1..n] : \A i, j \in 1..n : i # j => p[i] # p[j]}

Next ==
  /\ views < MaxViews
  /\ \/ View
     \/ \E n \in 1..MaxDims, expiring \in BOOLEAN :
          \E shape \in [1..n -> 0..CalcSize(expr.shape)] : Reshape(shape, expiring)
     \/ \E axes \in Permutation(Len(expr.shape)) : Transpose(axes)
     \/ Apply

Spec == Init /\ [][Next]_vars

-----------------------------------------------------------------------------
(* Properties *)

(* The parts of an expression fit together; what is neither a span nor a   *)
(* view has no strides but those of its shape.                             *)
TypeOK ==
  /\ expr.kind \in {"container", "function"} => IsFContiguous(expr)
  /\ expr.kind \in {"container", "span", "function", "view"}
  /\ Len(expr.strides) = Len(expr.shape)
  /\ views \in 0..MaxViews

(* However views are stacked, an expression has the indices it should      *)
(* have, and every one reaches, within the memory, the very element it     *)
(* stands for: extents, offsets, strides, adaptors and negative steps      *)
(* compose.                                                                *)
AccessCorrect ==
  /\ Indices(expr.shape) = DOMAIN elements
  /\ \A idx \in Indices(expr.shape) :
       InMemory(expr, idx) /\ Element(expr, idx) = elements[idx]

(* The linear kernels (kernel_assign_N, kernel_launch_N) visit every index *)
(* of whatever they are given exactly once: unravelling 0..size-1 by       *)
(* calc_strides() enumerates the indices in column-major order, extents of *)
(* 1 and 0 included.                                                       *)
KernelVisitsEachOnce ==
  \A i \in 0..(CalcSize(expr.shape) - 1) :
    LET idx == Unravel(i, CalcStrides(expr.shape))
    IN  idx \in Indices(expr.shape) /\ Place(expr.shape, idx) = i
=============================================================================
