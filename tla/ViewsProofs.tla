---------------------------- MODULE ViewsProofs -----------------------------
(***************************************************************************)
(* Proofs about Views, for any arrays, shapes, slices and permutations,    *)
(* and any number of views on top of each other: every index of a view     *)
(* reaches the element it stands for.                                      *)
(*                                                                         *)
(* AccessCorrect is about the elements of the expression on top only.  The *)
(* next view evaluates that expression at other indices, so the invariant  *)
(* has in addition what each adaptor relies on: containers and functions   *)
(* have the strides of their shape (WellFormed).  The work is in the       *)
(* slices: the dimensions of view() are counted twice, in the old and in   *)
(* the new shape, and offset and strides are sums over the dimensions that *)
(* are kept, of which the sum of the new index is a rearrangement.         *)
(***************************************************************************)
EXTENDS Views, IndexingProofs

(* What the parts of an expression have to do with each other. *)
Kinds == {"container", "span", "function", "view"}

WellFormed(e) ==
  /\ e.kind \in Kinds
  /\ e.shape \in Shape /\ e.strides \in Seq(Int) /\ Len(e.strides) = Len(e.shape)
  /\ DOMAIN e.data \subseteq Int
  /\ e.kind \in {"container", "function"} => e.strides = CalcStrides(e.shape)

(* e gives for every index what el says. *)
Gives(e, el) ==
  /\ Indices(e.shape) = DOMAIN el
  /\ \A idx \in Indices(e.shape) : InMemory(e, idx) /\ Element(e, idx) = el[idx]

IInv == WellFormed(expr) /\ views \in 0..MaxViews

-----------------------------------------------------------------------------
(* Adaptors *)

LEMMA ExpressionParts ==
  ASSUME NEW k, NEW sh, NEW st, NEW da
  PROVE  /\ Expression(k, sh, st, da).kind = k /\ Expression(k, sh, st, da).shape = sh
         /\ Expression(k, sh, st, da).strides = st /\ Expression(k, sh, st, da).data = da
  BY DEF Expression

LEMMA ContiguousStrides ==
  ASSUME NEW shape \in Shape
  PROVE  CalcStrides(shape) \in Seq(Int) /\ Len(CalcStrides(shape)) = Len(shape)
<1>1. CalcStrides(shape) \in Seq(Nat) /\ Len(CalcStrides(shape)) = Len(shape)
  BY StridesAre DEF Shape
<1>. QED  BY <1>1

(* data has at each place the element el says. *)
InOrder(data, shape, el) ==
  \A idx \in Indices(shape) : /\ Place(shape, idx) \in DOMAIN data
                              /\ data[Place(shape, idx)] = el[idx]

LEMMA AdaptedOK ==
  ASSUME NEW e, WellFormed(e)
  PROVE  /\ WellFormed(Adapted(e)) /\ Adapted(e).shape = e.shape
         /\ Adapted(e).strides = CalcStrides(e.shape) /\ Adapted(e).kind = "view"
         /\ \A el : Gives(e, el) => Gives(Adapted(e), el) /\ InOrder(Adapted(e).data, e.shape, el)
<1>. DEFINE shape == e.shape
            strides == CalcStrides(shape)
            data == [i \in 0..(CalcSize(shape) - 1) |-> Element(e, Unravel(i, strides))]
<1>0. shape \in Shape
  BY DEF WellFormed
<1>1. /\ Adapted(e).kind = "view" /\ Adapted(e).shape = shape
      /\ Adapted(e).strides = strides /\ Adapted(e).data = data
  <2>1. Adapted(e) = Expression("view", shape, strides, data)
    BY Zenon DEF Adapted
  <2>. HIDE DEF data, shape, strides
  <2>. QED  BY <2>1, ExpressionParts
<1>2. DOMAIN data \subseteq Int
  OBVIOUS
<1>. HIDE DEF data
<1>3. WellFormed(Adapted(e))
  BY <1>0, <1>1, <1>2, ContiguousStrides DEF WellFormed, Kinds
<1>4. ASSUME NEW el, Gives(e, el), NEW idx \in Indices(shape)
      PROVE  Place(shape, idx) \in DOMAIN data /\ data[Place(shape, idx)] = el[idx]
  <2>1. Place(shape, idx) \in 0..(CalcSize(shape) - 1)
    BY <1>0, PlaceBelow
  <2>2. PICK i, jdx : i = Place(shape, idx) /\ jdx = Unravel(i, strides)
    OBVIOUS
  <2>3. jdx \in Indices(shape) /\ Place(shape, jdx) = i
    BY <1>0, <2>1, <2>2, UnravelCorrect
  <2>4. jdx = idx
    BY <1>0, <2>2, <2>3, PlaceInjective
  <2>5. i \in DOMAIN data /\ data[i] = Element(e, idx)
    BY <2>1, <2>2, <2>4 DEF data
  <2>. QED  BY <1>4, <2>2, <2>5 DEF Gives
<1>5. ASSUME NEW el, Gives(e, el) PROVE InOrder(Adapted(e).data, shape, el)
  BY <1>1, <1>4, <1>5 DEF InOrder
<1>6. ASSUME NEW el, Gives(e, el) PROVE Gives(Adapted(e), el)
  <2>1. Indices(shape) = DOMAIN el
    BY <1>6 DEF Gives
  <2>2. ASSUME NEW idx \in Indices(shape)
        PROVE  InMemory(Adapted(e), idx) /\ Element(Adapted(e), idx) = el[idx]
    <3>1. CalcIndex(strides, idx) = Place(shape, idx)
      BY <1>0, ContiguousIndex
    <3>2. Place(shape, idx) \in DOMAIN data /\ data[Place(shape, idx)] = el[idx]
      BY <1>4, <1>6
    <3>. HIDE DEF strides, shape
    <3>. QED  BY <1>1, <3>1, <3>2 DEF InMemory, Element
  <2>. QED  BY <1>1, <2>1, <2>2 DEF Gives
<1>. QED  BY <1>1, <1>3, <1>5, <1>6

LEMMA StridedOK ==
  ASSUME NEW e, WellFormed(e)
  PROVE  /\ WellFormed(Strided(e)) /\ Strided(e).shape = e.shape
         /\ \A el : Gives(e, el) => Gives(Strided(e), el)
<1>1. CASE e.kind = "function"
  BY <1>1, AdaptedOK DEF Strided
<1>2. CASE e.kind # "function"
  BY <1>2 DEF Strided
<1>. QED  BY <1>1, <1>2

(* What a view of some strides and offset reaches. *)
LEMMA GViewOK ==
  ASSUME NEW e, WellFormed(e), NEW offset \in Int, NEW shape \in Shape, NEW strides \in Seq(Int),
         Len(strides) = Len(shape)
  PROVE  /\ WellFormed(GView(e, offset, shape, strides))
         /\ GView(e, offset, shape, strides).shape = shape
         /\ GView(e, offset, shape, strides).strides = strides
         /\ GView(e, offset, shape, strides).kind = "view"
         /\ \A idx : CalcIndex(strides, idx) \in Int /\ offset + CalcIndex(strides, idx) \in DOMAIN e.data =>
              /\ InMemory(GView(e, offset, shape, strides), idx)
              /\ Element(GView(e, offset, shape, strides), idx) = e.data[offset + CalcIndex(strides, idx)]
<1>. DEFINE v == GView(e, offset, shape, strides)
            data == [i \in {j - offset : j \in DOMAIN e.data} |-> e.data[offset + i]]
<1>1. v.kind = "view" /\ v.shape = shape /\ v.strides = strides /\ v.data = data
  <2>1. v = Expression("view", shape, strides, data)
    BY Zenon DEF GView
  <2>. HIDE DEF data, v
  <2>. QED  BY <2>1, ExpressionParts
<1>2. DOMAIN e.data \subseteq Int
  BY DEF WellFormed
<1>3. DOMAIN data \subseteq Int
  BY <1>2
<1>4. ASSUME NEW x \in Int, offset + x \in DOMAIN e.data PROVE x \in DOMAIN data /\ data[x] = e.data[offset + x]
  <2>1. x = (offset + x) - offset
    OBVIOUS
  <2>. QED  BY <1>4, <2>1
<1>. HIDE DEF v, data
<1>5. WellFormed(v)
  BY <1>1, <1>3 DEF WellFormed, Kinds
<1>6. ASSUME NEW idx, CalcIndex(strides, idx) \in Int, offset + CalcIndex(strides, idx) \in DOMAIN e.data
      PROVE  InMemory(v, idx) /\ Element(v, idx) = e.data[offset + CalcIndex(strides, idx)]
  BY <1>1, <1>4, <1>6 DEF InMemory, Element
<1>. QED  BY <1>1, <1>5, <1>6 DEF v

LEMMA CalcIndexIn ==
  ASSUME NEW strides \in Seq(Int), NEW idx, \A d \in 1..Len(strides) : idx[d] \in Int
  PROVE  CalcIndex(strides, idx) \in Int
<1>1. DOMAIN strides = 1..Len(strides) /\ Len(strides) \in Nat /\ \A d \in 1..Len(strides) : strides[d] \in Int
  OBVIOUS
<1>2. PICK s : s = [d \in 1..Len(strides) |-> strides[d] * idx[d]]
  OBVIOUS
<1>3. \A d \in 1..Len(strides) : strides[d] * idx[d] \in Int
  <2>1. \A a, b \in Int : a * b \in Int
    OBVIOUS
  <2>. QED  BY <1>1, <2>1
<1>4. s \in Seq(Int)
  BY <1>1, <1>2, <1>3
<1>. QED  BY <1>1, <1>2, <1>4, TotalIn DEF CalcIndex

-----------------------------------------------------------------------------
(* Arrays and spans *)

LEMMA ArrayOK ==
  ASSUME NEW kind \in {"container", "function"}, NEW shape \in Shape
  PROVE  /\ WellFormed(Array(kind, shape)) /\ Array(kind, shape).shape = shape
         /\ Gives(Array(kind, shape), [idx \in Indices(shape) |-> Place(shape, idx)])
<1>. DEFINE a == Array(kind, shape)
            strides == CalcStrides(shape)
            data == [i \in 0..(CalcSize(shape) - 1) |-> i]
            el == [idx \in Indices(shape) |-> Place(shape, idx)]
<1>1. a.kind = kind /\ a.shape = shape /\ a.strides = strides /\ a.data = data
  <2>1. a = Expression(kind, shape, strides, data)
    BY Zenon DEF Array
  <2>. HIDE DEF a, strides, data
  <2>. QED  BY <2>1, ExpressionParts
<1>2. DOMAIN data \subseteq Int /\ \A i \in 0..(CalcSize(shape) - 1) : i \in DOMAIN data /\ data[i] = i
  OBVIOUS
<1>. HIDE DEF a, data
<1>3. WellFormed(a)
  BY <1>1, <1>2, ContiguousStrides DEF WellFormed, Kinds
<1>4. ASSUME NEW idx \in Indices(shape) PROVE InMemory(a, idx) /\ Element(a, idx) = el[idx]
  <2>1. CalcIndex(strides, idx) = Place(shape, idx) /\ Place(shape, idx) \in 0..(CalcSize(shape) - 1)
    BY ContiguousIndex, PlaceBelow
  <2>2. el[idx] = Place(shape, idx)
    OBVIOUS
  <2>. HIDE DEF el, strides
  <2>. QED  BY <1>1, <1>2, <2>1, <2>2 DEF InMemory, Element
<1>. QED  BY <1>1, <1>3, <1>4 DEF a, Gives

LEMMA SpanFits ==
  ASSUME NEW s \in Spans
  PROVE  /\ s.parent \in Seq(Nat) /\ s.shape \in Seq(Nat) /\ s.offset \in Nat
         /\ Len(s.shape) = Len(s.parent) /\ \A d \in DOMAIN s.shape : s.shape[d] <= s.parent[d]
         /\ \A idx \in Indices(s.shape) : s.offset + Place(s.parent, idx) < CalcSize(s.parent)
<1>1. \A x \in Spans : /\ x.parent \in Seq(Nat) /\ x.shape \in Seq(Nat) /\ x.offset \in Nat
                       /\ Len(x.shape) = Len(x.parent)
                       /\ \A d \in DOMAIN x.shape : x.shape[d] <= x.parent[d]
                       /\ \A idx \in Indices(x.shape) :
                            x.offset + Place(x.parent, idx) < CalcSize(x.parent)
  BY ConstantsAssumption, Zenon DEF ConstantsAssumption
<1>. QED  BY <1>1, Zenon

LEMMA SpanOK ==
  ASSUME NEW s \in Spans
  PROVE  /\ WellFormed(SpanInto(s)) /\ SpanInto(s).shape = s.shape
         /\ Gives(SpanInto(s), [idx \in Indices(s.shape) |-> s.offset + Place(s.parent, idx)])
<1>. DEFINE a == SpanInto(s)
            strides == CalcStrides(s.parent)
            data == [i \in (-s.offset)..(CalcSize(s.parent) - 1 - s.offset) |-> i + s.offset]
            el == [idx \in Indices(s.shape) |-> s.offset + Place(s.parent, idx)]
<1>0. /\ s.parent \in Shape /\ s.shape \in Shape /\ s.offset \in Nat /\ Len(s.shape) = Len(s.parent)
      /\ \A d \in 1..Len(s.shape) : s.shape[d] <= s.parent[d]
      /\ \A idx \in Indices(s.shape) : s.offset + Place(s.parent, idx) < CalcSize(s.parent)
  <2>1. /\ s.parent \in Seq(Nat) /\ s.shape \in Seq(Nat) /\ s.offset \in Nat
        /\ Len(s.shape) = Len(s.parent) /\ \A d \in DOMAIN s.shape : s.shape[d] <= s.parent[d]
        /\ \A idx \in Indices(s.shape) : s.offset + Place(s.parent, idx) < CalcSize(s.parent)
    BY SpanFits
  <2>2. DOMAIN s.shape = 1..Len(s.shape)
    BY <2>1
  <2>. QED  BY <2>1, <2>2 DEF Shape
<1>1. a.kind = "span" /\ a.shape = s.shape /\ a.strides = strides /\ a.data = data
  <2>1. a = Expression("span", s.shape, strides, data)
    BY Zenon DEF SpanInto
  <2>. HIDE DEF a, strides, data
  <2>. QED  BY <2>1, ExpressionParts
<1>2. CalcSize(s.parent) \in Nat
  BY <1>0, VolumeRules
<1>3. DOMAIN data \subseteq Int
  BY <1>0, <1>2
<1>4. ASSUME NEW p \in Nat, s.offset + p < CalcSize(s.parent)
      PROVE  p \in DOMAIN data /\ data[p] = s.offset + p
  BY <1>0, <1>2, <1>4
<1>. HIDE DEF a, data
<1>5. WellFormed(a)
  BY <1>0, <1>1, <1>3, ContiguousStrides DEF WellFormed, Kinds
<1>6. ASSUME NEW idx \in Indices(s.shape) PROVE InMemory(a, idx) /\ Element(a, idx) = el[idx]
  <2>1. idx \in Indices(s.parent)
    <3>1. /\ idx \in Seq(Nat) /\ Len(idx) = Len(s.parent)
          /\ \A d \in 1..Len(s.parent) : idx[d] \in Nat /\ idx[d] < s.shape[d]
      BY <1>0, <1>6, InIndices
    <3>2. \A d \in 1..Len(s.parent) : s.shape[d] \in Nat /\ s.parent[d] \in Nat /\ s.shape[d] <= s.parent[d]
      BY <1>0 DEF Shape
    <3>3. \A d \in 1..Len(s.parent) : idx[d] < s.parent[d]
      BY <3>1, <3>2
    <3>. QED  BY <1>0, <3>1, <3>3, InIndices
  <2>2. CalcIndex(strides, idx) = Place(s.parent, idx) /\ Place(s.parent, idx) \in 0..(CalcSize(s.parent) - 1)
    BY <1>0, <2>1, ContiguousIndex, PlaceBelow
  <2>3. PICK p : p = Place(s.parent, idx)
    OBVIOUS
  <2>4. p \in Nat /\ s.offset + p < CalcSize(s.parent) /\ el[idx] = s.offset + p /\ CalcIndex(a.strides, idx) = p
    BY <1>0, <1>1, <1>2, <1>6, <2>2, <2>3
  <2>5. p \in DOMAIN data /\ data[p] = s.offset + p
    BY <1>4, <2>4
  <2>. HIDE DEF el, strides
  <2>. QED  BY <1>1, <2>4, <2>5 DEF InMemory, Element
<1>. QED  BY <1>1, <1>5, <1>6 DEF a, Gives

-----------------------------------------------------------------------------
(* Reshaping *)

LEMMA ReshapableOK ==
  ASSUME IInv, NEW expiring \in BOOLEAN
  PROVE  /\ WellFormed(Reshapable(expiring))
         /\ Gives(expr, elements) /\ (Careful /\ expiring => expr.kind = "span" /\ IsFContiguous(expr)) /\ Careful
              => InOrder(Reshapable(expiring).data, expr.shape, elements)
<1>0. WellFormed(expr)
  BY DEF IInv
<1>1. CASE expr.kind = "container" \/ (expr.kind = "span" /\ expiring)
  <2>1. Reshapable(expiring) = expr
    BY <1>1 DEF Reshapable
  <2>2. ASSUME Gives(expr, elements), Careful,
               Careful /\ expiring => expr.kind = "span" /\ IsFContiguous(expr)
        PROVE  InOrder(expr.data, expr.shape, elements)
    <3>1. expr.strides = CalcStrides(expr.shape) /\ expr.shape \in Shape
      BY <1>0, <1>1, <2>2 DEF WellFormed, IsFContiguous
    <3>2. ASSUME NEW idx \in Indices(expr.shape)
          PROVE  Place(expr.shape, idx) \in DOMAIN expr.data /\ expr.data[Place(expr.shape, idx)] = elements[idx]
      <4>1. CalcIndex(expr.strides, idx) = Place(expr.shape, idx)
        BY <3>1, ContiguousIndex
      <4>. QED  BY <2>2, <4>1 DEF Gives, InMemory, Element
    <3>. QED  BY <3>2 DEF InOrder
  <2>. QED  BY <1>0, <2>1, <2>2
<1>2. CASE ~ (expr.kind = "container" \/ (expr.kind = "span" /\ expiring))
  <2>1. Reshapable(expiring) = Adapted(expr)
    BY <1>2 DEF Reshapable
  <2>. QED  BY <1>0, <2>1, AdaptedOK
<1>. QED  BY <1>1, <1>2

LEMMA ReshapeOK ==
  ASSUME IInv, NEW shape \in Shape, NEW expiring \in BOOLEAN, Reshape(shape, expiring)
  PROVE  /\ WellFormed(expr')
         /\ Careful /\ Gives(expr, elements) => Gives(expr', elements')
<1>. DEFINE r == Reshapable(expiring)
            v == GView(r, 0, shape, CalcStrides(shape))
            old == expr.shape
            Same(idx) == CHOOSE i \in Indices(old) : Place(old, i) = Place(shape, idx)
<1>0. WellFormed(r) /\ CalcStrides(shape) \in Seq(Int) /\ Len(CalcStrides(shape)) = Len(shape) /\ 0 \in Int
      /\ old \in Shape
  BY ReshapableOK, ContiguousStrides DEF IInv, WellFormed
<1>1. /\ CalcSize(shape) = CalcSize(old) /\ expr' = v
      /\ elements' = [idx \in Indices(shape) |-> elements[Same(idx)]]
      /\ Careful /\ expiring => expr.kind = "span" /\ IsFContiguous(expr)
  BY Zenon DEF Reshape, Build
<1>. HIDE DEF r
<1>2. /\ WellFormed(v) /\ v.shape = shape /\ v.strides = CalcStrides(shape)
      /\ \A idx : CalcIndex(CalcStrides(shape), idx) \in Int /\ 0 + CalcIndex(CalcStrides(shape), idx) \in DOMAIN r.data =>
              InMemory(v, idx) /\ Element(v, idx) = r.data[0 + CalcIndex(CalcStrides(shape), idx)]
  BY <1>0, GViewOK
<1>. HIDE DEF v
<1>3. ASSUME Careful, Gives(expr, elements), NEW idx \in Indices(shape)
      PROVE  InMemory(v, idx) /\ Element(v, idx) = elements[Same(idx)]
  <2>1. InOrder(r.data, old, elements)
    BY <1>1, <1>3, ReshapableOK DEF r
  <2>2. PICK p : p = Place(shape, idx)
    OBVIOUS
  <2>3. p \in 0..(CalcSize(old) - 1) /\ p \in Int /\ 0 + p = p
    BY <1>1, <1>3, <2>2, PlaceBelow
  <2>4. PICK j : j = Unravel(p, CalcStrides(old))
    OBVIOUS
  <2>5. j \in Indices(old) /\ Place(old, j) = p
    BY <1>0, <2>3, <2>4, UnravelCorrect
  <2>6. Same(idx) \in Indices(old) /\ Place(old, Same(idx)) = p
    BY <2>2, <2>5
  <2>7. p \in DOMAIN r.data /\ r.data[p] = elements[Same(idx)]
    <3>. HIDE DEF Same
    <3>. QED  BY <2>1, <2>6 DEF InOrder
  <2>8. CalcIndex(CalcStrides(shape), idx) = p
    BY <1>3, <2>2, ContiguousIndex
  <2>. HIDE DEF Same
  <2>. QED  BY <1>2, <2>3, <2>7, <2>8
<1>4. ASSUME Careful, Gives(expr, elements) PROVE Gives(v, elements')
  <2>1. DOMAIN elements' = Indices(shape) /\ \A idx \in Indices(shape) : elements'[idx] = elements[Same(idx)]
    <3>. HIDE DEF Same
    <3>. QED  BY <1>1
  <2>. HIDE DEF Same
  <2>. QED  BY <1>2, <1>3, <1>4, <2>1 DEF Gives
<1>. QED  BY <1>1, <1>2, <1>4

-----------------------------------------------------------------------------
(* Exchanging axes *)

LEMMA TransposeOK ==
  ASSUME IInv, NEW axes, Permuting(axes, Len(expr.shape)), Transpose(axes)
  PROVE  /\ WellFormed(expr')
         /\ Gives(expr, elements) => Gives(expr', elements')
<1>. DEFINE e == Strided(expr)
            n == Len(expr.shape)
            shape == [d \in DOMAIN axes |-> e.shape[axes[d]]]
            strides == [d \in DOMAIN axes |-> e.strides[axes[d]]]
            v == GView(e, 0, shape, strides)
            From(d) == CHOOSE k \in DOMAIN axes : axes[k] = d
            Old(idx) == [d \in DOMAIN axes |-> idx[From(d)]]
<1>0. /\ WellFormed(e) /\ e.shape = expr.shape /\ n \in Nat /\ DOMAIN axes = 1..n
      /\ \A d \in 1..n : axes[d] \in 1..n
      /\ \A i, j \in 1..n : i # j => axes[i] # axes[j]
  <2>1. WellFormed(e) /\ e.shape = expr.shape
    BY StridedOK DEF IInv
  <2>2. n \in Nat
    BY DEF IInv, WellFormed, Shape
  <2>. HIDE DEF e, n
  <2>3. Permuting(axes, n)
    BY DEF n
  <2>. QED  BY <2>1, <2>2, <2>3 DEF Permuting
<1>1. /\ e.shape \in Seq(Nat) /\ Len(e.shape) = n /\ e.strides \in Seq(Int) /\ Len(e.strides) = n
  BY <1>0 DEF WellFormed, Shape
<1>2. /\ expr' = v
      /\ elements' = [idx \in Indices(shape) |-> elements[Old(idx)]]
  BY Zenon DEF Transpose, Build
<1>. HIDE DEF e, n
<1>3. shape \in Shape /\ Len(shape) = n /\ strides \in Seq(Int) /\ Len(strides) = n
      /\ \A d \in 1..n : shape[d] = e.shape[axes[d]] /\ strides[d] = e.strides[axes[d]]
  <2>0. \A k \in 1..n : e.shape[k] \in Nat /\ e.strides[k] \in Int
    <3>. HIDE DEF shape, strides
    <3>. QED  BY <1>0, <1>1
  <2>1. \A d \in 1..n : e.shape[axes[d]] \in Nat /\ e.strides[axes[d]] \in Int
    <3>. HIDE DEF shape, strides
    <3>. QED  BY <1>0, <2>0
  <2>2. shape = [d \in 1..n |-> e.shape[axes[d]]] /\ strides = [d \in 1..n |-> e.strides[axes[d]]]
    BY <1>0
  <2>. HIDE DEF shape, strides
  <2>. QED  BY <1>0, <2>1, <2>2 DEF Shape
<1>4. \A d \in 1..n : From(d) \in 1..n /\ axes[From(d)] = d
  <2>1. \A d \in 1..n : \E k \in 1..n : axes[k] = d
    <3>1. Permuting(axes, n)
      BY DEF n
    <3>. QED  BY <1>0, <3>1, PermutationReaches
  <2>. QED  BY <1>0, <2>1
<1>5. \A k \in 1..n : From(axes[k]) = k
  <2>. HIDE DEF From
  <2>. QED  BY <1>0, <1>4
<1>. HIDE DEF shape, strides, v, From
<1>6. /\ WellFormed(v) /\ v.shape = shape /\ v.strides = strides
      /\ \A idx : CalcIndex(strides, idx) \in Int /\ 0 + CalcIndex(strides, idx) \in DOMAIN e.data =>
              InMemory(v, idx) /\ Element(v, idx) = e.data[0 + CalcIndex(strides, idx)]
  <2>1. 0 \in Int
    OBVIOUS
  <2>. QED  BY <1>0, <1>3, <2>1, GViewOK DEF v
<1>7. ASSUME NEW idx \in Indices(shape)
      PROVE  Old(idx) \in Indices(expr.shape) /\ CalcIndex(strides, idx) = CalcIndex(e.strides, Old(idx))
  <2>1. /\ idx \in Seq(Nat) /\ Len(idx) = n
        /\ \A d \in 1..n : idx[d] \in Nat /\ idx[d] < e.shape[axes[d]]
    <3>1. idx \in Seq(Nat) /\ Len(idx) = n /\ \A d \in 1..n : idx[d] < shape[d]
      BY <1>3, <1>7, InIndices
    <3>. QED  BY <1>3, <3>1
  <2>2. Old(idx) \in Indices(expr.shape)
    <3>1. DOMAIN expr.shape = 1..n /\ expr.shape \in Shape
      BY <1>0, <1>1 DEF Shape
    <3>2. \A d \in 1..Len(expr.shape) : idx[From(d)] \in Nat /\ idx[From(d)] < expr.shape[d]
      BY <1>0, <1>1, <1>4, <2>1
    <3>3. PICK j : j = Old(idx)
      OBVIOUS
    <3>4. j = [d \in DOMAIN expr.shape |-> j[d]]
          /\ \A d \in 1..Len(expr.shape) : j[d] \in Nat /\ j[d] < expr.shape[d]
      BY <1>0, <1>1, <3>1, <3>2, <3>3
    <3>5. j \in Indices(expr.shape)
      BY <3>1, <3>4, IsIndex
    <3>. QED  BY <3>3, <3>5
  <2>3. PICK s : s = [d \in 1..n |-> e.strides[d] * Old(idx)[d]]
    OBVIOUS
  <2>4. \A d \in 1..n : Old(idx)[d] = idx[From(d)] /\ Old(idx)[d] \in Int
    BY <1>0, <1>4, <2>1
  <2>. HIDE DEF Old
  <2>5. s \in Seq(Int) /\ Len(s) = n
    <3>1. \A a, b \in Int : a * b \in Int
      OBVIOUS
    <3>2. \A d \in 1..n : e.strides[d] * Old(idx)[d] \in Int
      BY <1>1, <2>4, <3>1
    <3>. QED  BY <1>0, <2>3, <3>2 DEF n
  <2>6. Total([k \in 1..n |-> s[axes[k]]]) = Total(s)
    <3>1. Permuting(axes, n) /\ n \in Nat
      BY <1>0 DEF n
    <3>. QED  BY <2>5, <3>1, TotalPermuted
  <2>7. [k \in 1..n |-> s[axes[k]]] = [k \in 1..n |-> strides[k] * idx[k]]
    <3>1. ASSUME NEW k \in 1..n PROVE s[axes[k]] = strides[k] * idx[k]
      <4>1. axes[k] \in 1..n /\ From(axes[k]) = k
        BY <1>0, <1>5
      <4>2. s[axes[k]] = e.strides[axes[k]] * Old(idx)[axes[k]]
        BY <2>3, <4>1
      <4>. QED  BY <1>3, <2>4, <4>1, <4>2
    <3>. QED  BY <3>1
  <2>8. DOMAIN strides = 1..n /\ DOMAIN e.strides = 1..n
    BY <1>1, <1>3
  <2>9. CalcIndex(strides, idx) = Total([k \in 1..n |-> strides[k] * idx[k]])
        /\ CalcIndex(e.strides, Old(idx)) = Total(s)
    BY <2>3, <2>8, Zenon DEF CalcIndex
  <2>. QED  BY <2>2, <2>6, <2>7, <2>9
<1>8. ASSUME Gives(expr, elements) PROVE Gives(v, elements')
  <2>1. Gives(e, elements)
    BY <1>8, StridedOK DEF IInv, e
  <2>. HIDE DEF Old
  <2>2. DOMAIN elements' = Indices(shape) /\ \A idx \in Indices(shape) : elements'[idx] = elements[Old(idx)]
    BY <1>2
  <2>3. ASSUME NEW idx \in Indices(shape) PROVE InMemory(v, idx) /\ Element(v, idx) = elements'[idx]
    <3>1. PICK x : x = CalcIndex(strides, idx)
      OBVIOUS
    <3>2. x \in DOMAIN e.data /\ e.data[x] = elements'[idx]
      BY <1>0, <1>7, <2>1, <2>2, <3>1 DEF Gives, InMemory, Element
    <3>3. x \in Int /\ 0 + x = x
      BY <1>0, <3>2 DEF WellFormed
    <3>. QED  BY <1>6, <3>1, <3>2, <3>3
  <2>. QED  BY <1>6, <2>2, <2>3 DEF Gives
<1>. QED  BY <1>2, <1>6, <1>8

-----------------------------------------------------------------------------
(* Slices *)

LEMMA MultiplesUpTo ==
  ASSUME NEW m \in Nat, NEW a \in Nat, a > 0, NEW k \in Nat
  PROVE  /\ k * a <= m <=> k <= m \div a
         /\ m \div a \in Nat /\ m \div a <= m /\ k * a \in Nat
<1>1. PICK q, r : q = m \div a /\ r = m % a
  OBVIOUS
<1>2. m = a * q + r /\ r \in 0..(a - 1) /\ q \in Nat
  BY <1>1, Sums!DivMod
<1>3. k * a \in Nat /\ a * q \in Nat /\ q <= a * q
  <2>1. PICK b \in Nat : a = b + 1
    <3>1. a - 1 \in Nat /\ a = (a - 1) + 1
      OBVIOUS
    <3>. QED  BY <3>1
  <2>2. a * q = b * q + q /\ b * q \in Nat
    BY <1>2, <2>1
  <2>. QED  BY <1>2, <2>2
<1>4. ASSUME k <= q PROVE k * a <= m
  <2>1. PICK e \in Nat : q = k + e
    <3>1. q - k \in Nat /\ q = k + (q - k)
      BY <1>2, <1>4
    <3>. QED  BY <3>1
  <2>2. a * q = k * a + a * e /\ a * e \in Nat
    BY <2>1
  <2>. QED  BY <1>2, <1>3, <2>2
<1>5. ASSUME ~ (k <= q) PROVE ~ (k * a <= m)
  <2>1. PICK e \in Nat : k = q + 1 + e
    <3>1. k - q - 1 \in Nat /\ k = q + 1 + (k - q - 1)
      BY <1>2, <1>5
    <3>. QED  BY <3>1
  <2>2. k * a = a * q + a + e * a /\ e * a \in Nat
    BY <1>2, <2>1
  <2>. QED  BY <1>2, <1>3, <2>2
<1>. QED  BY <1>1, <1>2, <1>3, <1>4, <1>5

LEMMA SliceOK ==
  ASSUME NEW s \in Slices, NEW n \in Nat, ~ SliceThrows(Normalized(s, n), n)
  PROVE  /\ Normalized(s, n).start \in Int /\ Normalized(s, n).stop \in Int
         /\ Normalized(s, n).step \in Int /\ Normalized(s, n).step = StepOf(s)
         /\ SliceExtent(Normalized(s, n)) \in Nat
         /\ Normalized(s, n).step > 0 \/ Normalized(s, n).step < 0
<1>. DEFINE t == Normalized(s, n)
<1>1. None \notin Int /\ s.start \in Int \cup {None} /\ s.stop \in Int \cup {None} /\ s.step \in Int \cup {None}
  BY ConstantsAssumption DEF ConstantsAssumption
<1>2. /\ t.step = StepOf(s)
      /\ t.start = IF s.start = None THEN (IF StepOf(s) > 0 THEN 0 ELSE n - 1)
                   ELSE IF s.start < 0 THEN s.start + n ELSE s.start
      /\ t.stop = IF s.stop = None THEN (IF StepOf(s) > 0 THEN n ELSE -1)
                  ELSE IF (s.stop = 0 /\ StepOf(s) = 1) \/ s.stop < 0 THEN s.stop + n ELSE s.stop
  BY DEF Normalized, StepOf
<1>. HIDE DEF t
<1>3. t.step \in Int /\ t.start \in Int /\ t.stop \in Int
  <2>1. StepOf(s) \in Int
    BY <1>1 DEF StepOf
  <2>. QED  BY <1>1, <1>2, <2>1
<1>4. t.step > 0 \/ t.step < 0
  BY <1>3 DEF SliceThrows, t
<1>5. SliceExtent(t) \in Nat
  <2>1. CASE t.step > 0
    <3>1. t.stop - t.start - 1 \in Nat /\ t.step \in Nat
      BY <1>3, <2>1 DEF SliceThrows, t
    <3>2. PICK m, a : m = t.stop - t.start - 1 /\ a = t.step
      OBVIOUS
    <3>3. m \div a \in Nat
      BY <2>1, <3>1, <3>2, MultiplesUpTo
    <3>4. SliceExtent(t) = m \div a + 1
      BY <2>1, <3>2 DEF SliceExtent
    <3>. QED  BY <3>3, <3>4
  <2>2. CASE t.step < 0
    <3>1. t.start - t.stop - 1 \in Nat /\ -t.step \in Nat /\ -t.step > 0 /\ ~ (t.step > 0)
      BY <1>3, <2>2 DEF SliceThrows, t
    <3>2. PICK m, a : m = t.start - t.stop - 1 /\ a = -t.step
      OBVIOUS
    <3>3. m \div a \in Nat
      BY <3>1, <3>2, MultiplesUpTo
    <3>4. SliceExtent(t) = m \div a + 1
      BY <3>1, <3>2 DEF SliceExtent
    <3>. QED  BY <3>3, <3>4
  <2>. QED  BY <1>4, <2>1, <2>2
<1>. QED  BY <1>2, <1>3, <1>4, <1>5 DEF t

(* The elements a slice in range stands for are those of its view. *)
LEMMA SelectedIs ==
  ASSUME NEW s \in Slices, NEW n \in Nat, ~ SliceThrows(Normalized(s, n), n), InRange(s, n)
  PROVE  /\ DOMAIN Selected(s, n) = 1..SliceExtent(Normalized(s, n))
         /\ Len(Selected(s, n)) = SliceExtent(Normalized(s, n))
         /\ \A k \in 1..SliceExtent(Normalized(s, n)) :
              /\ Selected(s, n)[k] = Normalized(s, n).start + (k - 1) * Normalized(s, n).step
              /\ Selected(s, n)[k] \in 0..(n - 1)
<1>. DEFINE t == Normalized(s, n)
            B == Between(s, n)
<1>1. None \notin Int /\ s.start \in Int \cup {None} /\ s.stop \in Int \cup {None} /\ s.step \in Int \cup {None}
  BY ConstantsAssumption DEF ConstantsAssumption
<1>2. /\ t.step = StepOf(s)
      /\ t.start = IF s.start = None THEN (IF StepOf(s) > 0 THEN 0 ELSE n - 1)
                   ELSE IF s.start < 0 THEN s.start + n ELSE s.start
      /\ t.stop = IF s.stop = None THEN (IF StepOf(s) > 0 THEN n ELSE -1)
                  ELSE IF (s.stop = 0 /\ StepOf(s) = 1) \/ s.stop < 0 THEN s.stop + n ELSE s.stop
  BY DEF Normalized, StepOf
<1>3. /\ t.start \in Int /\ t.stop \in Int /\ t.step \in Int /\ t.step = StepOf(s)
      /\ t.step > 0 \/ t.step < 0
      /\ t.start \in 0..(n - 1) /\ t.stop \in -1..n
      /\ t.step > 0 => t.start < t.stop
      /\ t.step < 0 => t.stop < t.start
  BY SliceOK DEF InRange, SliceThrows
<1>4. ASSUME NEW p PROVE p \in B <=> p \in 0..(n - 1) /\ IF t.step > 0 THEN t.start <= p /\ p < t.stop
                                                          ELSE p <= t.start /\ t.stop < p
  <2>. HIDE DEF t
  <2>1. p \in B <=> /\ p \in 0..(n - 1)
                    /\ s.start # None => ~ IF StepOf(s) > 0 THEN p < (IF s.start < 0 THEN s.start + n ELSE s.start)
                                                            ELSE (IF s.start < 0 THEN s.start + n ELSE s.start) < p
                    /\ ~ (s.stop = None \/ (s.stop = 0 /\ StepOf(s) = 1)) =>
                          IF StepOf(s) > 0 THEN p < (IF s.stop < 0 THEN s.stop + n ELSE s.stop)
                                           ELSE (IF s.stop < 0 THEN s.stop + n ELSE s.stop) < p
    <3>1. B = {q \in 0..(n - 1) :
                    /\ s.start # None => ~ IF StepOf(s) > 0 THEN q < (IF s.start < 0 THEN s.start + n ELSE s.start)
                                                            ELSE (IF s.start < 0 THEN s.start + n ELSE s.start) < q
                    /\ ~ (s.stop = None \/ (s.stop = 0 /\ StepOf(s) = 1)) =>
                          IF StepOf(s) > 0 THEN q < (IF s.stop < 0 THEN s.stop + n ELSE s.stop)
                                           ELSE (IF s.stop < 0 THEN s.stop + n ELSE s.stop) < q}
      BY Zenon DEF Between
    <3>. HIDE DEF B
    <3>. QED  BY <3>1, Zenon
  <2>. HIDE DEF B
  <2>2. PICK w, a, b : w = StepOf(s) /\ a = s.start /\ b = s.stop
    OBVIOUS
  <2>3. w \in Int /\ (w > 0 \/ w < 0) /\ t.step = w /\ None \notin Int
        /\ a \in Int \cup {None} /\ b \in Int \cup {None}
    BY <1>1, <1>3, <2>2
  <2>4. CASE p \in 0..(n - 1)
    <3>1. (a # None => ~ IF w > 0 THEN p < (IF a < 0 THEN a + n ELSE a) ELSE (IF a < 0 THEN a + n ELSE a) < p)
          <=> IF w > 0 THEN t.start <= p ELSE p <= t.start
      <4>1. t.start = IF a = None THEN (IF w > 0 THEN 0 ELSE n - 1) ELSE IF a < 0 THEN a + n ELSE a
        BY <1>2, <2>2
      <4>2. CASE a = None
        BY <2>4, <4>1, <4>2
      <4>3. CASE a # None
        BY <2>3, <2>4, <4>1, <4>3
      <4>. QED  BY <4>2, <4>3
    <3>2. (~ (b = None \/ (b = 0 /\ w = 1)) =>
             IF w > 0 THEN p < (IF b < 0 THEN b + n ELSE b) ELSE (IF b < 0 THEN b + n ELSE b) < p)
          <=> IF w > 0 THEN p < t.stop ELSE t.stop < p
      <4>1. t.stop = IF b = None THEN (IF w > 0 THEN n ELSE -1)
                     ELSE IF (b = 0 /\ w = 1) \/ b < 0 THEN b + n ELSE b
        BY <1>2, <2>2
      <4>2. CASE b = None
        BY <2>4, <4>1, <4>2
      <4>3. CASE b # None
        BY <2>3, <2>4, <4>1, <4>3
      <4>. QED  BY <4>2, <4>3
    <3>. QED  BY <2>1, <2>2, <2>3, <2>4, <3>1, <3>2
  <2>5. CASE ~ (p \in 0..(n - 1))
    BY <2>1, <2>5
  <2>. QED  BY <2>4, <2>5
<1>. DEFINE first == CHOOSE p \in B : \A q \in B : IF StepOf(s) > 0 THEN p <= q ELSE q <= p
            ext == SliceExtent(t)
<1>. HIDE DEF B, t
<1>5. first = t.start
  <2>1. t.start \in B
    BY <1>3, <1>4
  <2>2. \A q \in B : q \in Int /\ IF StepOf(s) > 0 THEN t.start <= q ELSE q <= t.start
    BY <1>3, <1>4
  <2>3. first \in B /\ \A q \in B : IF StepOf(s) > 0 THEN first <= q ELSE q <= first
    BY <2>1, <2>2
  <2>. HIDE DEF first
  <2>4. first \in Int
    BY <2>2, <2>3
  <2>. QED  BY <1>3, <2>1, <2>2, <2>3, <2>4
<1>6. Selected(s, n) = [k \in {m \in 1..n : first + (m - 1) * StepOf(s) \in B} |-> first + (k - 1) * StepOf(s)]
  BY Zenon DEF Selected, B
<1>. HIDE DEF first
<1>7. ASSUME NEW m \in Nat, m > 0
      PROVE  /\ t.start + (m - 1) * t.step \in B <=> m <= ext
             /\ m <= ext => m <= n
             /\ ext \in Nat
  <2>1. PICK w, a, b, k : w = t.step /\ a = t.start /\ b = t.stop /\ k = m - 1
    OBVIOUS
  <2>2. w \in Int /\ a \in 0..(n - 1) /\ b \in -1..n /\ k \in Nat /\ m = k + 1
    BY <1>3, <1>7, <2>1
  <2>3. CASE w > 0
    <3>1. PICK z : z = b - a - 1
      OBVIOUS
    <3>2. z \in Nat /\ z < n /\ w \in Nat /\ ext = z \div w + 1
      <4>1. ext = z \div w + 1
        BY <2>1, <2>3, <3>1 DEF SliceExtent
      <4>. QED  BY <1>3, <2>1, <2>2, <2>3, <3>1, <4>1
    <3>3. /\ k * w <= z <=> k <= z \div w
          /\ z \div w \in Nat /\ z \div w <= z /\ k * w \in Nat
      BY <2>2, <2>3, <3>2, MultiplesUpTo
    <3>4. a + k * w \in B <=> k * w <= z
      <4>1. a + k * w \in B <=> a + k * w \in 0..(n - 1) /\ a <= a + k * w /\ a + k * w < b
        BY <1>4, <2>1, <2>3
      <4>2. PICK x : x = k * w
        OBVIOUS
      <4>3. a + x \in 0..(n - 1) /\ a <= a + x /\ a + x < b <=> x <= z
        BY <2>2, <3>1, <3>3, <4>2
      <4>. QED  BY <4>1, <4>2, <4>3
    <3>5. PICK y : y = z \div w
      OBVIOUS
    <3>. QED  BY <2>1, <2>2, <3>2, <3>3, <3>4, <3>5
  <2>4. CASE ~ (w > 0)
    <3>1. PICK z, c : z = a - b - 1 /\ c = -w
      OBVIOUS
    <3>2. z \in Nat /\ z < n /\ c \in Nat /\ c > 0 /\ ext = z \div c + 1
      <4>1. ext = z \div c + 1
        BY <2>1, <2>4, <3>1 DEF SliceExtent
      <4>. QED  BY <1>3, <2>1, <2>2, <2>4, <3>1, <4>1
    <3>3. /\ k * c <= z <=> k <= z \div c
          /\ z \div c \in Nat /\ z \div c <= z /\ k * c \in Nat
      BY <2>2, <3>2, MultiplesUpTo
    <3>4. k * w = - (k * c)
      BY <2>2, <3>1
    <3>5. a + k * w \in B <=> k * c <= z
      <4>1. a + k * w \in B <=> a + k * w \in 0..(n - 1) /\ a + k * w <= a /\ b < a + k * w
        BY <1>4, <2>1, <2>4
      <4>2. PICK x : x = k * c
        OBVIOUS
      <4>3. a - x \in 0..(n - 1) /\ a - x <= a /\ b < a - x <=> x <= z
        BY <2>2, <3>1, <3>3, <4>2
      <4>4. a + k * w = a - x
        BY <2>2, <3>3, <3>4, <4>2
      <4>. QED  BY <4>1, <4>2, <4>3, <4>4
    <3>6. PICK y : y = z \div c
      OBVIOUS
    <3>. QED  BY <2>1, <2>2, <3>2, <3>3, <3>5, <3>6
  <2>. QED  BY <2>3, <2>4
<1>8. ext \in Nat
  BY <1>7
<1>9. {m \in 1..n : first + (m - 1) * StepOf(s) \in B} = 1..ext
  <2>. HIDE DEF ext
  <2>1. ASSUME NEW m \in 1..n, first + (m - 1) * StepOf(s) \in B PROVE m \in 1..ext
    BY <1>3, <1>5, <1>7, <1>8, <2>1
  <2>2. ASSUME NEW m \in 1..ext PROVE m \in 1..n /\ first + (m - 1) * StepOf(s) \in B
    BY <1>3, <1>5, <1>7, <1>8, <2>2
  <2>. QED  BY <2>1, <2>2
<1>10. Selected(s, n) = [k \in 1..ext |-> t.start + (k - 1) * t.step]
  BY <1>3, <1>5, <1>6, <1>9
<1>11. \A k \in 1..ext : t.start + (k - 1) * t.step \in 0..(n - 1)
  <2>. HIDE DEF ext
  <2>1. ASSUME NEW k \in 1..ext PROVE t.start + (k - 1) * t.step \in B
    BY <1>7, <1>8, <2>1
  <2>. QED  BY <1>4, <2>1
<1>. HIDE DEF ext
<1>. QED  BY <1>8, <1>10, <1>11 DEF ext, t

-----------------------------------------------------------------------------
(* view() *)

(* Arguments that have been filled up for a shape. *)
Fitting(descs, shape) ==
  /\ Len(descs) \in Nat /\ DOMAIN descs = 1..Len(descs)
  /\ \A i \in 1..Len(descs) : descs[i].type \in {"ALL", "NEWAXIS", "VALUE", "SLICE"}
  /\ OldDim(descs, Len(descs)) = Len(shape)
  /\ \A i \in 1..Len(descs) :
       /\ descs[i].type = "VALUE" => descs[i].value \in 0..(shape[OldDim(descs, i)] - 1)
       /\ descs[i].type = "SLICE" =>
            /\ descs[i].slice \in Slices
            /\ ~ SliceThrows(Normalized(descs[i].slice, shape[OldDim(descs, i)]), shape[OldDim(descs, i)])
            /\ Careful => InRange(descs[i].slice, shape[OldDim(descs, i)])

(* What argument i adds to the offset, and what it makes of its dimension. *)
OffsetBy(e, descs, i) ==
  CASE descs[i].type = "VALUE" -> descs[i].value * e.strides[OldDim(descs, i)]
    [] descs[i].type = "SLICE" ->
         Normalized(descs[i].slice, e.shape[OldDim(descs, i)]).start * e.strides[OldDim(descs, i)]
    [] OTHER -> 0

ExtentMade(e, descs, i) ==
  CASE descs[i].type = "NEWAXIS" -> 1
    [] descs[i].type = "SLICE" -> SliceExtent(Normalized(descs[i].slice, e.shape[OldDim(descs, i)]))
    [] OTHER -> e.shape[OldDim(descs, i)]

StrideMade(e, descs, i) ==
  CASE descs[i].type = "NEWAXIS" -> 0
    [] descs[i].type = "SLICE" ->
         e.strides[OldDim(descs, i)] * Normalized(descs[i].slice, e.shape[OldDim(descs, i)]).step
    [] OTHER -> e.strides[OldDim(descs, i)]

ExtentMeant(shape, descs, i) ==
  CASE descs[i].type = "NEWAXIS" -> 1
    [] descs[i].type = "SLICE" -> Len(Selected(descs[i].slice, shape[OldDim(descs, i)]))
    [] OTHER -> shape[OldDim(descs, i)]

IndexMeant(shape, descs, idx, d, i) ==
  CASE descs[i].type = "VALUE" -> descs[i].value
    [] descs[i].type = "SLICE" -> Selected(descs[i].slice, shape[d])[idx[NewDim(descs, i)] + 1]
    [] OTHER -> idx[NewDim(descs, i)]

LEMMA ViewOfIs ==
  ASSUME NEW e, NEW descs
  PROVE  ViewOf(e, descs) =
           GView(e, Total([i \in DOMAIN descs |-> OffsetBy(e, descs, i)]),
                 [k \in DOMAIN NewDims(descs) |-> ExtentMade(e, descs, NewDims(descs)[k])],
                 [k \in DOMAIN NewDims(descs) |-> StrideMade(e, descs, NewDims(descs)[k])])
  BY Zenon DEF ViewOf, OffsetBy, ExtentMade, StrideMade

LEMMA MeaningIs ==
  ASSUME NEW shape, NEW descs
  PROVE  Meaning(shape, descs) =
           [idx \in Indices([k \in DOMAIN NewDims(descs) |-> ExtentMeant(shape, descs, NewDims(descs)[k])]) |->
              [d \in DOMAIN shape |-> IndexMeant(shape, descs, idx, d, OldDims(descs)[d])]]
  BY Zenon DEF Meaning, ExtentMeant, IndexMeant

(* Which argument is about which dimension. *)
LEMMA Dims ==
  ASSUME NEW descs, Len(descs) \in Nat, DOMAIN descs = 1..Len(descs)
  PROVE  /\ NewDim(descs, 0) = 0 /\ OldDim(descs, 0) = 0
         /\ \A i \in 0..Len(descs) : NewDim(descs, i) \in Nat /\ OldDim(descs, i) \in Nat
         /\ \A i \in 1..Len(descs) :
              /\ NewDim(descs, i) = NewDim(descs, i - 1) + (IF descs[i].type # "VALUE" THEN 1 ELSE 0)
              /\ OldDim(descs, i) = OldDim(descs, i - 1) + (IF descs[i].type # "NEWAXIS" THEN 1 ELSE 0)
         /\ DOMAIN NewDims(descs) = 1..NewDim(descs, Len(descs))
         /\ \A k \in 1..NewDim(descs, Len(descs)) :
              /\ NewDims(descs)[k] \in 1..Len(descs) /\ descs[NewDims(descs)[k]].type # "VALUE"
              /\ NewDim(descs, NewDims(descs)[k]) = k
         /\ \A i \in 1..Len(descs) : descs[i].type # "VALUE" =>
              NewDim(descs, i) \in 1..NewDim(descs, Len(descs)) /\ NewDims(descs)[NewDim(descs, i)] = i
         /\ \A d \in 1..OldDim(descs, Len(descs)) :
              /\ OldDims(descs)[d] \in 1..Len(descs) /\ descs[OldDims(descs)[d]].type # "NEWAXIS"
              /\ OldDim(descs, OldDims(descs)[d]) = d
         /\ \A i \in 1..Len(descs) : descs[i].type # "NEWAXIS" =>
              OldDim(descs, i) \in 1..OldDim(descs, Len(descs)) /\ OldDims(descs)[OldDim(descs, i)] = i
<1>. DEFINE n == Len(descs)
            Made == {j \in 1..n : descs[j].type # "VALUE"}
            Kept == {j \in 1..n : descs[j].type # "NEWAXIS"}
<1>1. ASSUME NEW i \in 0..n PROVE NewDim(descs, i) = Count(Made, i) /\ OldDim(descs, i) = Count(Kept, i)
  <2>1. /\ {j \in 1..i : descs[j].type # "VALUE"} = Made \cap (1..i)
        /\ {j \in 1..i : descs[j].type # "NEWAXIS"} = Kept \cap (1..i)
    OBVIOUS
  <2>. HIDE DEF Made, Kept
  <2>. QED  BY <2>1 DEF NewDim, OldDim, Count
<1>2. \A i \in 1..n : (i \in Made <=> descs[i].type # "VALUE") /\ (i \in Kept <=> descs[i].type # "NEWAXIS")
  OBVIOUS
<1>. HIDE DEF Made, Kept
<1>3. NewDim(descs, 0) = 0 /\ OldDim(descs, 0) = 0
  <2>1. 0 \in 0..n
    OBVIOUS
  <2>. QED  BY <1>1, <2>1, CountRules
<1>4. \A i \in 0..n : NewDim(descs, i) \in Nat /\ OldDim(descs, i) \in Nat
  BY <1>1, CountRules
<1>5. ASSUME NEW i \in 1..n
      PROVE  /\ NewDim(descs, i) = NewDim(descs, i - 1) + (IF descs[i].type # "VALUE" THEN 1 ELSE 0)
             /\ OldDim(descs, i) = OldDim(descs, i - 1) + (IF descs[i].type # "NEWAXIS" THEN 1 ELSE 0)
  <2>1. i - 1 \in Nat /\ (i - 1) + 1 = i /\ i - 1 \in 0..n /\ i \in 0..n
    OBVIOUS
  <2>2. /\ Count(Made, i) = Count(Made, i - 1) + (IF i \in Made THEN 1 ELSE 0)
        /\ Count(Kept, i) = Count(Kept, i - 1) + (IF i \in Kept THEN 1 ELSE 0)
    <3>1. PICK j : j = i - 1
      OBVIOUS
    <3>2. j \in Nat /\ j + 1 = i
      BY <2>1, <3>1
    <3>3. /\ Count(Made, j + 1) = Count(Made, j) + (IF j + 1 \in Made THEN 1 ELSE 0)
          /\ Count(Kept, j + 1) = Count(Kept, j) + (IF j + 1 \in Kept THEN 1 ELSE 0)
      BY <3>2, CountNext
    <3>. QED  BY <3>1, <3>2, <3>3
  <2>. QED  BY <1>1, <1>2, <2>1, <2>2
<1>6. n \in 0..n
  OBVIOUS
<1>7. /\ DOMAIN NewDims(descs) = 1..NewDim(descs, n)
      /\ \A k \in 1..NewDim(descs, n) :
           NewDims(descs)[k] = CHOOSE i \in 1..n : descs[i].type # "VALUE" /\ NewDim(descs, i) = k
      /\ \A d \in 1..OldDim(descs, n) :
           OldDims(descs)[d] = CHOOSE i \in 1..n : descs[i].type # "NEWAXIS" /\ OldDim(descs, i) = d
  BY DEF NewDims, OldDims
<1>8. ASSUME NEW k \in 1..NewDim(descs, n)
      PROVE  \E i \in 1..n : descs[i].type # "VALUE" /\ NewDim(descs, i) = k
  <2>1. k \in 1..Count(Made, n)
    BY <1>1, <1>6
  <2>2. PICK i \in 1..n : i \in Made /\ Count(Made, i) = k
    BY <2>1, CountReaches
  <2>. QED  BY <1>1, <1>2, <2>2
<1>9. ASSUME NEW k \in 1..OldDim(descs, n)
      PROVE  \E i \in 1..n : descs[i].type # "NEWAXIS" /\ OldDim(descs, i) = k
  <2>1. k \in 1..Count(Kept, n)
    BY <1>1, <1>6
  <2>2. PICK i \in 1..n : i \in Kept /\ Count(Kept, i) = k
    BY <2>1, CountReaches
  <2>. QED  BY <1>1, <1>2, <2>2
<1>10. ASSUME NEW k \in 1..NewDim(descs, n)
       PROVE  /\ NewDims(descs)[k] \in 1..n /\ descs[NewDims(descs)[k]].type # "VALUE"
              /\ NewDim(descs, NewDims(descs)[k]) = k
  BY <1>7, <1>8
<1>11. ASSUME NEW k \in 1..OldDim(descs, n)
       PROVE  /\ OldDims(descs)[k] \in 1..n /\ descs[OldDims(descs)[k]].type # "NEWAXIS"
              /\ OldDim(descs, OldDims(descs)[k]) = k
  BY <1>7, <1>9
<1>12. ASSUME NEW i \in 1..n, descs[i].type # "VALUE"
       PROVE  NewDim(descs, i) \in 1..NewDim(descs, n) /\ NewDims(descs)[NewDim(descs, i)] = i
  <2>1. i \in 0..n /\ i \in Made
    BY <1>2, <1>12
  <2>2. Count(Made, i) \in 1..Count(Made, n)
    BY <2>1, CountReaches
  <2>3. NewDim(descs, i) \in 1..NewDim(descs, n)
    BY <1>1, <1>6, <2>1, <2>2
  <2>4. PICK j : j = NewDims(descs)[NewDim(descs, i)]
    OBVIOUS
  <2>5. j \in 1..n /\ j \in Made /\ j \in 0..n /\ NewDim(descs, j) = NewDim(descs, i)
    BY <1>2, <1>10, <2>3, <2>4
  <2>6. Count(Made, i) = Count(Made, j)
    BY <1>1, <2>1, <2>5
  <2>7. i = j
    BY <2>1, <2>5, <2>6, CountReaches
  <2>. QED  BY <2>3, <2>4, <2>7
<1>13. ASSUME NEW i \in 1..n, descs[i].type # "NEWAXIS"
       PROVE  OldDim(descs, i) \in 1..OldDim(descs, n) /\ OldDims(descs)[OldDim(descs, i)] = i
  <2>1. i \in 0..n /\ i \in Kept
    BY <1>2, <1>13
  <2>2. Count(Kept, i) \in 1..Count(Kept, n)
    BY <2>1, CountReaches
  <2>3. OldDim(descs, i) \in 1..OldDim(descs, n)
    BY <1>1, <1>6, <2>1, <2>2
  <2>4. PICK j : j = OldDims(descs)[OldDim(descs, i)]
    OBVIOUS
  <2>5. j \in 1..n /\ j \in Kept /\ j \in 0..n /\ OldDim(descs, j) = OldDim(descs, i)
    BY <1>2, <1>11, <2>3, <2>4
  <2>6. Count(Kept, i) = Count(Kept, j)
    BY <1>1, <2>1, <2>5
  <2>7. i = j
    BY <2>1, <2>5, <2>6, CountReaches
  <2>. QED  BY <2>3, <2>4, <2>7
<1>. QED  BY <1>3, <1>4, <1>5, <1>7, <1>10, <1>11, <1>12, <1>13

LEMMA ViewParts ==
  ASSUME NEW e, WellFormed(e), NEW descs, Fitting(descs, e.shape), NEW i \in 1..Len(descs)
  PROVE  /\ descs[i].type # "NEWAXIS" =>
              /\ OldDim(descs, i) \in 1..Len(e.shape)
              /\ e.shape[OldDim(descs, i)] \in Nat /\ e.strides[OldDim(descs, i)] \in Int
         /\ OffsetBy(e, descs, i) \in Int
         /\ descs[i].type # "VALUE" => ExtentMade(e, descs, i) \in Nat /\ StrideMade(e, descs, i) \in Int
         /\ Careful /\ descs[i].type # "VALUE" => ExtentMeant(e.shape, descs, i) = ExtentMade(e, descs, i)
<1>0. /\ Len(descs) \in Nat /\ DOMAIN descs = 1..Len(descs) /\ OldDim(descs, Len(descs)) = Len(e.shape)
      /\ descs[i].type \in {"ALL", "NEWAXIS", "VALUE", "SLICE"}
      /\ e.shape \in Seq(Nat) /\ e.strides \in Seq(Int) /\ Len(e.strides) = Len(e.shape)
  BY DEF Fitting, WellFormed, Shape
<1>1. descs[i].type # "NEWAXIS" => OldDim(descs, i) \in 1..Len(e.shape)
  BY <1>0, Dims
<1>2. PICK d, n, s : d = OldDim(descs, i) /\ n = e.shape[d] /\ s = e.strides[d]
  OBVIOUS
<1>3. descs[i].type # "NEWAXIS" => n \in Nat /\ s \in Int
  BY <1>0, <1>1, <1>2
<1>4. \A a, b \in Int : a * b \in Int
  OBVIOUS
<1>5. CASE descs[i].type = "VALUE"
  <2>1. descs[i].value \in Int
    <3>1. descs[i].value \in 0..(n - 1)
      BY <1>2, <1>5 DEF Fitting
    <3>. QED  BY <1>3, <1>5, <3>1
  <2>2. OffsetBy(e, descs, i) = descs[i].value * s
    BY <1>2, <1>5 DEF OffsetBy
  <2>3. s \in Int
    BY <1>3, <1>5
  <2>. QED  BY <1>1, <1>2, <1>3, <1>4, <1>5, <2>1, <2>2, <2>3
<1>6. CASE descs[i].type = "SLICE"
  <2>1. /\ descs[i].slice \in Slices
        /\ ~ SliceThrows(Normalized(descs[i].slice, n), n)
        /\ Careful => InRange(descs[i].slice, n)
    BY <1>2, <1>6 DEF Fitting
  <2>2. PICK t : t = Normalized(descs[i].slice, n)
    OBVIOUS
  <2>3. t.start \in Int /\ t.step \in Int /\ SliceExtent(t) \in Nat /\ n \in Nat /\ s \in Int
    BY <1>3, <1>6, <2>1, <2>2, SliceOK
  <2>4. /\ OffsetBy(e, descs, i) = t.start * s /\ StrideMade(e, descs, i) = s * t.step
        /\ ExtentMade(e, descs, i) = SliceExtent(t)
        /\ ExtentMeant(e.shape, descs, i) = Len(Selected(descs[i].slice, n))
    BY <1>2, <1>6, <2>2 DEF OffsetBy, StrideMade, ExtentMade, ExtentMeant
  <2>5. Careful => Len(Selected(descs[i].slice, n)) = SliceExtent(t)
    BY <2>1, <2>2, <2>3, SelectedIs
  <2>. QED  BY <1>1, <1>2, <1>3, <1>4, <1>6, <2>3, <2>4, <2>5
<1>7. CASE descs[i].type = "NEWAXIS"
  BY <1>7 DEF OffsetBy, StrideMade, ExtentMade, ExtentMeant
<1>8. CASE descs[i].type = "ALL"
  BY <1>1, <1>2, <1>3, <1>8 DEF OffsetBy, StrideMade, ExtentMade, ExtentMeant
<1>. QED  BY <1>0, <1>5, <1>6, <1>7, <1>8

-----------------------------------------------------------------------------
(* What a view reaches *)

ViewShape(e, descs) ==
  [k \in 1..NewDim(descs, Len(descs)) |-> ExtentMade(e, descs, NewDims(descs)[k])]

ViewStrides(e, descs) ==
  [k \in 1..NewDim(descs, Len(descs)) |-> StrideMade(e, descs, NewDims(descs)[k])]

OldIndex(shape, descs, idx) ==
  [d \in DOMAIN shape |-> IndexMeant(shape, descs, idx, d, OldDims(descs)[d])]

LEMMA ViewShapeOK ==
  ASSUME NEW e, WellFormed(e), NEW descs, Fitting(descs, e.shape)
  PROVE  /\ ViewShape(e, descs) \in Shape /\ Len(ViewShape(e, descs)) = NewDim(descs, Len(descs))
         /\ ViewStrides(e, descs) \in Seq(Int) /\ Len(ViewStrides(e, descs)) = NewDim(descs, Len(descs))
<1>. DEFINE m == NewDim(descs, Len(descs))
<1>1. Len(descs) \in Nat /\ DOMAIN descs = 1..Len(descs)
  BY DEF Fitting
<1>2. m \in Nat
  <2>1. Len(descs) \in 0..Len(descs)
    BY <1>1
  <2>. QED  BY <1>1, <2>1, Dims
<1>3. \A k \in 1..m : ExtentMade(e, descs, NewDims(descs)[k]) \in Nat /\ StrideMade(e, descs, NewDims(descs)[k]) \in Int
  <2>1. ASSUME NEW k \in 1..m
        PROVE  ExtentMade(e, descs, NewDims(descs)[k]) \in Nat /\ StrideMade(e, descs, NewDims(descs)[k]) \in Int
    <3>1. PICK i : i = NewDims(descs)[k]
      OBVIOUS
    <3>2. i \in 1..Len(descs) /\ descs[i].type # "VALUE"
      BY <1>1, <2>1, <3>1, Dims
    <3>. QED  BY <3>1, <3>2, ViewParts
  <2>. QED  BY <2>1
<1>. HIDE DEF m
<1>4. PICK sh, st : /\ sh = [k \in 1..m |-> ExtentMade(e, descs, NewDims(descs)[k])]
                    /\ st = [k \in 1..m |-> StrideMade(e, descs, NewDims(descs)[k])]
  OBVIOUS
<1>5. sh \in Seq(Nat) /\ Len(sh) = m /\ st \in Seq(Int) /\ Len(st) = m
  BY <1>2, <1>3, <1>4
<1>6. ViewShape(e, descs) = sh /\ ViewStrides(e, descs) = st
  BY <1>4, Zenon DEF ViewShape, ViewStrides, m
<1>. QED  BY <1>5, <1>6 DEF Shape, m

LEMMA ScaledSum ==
  ASSUME NEW s \in Int, NEW a \in Int, NEW w \in Int, NEW x \in Int
  PROVE  a * s + (s * w) * x = s * (a + x * w)
<1>1. x * w \in Int /\ s * w \in Int
  OBVIOUS
<1>2. s * (a + x * w) = s * a + s * (x * w)
  <2>1. PICK y \in Int : y = x * w
    BY <1>1
  <2>2. s * (a + y) = s * a + s * y
    OBVIOUS
  <2>. QED  BY <2>1, <2>2
<1>3. s * (x * w) = (s * w) * x
  OBVIOUS
<1>4. PICK y, z, u : y = s * a /\ z = s * (x * w) /\ u = (s * w) * x
  OBVIOUS
<1>5. a * s = s * a
  OBVIOUS
<1>. QED  BY <1>2, <1>3, <1>5

(* One argument: the offset and the stride it contributes reach the        *)
(* element that it selects in its dimension.                               *)
LEMMA ArgumentOK ==
  ASSUME Careful, NEW e, WellFormed(e), NEW descs, Fitting(descs, e.shape),
         NEW idx \in Indices(ViewShape(e, descs)), NEW i \in 1..Len(descs)
  PROVE  /\ descs[i].type # "VALUE" => idx[NewDim(descs, i)] \in Nat
         /\ descs[i].type # "NEWAXIS" =>
              /\ IndexMeant(e.shape, descs, idx, OldDim(descs, i), i) \in Nat
              /\ IndexMeant(e.shape, descs, idx, OldDim(descs, i), i) < e.shape[OldDim(descs, i)]
         /\ OffsetBy(e, descs, i)
              + (IF descs[i].type = "VALUE" THEN 0 ELSE StrideMade(e, descs, i) * idx[NewDim(descs, i)])
            = IF descs[i].type = "NEWAXIS" THEN 0
              ELSE e.strides[OldDim(descs, i)] * IndexMeant(e.shape, descs, idx, OldDim(descs, i), i)
<1>1. Len(descs) \in Nat /\ DOMAIN descs = 1..Len(descs) /\ descs[i].type \in {"ALL", "NEWAXIS", "VALUE", "SLICE"}
  BY DEF Fitting
<1>2. PICK d, n, s, x, j :
        /\ d = OldDim(descs, i) /\ n = e.shape[d] /\ s = e.strides[d]
        /\ x = idx[NewDim(descs, i)] /\ j = IndexMeant(e.shape, descs, idx, d, i)
  OBVIOUS
<1>3. descs[i].type # "NEWAXIS" => n \in Nat /\ s \in Int
  BY <1>2, ViewParts
<1>4. descs[i].type # "VALUE" => x \in Nat /\ x < ExtentMade(e, descs, i) /\ ExtentMade(e, descs, i) \in Nat
  <2>1. SUFFICES ASSUME descs[i].type # "VALUE" PROVE x \in Nat /\ x < ExtentMade(e, descs, i) /\ ExtentMade(e, descs, i) \in Nat
    OBVIOUS
  <2>2. NewDim(descs, i) \in 1..NewDim(descs, Len(descs)) /\ NewDims(descs)[NewDim(descs, i)] = i
    BY <1>1, <2>1, Dims
  <2>3. ViewShape(e, descs)[NewDim(descs, i)] = ExtentMade(e, descs, i)
    BY <2>2 DEF ViewShape
  <2>4. /\ ViewShape(e, descs) \in Shape /\ Len(ViewShape(e, descs)) = NewDim(descs, Len(descs))
    BY ViewShapeOK
  <2>5. idx \in Seq(Nat) /\ Len(idx) = NewDim(descs, Len(descs))
        /\ \A k \in 1..NewDim(descs, Len(descs)) : idx[k] < ViewShape(e, descs)[k]
    BY <2>4, InIndices
  <2>6. x \in Nat
    BY <1>2, <2>2, <2>5
  <2>. QED  BY <1>2, <2>1, <2>2, <2>3, <2>5, <2>6, ViewParts
<1>5. CASE descs[i].type = "VALUE"
  <2>1. j = descs[i].value /\ OffsetBy(e, descs, i) = descs[i].value * s
    BY <1>2, <1>5 DEF IndexMeant, OffsetBy
  <2>2. j \in 0..(n - 1)
    BY <1>2, <1>5, <2>1 DEF Fitting
  <2>3. j \in Nat /\ j < n /\ n \in Nat /\ s \in Int
    BY <1>3, <1>5, <2>2
  <2>4. j * s + 0 = s * j
    BY <2>3
  <2>. QED  BY <1>2, <1>5, <2>1, <2>3, <2>4
<1>6. CASE descs[i].type = "SLICE"
  <2>1. /\ descs[i].slice \in Slices
        /\ ~ SliceThrows(Normalized(descs[i].slice, n), n)
        /\ InRange(descs[i].slice, n)
    BY <1>2, <1>6 DEF Fitting
  <2>2. PICK t : t = Normalized(descs[i].slice, n)
    OBVIOUS
  <2>3. t.start \in Int /\ t.step \in Int /\ SliceExtent(t) \in Nat /\ n \in Nat /\ s \in Int
    BY <1>3, <1>6, <2>1, <2>2, SliceOK
  <2>4. /\ OffsetBy(e, descs, i) = t.start * s /\ StrideMade(e, descs, i) = s * t.step
        /\ ExtentMade(e, descs, i) = SliceExtent(t)
        /\ j = Selected(descs[i].slice, n)[x + 1]
    BY <1>2, <1>6, <2>2 DEF OffsetBy, StrideMade, ExtentMade, IndexMeant
  <2>5. PICK y : y = x + 1
    OBVIOUS
  <2>6. x \in Nat /\ y \in 1..SliceExtent(t) /\ y - 1 = x
    BY <1>4, <1>6, <2>3, <2>4, <2>5
  <2>7. /\ Selected(descs[i].slice, n)[y] = t.start + (y - 1) * t.step
        /\ Selected(descs[i].slice, n)[y] \in 0..(n - 1)
    BY <2>1, <2>2, <2>3, <2>6, SelectedIs
  <2>8. j = t.start + x * t.step /\ j \in 0..(n - 1)
    BY <2>4, <2>5, <2>6, <2>7
  <2>9. t.start * s + (s * t.step) * x = s * j
    <3>1. PICK a, w : a = t.start /\ w = t.step
      OBVIOUS
    <3>2. a \in Int /\ w \in Int /\ x \in Int /\ s \in Int
      BY <2>3, <2>6, <3>1
    <3>3. a * s + (s * w) * x = s * (a + x * w)
      BY <3>2, ScaledSum
    <3>. QED  BY <2>8, <3>1, <3>3
  <2>10. j \in Nat /\ j < n
    BY <2>3, <2>8
  <2>. QED  BY <1>2, <1>6, <2>4, <2>6, <2>9, <2>10
<1>7. CASE descs[i].type = "NEWAXIS"
  <2>1. OffsetBy(e, descs, i) = 0 /\ StrideMade(e, descs, i) = 0
    BY <1>7 DEF OffsetBy, StrideMade
  <2>2. x \in Nat
    BY <1>4, <1>7
  <2>3. 0 + 0 * x = 0
    BY <2>2
  <2>. QED  BY <1>2, <1>7, <2>1, <2>2, <2>3
<1>8. CASE descs[i].type = "ALL"
  <2>1. OffsetBy(e, descs, i) = 0 /\ StrideMade(e, descs, i) = s /\ ExtentMade(e, descs, i) = n /\ j = x
    BY <1>2, <1>8 DEF OffsetBy, StrideMade, ExtentMade, IndexMeant
  <2>2. x \in Nat /\ x < n /\ s \in Int /\ n \in Nat
    BY <1>3, <1>4, <1>8, <2>1
  <2>3. 0 + s * x = s * x
    <3>1. s * x \in Int
      BY <2>2
    <3>. QED  BY <3>1
  <2>. QED  BY <1>2, <1>8, <2>1, <2>2, <2>3
<1>. QED  BY <1>1, <1>5, <1>6, <1>7, <1>8

LEMMA ViewIndexOK ==
  ASSUME Careful, NEW e, WellFormed(e), NEW descs, Fitting(descs, e.shape),
         NEW idx \in Indices(ViewShape(e, descs))
  PROVE  /\ OldIndex(e.shape, descs, idx) \in Indices(e.shape)
         /\ CalcIndex(ViewStrides(e, descs), idx) \in Int
         /\ Total([i \in DOMAIN descs |-> OffsetBy(e, descs, i)]) \in Int
         /\ Total([i \in DOMAIN descs |-> OffsetBy(e, descs, i)]) + CalcIndex(ViewStrides(e, descs), idx)
              = CalcIndex(e.strides, OldIndex(e.shape, descs, idx))
<1>. DEFINE n == Len(descs)
            m == NewDim(descs, n)
            r == Len(e.shape)
            jdx == OldIndex(e.shape, descs, idx)
            st == ViewStrides(e, descs)
<1>1. /\ n \in Nat /\ DOMAIN descs = 1..n /\ OldDim(descs, n) = r
      /\ e.shape \in Shape /\ r \in Nat /\ DOMAIN e.shape = 1..r
      /\ e.strides \in Seq(Int) /\ Len(e.strides) = r /\ DOMAIN e.strides = 1..r
  BY DEF Fitting, WellFormed, Shape
<1>2. /\ ViewShape(e, descs) \in Shape /\ Len(ViewShape(e, descs)) = m
      /\ st \in Seq(Int) /\ Len(st) = m /\ m \in Nat /\ DOMAIN st = 1..m
  BY ViewShapeOK
<1>3. idx \in Seq(Nat) /\ Len(idx) = m /\ \A k \in 1..m : idx[k] \in Nat
  BY <1>2, InIndices
<1>4. \A d \in 1..r : /\ OldDims(descs)[d] \in 1..n /\ descs[OldDims(descs)[d]].type # "NEWAXIS"
                      /\ OldDim(descs, OldDims(descs)[d]) = d
  BY <1>1, Dims
<1>5. \A d \in 1..r : jdx[d] = IndexMeant(e.shape, descs, idx, d, OldDims(descs)[d])
  BY <1>1 DEF OldIndex
<1>. HIDE DEF jdx, st
<1>6. \A d \in 1..r : jdx[d] \in Nat /\ jdx[d] < e.shape[d]
  <2>1. ASSUME NEW d \in 1..r PROVE jdx[d] \in Nat /\ jdx[d] < e.shape[d]
    <3>1. PICK i : i = OldDims(descs)[d]
      OBVIOUS
    <3>2. i \in 1..n /\ descs[i].type # "NEWAXIS" /\ OldDim(descs, i) = d
      BY <1>4, <3>1
    <3>3. /\ IndexMeant(e.shape, descs, idx, d, i) \in Nat
          /\ IndexMeant(e.shape, descs, idx, d, i) < e.shape[d]
      BY <3>2, ArgumentOK
    <3>. QED  BY <1>5, <3>1, <3>3
  <2>. QED  BY <2>1
<1>7. jdx \in Indices(e.shape)
  <2>1. jdx = [d \in DOMAIN e.shape |-> jdx[d]]
    BY <1>1 DEF jdx, OldIndex
  <2>. QED  BY <1>1, <1>6, <2>1, IsIndex
<1>8. PICK so, sn, sd : /\ so = [i \in 1..n |-> OffsetBy(e, descs, i)]
                        /\ sn = [k \in 1..m |-> st[k] * idx[k]]
                        /\ sd = [d \in 1..r |-> e.strides[d] * jdx[d]]
  OBVIOUS
<1>9. so \in Seq(Int) /\ Len(so) = n /\ sn \in Seq(Int) /\ Len(sn) = m /\ sd \in Seq(Int) /\ Len(sd) = r
  <2>0. \A a, b \in Int : a * b \in Int
    OBVIOUS
  <2>1. \A i \in 1..n : OffsetBy(e, descs, i) \in Int
    BY ViewParts
  <2>2. \A k \in 1..m : st[k] * idx[k] \in Int
    BY <1>2, <1>3, <2>0
  <2>3. \A d \in 1..r : e.strides[d] * jdx[d] \in Int
    BY <1>1, <1>6, <2>0
  <2>. HIDE DEF n, m, r
  <2>4. so \in Seq(Int) /\ Len(so) = n
    BY <1>1, <1>8, <2>1
  <2>5. sn \in Seq(Int) /\ Len(sn) = m
    BY <1>2, <1>8, <2>2
  <2>6. sd \in Seq(Int) /\ Len(sd) = r
    BY <1>1, <1>8, <2>3
  <2>. QED  BY <2>4, <2>5, <2>6
<1>10. PICK ho : Partial(ho, so) /\ Total(so) = ho[Len(so)] /\ \A d \in 0..Len(so) : ho[d] \in Int
  BY <1>9, TotalPartial
<1>11. PICK hn : Partial(hn, sn) /\ Total(sn) = hn[Len(sn)] /\ \A d \in 0..Len(sn) : hn[d] \in Int
  BY <1>9, TotalPartial
<1>12. PICK hd : Partial(hd, sd) /\ Total(sd) = hd[Len(sd)] /\ \A d \in 0..Len(sd) : hd[d] \in Int
  BY <1>9, TotalPartial
<1>13. /\ NewDim(descs, 0) = 0 /\ OldDim(descs, 0) = 0
       /\ \A i \in 0..n : NewDim(descs, i) \in Nat /\ OldDim(descs, i) \in Nat
       /\ \A i \in 1..n :
            /\ NewDim(descs, i) = NewDim(descs, i - 1) + (IF descs[i].type # "VALUE" THEN 1 ELSE 0)
            /\ OldDim(descs, i) = OldDim(descs, i - 1) + (IF descs[i].type # "NEWAXIS" THEN 1 ELSE 0)
            /\ descs[i].type # "VALUE" => NewDim(descs, i) \in 1..m /\ NewDims(descs)[NewDim(descs, i)] = i
            /\ descs[i].type # "NEWAXIS" => OldDim(descs, i) \in 1..r /\ OldDims(descs)[OldDim(descs, i)] = i
  BY <1>1, Dims
<1>. DEFINE S == {i \in Nat : i <= n => /\ ho[i] + hn[NewDim(descs, i)] = hd[OldDim(descs, i)]
                                        /\ ho[i] \in Int /\ hn[NewDim(descs, i)] \in Int}
<1>. HIDE DEF m, r, n
<1>14. 0 \in S
  <2>1. ho[0] = 0 /\ hn[0] = 0 /\ hd[0] = 0
    BY <1>10, <1>11, <1>12 DEF Partial
  <2>. QED  BY <1>13, <2>1
<1>15. ASSUME NEW i \in Nat, i \in S PROVE i + 1 \in S
  <2>1. SUFFICES ASSUME i + 1 <= n
                 PROVE  /\ ho[i + 1] + hn[NewDim(descs, i + 1)] = hd[OldDim(descs, i + 1)]
                        /\ ho[i + 1] \in Int /\ hn[NewDim(descs, i + 1)] \in Int
    OBVIOUS
  <2>2. PICK j : j = i + 1
    OBVIOUS
  <2>3. j \in 1..n /\ j - 1 = i /\ i \in 0..n /\ j \in 0..n
    BY <1>1, <2>1, <2>2
  <2>4. /\ ho[i] + hn[NewDim(descs, i)] = hd[OldDim(descs, i)]
        /\ ho[i] \in Int /\ hn[NewDim(descs, i)] \in Int
    <3>1. i <= n /\ i \in S
      BY <1>1, <1>15, <2>1
    <3>. HIDE DEF n
    <3>. QED  BY <3>1, Zenon
  <2>5. ho[j] = ho[i] + OffsetBy(e, descs, j) /\ OffsetBy(e, descs, j) \in Int
    <3>1. so[j] = OffsetBy(e, descs, j)
      BY <1>8, <2>3
    <3>2. ho[j] = ho[i] + so[j]
      BY <1>9, <1>10, <2>3 DEF Partial
    <3>. QED  BY <2>3, <3>1, <3>2, ViewParts DEF n
  <2>6. PICK a, b, c : /\ a = OffsetBy(e, descs, j)
                       /\ b = IF descs[j].type = "VALUE" THEN 0 ELSE StrideMade(e, descs, j) * idx[NewDim(descs, j)]
                       /\ c = IF descs[j].type = "NEWAXIS" THEN 0
                              ELSE e.strides[OldDim(descs, j)] * IndexMeant(e.shape, descs, idx, OldDim(descs, j), j)
    OBVIOUS
  <2>7. a + b = c
    <3>1. OffsetBy(e, descs, j)
              + (IF descs[j].type = "VALUE" THEN 0 ELSE StrideMade(e, descs, j) * idx[NewDim(descs, j)])
            = IF descs[j].type = "NEWAXIS" THEN 0
              ELSE e.strides[OldDim(descs, j)] * IndexMeant(e.shape, descs, idx, OldDim(descs, j), j)
      BY <2>3, ArgumentOK DEF n
    <3>. QED  BY <2>6, <3>1, Zenon
  <2>8. hn[NewDim(descs, j)] = hn[NewDim(descs, i)] + b /\ b \in Int
    <3>1. CASE descs[j].type = "VALUE"
      BY <1>13, <2>3, <2>4, <2>6, <3>1
    <3>2. CASE descs[j].type # "VALUE"
      <4>1. PICK k : k = NewDim(descs, j)
        OBVIOUS
      <4>2. k \in 1..m /\ k - 1 = NewDim(descs, i) /\ NewDims(descs)[k] = j
        BY <1>13, <2>3, <3>2, <4>1
      <4>3. st[k] = StrideMade(e, descs, j)
        BY <4>2 DEF st, ViewStrides, m, n
      <4>4. sn[k] = b /\ sn[k] \in Int
        <5>1. sn[k] = st[k] * idx[k]
          BY <1>8, <4>2
        <5>2. sn[k] \in Int
          BY <1>9, <4>2
        <5>. QED  BY <2>6, <3>2, <4>1, <4>3, <5>1, <5>2
      <4>5. hn[k] = hn[k - 1] + sn[k]
        BY <1>9, <1>11, <4>2 DEF Partial
      <4>. QED  BY <4>1, <4>2, <4>4, <4>5
    <3>. QED  BY <3>1, <3>2
  <2>9. hd[OldDim(descs, j)] = hd[OldDim(descs, i)] + c /\ c \in Int
    <3>1. CASE descs[j].type = "NEWAXIS"
      <4>1. OldDim(descs, j) = OldDim(descs, i)
        BY <1>13, <2>3, <3>1
      <4>. QED  BY <2>4, <2>6, <3>1, <4>1
    <3>2. CASE descs[j].type # "NEWAXIS"
      <4>1. PICK k : k = OldDim(descs, j)
        OBVIOUS
      <4>2. k \in 1..r /\ k - 1 = OldDim(descs, i) /\ OldDims(descs)[k] = j
        BY <1>13, <2>3, <3>2, <4>1
      <4>3. jdx[k] = IndexMeant(e.shape, descs, idx, k, j)
        BY <1>5, <4>2 DEF r
      <4>4. sd[k] = c /\ sd[k] \in Int
        <5>1. sd[k] = e.strides[k] * jdx[k]
          BY <1>8, <4>2
        <5>2. sd[k] \in Int
          BY <1>9, <4>2
        <5>. QED  BY <2>6, <3>2, <4>1, <4>3, <5>1, <5>2
      <4>5. hd[k] = hd[k - 1] + sd[k]
        BY <1>9, <1>12, <4>2 DEF Partial
      <4>. QED  BY <4>1, <4>2, <4>4, <4>5
    <3>. QED  BY <3>1, <3>2
  <2>10. ho[j] + hn[NewDim(descs, j)] = hd[OldDim(descs, j)] /\ ho[j] \in Int /\ hn[NewDim(descs, j)] \in Int
    <3>1. PICK x, y, z : x = ho[i] /\ y = hn[NewDim(descs, i)] /\ z = hd[OldDim(descs, i)]
      OBVIOUS
    <3>2. x \in Int /\ y \in Int /\ x + y = z /\ a \in Int /\ b \in Int
      BY <2>4, <2>5, <2>6, <2>8, <3>1
    <3>3. ho[j] = x + a /\ hn[NewDim(descs, j)] = y + b /\ hd[OldDim(descs, j)] = z + c
      BY <2>5, <2>6, <2>8, <2>9, <3>1
    <3>. QED  BY <2>7, <3>2, <3>3
  <2>. QED  BY <2>2, <2>10
<1>16. /\ ho[n] + hn[NewDim(descs, n)] = hd[OldDim(descs, n)]
       /\ ho[n] \in Int /\ hn[NewDim(descs, n)] \in Int
  <2>. HIDE DEF S
  <2>1. Nat \subseteq S
    BY <1>14, <1>15, Sums!Induction, Zenon
  <2>2. n \in S
    BY <1>1, <2>1
  <2>. USE DEF S
  <2>. QED  BY <1>1, <2>2
<1>17. Total(so) + Total(sn) = Total(sd) /\ Total(so) \in Int /\ Total(sn) \in Int
  <2>1. NewDim(descs, n) = m /\ OldDim(descs, n) = r
    BY <1>1 DEF m
  <2>. QED  BY <1>1, <1>9, <1>10, <1>11, <1>12, <1>16, <2>1
<1>18. /\ CalcIndex(st, idx) = Total(sn) /\ CalcIndex(e.strides, jdx) = Total(sd)
       /\ Total([i \in DOMAIN descs |-> OffsetBy(e, descs, i)]) = Total(so)
  <2>1. [d \in DOMAIN st |-> st[d] * idx[d]] = sn
    BY <1>2, <1>8
  <2>2. [d \in DOMAIN e.strides |-> e.strides[d] * jdx[d]] = sd
    BY <1>1, <1>8
  <2>3. [i \in DOMAIN descs |-> OffsetBy(e, descs, i)] = so
    BY <1>1, <1>8
  <2>. QED  BY <2>1, <2>2, <2>3, Zenon DEF CalcIndex
<1>. QED  BY <1>7, <1>17, <1>18 DEF jdx, st

(* A view gives the elements its arguments mean. *)
LEMMA ViewOK ==
  ASSUME NEW e, WellFormed(e), NEW descs, Fitting(descs, e.shape)
  PROVE  /\ WellFormed(ViewOf(e, descs))
         /\ \A el : Careful /\ Gives(e, el) =>
              Gives(ViewOf(e, descs),
                    [idx \in DOMAIN Meaning(e.shape, descs) |-> el[Meaning(e.shape, descs)[idx]]])
<1>. DEFINE m == NewDim(descs, Len(descs))
            off == Total([i \in DOMAIN descs |-> OffsetBy(e, descs, i)])
            sh == ViewShape(e, descs)
            st == ViewStrides(e, descs)
            v == GView(e, off, sh, st)
<1>1. Len(descs) \in Nat /\ DOMAIN descs = 1..Len(descs)
  BY DEF Fitting
<1>2. DOMAIN NewDims(descs) = 1..m
  BY <1>1, Dims
<1>3. ViewOf(e, descs) = v
  <2>1. ViewOf(e, descs) =
           GView(e, off,
                 [k \in DOMAIN NewDims(descs) |-> ExtentMade(e, descs, NewDims(descs)[k])],
                 [k \in DOMAIN NewDims(descs) |-> StrideMade(e, descs, NewDims(descs)[k])])
    BY ViewOfIs, Zenon
  <2>. QED  BY <1>2, <2>1, Zenon DEF ViewShape, ViewStrides
<1>4. sh \in Shape /\ Len(sh) = m /\ st \in Seq(Int) /\ Len(st) = m
  BY ViewShapeOK
<1>5. off \in Int
  <2>1. \A i \in 1..Len(descs) : OffsetBy(e, descs, i) \in Int
    BY ViewParts
  <2>2. PICK s : s = [i \in DOMAIN descs |-> OffsetBy(e, descs, i)]
    OBVIOUS
  <2>3. s \in Seq(Int)
    BY <1>1, <2>1, <2>2
  <2>. QED  BY <2>2, <2>3, TotalIn
<1>. HIDE DEF off, sh, st, v
<1>6. /\ WellFormed(v) /\ v.shape = sh /\ v.strides = st
      /\ \A idx : CalcIndex(st, idx) \in Int /\ off + CalcIndex(st, idx) \in DOMAIN e.data =>
              InMemory(v, idx) /\ Element(v, idx) = e.data[off + CalcIndex(st, idx)]
  <2>1. Len(st) = Len(sh)
    BY <1>4
  <2>2. /\ WellFormed(GView(e, off, sh, st))
        /\ GView(e, off, sh, st).shape = sh /\ GView(e, off, sh, st).strides = st
        /\ \A idx : CalcIndex(st, idx) \in Int /\ off + CalcIndex(st, idx) \in DOMAIN e.data =>
              /\ InMemory(GView(e, off, sh, st), idx)
              /\ Element(GView(e, off, sh, st), idx) = e.data[off + CalcIndex(st, idx)]
    <3>1. PICK o, a, b : o = off /\ a = sh /\ b = st
      OBVIOUS
    <3>2. o \in Int /\ a \in Shape /\ b \in Seq(Int) /\ Len(b) = Len(a)
      BY <1>4, <1>5, <2>1, <3>1
    <3>3. /\ WellFormed(GView(e, o, a, b))
          /\ GView(e, o, a, b).shape = a /\ GView(e, o, a, b).strides = b
          /\ \A idx : CalcIndex(b, idx) \in Int /\ o + CalcIndex(b, idx) \in DOMAIN e.data =>
                /\ InMemory(GView(e, o, a, b), idx)
                /\ Element(GView(e, o, a, b), idx) = e.data[o + CalcIndex(b, idx)]
      BY <3>2, GViewOK
    <3>. QED  BY <3>1, <3>3, Zenon
  <2>. QED  BY <2>2, Zenon DEF v
<1>7. ASSUME Careful
      PROVE  Meaning(e.shape, descs) = [idx \in Indices(sh) |-> OldIndex(e.shape, descs, idx)]
  <2>1. [k \in DOMAIN NewDims(descs) |-> ExtentMeant(e.shape, descs, NewDims(descs)[k])] = sh
    <3>1. ASSUME NEW k \in 1..m
          PROVE  ExtentMeant(e.shape, descs, NewDims(descs)[k]) = ExtentMade(e, descs, NewDims(descs)[k])
      <4>1. PICK i : i = NewDims(descs)[k]
        OBVIOUS
      <4>2. i \in 1..Len(descs) /\ descs[i].type # "VALUE"
        BY <1>1, <3>1, <4>1, Dims
      <4>. QED  BY <1>7, <4>1, <4>2, ViewParts
    <3>. QED  BY <1>2, <3>1 DEF sh, ViewShape
  <2>2. Meaning(e.shape, descs) =
           [idx \in Indices([k \in DOMAIN NewDims(descs) |-> ExtentMeant(e.shape, descs, NewDims(descs)[k])]) |->
              OldIndex(e.shape, descs, idx)]
    BY MeaningIs, Zenon DEF OldIndex
  <2>. QED  BY <2>1, <2>2
<1>8. ASSUME NEW el, Careful, Gives(e, el)
      PROVE  Gives(v, [idx \in DOMAIN Meaning(e.shape, descs) |-> el[Meaning(e.shape, descs)[idx]]])
  <2>1. PICK M : M = Meaning(e.shape, descs)
    OBVIOUS
  <2>2. M = [idx \in Indices(sh) |-> OldIndex(e.shape, descs, idx)]
    BY <1>7, <1>8, <2>1
  <2>3. ASSUME NEW idx \in Indices(sh)
        PROVE  InMemory(v, idx) /\ Element(v, idx) = el[M[idx]]
    <3>1. PICK jdx : jdx = OldIndex(e.shape, descs, idx)
      OBVIOUS
    <3>2. /\ jdx \in Indices(e.shape) /\ CalcIndex(st, idx) \in Int
          /\ off + CalcIndex(st, idx) = CalcIndex(e.strides, jdx)
      BY <1>8, <2>3, <3>1, ViewIndexOK DEF sh, st, off
    <3>3. CalcIndex(e.strides, jdx) \in DOMAIN e.data /\ e.data[CalcIndex(e.strides, jdx)] = el[jdx]
      BY <1>8, <3>2 DEF Gives, InMemory, Element
    <3>4. M[idx] = jdx
      BY <2>2, <2>3, <3>1
    <3>. QED  BY <1>6, <3>2, <3>3, <3>4
  <2>4. PICK g : g = [idx \in DOMAIN M |-> el[M[idx]]]
    OBVIOUS
  <2>5. DOMAIN g = Indices(sh) /\ \A idx \in Indices(sh) : g[idx] = el[M[idx]]
    BY <2>2, <2>4
  <2>6. Gives(v, g)
    BY <1>6, <2>3, <2>5 DEF Gives
  <2>. QED  BY <2>1, <2>4, <2>6
<1>. QED  BY <1>3, <1>6, <1>8

-----------------------------------------------------------------------------
(* The arguments of a call *)

(* With one new axis, or none (axis = 0), the dimensions are counted so. *)
LEMMA OldDimsCounted ==
  ASSUME NEW descs, Len(descs) \in Nat, DOMAIN descs = 1..Len(descs), NEW axis \in Nat,
         \A i \in 1..Len(descs) : descs[i].type = "NEWAXIS" <=> i = axis
  PROVE  \A i \in 0..Len(descs) : OldDim(descs, i) = IF axis \in 1..i THEN i - 1 ELSE i
<1>. DEFINE n == Len(descs)
            S == {i \in Nat : i <= n => OldDim(descs, i) = IF axis \in 1..i THEN i - 1 ELSE i}
<1>1. /\ OldDim(descs, 0) = 0
      /\ \A i \in 1..n : OldDim(descs, i) = OldDim(descs, i - 1) + (IF descs[i].type # "NEWAXIS" THEN 1 ELSE 0)
  BY Dims
<1>2. 0 \in S
  BY <1>1
<1>3. ASSUME NEW i \in Nat, i \in S PROVE i + 1 \in S
  <2>1. SUFFICES ASSUME i + 1 <= n PROVE OldDim(descs, i + 1) = IF axis \in 1..(i + 1) THEN i ELSE i + 1
    OBVIOUS
  <2>2. PICK j : j = i + 1
    OBVIOUS
  <2>3. j \in 1..n /\ j - 1 = i /\ i <= n
    BY <2>1, <2>2
  <2>4. OldDim(descs, j) = OldDim(descs, i) + (IF j # axis THEN 1 ELSE 0)
    BY <1>1, <2>3
  <2>5. OldDim(descs, i) = IF axis \in 1..i THEN i - 1 ELSE i
    BY <1>3, <2>3
  <2>. QED  BY <2>2, <2>4, <2>5
<1>. HIDE DEF S
<1>4. Nat \subseteq S
  BY <1>2, <1>3, Sums!Induction, Zenon
<1>. USE DEF S
<1>. QED  BY <1>4

LEMMA AskableIs ==
  ASSUME NEW n, NEW a \in Askable(n)
  PROVE  \/ a.type = "VALUE" /\ a.value \in 0..(n - 1)
         \/ /\ a.type = "SLICE" /\ a.slice \in Slices /\ ~ SliceThrows(Normalized(a.slice, n), n)
            /\ Careful => InRange(a.slice, n)
<1>1. CASE \E w \in 0..(n - 1) : a = Value(w)
  BY <1>1 DEF Value
<1>2. CASE \E s \in {x \in Slices : ~ SliceThrows(Normalized(x, n), n) /\ (Careful => InRange(x, n))} : a = SliceDesc(s)
  BY <1>2 DEF SliceDesc
<1>. QED  BY <1>1, <1>2 DEF Askable

LEMMA DescsFit ==
  ASSUME NEW shape \in Shape, NEW n \in 0..Len(shape), NEW args, NEW D, args \in [1..n -> D],
         \A d \in 1..n : args[d] \in Askable(shape[d]),
         NEW axis \in 0..(n + 1)
  PROVE  Fitting(Filled(IF axis = 0 THEN args ELSE InsertAt(args, axis, NewAxis), Len(shape)), shape)
<1>. DEFINE N == Len(shape)
            T == D \cup {NewAxis, All}
            given == IF axis = 0 THEN args ELSE InsertAt(args, axis, NewAxis)
            descs == Filled(given, N)
            G == IF axis = 0 THEN n ELSE n + 1
            L == IF axis = 0 THEN N ELSE N + 1
            Arg(i) == IF i = axis THEN NewAxis ELSE IF axis = 0 \/ i < axis THEN args[i] ELSE args[i - 1]
<1>1. N \in Nat /\ n \in Nat /\ n <= N /\ args \in Seq(T) /\ Len(args) = n /\ NewAxis \in T /\ All \in T
      /\ shape \in Seq(Nat)
  <2>1. \A d \in 1..n : args[d] \in T
    OBVIOUS
  <2>2. args = [d \in 1..n |-> args[d]]
    OBVIOUS
  <2>. QED  BY <2>1, <2>2 DEF Shape
<1>2. NewAxis.type = "NEWAXIS" /\ All.type = "ALL"
  BY DEF NewAxis, All
<1>3. \A d \in 1..n : args[d].type \in {"VALUE", "SLICE"}
  <2>1. ASSUME NEW d \in 1..n PROVE args[d].type \in {"VALUE", "SLICE"}
    BY AskableIs
  <2>. QED  BY <2>1
<1>. HIDE DEF T
<1>4. given \in Seq(T) /\ Len(given) = G /\ \A i \in 1..G : given[i] = Arg(i)
  <2>1. CASE axis = 0
    BY <1>1, <2>1
  <2>2. CASE axis # 0
    <3>1. axis \in 1..(n + 1)
      BY <1>1, <2>2
    <3>2. PICK x, y, z : x = SubSeq(args, 1, axis - 1) /\ y = <<NewAxis>> /\ z = SubSeq(args, axis, n)
      OBVIOUS
    <3>3. /\ x \in Seq(T) /\ Len(x) = axis - 1 /\ \A i \in 1..(axis - 1) : x[i] = args[i]
          /\ y \in Seq(T) /\ Len(y) = 1 /\ y[1] = NewAxis
      BY <1>1, <3>1, <3>2
    <3>4. z \in Seq(T) /\ Len(z) = n - axis + 1 /\ \A i \in 1..(n - axis + 1) : z[i] = args[axis + i - 1]
      <4>1. CASE axis = n + 1
        BY <1>1, <3>1, <3>2, <4>1
      <4>2. CASE axis # n + 1
        BY <1>1, <3>1, <3>2, <4>2
      <4>. QED  BY <4>1, <4>2
    <3>5. given = (x \o y) \o z
      BY <1>1, <2>2, <3>2 DEF InsertAt
    <3>6. /\ x \o y \in Seq(T) /\ Len(x \o y) = axis
          /\ \A i \in 1..axis : (x \o y)[i] = IF i = axis THEN NewAxis ELSE args[i]
      <4>1. /\ x \o y \in Seq(T) /\ Len(x \o y) = Len(x) + Len(y)
            /\ \A i \in 1..(Len(x) + Len(y)) : (x \o y)[i] = IF i <= Len(x) THEN x[i] ELSE y[i - Len(x)]
        BY <3>3, Joined
      <4>2. Len(x) + Len(y) = axis
        BY <3>1, <3>3
      <4>3. ASSUME NEW i \in 1..axis PROVE (x \o y)[i] = IF i = axis THEN NewAxis ELSE args[i]
        <5>1. CASE i = axis
          <6>1. i - Len(x) = 1 /\ ~ (i <= Len(x))
            BY <3>1, <3>3, <5>1
          <6>. QED  BY <3>3, <4>1, <4>2, <5>1, <6>1
        <5>2. CASE i # axis
          <6>1. i \in 1..(axis - 1) /\ i <= Len(x)
            BY <3>1, <3>3, <5>2
          <6>. QED  BY <3>3, <4>1, <4>2, <5>2, <6>1
        <5>. QED  BY <5>1, <5>2
      <4>. QED  BY <4>1, <4>2, <4>3
    <3>7. PICK xy : xy = x \o y
      OBVIOUS
    <3>8. /\ xy \o z \in Seq(T) /\ Len(xy \o z) = n + 1
          /\ \A i \in 1..(n + 1) : (xy \o z)[i] = IF i <= axis THEN xy[i] ELSE z[i - axis]
      <4>1. /\ xy \o z \in Seq(T) /\ Len(xy \o z) = Len(xy) + Len(z)
            /\ \A i \in 1..(Len(xy) + Len(z)) : (xy \o z)[i] = IF i <= Len(xy) THEN xy[i] ELSE z[i - Len(xy)]
        BY <3>4, <3>6, <3>7, Joined
      <4>2. Len(xy) = axis /\ Len(z) = n - axis + 1 /\ Len(xy) + Len(z) = n + 1
        <5>1. Len(xy) = axis
          BY <3>6, <3>7
        <5>2. Len(z) = n - axis + 1
          BY <3>4
        <5>. QED  BY <1>1, <3>1, <5>1, <5>2
      <4>. QED  BY <4>1, <4>2
    <3>9. \A i \in 1..(n + 1) : given[i] = Arg(i)
      <4>1. ASSUME NEW i \in 1..(n + 1) PROVE given[i] = Arg(i)
        <5>1. CASE i <= axis
          <6>1. given[i] = xy[i]
            BY <3>5, <3>7, <3>8, <5>1
          <6>2. i \in 1..axis
            BY <3>1, <5>1
          <6>3. xy[i] = IF i = axis THEN NewAxis ELSE args[i]
            BY <3>6, <3>7, <6>2
          <6>4. i = axis \/ i < axis
            BY <3>1, <5>1
          <6>. QED  BY <6>1, <6>3, <6>4
        <5>2. CASE i > axis
          <6>1. PICK k : k = i - axis
            OBVIOUS
          <6>2. k \in 1..(n - axis + 1) /\ axis + k - 1 = i - 1
            BY <1>1, <3>1, <5>2, <6>1
          <6>3. given[i] = z[k]
            <7>1. given = xy \o z
              BY <3>5, <3>7
            <7>2. ~ (i <= axis)
              BY <3>1, <5>2
            <7>. QED  BY <3>8, <6>1, <7>1, <7>2
          <6>4. z[k] = args[i - 1]
            BY <3>4, <6>2
          <6>5. ~ (i = axis) /\ ~ (axis = 0 \/ i < axis)
            BY <2>2, <3>1, <5>2
          <6>. QED  BY <6>3, <6>4, <6>5
        <5>. QED  BY <3>1, <5>1, <5>2
      <4>. QED  BY <4>1
    <3>. QED  BY <2>2, <3>5, <3>7, <3>8, <3>9
  <2>. QED  BY <2>1, <2>2
<1>. HIDE DEF given
<1>5. G \in Nat /\ L \in Nat /\ G <= L /\ L - G = N - n /\ axis \in 0..G
  BY <1>1
<1>6. OldDim(given, Len(given)) = n
  <2>1. \A i \in 1..Len(given) : given[i].type = "NEWAXIS" <=> i = axis
    <3>1. ASSUME NEW i \in 1..G PROVE given[i].type = "NEWAXIS" <=> i = axis
      <4>1. CASE i = axis
        BY <1>2, <1>4, <4>1
      <4>2. CASE i # axis
        <5>1. PICK d \in 1..n : given[i] = args[d]
          <6>1. CASE axis = 0 \/ i < axis
            BY <1>1, <1>4, <4>2, <6>1
          <6>2. CASE ~ (axis = 0 \/ i < axis)
            <7>1. i - 1 \in 1..n
              BY <1>1, <4>2, <6>2
            <7>. QED  BY <1>4, <4>2, <6>2, <7>1
          <6>. QED  BY <6>1, <6>2
        <5>. QED  BY <1>3, <4>2, <5>1
      <4>. QED  BY <4>1, <4>2
    <3>. QED  BY <1>4, <3>1
  <2>2. Len(given) \in Nat /\ DOMAIN given = 1..Len(given) /\ axis \in Nat /\ Len(given) \in 0..Len(given)
    BY <1>4
  <2>3. OldDim(given, Len(given)) = IF axis \in 1..Len(given) THEN Len(given) - 1 ELSE Len(given)
    BY <2>1, <2>2, OldDimsCounted
  <2>. QED  BY <1>1, <1>4, <2>3
<1>7. /\ Len(descs) = L /\ DOMAIN descs = 1..L
      /\ \A i \in 1..L : descs[i] = IF i <= G THEN Arg(i) ELSE All
  <2>1. PICK rest : rest = [i \in 1..(N - n) |-> All]
    OBVIOUS
  <2>2. rest \in Seq(T) /\ Len(rest) = N - n /\ \A i \in 1..(N - n) : rest[i] = All
    BY <1>1, <2>1
  <2>3. descs = given \o rest
    BY <1>6, <2>1 DEF Filled
  <2>4. /\ given \o rest \in Seq(T) /\ Len(given \o rest) = L
        /\ \A i \in 1..L : (given \o rest)[i] = IF i <= G THEN given[i] ELSE rest[i - G]
    <3>1. /\ given \o rest \in Seq(T) /\ Len(given \o rest) = Len(given) + Len(rest)
          /\ \A i \in 1..(Len(given) + Len(rest)) :
               (given \o rest)[i] = IF i <= Len(given) THEN given[i] ELSE rest[i - Len(given)]
      BY <1>4, <2>2, Joined
    <3>2. Len(given) = G /\ Len(given) + Len(rest) = L
      BY <1>1, <1>4, <1>5, <2>2
    <3>. HIDE DEF G, L
    <3>. QED  BY <3>1, <3>2
  <2>5. \A i \in 1..L : ~ (i <= G) => rest[i - G] = All
    BY <1>5, <2>2
  <2>. QED  BY <1>4, <2>3, <2>4, <2>5
<1>. HIDE DEF descs
<1>8. ASSUME NEW i \in 1..L
      PROVE  \/ i = axis /\ descs[i].type = "NEWAXIS"
             \/ i # axis /\ descs[i].type = "ALL"
             \/ /\ i # axis /\ IF axis \in 1..i THEN i - 1 \in 1..n /\ descs[i] = args[i - 1]
                                                ELSE i \in 1..n /\ descs[i] = args[i]
  <2>1. CASE i <= G
    <3>1. CASE i = axis
      BY <1>2, <1>7, <2>1, <3>1
    <3>2. CASE i # axis
      BY <1>1, <1>5, <1>7, <2>1, <3>2
    <3>. QED  BY <3>1, <3>2
  <2>2. CASE ~ (i <= G)
    BY <1>2, <1>5, <1>7, <2>2
  <2>. QED  BY <2>1, <2>2
<1>9. \A i \in 1..L : descs[i].type = "NEWAXIS" <=> i = axis
  BY <1>3, <1>8
<1>10. \A i \in 0..L : OldDim(descs, i) = IF axis \in 1..i THEN i - 1 ELSE i
  <2>1. axis \in Nat
    BY <1>5
  <2>2. Len(descs) \in Nat /\ DOMAIN descs = 1..Len(descs)
        /\ \A i \in 1..Len(descs) : descs[i].type = "NEWAXIS" <=> i = axis
    BY <1>5, <1>7, <1>9
  <2>3. \A i \in 0..Len(descs) : OldDim(descs, i) = IF axis \in 1..i THEN i - 1 ELSE i
    BY <2>1, <2>2, OldDimsCounted
  <2>. QED  BY <1>7, <2>3
<1>11. OldDim(descs, L) = N
  BY <1>1, <1>5, <1>10
<1>12. ASSUME NEW i \in 1..L
       PROVE  /\ descs[i].type \in {"ALL", "NEWAXIS", "VALUE", "SLICE"}
              /\ descs[i].type = "VALUE" => descs[i].value \in 0..(shape[OldDim(descs, i)] - 1)
              /\ descs[i].type = "SLICE" =>
                   /\ descs[i].slice \in Slices
                   /\ ~ SliceThrows(Normalized(descs[i].slice, shape[OldDim(descs, i)]), shape[OldDim(descs, i)])
                   /\ Careful => InRange(descs[i].slice, shape[OldDim(descs, i)])
  <2>1. CASE descs[i].type = "NEWAXIS"
    BY <2>1
  <2>2. CASE descs[i].type = "ALL"
    BY <2>2
  <2>3. CASE descs[i].type \notin {"NEWAXIS", "ALL"}
    <3>1. PICK d : d = IF axis \in 1..i THEN i - 1 ELSE i
      OBVIOUS
    <3>2. d \in 1..n /\ descs[i] = args[d]
      BY <1>8, <2>3, <3>1
    <3>3. OldDim(descs, i) = d
      <4>1. i \in 0..L
        BY <1>5
      <4>. QED  BY <1>10, <3>1, <4>1
    <3>4. \/ args[d].type = "VALUE" /\ args[d].value \in 0..(shape[d] - 1)
          \/ /\ args[d].type = "SLICE" /\ args[d].slice \in Slices
             /\ ~ SliceThrows(Normalized(args[d].slice, shape[d]), shape[d])
             /\ Careful => InRange(args[d].slice, shape[d])
      BY <3>2, AskableIs
    <3>. QED  BY <3>2, <3>3, <3>4
  <2>. QED  BY <2>1, <2>2, <2>3
<1>13. Fitting(descs, shape)
  BY <1>5, <1>7, <1>11, <1>12 DEF Fitting
<1>. QED  BY <1>13 DEF descs, given

-----------------------------------------------------------------------------
(* The steps *)

LEMMA InitOK ==
  ASSUME Init
  PROVE  IInv /\ Gives(expr, elements)
<1>1. views \in 0..MaxViews
  <2>1. MaxViews \in Nat
    BY ConstantsAssumption DEF ConstantsAssumption
  <2>. QED  BY <2>1 DEF Init
<1>2. CASE \E kind \in {"container", "function"}, shape \in Shapes :
             /\ expr = Array(kind, shape)
             /\ elements = [idx \in Indices(shape) |-> Place(shape, idx)]
  <2>1. PICK kind \in {"container", "function"}, shape \in Shapes :
             /\ expr = Array(kind, shape)
             /\ elements = [idx \in Indices(shape) |-> Place(shape, idx)]
    BY <1>2
  <2>2. shape \in Shape
    BY ConstantsAssumption DEF ConstantsAssumption, Shape
  <2>3. WellFormed(Array(kind, shape)) /\ Gives(Array(kind, shape), [idx \in Indices(shape) |-> Place(shape, idx)])
    BY <2>2, ArrayOK
  <2>. QED  BY <1>1, <2>1, <2>3 DEF IInv
<1>3. CASE \E s \in Spans :
             /\ expr = SpanInto(s)
             /\ elements = [idx \in Indices(s.shape) |-> s.offset + Place(s.parent, idx)]
  <2>1. PICK s \in Spans :
             /\ expr = SpanInto(s)
             /\ elements = [idx \in Indices(s.shape) |-> s.offset + Place(s.parent, idx)]
    BY <1>3
  <2>2. WellFormed(SpanInto(s)) /\ Gives(SpanInto(s), [idx \in Indices(s.shape) |-> s.offset + Place(s.parent, idx)])
    BY SpanOK
  <2>. QED  BY <1>1, <2>1, <2>2 DEF IInv
<1>. QED  BY <1>2, <1>3 DEF Init

LEMMA ViewStep ==
  ASSUME IInv, View
  PROVE  WellFormed(expr') /\ (Careful /\ Gives(expr, elements) => Gives(expr', elements'))
<1>1. PICK n \in 0..Len(expr.shape) :
      \E args \in {a \in [1..n -> UNION {Askable(expr.shape[d]) : d \in 1..n}] :
                     \A d \in 1..n : a[d] \in Askable(expr.shape[d])} :
      \E axis \in 0..(n + 1) :
        LET descs == Filled(IF axis = 0 THEN args ELSE InsertAt(args, axis, NewAxis), Len(expr.shape))
            e == ViewOf(Strided(expr), descs)
            meaning == Meaning(expr.shape, descs)
        IN  /\ Len(e.shape) <= MaxDims
            /\ Build(e, [idx \in DOMAIN meaning |-> elements[meaning[idx]]])
  BY Zenon DEF View
<1>. DEFINE D == UNION {Askable(expr.shape[d]) : d \in 1..n}
<1>2. PICK args \in {a \in [1..n -> D] : \A d \in 1..n : a[d] \in Askable(expr.shape[d])} :
      \E axis \in 0..(n + 1) :
        LET descs == Filled(IF axis = 0 THEN args ELSE InsertAt(args, axis, NewAxis), Len(expr.shape))
            e == ViewOf(Strided(expr), descs)
            meaning == Meaning(expr.shape, descs)
        IN  /\ Len(e.shape) <= MaxDims
            /\ Build(e, [idx \in DOMAIN meaning |-> elements[meaning[idx]]])
  BY <1>1, Zenon
<1>3. PICK axis \in 0..(n + 1) :
        LET descs == Filled(IF axis = 0 THEN args ELSE InsertAt(args, axis, NewAxis), Len(expr.shape))
            e == ViewOf(Strided(expr), descs)
            meaning == Meaning(expr.shape, descs)
        IN  /\ Len(e.shape) <= MaxDims
            /\ Build(e, [idx \in DOMAIN meaning |-> elements[meaning[idx]]])
  BY <1>2, Zenon
<1>. HIDE DEF D
<1>. DEFINE descs == Filled(IF axis = 0 THEN args ELSE InsertAt(args, axis, NewAxis), Len(expr.shape))
            e == Strided(expr)
<1>4. /\ expr' = ViewOf(e, descs)
      /\ elements' = [idx \in DOMAIN Meaning(expr.shape, descs) |-> elements[Meaning(expr.shape, descs)[idx]]]
  BY <1>3, Zenon DEF Build
<1>5. expr.shape \in Shape
  BY DEF IInv, WellFormed
<1>6. args \in [1..n -> D] /\ \A d \in 1..n : args[d] \in Askable(expr.shape[d])
  BY <1>2, Zenon
<1>7. Fitting(descs, expr.shape)
  BY <1>5, <1>6, DescsFit
<1>. HIDE DEF descs, e
<1>8. WellFormed(e) /\ e.shape = expr.shape /\ \A el : Gives(expr, el) => Gives(e, el)
  BY StridedOK DEF IInv, e
<1>9. /\ WellFormed(ViewOf(e, descs))
      /\ \A el : Careful /\ Gives(e, el) =>
           Gives(ViewOf(e, descs),
                 [idx \in DOMAIN Meaning(expr.shape, descs) |-> el[Meaning(expr.shape, descs)[idx]]])
  BY <1>7, <1>8, ViewOK
<1>. QED  BY <1>4, <1>8, <1>9, Zenon

LEMMA ApplyStep ==
  ASSUME IInv, Apply
  PROVE  WellFormed(expr') /\ (Gives(expr, elements) => Gives(expr', elements'))
<1>. DEFINE a == Adapted(expr)
            r == Expression("function", a.shape, a.strides, a.data)
<1>1. WellFormed(a) /\ a.shape = expr.shape /\ a.strides = CalcStrides(expr.shape)
      /\ \A el : Gives(expr, el) => Gives(a, el)
  BY AdaptedOK DEF IInv
<1>2. expr' = r /\ elements' = elements
  <2>1. expr' = [Adapted(expr) EXCEPT !.kind = "function"] /\ elements' = elements
    BY DEF Apply, Build
  <2>2. PICK sh, st, da : a = Expression("view", sh, st, da)
    BY DEF Adapted
  <2>3. [a EXCEPT !.kind = "function"] = Expression("function", sh, st, da)
    BY <2>2 DEF Expression
  <2>4. sh = a.shape /\ st = a.strides /\ da = a.data
    <3>. HIDE DEF a
    <3>. QED  BY <2>2, ExpressionParts
  <2>. QED  BY <2>1, <2>3, <2>4
<1>. HIDE DEF a
<1>3. r.kind = "function" /\ r.shape = a.shape /\ r.strides = a.strides /\ r.data = a.data
  BY ExpressionParts
<1>. HIDE DEF r
<1>4. WellFormed(r)
  BY <1>1, <1>3 DEF WellFormed, Kinds
<1>5. ASSUME NEW el, Gives(a, el) PROVE Gives(r, el)
  BY <1>3, <1>5 DEF Gives, InMemory, Element
<1>. QED  BY <1>1, <1>2, <1>4, <1>5

LEMMA StepOK ==
  ASSUME IInv, [Next]_vars
  PROVE  IInv' /\ (Careful /\ Gives(expr, elements) => Gives(expr, elements)')
<1>1. CASE Next
  <2>1. views' \in 0..MaxViews
    <3>1. views' = views + 1 /\ views < MaxViews
      BY <1>1, Zenon DEF Next, View, Reshape, Transpose, Apply, Build
    <3>2. MaxViews \in Nat
      BY ConstantsAssumption DEF ConstantsAssumption
    <3>. QED  BY <3>1, <3>2 DEF IInv
  <2>2. WellFormed(expr') /\ (Careful /\ Gives(expr, elements) => Gives(expr', elements'))
    <3>1. CASE View
      BY <3>1, ViewStep
    <3>2. CASE \E n \in 1..MaxDims, expiring \in BOOLEAN :
                 \E shape \in [1..n -> 0..CalcSize(expr.shape)] : Reshape(shape, expiring)
      <4>1. PICK n \in 1..MaxDims, expiring \in BOOLEAN :
                 \E shape \in [1..n -> 0..CalcSize(expr.shape)] : Reshape(shape, expiring)
        BY <3>2, Zenon
      <4>2. PICK shape \in [1..n -> 0..CalcSize(expr.shape)] : Reshape(shape, expiring)
        BY <4>1, Zenon
      <4>3. shape \in Shape
        <5>1. n \in Nat
          OBVIOUS
        <5>2. \A d \in 1..n : shape[d] \in Nat
          BY <4>2
        <5>3. shape = [d \in 1..n |-> shape[d]]
          BY <4>2
        <5>. QED  BY <5>1, <5>2, <5>3 DEF Shape
      <4>. QED  BY <4>2, <4>3, ReshapeOK
    <3>3. CASE \E axes \in Permutation(Len(expr.shape)) : Transpose(axes)
      <4>1. PICK axes \in Permutation(Len(expr.shape)) : Transpose(axes)
        BY <3>3
      <4>2. Permuting(axes, Len(expr.shape))
        BY <4>1 DEF Permutation, Permuting
      <4>. QED  BY <4>1, <4>2, TransposeOK
    <3>4. CASE Apply
      BY <3>4, ApplyStep
    <3>. QED  BY <1>1, <3>1, <3>2, <3>3, <3>4, Zenon DEF Next
  <2>3. IInv'
    BY <2>1, <2>2 DEF IInv, WellFormed, Kinds
  <2>4. Gives(expr, elements)' <=> Gives(expr', elements')
    BY DEF Gives, InMemory, Element
  <2>. QED  BY <2>2, <2>3, <2>4
<1>2. CASE UNCHANGED vars
  BY <1>2 DEF vars, IInv, WellFormed, Kinds, Gives, InMemory, Element
<1>. QED  BY <1>1, <1>2

-----------------------------------------------------------------------------
(* The theorems *)

(* However views are stacked, the parts of an expression fit together: as  *)
(* many strides as extents, and only a span or a view has strides of its   *)
(* own.                                                                    *)
THEOREM ViewsTypeOK == Spec => []TypeOK
<1>1. Init => IInv
  BY InitOK
<1>2. IInv /\ [Next]_vars => IInv'
  BY StepOK
<1>3. IInv => TypeOK
  BY DEF IInv, WellFormed, Kinds, TypeOK, IsFContiguous
<1>. QED  BY <1>1, <1>2, <1>3, PTL DEF Spec

(* The linear kernels visit every index of whatever view they are given    *)
(* exactly once: unravelling by calc_strides() inverts the column-major    *)
(* enumeration, for every shape, extents of 0 and 1 included.              *)
THEOREM KernelsVisitAll == Spec => []KernelVisitsEachOnce
<1>1. Init => IInv
  BY InitOK
<1>2. IInv /\ [Next]_vars => IInv'
  BY StepOK
<1>3. IInv => KernelVisitsEachOnce
  <2>1. SUFFICES ASSUME IInv, NEW i \in 0..(CalcSize(expr.shape) - 1)
                 PROVE  /\ Unravel(i, CalcStrides(expr.shape)) \in Indices(expr.shape)
                        /\ Place(expr.shape, Unravel(i, CalcStrides(expr.shape))) = i
    BY Zenon DEF KernelVisitsEachOnce
  <2>2. expr.shape \in Shape
    BY <2>1 DEF IInv, WellFormed
  <2>. QED  BY <2>1, <2>2, UnravelCorrect
<1>. QED  BY <1>1, <1>2, <1>3, PTL DEF Spec

(* While slices stay in range and no expiring span is strided, every index *)
(* of every view, however deep the stack of views it is built on, reaches  *)
(* within the memory the very element it stands for.                       *)
THEOREM ViewsReachTheirElements ==
  ASSUME Careful
  PROVE  Spec => []AccessCorrect
<1>. DEFINE AInv == IInv /\ Gives(expr, elements)
<1>1. Init => AInv
  BY InitOK
<1>2. AInv /\ [Next]_vars => AInv'
  BY StepOK
<1>3. AInv => AccessCorrect
  BY DEF Gives, AccessCorrect
<1>. QED  BY <1>1, <1>2, <1>3, PTL DEF Spec
=============================================================================
