--------------------------- MODULE IndexingProofs ---------------------------
(***************************************************************************)
(* Facts about the index arithmetic of gtensor, for shapes of any number   *)
(* of dimensions and any extents, 0 and 1 included.                        *)
(*                                                                         *)
(* The strides that CalcStrides gives put the indices of a shape in their  *)
(* column-major order: the offset of an index is its Place, the places of  *)
(* all indices are 0 up to the size of the shape, and Unravel is the       *)
(* inverse of Place (UnravelCorrect).  The mixed-radix argument goes over  *)
(* partial products and partial sums: h[d] is where the first d dimensions *)
(* have got.  The last sections are about sums, which do not depend on the *)
(* order of their terms, and about sequences that are put together, as     *)
(* views and axis sums do with the dimensions of a shape.                  *)
(***************************************************************************)
EXTENDS Indexing, FiniteSetTheorems, TLAPS

(* Facts about the folds of the model: sums, products and enumerations. *)
Sums == INSTANCE InductionFacts WITH Op <- Plus
Products == INSTANCE InductionFacts WITH Op <- Times
Growing == INSTANCE InductionFacts WITH Op <- Extended

-----------------------------------------------------------------------------
(* Sums and products *)

LEMMA TotalIsFold ==
  ASSUME NEW s
  PROVE  Total(s) = Sums!FoldLeft(Plus, 0, s)
  BY Zenon DEF Total, FoldLeft, MapThenFoldSet, Max, Sums!FoldLeft,
               Sums!MapThenFoldSet, Sums!Max

LEMMA ProductIsFold ==
  ASSUME NEW s
  PROVE  Product(s) = Products!FoldLeft(Times, 1, s)
  BY Zenon DEF Product, FoldLeft, MapThenFoldSet, Max, Products!FoldLeft,
               Products!MapThenFoldSet, Products!Max

LEMMA IndicesIsFold ==
  ASSUME NEW s
  PROVE  Indices(s) = Growing!FoldLeft(Extended, {<<>>}, s)
  BY Zenon DEF Indices, FoldLeft, MapThenFoldSet, Max, Growing!FoldLeft,
               Growing!MapThenFoldSet, Growing!Max

(* h[d] is the sum of the first d elements of s. *)
Partial(h, s) == h[0] = 0 /\ \A d \in 1..Len(s) : h[d] = h[d - 1] + s[d]

LEMMA TotalIs ==
  ASSUME NEW s \in Seq(Int), NEW h, Partial(h, s)
  PROVE  Total(s) = h[Len(s)]
<1>1. Sums!Chain(h, 0, s)
  BY DEF Partial, Sums!Chain, Plus
<1>. QED  BY <1>1, TotalIsFold, Sums!ChainEndsInFold, Zenon

LEMMA TotalPartial ==
  ASSUME NEW s \in Seq(Int)
  PROVE  \E h : Partial(h, s) /\ Total(s) = h[Len(s)] /\ \A d \in 0..Len(s) : h[d] \in Int
<1>1. PICK h : Sums!Chain(h, 0, s) /\ Sums!FoldLeft(Plus, 0, s) = h[Len(s)]
  BY Sums!FoldIsChain, Zenon
<1>2. Partial(h, s)
  BY <1>1 DEF Partial, Sums!Chain, Plus
<1>3. Total(s) = h[Len(s)]
  BY <1>1, TotalIsFold, Zenon
<1>. DEFINE S == {d \in Nat : d <= Len(s) => h[d] \in Int}
<1>4. 0 \in S
  BY <1>2 DEF Partial
<1>5. ASSUME NEW d \in Nat, d \in S PROVE d + 1 \in S
  BY <1>2, <1>5 DEF Partial
<1>. HIDE DEF S
<1>6. Nat \subseteq S
  BY <1>4, <1>5, Sums!Induction, Zenon
<1>7. \A d \in 0..Len(s) : h[d] \in Int
  BY <1>6 DEF S
<1>. QED  BY <1>2, <1>3, <1>7

LEMMA TotalIn ==
  ASSUME NEW s \in Seq(Int)
  PROVE  Total(s) \in Int
<1>1. PICK h : Total(s) = h[Len(s)] /\ \A d \in 0..Len(s) : h[d] \in Int
  BY TotalPartial
<1>. QED  BY <1>1

LEMMA ProductNext ==
  ASSUME NEW s \in Seq(Nat), NEW n \in Nat
  PROVE  Product(Append(s, n)) = Product(s) * n
<1>1. Product(Append(s, n)) = Times(Product(s), n)
  BY ProductIsFold, Products!FoldAppend, Zenon
<1>. QED  BY <1>1 DEF Times

LEMMA ProductEmpty == Product(<< >>) = 1
  BY ProductIsFold, Products!FoldEmpty, Zenon

LEMMA ProductIn ==
  ASSUME NEW s \in Seq(Nat)
  PROVE  Product(s) \in Nat
<1>1. \A d \in 1..Len(s) : s[d] \in Nat
  OBVIOUS
<1>2. \A v \in Nat, d \in 1..Len(s) : Times(v, s[d]) \in Nat
  BY <1>1 DEF Times
<1>3. 1 \in Nat
  OBVIOUS
<1>. QED  BY <1>2, <1>3, ProductIsFold, Products!FoldInvariant, Zenon

-----------------------------------------------------------------------------
(* Strides *)

Shape == Seq(Nat)

(* The number of elements of the first d dimensions. *)
Volume(shape, d) == Product(SubSeq(shape, 1, d))

LEMMA VolumeRules ==
  ASSUME NEW shape \in Shape
  PROVE  /\ Volume(shape, 0) = 1
         /\ \A d \in 0..Len(shape) : Volume(shape, d) \in Nat
         /\ \A d \in 1..Len(shape) : Volume(shape, d) = Volume(shape, d - 1) * shape[d]
         /\ Volume(shape, Len(shape)) = CalcSize(shape)
<1>1. SubSeq(shape, 1, 0) = << >> /\ SubSeq(shape, 1, Len(shape)) = shape
  BY DEF Shape
<1>2. ASSUME NEW d \in 0..Len(shape) PROVE SubSeq(shape, 1, d) \in Seq(Nat)
  BY DEF Shape
<1>3. ASSUME NEW d \in 1..Len(shape) PROVE Volume(shape, d) = Volume(shape, d - 1) * shape[d]
  <2>1. SubSeq(shape, 1, d) = Append(SubSeq(shape, 1, d - 1), shape[d])
    BY DEF Shape
  <2>2. SubSeq(shape, 1, d - 1) \in Seq(Nat) /\ shape[d] \in Nat
    BY <1>2 DEF Shape
  <2>. QED  BY <2>1, <2>2, ProductNext DEF Volume
<1>. QED  BY <1>1, <1>2, <1>3, ProductEmpty, ProductIn DEF Volume, CalcSize

-----------------------------------------------------------------------------
(* Indices *)

Box(shape, n) == {idx \in Seq(Nat) : Len(idx) = n /\ \A d \in 1..n : idx[d] < shape[d]}

LEMMA BoxNext ==
  ASSUME NEW shape \in Shape, NEW n \in Nat, n + 1 \in 1..Len(shape)
  PROVE  Box(shape, n + 1) = Extended(Box(shape, n), shape[n + 1])
<1>1. ASSUME NEW idx \in Box(shape, n + 1) PROVE idx \in Extended(Box(shape, n), shape[n + 1])
  <2>1. idx \in Seq(Nat) /\ Len(idx) = n + 1 /\ \A d \in 1..(n + 1) : idx[d] < shape[d]
    BY DEF Box
  <2>2. PICK front : front = SubSeq(idx, 1, n)
    OBVIOUS
  <2>3. front \in Seq(Nat) /\ Len(front) = n /\ \A d \in 1..n : front[d] = idx[d]
    BY <2>1, <2>2
  <2>4. idx = Append(front, idx[n + 1])
    BY <2>1, <2>3
  <2>5. idx[n + 1] \in 0..(shape[n + 1] - 1)
    BY <2>1 DEF Shape
  <2>6. front \in Box(shape, n)
    BY <2>1, <2>3 DEF Box
  <2>. QED  BY <2>4, <2>5, <2>6 DEF Extended
<1>2. ASSUME NEW idx \in Extended(Box(shape, n), shape[n + 1]) PROVE idx \in Box(shape, n + 1)
  <2>1. PICK front \in Box(shape, n), i \in 0..(shape[n + 1] - 1) : idx = Append(front, i)
    BY DEF Extended
  <2>2. front \in Seq(Nat) /\ Len(front) = n /\ \A d \in 1..n : front[d] < shape[d]
    BY DEF Box
  <2>3. i \in Nat /\ i < shape[n + 1]
    BY DEF Shape
  <2>4. idx \in Seq(Nat) /\ Len(idx) = n + 1 /\ idx[n + 1] = i /\ \A d \in 1..n : idx[d] = front[d]
    BY <2>1, <2>2, <2>3
  <2>5. \A d \in 1..(n + 1) : idx[d] < shape[d]
    BY <2>2, <2>3, <2>4
  <2>. QED  BY <2>4, <2>5 DEF Box
<1>. QED  BY <1>1, <1>2

LEMMA IndicesAre ==
  ASSUME NEW shape \in Shape
  PROVE  Indices(shape) = Box(shape, Len(shape))
<1>1. shape \in Seq(Nat)
  BY DEF Shape
<1>2. PICK h : Growing!Chain(h, {<<>>}, shape)
               /\ Growing!FoldLeft(Extended, {<<>>}, shape) = h[Len(shape)]
  BY <1>1, Growing!FoldIsChain, Zenon
<1>3. h[0] = {<<>>} /\ \A d \in 1..Len(shape) : h[d] = Extended(h[d - 1], shape[d])
  BY <1>2 DEF Growing!Chain
<1>. DEFINE S == {d \in Nat : d <= Len(shape) => h[d] = Box(shape, d)}
<1>4. 0 \in S
  <2>1. Box(shape, 0) = {<<>>}
    <3>1. <<>> \in Seq(Nat) /\ Len(<<>>) = 0 /\ \A s \in Seq(Nat) : Len(s) = 0 => s = <<>>
      OBVIOUS
    <3>2. 1..0 = {}
      OBVIOUS
    <3>3. Box(shape, 0) = {s \in Seq(Nat) : Len(s) = 0}
      BY <3>2 DEF Box
    <3>. QED  BY <3>1, <3>3
  <2>. QED  BY <1>3, <2>1
<1>5. ASSUME NEW d \in Nat, d \in S PROVE d + 1 \in S
  <2>1. CASE d + 1 <= Len(shape)
    <3>1. d + 1 \in 1..Len(shape) /\ (d + 1) - 1 = d
      BY <1>1, <2>1
    <3>2. h[d] = Box(shape, d)
      BY <1>1, <1>5, <2>1
    <3>3. h[d + 1] = Extended(h[d], shape[d + 1])
      BY <1>3, <3>1
    <3>. QED  BY <3>1, <3>2, <3>3, BoxNext
  <2>2. CASE ~ (d + 1 <= Len(shape))
    BY <2>2
  <2>. QED  BY <2>1, <2>2
<1>. HIDE DEF S
<1>6. Nat \subseteq S
  BY <1>4, <1>5, Sums!Induction, Zenon
<1>7. h[Len(shape)] = Box(shape, Len(shape))
  BY <1>1, <1>6 DEF S
<1>. QED  BY <1>2, <1>7, IndicesIsFold, Zenon

LEMMA InIndices ==
  ASSUME NEW shape \in Shape, NEW idx
  PROVE  idx \in Indices(shape) <=>
           idx \in Seq(Nat) /\ Len(idx) = Len(shape) /\ \A d \in 1..Len(shape) : idx[d] < shape[d]
  BY IndicesAre DEF Box

(* An index is a function on the dimensions. *)
LEMMA IsIndex ==
  ASSUME NEW shape \in Shape, NEW f, NEW idx, idx = [d \in DOMAIN shape |-> f[d]],
         \A d \in 1..Len(shape) : f[d] \in Nat /\ f[d] < shape[d]
  PROVE  idx \in Indices(shape)
<1>1. DOMAIN shape = 1..Len(shape) /\ Len(shape) \in Nat
  BY DEF Shape
<1>2. idx \in Seq(Nat) /\ Len(idx) = Len(shape)
  BY <1>1
<1>. QED  BY <1>1, <1>2, InIndices

-----------------------------------------------------------------------------
(* Places *)

(* h[d] is the place of the first d components of idx among those of the   *)
(* first d dimensions.                                                     *)
Placed(h, shape, idx) ==
  h[0] = 0 /\ \A d \in 1..Len(shape) : h[d] = h[d - 1] + idx[d] * Volume(shape, d - 1)

LEMMA PlaceIs ==
  ASSUME NEW shape \in Shape, NEW idx, \A d \in 1..Len(shape) : idx[d] \in Int, NEW h, Placed(h, shape, idx)
  PROVE  Place(shape, idx) = h[Len(shape)]
<1>. DEFINE s == [d \in DOMAIN shape |-> idx[d] * Product(SubSeq(shape, 1, d - 1))]
<1>0. DOMAIN shape = 1..Len(shape) /\ Len(shape) \in Nat
  BY DEF Shape
<1>1. \A d \in 1..Len(shape) : s[d] = idx[d] * Volume(shape, d - 1) /\ Volume(shape, d - 1) \in Nat
  BY <1>0, VolumeRules DEF Volume
<1>2. \A d \in 1..Len(shape) : s[d] \in Int
  <2>1. \A a \in Int, b \in Nat : a * b \in Int
    OBVIOUS
  <2>. HIDE DEF s
  <2>. QED  BY <1>1, <2>1
<1>3. s = [d \in 1..Len(shape) |-> s[d]]
  BY <1>0
<1>. HIDE DEF s
<1>4. s \in Seq(Int) /\ Len(s) = Len(shape)
  BY <1>0, <1>2, <1>3
<1>5. Partial(h, s)
  BY <1>1, <1>4 DEF Partial, Placed
<1>6. Total(s) = h[Len(s)]
  BY <1>4, <1>5, TotalIs
<1>. QED  BY <1>4, <1>6 DEF Place, s

LEMMA PlacedExists ==
  ASSUME NEW shape \in Shape, NEW idx, \A d \in 1..Len(shape) : idx[d] \in Int
  PROVE  \E h : /\ Placed(h, shape, idx) /\ Place(shape, idx) = h[Len(shape)]
                /\ \A d \in 0..Len(shape) : h[d] \in Int
<1>. DEFINE s == [d \in DOMAIN shape |-> idx[d] * Product(SubSeq(shape, 1, d - 1))]
<1>0. DOMAIN shape = 1..Len(shape) /\ Len(shape) \in Nat
  BY DEF Shape
<1>1. \A d \in 1..Len(shape) : s[d] = idx[d] * Volume(shape, d - 1) /\ Volume(shape, d - 1) \in Nat
  BY <1>0, VolumeRules DEF Volume
<1>2. \A d \in 1..Len(shape) : s[d] \in Int
  <2>1. \A a \in Int, b \in Nat : a * b \in Int
    OBVIOUS
  <2>. HIDE DEF s
  <2>. QED  BY <1>1, <2>1
<1>3. s = [d \in 1..Len(shape) |-> s[d]]
  BY <1>0
<1>4. Place(shape, idx) = Total(s)
  BY DEF Place
<1>. HIDE DEF s
<1>5. s \in Seq(Int) /\ Len(s) = Len(shape)
  BY <1>0, <1>2, <1>3
<1>6. PICK h : Partial(h, s) /\ Total(s) = h[Len(s)] /\ \A d \in 0..Len(s) : h[d] \in Int
  BY <1>5, TotalPartial
<1>7. Placed(h, shape, idx)
  BY <1>1, <1>5, <1>6 DEF Partial, Placed
<1>. QED  BY <1>4, <1>5, <1>6, <1>7

(* The first d components stay below the number of elements there. *)
LEMMA PlacedBelow ==
  ASSUME NEW shape \in Shape, NEW idx \in Indices(shape), NEW h, Placed(h, shape, idx)
  PROVE  \A d \in 0..Len(shape) : h[d] \in Nat /\ h[d] < Volume(shape, d)
<1>0. /\ Len(shape) \in Nat /\ \A d \in 1..Len(shape) : shape[d] \in Nat
      /\ \A d \in 1..Len(shape) : idx[d] \in Nat /\ idx[d] < shape[d]
  BY InIndices DEF Shape
<1>. DEFINE S == {d \in Nat : d <= Len(shape) => h[d] \in Nat /\ h[d] < Volume(shape, d)}
<1>1. 0 \in S
  BY VolumeRules DEF Placed
<1>2. ASSUME NEW d \in Nat, d \in S PROVE d + 1 \in S
  <2>1. CASE d + 1 <= Len(shape)
    <3>1. d + 1 \in 1..Len(shape) /\ (d + 1) - 1 = d
      BY <1>0, <2>1
    <3>2. PICK V, W, n, k, x : /\ V = Volume(shape, d) /\ W = Volume(shape, d + 1) /\ n = shape[d + 1]
                               /\ k = idx[d + 1] /\ x = h[d]
      OBVIOUS
    <3>3. V \in Nat /\ W = V * n /\ n \in Nat /\ k \in Nat /\ k < n /\ x \in Nat /\ x < V
      BY <1>0, <1>2, <2>1, <3>1, <3>2, VolumeRules
    <3>4. h[d + 1] = x + k * V
      BY <3>1, <3>2 DEF Placed
    <3>5. PICK m \in Nat : n = k + 1 + m
      <4>1. n - k - 1 \in Nat /\ n = k + 1 + (n - k - 1)
        BY <3>3
      <4>. QED  BY <4>1
    <3>6. V * n = k * V + V + m * V /\ m * V \in Nat /\ k * V \in Nat
      BY <3>3, <3>5
    <3>7. x + k * V \in Nat /\ x + k * V < W
      BY <3>3, <3>6
    <3>. QED  BY <3>2, <3>4, <3>7
  <2>2. CASE ~ (d + 1 <= Len(shape))
    BY <2>2
  <2>. QED  BY <2>1, <2>2
<1>. HIDE DEF S
<1>3. Nat \subseteq S
  BY <1>1, <1>2, Sums!Induction, Zenon
<1>. QED  BY <1>0, <1>3 DEF S

LEMMA PlaceBelow ==
  ASSUME NEW shape \in Shape, NEW idx \in Indices(shape)
  PROVE  Place(shape, idx) \in 0..(CalcSize(shape) - 1)
<1>0. Len(shape) \in Nat /\ \A d \in 1..Len(shape) : idx[d] \in Int
  BY InIndices DEF Shape
<1>1. PICK h : Placed(h, shape, idx) /\ Place(shape, idx) = h[Len(shape)]
  BY <1>0, PlacedExists
<1>2. h[Len(shape)] \in Nat /\ h[Len(shape)] < Volume(shape, Len(shape))
  BY <1>0, <1>1, PlacedBelow
<1>3. CalcSize(shape) \in Nat /\ CalcSize(shape) = Volume(shape, Len(shape))
  BY <1>0, VolumeRules
<1>. QED  BY <1>1, <1>2, <1>3

LEMMA SamePlace ==
  ASSUME NEW V \in Nat, NEW x \in Nat, x < V, NEW y \in Nat, y < V, NEW k \in Nat, NEW j \in Nat,
         x + k * V = y + j * V
  PROVE  x = y /\ k = j
<1>1. ASSUME NEW a \in Nat, NEW b \in Nat, a < V, b < V, NEW m \in Nat, NEW n \in Nat, m < n,
             a + m * V = b + n * V
      PROVE  FALSE
  <2>1. PICK e \in Nat : n = m + 1 + e
    <3>1. n - m - 1 \in Nat /\ n = m + 1 + (n - m - 1)
      BY <1>1
    <3>. QED  BY <3>1
  <2>2. n * V = m * V + V + e * V /\ e * V \in Nat /\ m * V \in Nat
    BY <2>1
  <2>. QED  BY <1>1, <2>2
<1>2. k = j
  BY <1>1
<1>. QED  BY <1>2

(* No two indices have the same place. *)
LEMMA PlaceInjective ==
  ASSUME NEW shape \in Shape, NEW idx \in Indices(shape), NEW jdx \in Indices(shape),
         Place(shape, idx) = Place(shape, jdx)
  PROVE  idx = jdx
<1>0. /\ Len(shape) \in Nat
      /\ idx \in Seq(Nat) /\ Len(idx) = Len(shape) /\ \A d \in 1..Len(shape) : idx[d] \in Nat
      /\ jdx \in Seq(Nat) /\ Len(jdx) = Len(shape) /\ \A d \in 1..Len(shape) : jdx[d] \in Nat
  BY InIndices DEF Shape
<1>1. PICK h : Placed(h, shape, idx) /\ Place(shape, idx) = h[Len(shape)]
  BY <1>0, PlacedExists
<1>2. PICK g : Placed(g, shape, jdx) /\ Place(shape, jdx) = g[Len(shape)]
  BY <1>0, PlacedExists
<1>3. \A d \in 0..Len(shape) : /\ h[d] \in Nat /\ h[d] < Volume(shape, d)
                               /\ g[d] \in Nat /\ g[d] < Volume(shape, d)
  BY <1>1, <1>2, PlacedBelow
<1>4. ASSUME NEW d \in 1..Len(shape), h[d] = g[d] PROVE h[d - 1] = g[d - 1] /\ idx[d] = jdx[d]
  <2>1. d - 1 \in 0..Len(shape)
    BY <1>0
  <2>2. Volume(shape, d - 1) \in Nat
    BY <2>1, VolumeRules
  <2>3. h[d - 1] + idx[d] * Volume(shape, d - 1) = g[d - 1] + jdx[d] * Volume(shape, d - 1)
    BY <1>1, <1>2, <1>4 DEF Placed
  <2>4. PICK V, x, y, k, j : /\ V = Volume(shape, d - 1) /\ x = h[d - 1] /\ y = g[d - 1]
                             /\ k = idx[d] /\ j = jdx[d]
    OBVIOUS
  <2>5. /\ V \in Nat /\ x \in Nat /\ x < V /\ y \in Nat /\ y < V /\ k \in Nat /\ j \in Nat
        /\ x + k * V = y + j * V
    BY <1>0, <1>3, <2>1, <2>2, <2>3, <2>4
  <2>6. x = y /\ k = j
    BY <2>5, SamePlace
  <2>. QED  BY <2>4, <2>6
<1>. DEFINE S == {k \in Nat : k <= Len(shape) => h[Len(shape) - k] = g[Len(shape) - k]}
<1>5. 0 \in S
  <2>1. Len(shape) - 0 = Len(shape)
    BY <1>0
  <2>. QED  BY <1>1, <1>2, <2>1
<1>6. ASSUME NEW k \in Nat, k \in S PROVE k + 1 \in S
  <2>1. CASE k + 1 <= Len(shape)
    <3>1. PICK d : d = Len(shape) - k
      OBVIOUS
    <3>2. d \in 1..Len(shape) /\ Len(shape) - (k + 1) = d - 1
      BY <1>0, <2>1, <3>1
    <3>3. h[d] = g[d]
      BY <1>0, <1>6, <2>1, <3>1
    <3>4. h[d - 1] = g[d - 1]
      BY <1>4, <3>2, <3>3
    <3>. QED  BY <3>2, <3>4
  <2>2. CASE ~ (k + 1 <= Len(shape))
    BY <2>2
  <2>. QED  BY <2>1, <2>2
<1>. HIDE DEF S
<1>7. Nat \subseteq S
  BY <1>5, <1>6, Sums!Induction, Zenon
<1>8. ASSUME NEW d \in 1..Len(shape) PROVE idx[d] = jdx[d]
  <2>1. Len(shape) - d \in S /\ Len(shape) - d <= Len(shape) /\ Len(shape) - (Len(shape) - d) = d
    BY <1>0, <1>7
  <2>2. h[d] = g[d]
    BY <2>1 DEF S
  <2>. QED  BY <1>4, <2>2
<1>9. idx = [d \in 1..Len(shape) |-> idx[d]] /\ jdx = [d \in 1..Len(shape) |-> jdx[d]]
  BY <1>0
<1>10. [d \in 1..Len(shape) |-> idx[d]] = [d \in 1..Len(shape) |-> jdx[d]]
  BY <1>8
<1>. QED  BY <1>9, <1>10

-----------------------------------------------------------------------------
(* Unravelling *)

Remainder(f, i, strides) ==
  [d \in 0..Len(strides) |->
     IF d = Len(strides) THEN i
     ELSE IF strides[d + 1] = 0 THEN f[d + 1]
     ELSE f[d + 1] % strides[d + 1]]

LEMMA RemainderExists ==
  ASSUME NEW strides, Len(strides) \in Nat, NEW i
  PROVE  \E f : f = Remainder(f, i, strides)
<1>. DEFINE n == Len(strides)
            F(f, d) == IF strides[d + 1] = 0 THEN f[d + 1] ELSE f[d + 1] % strides[d + 1]
            Good(f, k) == /\ f = [d \in 0..n |-> f[d]]
                          /\ f[n] = i /\ \A d \in 0..(n - 1) : d >= n - k => f[d] = F(f, d)
            S == {k \in Nat : k <= n => \E f : Good(f, k)}
<1>1. 0 \in S
  <2>1. PICK f : f = [d \in 0..n |-> i]
    OBVIOUS
  <2>2. f[n] = i /\ f = [d \in 0..n |-> f[d]]
    BY <2>1
  <2>3. \A d \in 0..(n - 1) : ~ (d >= n - 0)
    OBVIOUS
  <2>. QED  BY <2>2, <2>3
<1>2. ASSUME NEW k \in Nat, k \in S PROVE k + 1 \in S
  <2>1. CASE k + 1 <= n
    <3>1. PICK f : Good(f, k)
      BY <1>2, <2>1
    <3>2. PICK e : e = n - (k + 1)
      OBVIOUS
    <3>3. e \in 0..n /\ e # n /\ e \in 0..(n - 1) /\ e + 1 \in 0..n /\ e + 1 # e
      BY <2>1, <3>2
    <3>4. PICK g : g = [d \in 0..n |-> IF d = e THEN F(f, e) ELSE f[d]]
      OBVIOUS
    <3>5. \A d \in 0..n : d # e => g[d] = f[d]
      BY <3>4
    <3>6. g[e] = F(f, e) /\ g[n] = i
      BY <3>1, <3>3, <3>4
    <3>7. ASSUME NEW d \in 0..(n - 1), d >= n - (k + 1) PROVE g[d] = F(g, d)
      <4>1. d + 1 \in 0..n /\ d + 1 # e /\ d \in 0..n
        BY <3>2, <3>7
      <4>2. g[d + 1] = f[d + 1]
        BY <3>5, <4>1
      <4>3. F(g, d) = F(f, d)
        BY <4>2
      <4>4. CASE d = e
        BY <3>6, <4>3, <4>4
      <4>5. CASE d # e
        <5>1. d >= n - k
          BY <2>1, <3>2, <3>7, <4>5
        <5>. QED  BY <3>1, <3>5, <4>1, <4>3, <4>5, <5>1
      <4>. QED  BY <4>4, <4>5
    <3>8. g = [d \in 0..n |-> g[d]]
      BY <3>4
    <3>9. \E h : Good(h, k + 1)
      <4>1. Good(g, k + 1)
        BY <3>6, <3>7, <3>8
      <4>. QED  BY <4>1
    <3>10. k + 1 \in Nat
      OBVIOUS
    <3>. QED  BY <3>9, <3>10
  <2>2. CASE ~ (k + 1 <= n)
    BY <2>2
  <2>. QED  BY <2>1, <2>2
<1>. HIDE DEF S
<1>3. Nat \subseteq S
  BY <1>1, <1>2, Sums!Induction, Zenon
<1>4. PICK f : Good(f, n)
  BY <1>3 DEF S
<1>5. ASSUME NEW d \in 0..n PROVE f[d] = IF d = n THEN i ELSE F(f, d)
  <2>1. CASE d = n
    BY <1>4, <2>1
  <2>2. CASE d # n
    <3>1. d \in 0..(n - 1) /\ d >= n - n
      BY <2>2
    <3>. QED  BY <1>4, <2>2, <3>1
  <2>. QED  BY <2>1, <2>2
<1>6. [d \in 0..n |-> f[d]] = [d \in 0..n |-> IF d = n THEN i ELSE F(f, d)]
  BY <1>5
<1>7. f = [d \in 0..n |-> IF d = n THEN i ELSE F(f, d)]
  BY <1>4, <1>6
<1>. QED  BY <1>7 DEF Remainder

(* f holds what is left of i when the dimensions above each are done.      *)
Unravelled(f, i, strides) ==
  /\ f[Len(strides)] = i
  /\ \A d \in 0..(Len(strides) - 1) :
       f[d] = IF strides[d + 1] = 0 THEN f[d + 1] ELSE f[d + 1] % strides[d + 1]
  /\ Unravel(i, strides) =
       [d \in DOMAIN strides |-> IF strides[d] = 0 THEN 0 ELSE f[d] \div strides[d]]

LEMMA UnravelIs ==
  ASSUME NEW strides, Len(strides) \in Nat, NEW i
  PROVE  \E f : Unravelled(f, i, strides)
<1>. DEFINE f == CHOOSE g : g = [d \in 0..Len(strides) |->
                                   IF d = Len(strides) THEN i
                                   ELSE IF strides[d + 1] = 0 THEN g[d + 1]
                                   ELSE g[d + 1] % strides[d + 1]]
<1>2. f = Remainder(f, i, strides)
  <2>1. \E g : g = [d \in 0..Len(strides) |->
                                   IF d = Len(strides) THEN i
                                   ELSE IF strides[d + 1] = 0 THEN g[d + 1]
                                   ELSE g[d + 1] % strides[d + 1]]
    <3>1. \E g : g = Remainder(g, i, strides)
      BY RemainderExists
    <3>. QED  BY <3>1, Zenon DEF Remainder
  <2>. QED  BY <2>1, Zenon DEF Remainder
<1>3. Unravel(i, strides) =
        [d \in DOMAIN strides |-> IF strides[d] = 0 THEN 0 ELSE f[d] \div strides[d]]
  BY Zenon DEF Unravel
<1>. HIDE DEF f
<1>4. ASSUME NEW d \in 0..Len(strides)
      PROVE  f[d] = IF d = Len(strides) THEN i
                    ELSE IF strides[d + 1] = 0 THEN f[d + 1] ELSE f[d + 1] % strides[d + 1]
  <2>1. Remainder(f, i, strides)[d] = IF d = Len(strides) THEN i
                    ELSE IF strides[d + 1] = 0 THEN f[d + 1] ELSE f[d + 1] % strides[d + 1]
    BY DEF Remainder
  <2>. QED  BY <1>2, <2>1
<1>5. Len(strides) \in 0..Len(strides)
  OBVIOUS
<1>6. \A d \in 0..(Len(strides) - 1) : d \in 0..Len(strides) /\ d # Len(strides)
  OBVIOUS
<1>7. Unravelled(f, i, strides)
  BY <1>3, <1>4, <1>5, <1>6 DEF Unravelled
<1>. QED  BY <1>7

-----------------------------------------------------------------------------
(* Unravelling and enumerating are inverse to each other. *)

LEMMA StridesAre ==
  ASSUME NEW shape \in Shape
  PROVE  /\ DOMAIN shape = 1..Len(shape) /\ Len(shape) \in Nat
         /\ CalcStrides(shape) \in Shape /\ Len(CalcStrides(shape)) = Len(shape)
         /\ DOMAIN CalcStrides(shape) = DOMAIN shape
         /\ \A d \in 1..Len(shape) :
              CalcStrides(shape)[d] = IF shape[d] = 1 THEN 0 ELSE Volume(shape, d - 1)
<1>1. DOMAIN shape = 1..Len(shape) /\ Len(shape) \in Nat
  BY DEF Shape
<1>2. \A d \in 1..Len(shape) : Volume(shape, d - 1) \in Nat
  BY <1>1, VolumeRules
<1>3. CalcStrides(shape) = [d \in 1..Len(shape) |-> IF shape[d] = 1 THEN 0 ELSE Volume(shape, d - 1)]
  BY <1>1, Zenon DEF CalcStrides, Volume
<1>. QED  BY <1>1, <1>2, <1>3 DEF Shape

LEMMA VolumesPositive ==
  ASSUME NEW shape \in Shape, CalcSize(shape) > 0
  PROVE  /\ \A d \in 0..Len(shape) : Volume(shape, d) > 0
         /\ \A d \in 1..Len(shape) : shape[d] > 0
<1>0. Len(shape) \in Nat /\ \A d \in 1..Len(shape) : shape[d] \in Nat
  BY DEF Shape
<1>1. ASSUME NEW d \in 1..Len(shape), Volume(shape, d) > 0
      PROVE  Volume(shape, d - 1) > 0 /\ shape[d] > 0
  <2>1. PICK V, n, W : V = Volume(shape, d - 1) /\ n = shape[d] /\ W = Volume(shape, d)
    OBVIOUS
  <2>2. V \in Nat /\ n \in Nat /\ W = V * n /\ W > 0
    BY <1>0, <1>1, <2>1, VolumeRules
  <2>3. V = 0 => W = 0
    BY <2>2
  <2>4. n = 0 => W = 0
    BY <2>2
  <2>. QED  BY <2>1, <2>2, <2>3, <2>4
<1>. DEFINE S == {k \in Nat : k <= Len(shape) => Volume(shape, Len(shape) - k) > 0}
<1>2. 0 \in S
  <2>1. Len(shape) - 0 = Len(shape)
    BY <1>0
  <2>. QED  BY <2>1, VolumeRules
<1>3. ASSUME NEW k \in Nat, k \in S PROVE k + 1 \in S
  <2>1. CASE k + 1 <= Len(shape)
    <3>1. Len(shape) - k \in 1..Len(shape) /\ (Len(shape) - k) - 1 = Len(shape) - (k + 1) /\ k <= Len(shape)
      BY <1>0, <2>1
    <3>2. Volume(shape, Len(shape) - k) > 0
      BY <1>3, <3>1
    <3>3. Volume(shape, Len(shape) - (k + 1)) > 0
      BY <1>1, <3>1, <3>2
    <3>. QED  BY <3>3
  <2>2. CASE ~ (k + 1 <= Len(shape))
    BY <2>2
  <2>. QED  BY <2>1, <2>2
<1>. HIDE DEF S
<1>4. Nat \subseteq S
  BY <1>2, <1>3, Sums!Induction, Zenon
<1>5. ASSUME NEW d \in 0..Len(shape) PROVE Volume(shape, d) > 0
  <2>1. Len(shape) - d \in S /\ Len(shape) - d <= Len(shape) /\ Len(shape) - (Len(shape) - d) = d
    BY <1>0, <1>4
  <2>. QED  BY <2>1 DEF S
<1>. QED  BY <1>0, <1>1, <1>5

LEMMA Quotient ==
  ASSUME NEW V \in Nat, V > 0, NEW n \in Nat, NEW x \in Nat, x < V * n
  PROVE  /\ x \div V \in Nat /\ x \div V < n
         /\ x % V \in Nat /\ x % V < V
         /\ x = (x % V) + (x \div V) * V
<1>1. PICK q, r : q = x \div V /\ r = x % V
  OBVIOUS
<1>2. x = V * q + r /\ r \in 0..(V - 1) /\ q \in Nat
  BY <1>1, Sums!DivMod
<1>3. q < n
  <2>1. SUFFICES ASSUME q >= n PROVE FALSE
    BY <1>2
  <2>2. PICK e \in Nat : q = n + e
    <3>1. q - n \in Nat /\ q = n + (q - n)
      BY <1>2, <2>1
    <3>. QED  BY <3>1
  <2>3. V * q = V * n + V * e /\ V * e \in Nat /\ V * n \in Nat
    BY <2>2
  <2>. QED  BY <1>2, <2>3
<1>4. V * q = q * V /\ q * V \in Nat
  BY <1>2
<1>. QED  BY <1>1, <1>2, <1>3, <1>4

(* The linear kernels recover an index from its place. *)
LEMMA UnravelCorrect ==
  ASSUME NEW shape \in Shape, NEW i \in 0..(CalcSize(shape) - 1)
  PROVE  /\ Unravel(i, CalcStrides(shape)) \in Indices(shape)
         /\ Place(shape, Unravel(i, CalcStrides(shape))) = i
<1>. DEFINE s == CalcStrides(shape)
            n == Len(shape)
            idx == Unravel(i, s)
<1>0. /\ n \in Nat /\ DOMAIN shape = 1..n /\ Len(s) = n /\ DOMAIN s = 1..n
      /\ \A d \in 1..n : shape[d] \in Nat /\ s[d] = IF shape[d] = 1 THEN 0 ELSE Volume(shape, d - 1)
  BY StridesAre DEF Shape
<1>1. CalcSize(shape) \in Nat /\ i \in Nat /\ i < CalcSize(shape) /\ CalcSize(shape) = Volume(shape, n)
  <2>1. CalcSize(shape) \in Nat /\ CalcSize(shape) = Volume(shape, n)
    BY <1>0, VolumeRules
  <2>. QED  BY <2>1
<1>2. \A d \in 0..n : Volume(shape, d) \in Nat /\ Volume(shape, d) > 0
  BY <1>1, VolumeRules, VolumesPositive
<1>3. \A d \in 1..n : Volume(shape, d) = Volume(shape, d - 1) * shape[d]
  BY VolumeRules
<1>4. PICK f : /\ f[n] = i
               /\ \A d \in 0..(n - 1) :
                     f[d] = IF s[d + 1] = 0 THEN f[d + 1] ELSE f[d + 1] % s[d + 1]
               /\ idx = [d \in 1..n |-> IF s[d] = 0 THEN 0 ELSE f[d] \div s[d]]
  <2>1. \E f : Unravelled(f, i, s)
    BY <1>0, UnravelIs
  <2>. QED  BY <1>0, <2>1 DEF Unravelled
<1>. HIDE DEF s, idx
<1>5. ASSUME NEW d \in 1..n, f[d] \in Nat, f[d] < Volume(shape, d)
      PROVE  /\ f[d - 1] \in Nat /\ f[d - 1] < Volume(shape, d - 1)
             /\ idx[d] \in Nat /\ idx[d] < shape[d]
             /\ f[d] = f[d - 1] + idx[d] * Volume(shape, d - 1)
  <2>1. d - 1 \in 0..(n - 1) /\ (d - 1) + 1 = d /\ d - 1 \in 0..n
    BY <1>0
  <2>2. PICK V, k, x : V = Volume(shape, d - 1) /\ k = shape[d] /\ x = f[d]
    OBVIOUS
  <2>3. V \in Nat /\ V > 0 /\ k \in Nat /\ x \in Nat /\ x < V * k
    BY <1>0, <1>2, <1>3, <1>5, <2>1, <2>2
  <2>4. s[d] = IF k = 1 THEN 0 ELSE V
    BY <1>0, <2>2
  <2>5. f[d - 1] = (IF s[d] = 0 THEN x ELSE x % s[d]) /\ idx[d] = (IF s[d] = 0 THEN 0 ELSE x \div s[d])
    BY <1>4, <2>1, <2>2
  <2>6. CASE k = 1
    <3>1. f[d - 1] = x /\ idx[d] = 0
      BY <2>4, <2>5, <2>6
    <3>2. x < V /\ 0 * V = 0
      BY <2>3, <2>6
    <3>. QED  BY <2>2, <2>3, <2>6, <3>1, <3>2
  <2>7. CASE k # 1
    <3>1. f[d - 1] = x % V /\ idx[d] = x \div V
      BY <2>3, <2>4, <2>5, <2>7
    <3>2. /\ x \div V \in Nat /\ x \div V < k /\ x % V \in Nat /\ x % V < V
          /\ x = (x % V) + (x \div V) * V
      BY <2>3, Quotient
    <3>. QED  BY <2>2, <3>1, <3>2
  <2>. QED  BY <2>6, <2>7
<1>. DEFINE S == {k \in Nat : k <= n => f[n - k] \in Nat /\ f[n - k] < Volume(shape, n - k)}
<1>6. 0 \in S
  <2>1. n - 0 = n
    BY <1>0
  <2>. QED  BY <1>1, <1>4, <2>1
<1>7. ASSUME NEW k \in Nat, k \in S PROVE k + 1 \in S
  <2>1. CASE k + 1 <= n
    <3>1. n - k \in 1..n /\ (n - k) - 1 = n - (k + 1) /\ k <= n
      BY <1>0, <2>1
    <3>2. f[n - k] \in Nat /\ f[n - k] < Volume(shape, n - k)
      BY <1>7, <3>1
    <3>3. f[n - (k + 1)] \in Nat /\ f[n - (k + 1)] < Volume(shape, n - (k + 1))
      BY <1>5, <3>1, <3>2
    <3>. QED  BY <3>3
  <2>2. CASE ~ (k + 1 <= n)
    BY <2>2
  <2>. QED  BY <2>1, <2>2
<1>. HIDE DEF S
<1>8. Nat \subseteq S
  BY <1>6, <1>7, Sums!Induction, Zenon
<1>9. ASSUME NEW d \in 0..n PROVE f[d] \in Nat /\ f[d] < Volume(shape, d)
  <2>1. n - d \in S /\ n - d <= n /\ n - (n - d) = d
    BY <1>0, <1>8
  <2>. QED  BY <2>1 DEF S
<1>10. ASSUME NEW d \in 1..n
       PROVE  /\ idx[d] \in Nat /\ idx[d] < shape[d]
              /\ f[d] = f[d - 1] + idx[d] * Volume(shape, d - 1)
  <2>1. d \in 0..n
    BY <1>0
  <2>. QED  BY <1>5, <1>9, <2>1
<1>11. f[0] = 0
  <2>1. 0 \in 0..n
    BY <1>0
  <2>2. Volume(shape, 0) = 1 /\ f[0] \in Nat /\ f[0] < Volume(shape, 0)
    BY <1>9, <2>1, VolumeRules
  <2>. QED  BY <2>2
<1>12. Placed(f, shape, idx)
  BY <1>10, <1>11 DEF Placed
<1>13. \A d \in 1..n : idx[d] \in Int
  BY <1>10
<1>14. Place(shape, idx) = i
  BY <1>4, <1>12, <1>13, PlaceIs
<1>15. idx \in Indices(shape)
  <2>1. idx = [d \in DOMAIN shape |-> idx[d]]
    BY <1>0, <1>4
  <2>. QED  BY <1>10, <2>1, IsIndex
<1>. QED  BY <1>14, <1>15 DEF s, idx

(* calc_index with the strides of a contiguous array is the place. *)
LEMMA ContiguousIndex ==
  ASSUME NEW shape \in Shape, NEW idx \in Indices(shape)
  PROVE  CalcIndex(CalcStrides(shape), idx) = Place(shape, idx)
<1>0. /\ Len(shape) \in Nat /\ DOMAIN shape = 1..Len(shape) /\ DOMAIN CalcStrides(shape) = DOMAIN shape
      /\ \A d \in 1..Len(shape) : /\ shape[d] \in Nat /\ idx[d] \in Nat /\ idx[d] < shape[d]
                                  /\ Volume(shape, d - 1) \in Nat
                                  /\ CalcStrides(shape)[d] = IF shape[d] = 1 THEN 0 ELSE Volume(shape, d - 1)
  <2>1. Len(shape) \in Nat /\ \A d \in 1..Len(shape) : shape[d] \in Nat
    BY DEF Shape
  <2>2. \A d \in 1..Len(shape) : idx[d] \in Nat /\ idx[d] < shape[d]
    BY InIndices
  <2>3. \A d \in 1..Len(shape) : Volume(shape, d - 1) \in Nat
    BY <2>1, VolumeRules
  <2>. QED  BY <2>1, <2>2, <2>3, StridesAre
<1>1. ASSUME NEW d \in 1..Len(shape)
      PROVE  CalcStrides(shape)[d] * idx[d] = idx[d] * Volume(shape, d - 1)
  <2>1. PICK s, k, V : s = CalcStrides(shape)[d] /\ k = idx[d] /\ V = Volume(shape, d - 1)
    OBVIOUS
  <2>2. k \in Nat /\ V \in Nat /\ (shape[d] = 1 => k = 0 /\ s = 0) /\ (shape[d] # 1 => s = V)
    BY <1>0, <2>1
  <2>3. s * k = k * V
    BY <2>2
  <2>. QED  BY <2>1, <2>3
<1>2. [d \in DOMAIN CalcStrides(shape) |-> CalcStrides(shape)[d] * idx[d]]
      = [d \in DOMAIN shape |-> idx[d] * Product(SubSeq(shape, 1, d - 1))]
  BY <1>0, <1>1 DEF Volume
<1>. QED  BY <1>2, Zenon DEF CalcIndex, Place

-----------------------------------------------------------------------------
(* Counting positions *)

Count(K, i) == Cardinality(K \cap (1..i))

LEMMA CountRules ==
  ASSUME NEW K
  PROVE  /\ Count(K, 0) = 0
         /\ \A i \in Nat : Count(K, i) \in Nat
         /\ \A i \in Nat : Count(K, i + 1) = Count(K, i) + (IF i + 1 \in K THEN 1 ELSE 0)
<1>1. Count(K, 0) = 0
  <2>1. K \cap (1..0) = {}
    OBVIOUS
  <2>. QED  BY <2>1, FS_EmptySet DEF Count
<1>2. ASSUME NEW i \in Nat PROVE IsFiniteSet(K \cap (1..i)) /\ Count(K, i) \in Nat
  <2>1. IsFiniteSet(1..i) /\ K \cap (1..i) \subseteq 1..i
    BY FS_Interval
  <2>2. IsFiniteSet(K \cap (1..i))
    BY <2>1, FS_Subset
  <2>. QED  BY <2>2, FS_CardinalityType DEF Count
<1>3. ASSUME NEW i \in Nat
      PROVE  Count(K, i + 1) = Count(K, i) + (IF i + 1 \in K THEN 1 ELSE 0)
  <2>1. CASE i + 1 \in K
    <3>1. K \cap (1..(i + 1)) = (K \cap (1..i)) \cup {i + 1} /\ ~ (i + 1 \in K \cap (1..i))
      BY <2>1
    <3>2. Cardinality((K \cap (1..i)) \cup {i + 1}) = Cardinality(K \cap (1..i)) + 1
      BY <1>2, <3>1, FS_AddElement
    <3>. QED  BY <2>1, <3>1, <3>2 DEF Count
  <2>2. CASE ~ (i + 1 \in K)
    <3>1. K \cap (1..(i + 1)) = K \cap (1..i)
      BY <2>2
    <3>. QED  BY <1>2, <2>2, <3>1 DEF Count
  <2>. QED  BY <2>1, <2>2
<1>. QED  BY <1>1, <1>2, <1>3

LEMMA CountNext ==
  ASSUME NEW K, NEW i \in Nat
  PROVE  /\ Count(K, i) \in Nat /\ Count(K, i + 1) \in Nat
         /\ Count(K, i + 1) = Count(K, i) + (IF i + 1 \in K THEN 1 ELSE 0)
<1>1. i + 1 \in Nat
  OBVIOUS
<1>. QED  BY <1>1, CountRules

LEMMA CountGrows ==
  ASSUME NEW K, NEW i \in Nat, NEW j \in Nat, i <= j
  PROVE  Count(K, i) <= Count(K, j) /\ (j \in K /\ i < j => Count(K, i) < Count(K, j))
<1>. DEFINE S == {n \in Nat : Count(K, i) <= Count(K, i + n)}
<1>1. 0 \in S
  BY CountRules
<1>2. ASSUME NEW n \in Nat, n \in S PROVE n + 1 \in S
  <2>1. (i + n) + 1 = i + (n + 1) /\ i + n \in Nat /\ i + (n + 1) \in Nat
    OBVIOUS
  <2>2. Count(K, (i + n) + 1) >= Count(K, i + n) /\ Count(K, i + n) \in Nat /\ Count(K, (i + n) + 1) \in Nat
        /\ Count(K, i) \in Nat
    BY <2>1, CountNext
  <2>3. Count(K, i) <= Count(K, i + n)
    BY <1>2
  <2>. QED  BY <2>1, <2>2, <2>3
<1>. HIDE DEF S
<1>3. Nat \subseteq S
  BY <1>1, <1>2, Sums!Induction, Zenon
<1>4. Count(K, i) <= Count(K, j)
  <2>1. j - i \in S /\ i + (j - i) = j
    BY <1>3
  <2>. QED  BY <2>1 DEF S
<1>5. ASSUME j \in K, i < j PROVE Count(K, i) < Count(K, j)
  <2>1. j - 1 \in Nat /\ (j - 1) + 1 = j /\ (j - 1) - i \in Nat /\ i + ((j - 1) - i) = j - 1
    BY <1>5
  <2>2. Count(K, i) <= Count(K, j - 1)
    <3>1. (j - 1) - i \in S
      BY <1>3, <2>1
    <3>. QED  BY <2>1, <3>1 DEF S
  <2>3. Count(K, j) = Count(K, j - 1) + 1 /\ Count(K, j - 1) \in Nat /\ Count(K, i) \in Nat
    BY <1>5, <2>1, CountNext
  <2>. QED  BY <2>2, <2>3
<1>. QED  BY <1>4, <1>5

(* Position k of K is where the count gets to k. *)
LEMMA CountReaches ==
  ASSUME NEW K, NEW n \in Nat
  PROVE  /\ \A i \in 1..n : i \in K => Count(K, i) \in 1..Count(K, n)
         /\ \A i, j \in 1..n : i \in K /\ j \in K /\ Count(K, i) = Count(K, j) => i = j
         /\ \A k \in 1..Count(K, n) : \E i \in 1..n : i \in K /\ Count(K, i) = k
<1>1. ASSUME NEW i \in 1..n, i \in K PROVE Count(K, i) \in 1..Count(K, n)
  <2>1. Count(K, 0) < Count(K, i) /\ Count(K, i) <= Count(K, n)
    BY <1>1, CountGrows
  <2>. QED  BY <2>1, CountRules
<1>2. ASSUME NEW i \in 1..n, NEW j \in 1..n, i \in K, j \in K, Count(K, i) = Count(K, j) PROVE i = j
  <2>0. i \in Nat /\ j \in Nat /\ Count(K, i) \in Nat
    BY CountNext
  <2>1. ~ (i < j)
    BY <1>2, <2>0, CountGrows
  <2>2. ~ (j < i)
    BY <1>2, <2>0, CountGrows
  <2>. QED  BY <2>0, <2>1, <2>2
<1>3. \A k \in 1..Count(K, n) : \E i \in 1..n : i \in K /\ Count(K, i) = k
  <2>. DEFINE S == {m \in Nat : \A k \in 1..Count(K, m) : \E i \in 1..m : i \in K /\ Count(K, i) = k}
  <2>1. 0 \in S
    BY CountRules
  <2>2. ASSUME NEW m \in Nat, m \in S PROVE m + 1 \in S
    <3>1. ASSUME NEW k \in 1..Count(K, m + 1)
          PROVE  \E i \in 1..(m + 1) : i \in K /\ Count(K, i) = k
      <4>0. Count(K, m) \in Nat /\ Count(K, m + 1) \in Nat
            /\ Count(K, m + 1) = Count(K, m) + (IF m + 1 \in K THEN 1 ELSE 0)
        BY CountNext
      <4>1. CASE k <= Count(K, m)
        <5>1. \E i \in 1..m : i \in K /\ Count(K, i) = k
          BY <2>2, <4>0, <4>1
        <5>. QED  BY <5>1
      <4>2. CASE ~ (k <= Count(K, m))
        <5>1. m + 1 \in K /\ k = Count(K, m + 1)
          BY <4>0, <4>2
        <5>. QED  BY <5>1
      <4>. QED  BY <4>1, <4>2
    <3>. QED  BY <3>1
  <2>. HIDE DEF S
  <2>3. Nat \subseteq S
    BY <2>1, <2>2, Sums!Induction, Zenon
  <2>. QED  BY <2>3 DEF S
<1>. QED  BY <1>1, <1>2, <1>3

-----------------------------------------------------------------------------
(* A sum does not depend on the order of its terms. *)

Without(s, j) == [i \in 1..(Len(s) - 1) |-> IF i < j THEN s[i] ELSE s[i + 1]]

LEMMA TotalEmptyAppend ==
  /\ Total(<< >>) = 0
  /\ \A s \in Seq(Int), x \in Int : Total(Append(s, x)) = Total(s) + x
<1>1. Total(<< >>) = 0
  BY TotalIsFold, Sums!FoldEmpty, Zenon
<1>2. ASSUME NEW s \in Seq(Int), NEW x \in Int PROVE Total(Append(s, x)) = Total(s) + x
  <2>1. Total(Append(s, x)) = Plus(Total(s), x)
    BY TotalIsFold, Sums!FoldAppend, Zenon
  <2>. QED  BY <2>1 DEF Plus
<1>. QED  BY <1>1, <1>2

LEMMA SplitLast ==
  ASSUME NEW s \in Seq(Int), NEW n \in Nat, Len(s) = n + 1
  PROVE  \E f \in Seq(Int) : /\ s = Append(f, s[n + 1]) /\ Len(f) = n /\ s[n + 1] \in Int
                           /\ \A i \in 1..n : f[i] = s[i]
<1>1. PICK f : f = [i \in 1..n |-> s[i]]
  OBVIOUS
<1>2. f \in Seq(Int) /\ Len(f) = n /\ \A i \in 1..n : f[i] = s[i]
  BY <1>1
<1>3. s = Append(f, s[n + 1]) /\ s[n + 1] \in Int
  BY <1>2
<1>. QED  BY <1>2, <1>3

LEMMA TotalWithout ==
  \A n \in Nat : \A s \in Seq(Int) : \A j \in 1..(n + 1) :
     Len(s) = n + 1 => Without(s, j) \in Seq(Int) /\ Len(Without(s, j)) = n /\ Total(s) = Total(Without(s, j)) + s[j]
<1>0. ASSUME NEW s \in Seq(Int), NEW n \in Nat, Len(s) = n + 1, NEW j \in 1..(n + 1)
      PROVE  Without(s, j) \in Seq(Int) /\ Len(Without(s, j)) = n
  <2>1. \A i \in 1..n : (IF i < j THEN s[i] ELSE s[i + 1]) \in Int
    BY <1>0
  <2>2. Without(s, j) = [i \in 1..n |-> IF i < j THEN s[i] ELSE s[i + 1]]
    BY <1>0 DEF Without
  <2>. QED  BY <2>1, <2>2
<1>. DEFINE Holds(n) == \A s \in Seq(Int) : \A j \in 1..(n + 1) :
                          Len(s) = n + 1 => Total(s) = Total(Without(s, j)) + s[j]
            S == {n \in Nat : Holds(n)}
<1>1. ASSUME NEW n \in Nat, NEW s \in Seq(Int), Len(s) = n + 1
      PROVE  Total(s) = Total(Without(s, n + 1)) + s[n + 1]
  <2>1. PICK f \in Seq(Int) : /\ s = Append(f, s[n + 1]) /\ Len(f) = n /\ s[n + 1] \in Int
                              /\ \A i \in 1..n : f[i] = s[i]
    BY <1>1, SplitLast
  <2>2. f = [i \in 1..n |-> f[i]]
    BY <2>1
  <2>3. Without(s, n + 1) = [i \in 1..n |-> f[i]]
    BY <1>1, <2>1 DEF Without
  <2>4. Total(Append(f, s[n + 1])) = Total(f) + s[n + 1]
    BY <2>1, TotalEmptyAppend
  <2>. QED  BY <2>1, <2>2, <2>3, <2>4
<1>2. 0 \in S
  <2>1. ASSUME NEW s \in Seq(Int), NEW j \in 1..(0 + 1), Len(s) = 0 + 1
        PROVE  Total(s) = Total(Without(s, j)) + s[j]
    <3>1. j = 0 + 1
      OBVIOUS
    <3>. QED  BY <1>1, <2>1, <3>1
  <2>. QED  BY <2>1
<1>3. ASSUME NEW n \in Nat, n \in S PROVE n + 1 \in S
  <2>1. ASSUME NEW s \in Seq(Int), NEW j \in 1..((n + 1) + 1), Len(s) = (n + 1) + 1
        PROVE  Total(s) = Total(Without(s, j)) + s[j]
    <3>1. CASE j = (n + 1) + 1
      BY <1>1, <2>1, <3>1
    <3>2. CASE j # (n + 1) + 1
      <4>1. PICK f \in Seq(Int) : /\ s = Append(f, s[(n + 1) + 1]) /\ Len(f) = n + 1
                                  /\ s[(n + 1) + 1] \in Int /\ \A i \in 1..(n + 1) : f[i] = s[i]
        <5>1. PICK m : m = n + 1
          OBVIOUS
        <5>2. m \in Nat /\ Len(s) = m + 1
          BY <2>1, <5>1
        <5>3. \E f \in Seq(Int) : /\ s = Append(f, s[m + 1]) /\ Len(f) = m
                                   /\ s[m + 1] \in Int /\ \A i \in 1..m : f[i] = s[i]
          BY <5>2, SplitLast
        <5>. QED  BY <5>1, <5>3
      <4>2. PICK x : x = s[(n + 1) + 1]
        OBVIOUS
      <4>3. j \in 1..(n + 1) /\ f[j] = s[j] /\ f[j] \in Int
        BY <3>2, <4>1
      <4>4. Total(f) = Total(Without(f, j)) + f[j]
        BY <1>3, <4>1, <4>3
      <4>5. Without(f, j) \in Seq(Int) /\ Len(Without(f, j)) = n /\ x \in Int
        BY <1>0, <4>1, <4>2, <4>3
      <4>6. Without(s, j) = Append(Without(f, j), x)
        <5>1. ASSUME NEW i \in 1..(n + 1)
              PROVE  (IF i < j THEN s[i] ELSE s[i + 1]) = IF i = n + 1 THEN x ELSE Without(f, j)[i]
          <6>1. CASE i = n + 1
            BY <4>2, <4>3, <6>1
          <6>2. CASE i # n + 1
            <7>1. i \in 1..n /\ i \in 1..(n + 1) /\ i + 1 \in 1..(n + 1)
              BY <6>2
            <7>2. Without(f, j)[i] = IF i < j THEN f[i] ELSE f[i + 1]
              BY <4>1, <7>1 DEF Without
            <7>. QED  BY <4>1, <6>2, <7>1, <7>2
          <6>. QED  BY <6>1, <6>2
        <5>2. Without(s, j) = [i \in 1..(n + 1) |-> IF i = n + 1 THEN x ELSE Without(f, j)[i]]
          <6>1. Len(s) - 1 = n + 1
            BY <2>1
          <6>2. Without(s, j) = [i \in 1..(n + 1) |-> IF i < j THEN s[i] ELSE s[i + 1]]
            BY <6>1 DEF Without
          <6>. HIDE DEF Without
          <6>. QED  BY <5>1, <6>2
        <5>. HIDE DEF Without
        <5>3. Append(Without(f, j), x) = [i \in 1..(n + 1) |-> IF i = n + 1 THEN x ELSE Without(f, j)[i]]
          <6>1. PICK w : w = Without(f, j)
            OBVIOUS
          <6>3. w \in Seq(Int) /\ Len(w) = n /\ x \in Int
            BY <4>5, <6>1
          <6>2. Append(w, x) = [i \in 1..(n + 1) |-> IF i = n + 1 THEN x ELSE w[i]]
            <7>1. Len(w) + 1 = n + 1 /\ 1..(Len(w) + 1) = 1..(n + 1)
              BY <6>3
            <7>2. PICK a : a = Append(w, x)
              OBVIOUS
            <7>3. a \in Seq(Int) /\ Len(a) = n + 1 /\ \A i \in 1..(n + 1) : a[i] = IF i = n + 1 THEN x ELSE w[i]
              BY <6>3, <7>2
            <7>4. a = [i \in 1..(n + 1) |-> a[i]]
              BY <7>3
            <7>5. [i \in 1..(n + 1) |-> a[i]] = [i \in 1..(n + 1) |-> IF i = n + 1 THEN x ELSE w[i]]
              BY <7>3
            <7>. QED  BY <7>2, <7>4, <7>5
          <6>. QED  BY <6>1, <6>2
        <5>. QED  BY <5>2, <5>3
      <4>7. Total(s) = Total(f) + x /\ Total(Without(s, j)) = Total(Without(f, j)) + x
        BY <4>1, <4>2, <4>5, <4>6, TotalEmptyAppend
      <4>8. Total(f) \in Int /\ Total(Without(f, j)) \in Int
        BY <4>1, <4>5, TotalIn
      <4>. QED  BY <4>3, <4>4, <4>5, <4>7, <4>8
    <3>. QED  BY <3>1, <3>2
  <2>. QED  BY <2>1
<1>. HIDE DEF S
<1>4. Nat \subseteq S
  BY <1>2, <1>3, Sums!Induction, Zenon
<1>5. \A n \in Nat : Holds(n)
  BY <1>4 DEF S
<1>. QED  BY <1>0, <1>5

Permuting(p, n) == p \in [1..n -> 1..n] /\ \A i, j \in 1..n : i # j => p[i] # p[j]

LEMMA PermutationReaches ==
  ASSUME NEW n \in Nat, NEW p, Permuting(p, n)
  PROVE  \A k \in 1..n : \E i \in 1..n : p[i] = k
<1>1. IsFiniteSet(1..n)
  BY FS_Interval
<1>2. p \in Injection(1..n, 1..n)
  BY DEF Permuting, Injection, IsInjective
<1>3. p \in Surjection(1..n, 1..n)
  BY <1>1, <1>2, FS_Injection
<1>. QED  BY <1>3 DEF Surjection

LEMMA TotalPermuted ==
  \A n \in Nat : \A s \in Seq(Int) : \A p :
     Len(s) = n /\ Permuting(p, n) => Total([i \in 1..n |-> s[p[i]]]) = Total(s)
<1>. DEFINE Holds(n) == \A s \in Seq(Int) : \A p :
                Len(s) = n /\ Permuting(p, n) => Total([i \in 1..n |-> s[p[i]]]) = Total(s)
            S == {n \in Nat : Holds(n)}
<1>1. 0 \in S
  <2>1. ASSUME NEW s \in Seq(Int), NEW p, Len(s) = 0
        PROVE  Total([i \in 1..0 |-> s[p[i]]]) = Total(s)
    <3>1. [i \in 1..0 |-> s[p[i]]] = << >> /\ s = << >>
      BY <2>1
    <3>. QED  BY <3>1
  <2>. QED  BY <2>1
<1>2. ASSUME NEW n \in Nat, n \in S PROVE n + 1 \in S
  <2>1. ASSUME NEW s \in Seq(Int), NEW p, Len(s) = n + 1, Permuting(p, n + 1)
        PROVE  Total([i \in 1..(n + 1) |-> s[p[i]]]) = Total(s)
    <3>1. PICK f \in Seq(Int) : /\ s = Append(f, s[n + 1]) /\ Len(f) = n /\ s[n + 1] \in Int
                                /\ \A i \in 1..n : f[i] = s[i]
      BY <2>1, SplitLast
    <3>2. PICK j \in 1..(n + 1) : p[j] = n + 1
      <4>1. PICK m : m = n + 1
        OBVIOUS
      <4>2. m \in Nat /\ m \in 1..m /\ Permuting(p, m)
        BY <2>1, <4>1
      <4>3. \A k \in 1..m : \E i \in 1..m : p[i] = k
        BY <4>2, PermutationReaches
      <4>. QED  BY <4>1, <4>2, <4>3
    <3>3. PICK t : t = [i \in 1..(n + 1) |-> s[p[i]]]
      OBVIOUS
    <3>4. \A i \in 1..(n + 1) : p[i] \in 1..(n + 1)
      BY <2>1 DEF Permuting
    <3>5. t \in Seq(Int) /\ Len(t) = n + 1 /\ t[j] = s[n + 1] /\ \A i \in 1..(n + 1) : t[i] = s[p[i]]
      <4>1. \A i \in 1..(n + 1) : s[p[i]] \in Int
        BY <2>1, <3>4
      <4>. QED  BY <3>2, <3>3, <4>1
    <3>6. PICK q : q = [i \in 1..n |-> IF i < j THEN p[i] ELSE p[i + 1]]
      OBVIOUS
    <3>7. ASSUME NEW i \in 1..n PROVE q[i] \in 1..n /\ s[q[i]] = f[q[i]]
      <4>1. q[i] \in 1..(n + 1) /\ q[i] # n + 1
        <5>1. CASE i < j
          <6>1. i \in 1..(n + 1) /\ i # j /\ q[i] = p[i]
            BY <3>6, <5>1
          <6>. QED  BY <2>1, <3>2, <3>4, <6>1 DEF Permuting
        <5>2. CASE ~ (i < j)
          <6>1. i + 1 \in 1..(n + 1) /\ i + 1 # j /\ q[i] = p[i + 1]
            BY <3>6, <5>2
          <6>. QED  BY <2>1, <3>2, <3>4, <6>1 DEF Permuting
        <5>. QED  BY <5>1, <5>2
      <4>2. q[i] \in 1..n
        <5>1. PICK v : v = q[i]
          OBVIOUS
        <5>2. v \in 1..(n + 1) /\ v # n + 1
          BY <4>1, <5>1
        <5>3. v \in 1..n
          BY <5>2
        <5>. QED  BY <5>1, <5>3
      <4>. QED  BY <3>1, <4>2
    <3>8. Permuting(q, n)
      <4>1. q \in [1..n -> 1..n]
        BY <3>6, <3>7
      <4>2. ASSUME NEW i \in 1..n, NEW k \in 1..n, i # k PROVE q[i] # q[k]
        <5>1. PICK a, b : a = (IF i < j THEN i ELSE i + 1) /\ b = (IF k < j THEN k ELSE k + 1)
          OBVIOUS
        <5>2. a \in 1..(n + 1) /\ b \in 1..(n + 1) /\ a # b
          BY <4>2, <5>1
        <5>3. q[i] = p[a] /\ q[k] = p[b]
          BY <3>6, <5>1
        <5>. QED  BY <2>1, <5>2, <5>3 DEF Permuting
      <4>. QED  BY <4>1, <4>2 DEF Permuting
    <3>9. Without(t, j) = [i \in 1..n |-> f[q[i]]]
      <4>1. ASSUME NEW i \in 1..n PROVE (IF i < j THEN t[i] ELSE t[i + 1]) = f[q[i]]
        <5>1. i \in 1..(n + 1) /\ i + 1 \in 1..(n + 1)
          OBVIOUS
        <5>2. CASE i < j
          BY <3>5, <3>6, <3>7, <5>1, <5>2
        <5>3. CASE ~ (i < j)
          BY <3>5, <3>6, <3>7, <5>1, <5>3
        <5>. QED  BY <5>2, <5>3
      <4>2. Without(t, j) = [i \in 1..n |-> IF i < j THEN t[i] ELSE t[i + 1]]
        BY <3>5 DEF Without
      <4>. QED  BY <4>1, <4>2
    <3>10. Total([i \in 1..n |-> f[q[i]]]) = Total(f)
      BY <1>2, <3>1, <3>8
    <3>11. Total(t) = Total(Without(t, j)) + t[j]
      BY <3>5, TotalWithout
    <3>12. Total(s) = Total(f) + s[n + 1]
      BY <3>1, TotalEmptyAppend
    <3>. QED  BY <3>3, <3>5, <3>9, <3>10, <3>11, <3>12
  <2>. QED  BY <2>1
<1>. HIDE DEF S
<1>3. Nat \subseteq S
  BY <1>1, <1>2, Sums!Induction, Zenon
<1>. QED  BY <1>3 DEF S

-----------------------------------------------------------------------------
(* Sequences put together *)

LEMMA Joined ==
  ASSUME NEW T, NEW s \in Seq(T), NEW t \in Seq(T)
  PROVE  /\ s \o t \in Seq(T) /\ Len(s \o t) = Len(s) + Len(t)
         /\ DOMAIN (s \o t) = 1..(Len(s) + Len(t))
         /\ \A i \in 1..(Len(s) + Len(t)) :
              (s \o t)[i] = IF i <= Len(s) THEN s[i] ELSE t[i - Len(s)]
  OBVIOUS

LEMMA Inserted ==
  ASSUME NEW T, NEW s \in Seq(T), NEW x \in T, NEW axis \in 1..(Len(s) + 1)
  PROVE  /\ InsertAt(s, axis, x) \in Seq(T) /\ Len(InsertAt(s, axis, x)) = Len(s) + 1
         /\ \A i \in 1..(Len(s) + 1) :
              InsertAt(s, axis, x)[i] = IF i = axis THEN x ELSE IF i < axis THEN s[i] ELSE s[i - 1]
<1>0. PICK n, u, y, z : n = Len(s) /\ u = SubSeq(s, 1, axis - 1) /\ y = <<x>> /\ z = SubSeq(s, axis, n)
  OBVIOUS
<1>1. n \in Nat /\ axis \in 1..(n + 1)
  BY <1>0
<1>2. /\ u \in Seq(T) /\ Len(u) = axis - 1 /\ \A i \in 1..(axis - 1) : u[i] = s[i]
      /\ y \in Seq(T) /\ Len(y) = 1 /\ y[1] = x
  BY <1>0, <1>1
<1>3. z \in Seq(T) /\ Len(z) = n - axis + 1 /\ \A i \in 1..(n - axis + 1) : z[i] = s[axis + i - 1]
  <2>1. CASE axis = n + 1
    BY <1>0, <1>1, <2>1
  <2>2. CASE axis # n + 1
    BY <1>0, <1>1, <2>2
  <2>. QED  BY <2>1, <2>2
<1>4. InsertAt(s, axis, x) = (u \o y) \o z
  BY <1>0 DEF InsertAt
<1>5. PICK v, w : v = u \o y /\ w = v \o z
  OBVIOUS
<1>6. v \in Seq(T) /\ Len(v) = axis /\ \A i \in 1..axis : v[i] = IF i <= axis - 1 THEN s[i] ELSE y[i - (axis - 1)]
  <2>1. /\ v \in Seq(T) /\ Len(v) = Len(u) + Len(y)
        /\ \A i \in 1..(Len(u) + Len(y)) : v[i] = IF i <= Len(u) THEN u[i] ELSE y[i - Len(u)]
    BY <1>2, <1>5, Joined
  <2>2. Len(u) + Len(y) = axis
    BY <1>1, <1>2
  <2>. QED  BY <1>1, <1>2, <2>1, <2>2
<1>7. w \in Seq(T) /\ Len(w) = n + 1 /\ \A i \in 1..(n + 1) : w[i] = IF i <= axis THEN v[i] ELSE z[i - axis]
  <2>0. v \in Seq(T) /\ z \in Seq(T)
    BY <1>3, <1>6
  <2>3. /\ v \o z \in Seq(T) /\ Len(v \o z) = Len(v) + Len(z)
        /\ \A i \in 1..(Len(v) + Len(z)) : (v \o z)[i] = IF i <= Len(v) THEN v[i] ELSE z[i - Len(v)]
    BY <2>0, Joined
  <2>1. /\ w \in Seq(T) /\ Len(w) = Len(v) + Len(z)
        /\ \A i \in 1..(Len(v) + Len(z)) : w[i] = IF i <= Len(v) THEN v[i] ELSE z[i - Len(v)]
    BY <1>5, <2>3
  <2>2. Len(v) + Len(z) = n + 1
    BY <1>1, <1>3, <1>6
  <2>. QED  BY <1>6, <2>1, <2>2
<1>8. ASSUME NEW i \in 1..(n + 1) PROVE w[i] = IF i = axis THEN x ELSE IF i < axis THEN s[i] ELSE s[i - 1]
  <2>1. CASE i < axis
    BY <1>1, <1>6, <1>7, <2>1
  <2>2. CASE i = axis
    <3>1. i \in 1..axis /\ ~ (i <= axis - 1) /\ i - (axis - 1) = 1
      BY <1>1, <2>2
    <3>. QED  BY <1>2, <1>6, <1>7, <2>2, <3>1
  <2>3. CASE i > axis
    <3>1. PICK k : k = i - axis
      OBVIOUS
    <3>2. k \in 1..(n - axis + 1) /\ axis + k - 1 = i - 1 /\ ~ (i <= axis)
      BY <1>1, <2>3, <3>1
    <3>3. w[i] = z[k]
      BY <1>7, <3>1, <3>2
    <3>4. z[k] = s[i - 1]
      BY <1>3, <3>2
    <3>. QED  BY <1>1, <2>3, <3>3, <3>4
  <2>. QED  BY <1>1, <2>1, <2>2, <2>3
<1>. QED  BY <1>0, <1>4, <1>5, <1>7, <1>8

LEMMA Removed ==
  ASSUME NEW T, NEW s \in Seq(T), NEW axis \in 1..Len(s)
  PROVE  /\ RemoveAt(s, axis) \in Seq(T) /\ Len(RemoveAt(s, axis)) = Len(s) - 1
         /\ \A i \in 1..(Len(s) - 1) : RemoveAt(s, axis)[i] = IF i < axis THEN s[i] ELSE s[i + 1]
<1>0. PICK n, u, z, w : n = Len(s) /\ u = SubSeq(s, 1, axis - 1) /\ z = SubSeq(s, axis + 1, n) /\ w = u \o z
  OBVIOUS
<1>1. n \in Nat /\ axis \in 1..n
  BY <1>0
<1>2. u \in Seq(T) /\ Len(u) = axis - 1 /\ \A i \in 1..(axis - 1) : u[i] = s[i]
  BY <1>0, <1>1
<1>3. z \in Seq(T) /\ Len(z) = n - axis /\ \A i \in 1..(n - axis) : z[i] = s[axis + i]
  <2>1. CASE axis = n
    BY <1>0, <1>1, <2>1
  <2>2. CASE axis # n
    BY <1>0, <1>1, <2>2
  <2>. QED  BY <2>1, <2>2
<1>4. RemoveAt(s, axis) = w
  BY <1>0 DEF RemoveAt
<1>5. w \in Seq(T) /\ Len(w) = n - 1 /\ \A i \in 1..(n - 1) : w[i] = IF i <= axis - 1 THEN u[i] ELSE z[i - (axis - 1)]
  <2>0. u \in Seq(T) /\ z \in Seq(T)
    BY <1>2, <1>3
  <2>3. /\ u \o z \in Seq(T) /\ Len(u \o z) = Len(u) + Len(z)
        /\ \A i \in 1..(Len(u) + Len(z)) : (u \o z)[i] = IF i <= Len(u) THEN u[i] ELSE z[i - Len(u)]
    BY <2>0, Joined
  <2>1. /\ w \in Seq(T) /\ Len(w) = Len(u) + Len(z)
        /\ \A i \in 1..(Len(u) + Len(z)) : w[i] = IF i <= Len(u) THEN u[i] ELSE z[i - Len(u)]
    BY <1>0, <2>3
  <2>2. Len(u) + Len(z) = n - 1
    BY <1>1, <1>2, <1>3
  <2>. QED  BY <1>2, <2>1, <2>2
<1>6. ASSUME NEW i \in 1..(n - 1) PROVE w[i] = IF i < axis THEN s[i] ELSE s[i + 1]
  <2>1. CASE i < axis
    BY <1>1, <1>2, <1>5, <2>1
  <2>2. CASE i >= axis
    <3>1. PICK k : k = i - (axis - 1)
      OBVIOUS
    <3>2. k \in 1..(n - axis) /\ axis + k = i + 1 /\ ~ (i <= axis - 1)
      BY <1>1, <2>2, <3>1
    <3>. QED  BY <1>1, <1>3, <1>5, <2>2, <3>1, <3>2
  <2>. QED  BY <1>1, <2>1, <2>2
<1>. QED  BY <1>0, <1>4, <1>5, <1>6

LEMMA TotalDoubled ==
  ASSUME NEW s \in Seq(Int), NEW t \in Seq(Int), Len(t) = Len(s), \A i \in 1..Len(s) : t[i] = 2 * s[i]
  PROVE  Total(t) = 2 * Total(s)
<1>1. PICK h : Partial(h, s) /\ Total(s) = h[Len(s)] /\ \A d \in 0..Len(s) : h[d] \in Int
  BY TotalPartial
<1>2. PICK n : n = Len(s)
  OBVIOUS
<1>3. PICK g : g = [d \in 0..n |-> 2 * h[d]]
  OBVIOUS
<1>4. n \in Nat /\ \A d \in 0..n : g[d] = 2 * h[d] /\ h[d] \in Int
  BY <1>1, <1>2, <1>3
<1>5. Partial(g, t)
  <2>1. g[0] = 0
    BY <1>1, <1>4 DEF Partial
  <2>2. ASSUME NEW d \in 1..n PROVE g[d] = g[d - 1] + t[d]
    <3>1. d - 1 \in 0..n /\ d \in 0..n
      BY <1>4
    <3>2. h[d] = h[d - 1] + s[d] /\ s[d] \in Int
      BY <1>1, <1>2 DEF Partial
    <3>3. g[d] = 2 * h[d] /\ g[d - 1] = 2 * h[d - 1] /\ h[d - 1] \in Int /\ t[d] = 2 * s[d]
      BY <1>2, <1>4, <3>1
    <3>. QED  BY <3>2, <3>3
  <2>. QED  BY <1>2, <2>1, <2>2 DEF Partial
<1>6. Total(t) = g[n]
  BY <1>2, <1>5, TotalIs
<1>. QED  BY <1>1, <1>2, <1>4, <1>6

(* A shape has as many indices as elements.                                *)
LEMMA IndicesCounted ==
  ASSUME NEW shape \in Shape
  PROVE  IsFiniteSet(Indices(shape)) /\ Cardinality(Indices(shape)) = CalcSize(shape)
<1>1. PICK n : n = CalcSize(shape)
  OBVIOUS
<1>2. n \in Nat
  BY <1>1, ProductIn DEF CalcSize, Shape
<1>3. PICK f : f = [i \in 0..(n - 1) |-> Unravel(i, CalcStrides(shape))]
  OBVIOUS
<1>4. \A i \in 0..(n - 1) : f[i] \in Indices(shape) /\ Place(shape, f[i]) = i
  BY <1>1, <1>3, UnravelCorrect
<1>5. f \in [0..(n - 1) -> Indices(shape)] /\ \A i, j \in 0..(n - 1) : f[i] = f[j] => i = j
  BY <1>3, <1>4
<1>6. \A idx \in Indices(shape) : \E i \in 0..(n - 1) : f[i] = idx
  <2>1. ASSUME NEW idx \in Indices(shape) PROVE \E i \in 0..(n - 1) : f[i] = idx
    <3>1. PICK i : i = Place(shape, idx)
      OBVIOUS
    <3>2. i \in 0..(n - 1)
      BY <1>1, <3>1, PlaceBelow
    <3>3. f[i] = idx
      BY <1>4, <3>1, <3>2, PlaceInjective
    <3>. QED  BY <3>2, <3>3
  <2>. QED  BY <2>1
<1>7. f \in Bijection(0..(n - 1), Indices(shape))
  BY <1>5, <1>6 DEF Bijection, Injection, Surjection, IsInjective
<1>8. IsFiniteSet(0..(n - 1)) /\ Cardinality(0..(n - 1)) = n
  BY <1>2, FS_Interval
<1>9. ExistsBijection(0..(n - 1), Indices(shape))
  BY <1>7 DEF ExistsBijection
<1>. QED  BY <1>1, <1>8, <1>9, FS_Bijection
=============================================================================
