-------------------------- MODULE AssignmentProofs --------------------------
(***************************************************************************)
(* Proofs about Assignment, for shapes of up to six dimensions with any    *)
(* extents, any blocks of threads, targets and expressions, and every way  *)
(* a build evaluates.                                                      *)
(*                                                                         *)
(* First the kernels: the threads of a grid that pass the kernel's guard   *)
(* have indices of their own, and every index has a thread, however the    *)
(* dimensions are packed on the three axes (Digits to Threads).  Then the  *)
(* regions they write: two indices of a region never have the same         *)
(* address, operands are either the region itself or elsewhere, and the    *)
(* shape of an expression is such that every operand has an element for    *)
(* every index (Addresses to Expressions).                                 *)
(*                                                                         *)
(* The invariant Inv follows a kernel (Progress): every thread still to    *)
(* run would write, from what the arrays hold now, the value expected of   *)
(* its element, and all other elements are as expected already.  It stays  *)
(* true because no thread writes what another one writes (Apart) or has    *)
(* still to read (Reads), so RaceFree follows from the same invariant, and *)
(* AssignmentCorrect could not be proved without it.                       *)
(***************************************************************************)
EXTENDS Assignment, IndexingProofs

-----------------------------------------------------------------------------
(* Digits *)

(* Remainders of a product. *)
LEMMA ModSplit ==
  ASSUME NEW V \in Nat, V > 0, NEW n \in Nat, n > 0, NEW v \in Nat
  PROVE  /\ v % (V * n) = (v % V) + ((v \div V) % n) * V
         /\ (v \div V) % n \in 0..(n - 1)
<1>1. PICK q, r : q = v \div V /\ r = v % V
  OBVIOUS
<1>2. v = V * q + r /\ r \in 0..(V - 1) /\ q \in Nat
  BY <1>1, Sums!DivMod
<1>3. PICK p, s : p = q \div n /\ s = q % n
  OBVIOUS
<1>4. q = n * p + s /\ s \in 0..(n - 1) /\ p \in Nat
  BY <1>2, <1>3, Sums!DivMod
<1>5. PICK e \in Nat : n = s + 1 + e
  <2>1. n - s - 1 \in Nat /\ n = s + 1 + (n - s - 1)
    BY <1>4
  <2>. QED  BY <2>1
<1>6. PICK W, m : W = V * n /\ m = s * V + r
  OBVIOUS
<1>7. W = s * V + V + e * V /\ e * V \in Nat /\ s * V \in Nat
  BY <1>4, <1>5, <1>6
<1>8. W \in Nat /\ m \in 0..(W - 1)
  BY <1>2, <1>6, <1>7
<1>9. v = W * p + m
  <2>1. V * (n * p + s) = (V * n) * p + s * V
    BY <1>4
  <2>. QED  BY <1>2, <1>4, <1>6, <2>1
<1>10. v % W = m
  BY <1>4, <1>8, <1>9, Sums!DivModOf
<1>. QED  BY <1>1, <1>3, <1>4, <1>6, <1>10

(* The index of dimension d of the shape on one axis of a grid. *)
DigitOf(shape, v, d) ==
  IF d < Len(shape) THEN (v \div Volume(shape, d - 1)) % shape[d] ELSE v \div Volume(shape, d - 1)

LEMMA LastOrBefore == \A n \in Nat : \A d \in 1..n : d < n \/ d = n
  OBVIOUS

(* The digits of a place are the index that has it. *)
LEMMA DigitsCorrect ==
  ASSUME NEW shape \in Shape, NEW v \in 0..(CalcSize(shape) - 1),
         NEW idx, idx = [d \in DOMAIN shape |-> DigitOf(shape, v, d)]
  PROVE  idx \in Indices(shape) /\ Place(shape, idx) = v
<1>. DEFINE n == Len(shape)
<1>0. n \in Nat /\ DOMAIN shape = 1..n /\ (\A d \in 1..n : shape[d] \in Nat) /\ v \in Nat /\ CalcSize(shape) > 0
  <2>1. CalcSize(shape) \in Nat
    BY ProductIn DEF CalcSize, Shape
  <2>. QED  BY <2>1 DEF Shape
<1>1. /\ \A d \in 0..n : Volume(shape, d) \in Nat /\ Volume(shape, d) > 0
      /\ \A d \in 1..n : shape[d] > 0
  BY <1>0, VolumeRules, VolumesPositive
<1>2. PICK h : h = [d \in 0..n |-> v % Volume(shape, d)]
  OBVIOUS
<1>3. ASSUME NEW d \in 1..n
      PROVE  idx[d] \in Nat /\ idx[d] < shape[d] /\ h[d] = h[d - 1] + idx[d] * Volume(shape, d - 1)
  <2>1. PICK V, W, k, c : V = Volume(shape, d - 1) /\ W = Volume(shape, d) /\ k = shape[d] /\ c = d - 1
    OBVIOUS
  <2>2. c \in 0..n /\ d \in 0..n
    BY <1>0, <2>1
  <2>3. V \in Nat /\ V > 0 /\ k \in Nat /\ k > 0 /\ W = V * k /\ W \in Nat
    BY <1>0, <1>1, <2>1, <2>2, VolumeRules
  <2>4. h[d] = v % W /\ h[d - 1] = v % V
    <3>1. h[d] = v % Volume(shape, d) /\ h[c] = v % Volume(shape, c)
      BY <1>2, <2>2
    <3>. QED  BY <2>1, <3>1
  <2>5. v % W = (v % V) + ((v \div V) % k) * V /\ (v \div V) % k \in 0..(k - 1)
    BY <1>0, <2>3, ModSplit
  <2>6. idx[d] = (v \div V) % k
    <3>1. CASE d < n
      BY <1>0, <2>1, <3>1 DEF DigitOf
    <3>2. CASE ~ (d < n)
      <4>1. d = n
        BY <1>0, <3>2, LastOrBefore, Zenon
      <4>2. idx[d] = v \div V
        BY <1>0, <2>1, <3>2 DEF DigitOf
      <4>3. v < V * k
        <5>1. W = CalcSize(shape)
          BY <2>1, <4>1, VolumeRules
        <5>. QED  BY <1>0, <2>3, <5>1
      <4>4. v \div V \in Nat /\ v \div V < k
        BY <1>0, <2>3, <4>3, Quotient
      <4>5. PICK q : q = v \div V
        OBVIOUS
      <4>6. q % k = q
        BY <2>3, <4>4, <4>5
      <4>. QED  BY <4>2, <4>5, <4>6
    <3>. QED  BY <3>1, <3>2
  <2>7. PICK q : q = (v \div V) % k
    OBVIOUS
  <2>8. q \in Nat /\ q < k
    BY <2>3, <2>5, <2>7
  <2>9. h[d] = h[d - 1] + q * V
    BY <2>4, <2>5, <2>7
  <2>. QED  BY <2>1, <2>6, <2>7, <2>8, <2>9
<1>4. idx \in Indices(shape)
  <2>1. PICK f : f = idx
    OBVIOUS
  <2>2. idx = [d \in DOMAIN shape |-> f[d]]
    BY <2>1
  <2>3. \A d \in 1..Len(shape) : f[d] \in Nat /\ f[d] < shape[d]
    BY <1>3, <2>1
  <2>. QED  BY <2>2, <2>3, IsIndex
<1>5. Place(shape, idx) = h[n]
  <2>1. h[0] = 0
    BY <1>0, <1>2, VolumeRules
  <2>2. Placed(h, shape, idx)
    BY <1>3, <2>1 DEF Placed
  <2>3. \A d \in 1..Len(shape) : idx[d] \in Int
    BY <1>3
  <2>. QED  BY <2>2, <2>3, PlaceIs
<1>6. h[n] = v
  <2>1. PICK W : W = CalcSize(shape)
    OBVIOUS
  <2>2. W \in Nat /\ v \in Nat /\ v < W
    BY <1>0, <2>1, ProductIn DEF CalcSize, Shape
  <2>3. h[n] = v % W
    BY <1>0, <1>2, <2>1, VolumeRules
  <2>. QED  BY <2>2, <2>3
<1>. QED  BY <1>4, <1>5, <1>6

(* Every index is the digits of its place. *)
LEMMA DigitsOfPlace ==
  ASSUME NEW shape \in Shape, NEW idx \in Indices(shape), NEW v, v = Place(shape, idx)
  PROVE  \A d \in 1..Len(shape) : DigitOf(shape, v, d) = idx[d]
<1>1. v \in 0..(CalcSize(shape) - 1)
  BY PlaceBelow
<1>2. PICK jdx : jdx = [d \in DOMAIN shape |-> DigitOf(shape, v, d)]
  OBVIOUS
<1>3. jdx \in Indices(shape) /\ Place(shape, jdx) = v
  BY <1>1, <1>2, DigitsCorrect
<1>4. jdx = idx
  BY <1>3, PlaceInjective
<1>5. DOMAIN shape = 1..Len(shape)
  BY DEF Shape
<1>. QED  BY <1>2, <1>4, <1>5

-----------------------------------------------------------------------------
(* The grid *)

LEMMA Grouping ==
  ASSUME NEW op, NEW rank \in 1..6, NEW x \in Int, NEW d \in Int,
         NEW a, a = FirstOn(op, rank, x), NEW b, b = LastOn(op, rank, x), NEW y, y = Axis(op, rank, d)
  PROVE  \/ a = 2 * x - 1 /\ y = (d + 1) \div 2 /\ (b = 2 * x \/ b = rank) /\ b <= 2 * x /\ b <= rank
         \/ /\ a = x /\ ((d <= 2 /\ y = d) \/ (d > 2 /\ y = 3))
            /\ ((b = rank /\ (x >= 3 \/ rank <= x)) \/ (b = x /\ x < 3 /\ x < rank))
<1>1. CASE op = "assign" /\ rank >= 5
  <2>1. a = 2 * x - 1 /\ y = (d + 1) \div 2 /\ b = IF 2 * x < rank THEN 2 * x ELSE rank
    BY <1>1, Zenon DEF FirstOn, LastOn, Axis
  <2>. QED  BY <2>1
<1>2. CASE ~ (op = "assign" /\ rank >= 5)
  <2>1. /\ a = x /\ y = IF d <= 2 THEN d ELSE 3
        /\ b = LET last == IF x < 3 THEN x ELSE rank IN IF last < rank THEN last ELSE rank
    BY <1>2, Zenon DEF FirstOn, LastOn, Axis
  <2>2. (b = rank /\ (x >= 3 \/ rank <= x)) \/ (b = x /\ x < 3 /\ x < rank)
    BY <2>1
  <2>3. (d <= 2 /\ y = d) \/ (d > 2 /\ y = 3)
    BY <2>1
  <2>. QED  BY <2>1, <2>2, <2>3
<1>. QED  BY <1>1, <1>2

LEMMA AxisBounds ==
  ASSUME NEW op, NEW rank \in 1..6, NEW x \in 1..3
  PROVE  FirstOn(op, rank, x) \in Nat \ {0} /\ LastOn(op, rank, x) \in 0..rank
<1>1. PICK a, b, d, y : a = FirstOn(op, rank, x) /\ b = LastOn(op, rank, x) /\ d = 1 /\ y = Axis(op, rank, d)
  OBVIOUS
<1>2. x \in Int /\ d \in Int
  BY <1>1
<1>3. (a = 2 * x - 1 \/ a = x) /\ (b = rank \/ (b = x /\ x < 3 /\ x < rank) \/ (b = 2 * x /\ b <= rank))
  BY <1>1, <1>2, Grouping
<1>. QED  BY <1>1, <1>3, Grouping

LEMMA AxisOf ==
  ASSUME NEW op, NEW rank \in 1..6, NEW d \in 1..rank, NEW x, x = Axis(op, rank, d)
  PROVE  x \in 1..3 /\ FirstOn(op, rank, x) <= d /\ d <= LastOn(op, rank, x)
<1>1. PICK a, b : a = FirstOn(op, rank, x) /\ b = LastOn(op, rank, x)
  OBVIOUS
<1>2. x = d \/ x = 3 \/ x = (d + 1) \div 2
  BY DEF Axis
<1>3. x \in Int /\ d \in Int
  BY <1>2
<1>4. \/ a = 2 * x - 1 /\ x = (d + 1) \div 2 /\ (b = 2 * x \/ b = rank) /\ b <= 2 * x /\ b <= rank
      \/ /\ a = x /\ ((d <= 2 /\ x = d) \/ (d > 2 /\ x = 3))
         /\ ((b = rank /\ (x >= 3 \/ rank <= x)) \/ (b = x /\ x < 3 /\ x < rank))
  BY <1>1, <1>3, Grouping
<1>. QED  BY <1>1, <1>4

LEMMA AxisHolds ==
  ASSUME NEW op, NEW rank \in 1..6, NEW x \in 1..3, NEW d \in Nat,
         FirstOn(op, rank, x) <= d, d <= LastOn(op, rank, x)
  PROVE  d \in 1..rank /\ Axis(op, rank, d) = x
<1>1. PICK a, b, y : a = FirstOn(op, rank, x) /\ b = LastOn(op, rank, x) /\ y = Axis(op, rank, d)
  OBVIOUS
<1>2. a <= d /\ d <= b /\ x \in Int /\ d \in Int
  BY <1>1
<1>. QED  BY <1>1, <1>2, Grouping

(* The part of an index that is on one axis. *)
PartOn(op, shape, x, idx) ==
  [i \in DOMAIN OnAxis(op, shape, x) |-> idx[FirstOn(op, Len(shape), x) + (i - 1)]]

LEMMA SubSequence ==
  ASSUME NEW T, NEW s \in Seq(T), NEW a \in Nat \ {0}, NEW b \in 0..Len(s)
  PROVE  /\ SubSeq(s, a, b) \in Seq(T) /\ DOMAIN SubSeq(s, a, b) = 1..Len(SubSeq(s, a, b))
         /\ Len(SubSeq(s, a, b)) = IF a <= b THEN b - a + 1 ELSE 0
         /\ \A i \in 1..Len(SubSeq(s, a, b)) : SubSeq(s, a, b)[i] = s[a + (i - 1)]
  OBVIOUS

IsSlice(T, s, a, b, u) ==
  /\ u \in Seq(T) /\ DOMAIN u = 1..Len(u)
  /\ Len(u) = IF a <= b THEN b - a + 1 ELSE 0
  /\ \A i \in 1..Len(u) : u[i] = s[a + (i - 1)]

LEMMA SliceIs ==
  ASSUME NEW T, NEW s \in Seq(T), NEW a \in Nat \ {0}, NEW b \in 0..Len(s), NEW u, u = SubSeq(s, a, b)
  PROVE  IsSlice(T, s, a, b, u)
  BY SubSequence DEF IsSlice

LEMMA SubOfSub ==
  ASSUME NEW T, NEW s \in Seq(T), NEW a \in Nat \ {0}, NEW b \in 0..Len(s), NEW c \in Nat, a <= c + 1, c <= b
  PROVE  SubSeq(SubSeq(s, a, b), 1, c - a + 1) = SubSeq(s, a, c)
<1>1. PICK u : u = SubSeq(s, a, b)
  OBVIOUS
<1>2. /\ u \in Seq(T) /\ Len(u) = (IF a <= b THEN b - a + 1 ELSE 0)
      /\ \A i \in 1..Len(u) : u[i] = s[a + (i - 1)]
  BY <1>1, SubSequence
<1>3. PICK n : n = c - a + 1
  OBVIOUS
<1>4. n \in 0..Len(u)
  BY <1>2, <1>3
<1>5. SubSeq(u, 1, n) = [i \in 1..n |-> s[a + (i - 1)]]
  BY <1>2, <1>4
<1>6. SubSeq(s, a, c) = [i \in 1..n |-> s[a + (i - 1)]]
  BY <1>3
<1>. QED  BY <1>1, <1>3, <1>5, <1>6

LEMMA OnAxisIs ==
  ASSUME NEW op, NEW shape \in Shape, Len(shape) \in 1..6, NEW x \in 1..3
  PROVE  /\ OnAxis(op, shape, x) \in Shape
         /\ DOMAIN OnAxis(op, shape, x) = 1..Len(OnAxis(op, shape, x))
         /\ \A i \in 1..Len(OnAxis(op, shape, x)) :
              /\ FirstOn(op, Len(shape), x) + (i - 1) \in 1..Len(shape)
              /\ Axis(op, Len(shape), FirstOn(op, Len(shape), x) + (i - 1)) = x
              /\ OnAxis(op, shape, x)[i] = shape[FirstOn(op, Len(shape), x) + (i - 1)]
         /\ Extent(op, shape, x) = CalcSize(OnAxis(op, shape, x))
         /\ Extent(op, shape, x) \in Nat
<1>1. PICK n, a, b, s : /\ n = Len(shape) /\ a = FirstOn(op, Len(shape), x) /\ b = LastOn(op, Len(shape), x)
                        /\ s = OnAxis(op, shape, x)
  OBVIOUS
<1>2. shape \in Seq(Nat) /\ n \in 1..6
  BY <1>1 DEF Shape
<1>3. /\ a \in Nat \ {0} /\ b \in 0..n
      /\ \A d \in Nat : a <= d /\ d <= b => d \in 1..n /\ Axis(op, n, d) = x
  <2>1. a \in Nat \ {0} /\ b \in 0..n
    <3>1. PICK rank \in 1..6 : rank = n
      BY <1>2
    <3>2. FirstOn(op, rank, x) \in Nat \ {0} /\ LastOn(op, rank, x) \in 0..rank
      BY AxisBounds
    <3>. QED  BY <1>1, <3>1, <3>2
  <2>2. ASSUME NEW d \in Nat, a <= d, d <= b PROVE d \in 1..n /\ Axis(op, n, d) = x
    <3>1. PICK rank \in 1..6 : rank = n
      BY <1>2
    <3>2. FirstOn(op, rank, x) <= d /\ d <= LastOn(op, rank, x)
      BY <1>1, <2>2, <3>1
    <3>3. d \in 1..rank /\ Axis(op, rank, d) = x
      BY <3>2, AxisHolds
    <3>. QED  BY <3>1, <3>3
  <2>. QED  BY <2>1, <2>2
<1>4. s = SubSeq(shape, a, b)
  BY <1>1 DEF OnAxis
<1>5. /\ s \in Seq(Nat) /\ DOMAIN s = 1..Len(s) /\ Len(s) = (IF a <= b THEN b - a + 1 ELSE 0)
      /\ \A i \in 1..Len(s) : s[i] = shape[a + (i - 1)]
  <2>1. PICK T : T = Nat
    OBVIOUS
  <2>2. shape \in Seq(T) /\ b \in 0..Len(shape)
    BY <1>1, <1>2, <1>3, <2>1
  <2>3. IsSlice(T, shape, a, b, s)
    BY <1>3, <1>4, <2>2, SliceIs
  <2>. QED  BY <2>1, <2>3 DEF IsSlice
<1>6. ASSUME NEW i \in 1..Len(s) PROVE a + (i - 1) \in 1..n /\ Axis(op, n, a + (i - 1)) = x
  <2>1. PICK d : d = a + (i - 1)
    OBVIOUS
  <2>2. d \in Nat /\ a <= d /\ d <= b
    BY <1>3, <1>5, <1>6, <2>1
  <2>. QED  BY <1>3, <2>1, <2>2
<1>7. Extent(op, shape, x) = Product(s) /\ Product(s) \in Nat
  BY <1>1, <1>5, ProductIn DEF Extent
<1>. QED  BY <1>1, <1>5, <1>6, <1>7 DEF Shape, CalcSize

LEMMA OnAxisAt ==
  ASSUME NEW op, NEW shape \in Shape, Len(shape) \in 1..6, NEW x \in 1..3,
         NEW i \in 1..Len(OnAxis(op, shape, x)), NEW d, d = FirstOn(op, Len(shape), x) + (i - 1)
  PROVE  /\ d \in 1..Len(shape) /\ Axis(op, Len(shape), d) = x
         /\ OnAxis(op, shape, x)[i] = shape[d]
  BY OnAxisIs

(* Dimension d of shape is number i on axis x. *)
Lies(op, shape, d, x, i) ==
  /\ x \in 1..3 /\ i \in 1..Len(OnAxis(op, shape, x))
  /\ d = FirstOn(op, Len(shape), x) + (i - 1)

LEMMA LiesOnce ==
  ASSUME NEW op, NEW shape \in Shape, Len(shape) \in 1..6, NEW d,
         NEW x, NEW i, Lies(op, shape, d, x, i), NEW y, NEW j, Lies(op, shape, d, y, j)
  PROVE  x = y /\ i = j
<1>1. x \in 1..3 /\ i \in 1..Len(OnAxis(op, shape, x)) /\ d = FirstOn(op, Len(shape), x) + (i - 1)
  BY DEF Lies
<1>2. y \in 1..3 /\ j \in 1..Len(OnAxis(op, shape, y)) /\ d = FirstOn(op, Len(shape), y) + (j - 1)
  BY DEF Lies
<1>3. Axis(op, Len(shape), d) = x
  BY <1>1, OnAxisAt
<1>4. Axis(op, Len(shape), d) = y
  BY <1>2, OnAxisAt
<1>5. PICK f, n : f = FirstOn(op, Len(shape), x) /\ n = Len(OnAxis(op, shape, x))
  OBVIOUS
<1>6. f \in Nat
  BY <1>1, <1>5, AxisBounds
<1>7. n \in Nat
  BY <1>1, <1>5, OnAxisIs DEF Shape
<1>8. i \in 1..n /\ j \in 1..n /\ d = f + (i - 1) /\ d = f + (j - 1)
  BY <1>1, <1>2, <1>3, <1>4, <1>5
<1>. QED  BY <1>3, <1>4, <1>6, <1>7, <1>8

(* Where dimension d is on its axis. *)
Located(op, shape, t, d) ==
  \E x, i : Lies(op, shape, d, x, i) /\ Digit(op, shape, t, d) = DigitOf(OnAxis(op, shape, x), t[x], i)

LEMMA DigitIs ==
  ASSUME NEW op, NEW shape \in Shape, Len(shape) \in 1..6, NEW d \in 1..Len(shape), NEW t
  PROVE  Located(op, shape, t, d)
<1>1. PICK n, x : n = Len(shape) /\ x = Axis(op, Len(shape), d)
  OBVIOUS
<1>2. PICK a, b, s : a = FirstOn(op, n, x) /\ b = LastOn(op, n, x) /\ s = OnAxis(op, shape, x)
  OBVIOUS
<1>3. x \in 1..3 /\ a \in Nat \ {0} /\ b \in 0..n /\ a <= d /\ d <= b /\ n \in 1..6 /\ d \in 1..n
  <2>1. n \in 1..6 /\ d \in 1..n
    BY <1>1
  <2>2. x \in 1..3 /\ FirstOn(op, n, x) <= d /\ d <= LastOn(op, n, x)
    BY <1>1, <2>1, AxisOf
  <2>3. FirstOn(op, n, x) \in Nat \ {0} /\ LastOn(op, n, x) \in 0..n
    BY <2>1, <2>2, AxisBounds
  <2>. QED  BY <1>2, <2>1, <2>2, <2>3
<1>4. shape \in Seq(Nat) /\ s = SubSeq(shape, a, b)
  BY <1>1, <1>2 DEF OnAxis, Shape
<1>5. Len(s) = b - a + 1 /\ \A i \in 1..Len(s) : s[i] = shape[a + (i - 1)]
  BY <1>1, <1>3, <1>4, SubSequence
<1>6. PICK i : i = d - a + 1
  OBVIOUS
<1>7. i \in 1..Len(s) /\ a + (i - 1) = d /\ (d < b <=> i < Len(s)) /\ s[i] = shape[d]
  BY <1>3, <1>5, <1>6
<1>8. Volume(s, i - 1) = Product(SubSeq(shape, a, d - 1))
  <2>1. PICK c : c = d - 1
    OBVIOUS
  <2>2. c \in Nat /\ a <= c + 1 /\ c <= b /\ i - 1 = c - a + 1 /\ b \in 0..Len(shape)
    BY <1>1, <1>3, <1>6, <2>1
  <2>3. SubSeq(SubSeq(shape, a, b), 1, c - a + 1) = SubSeq(shape, a, c)
    BY <1>3, <1>4, <2>2, SubOfSub
  <2>. QED  BY <1>4, <2>1, <2>2, <2>3 DEF Volume
<1>9. Digit(op, shape, t, d) = DigitOf(s, t[x], i)
  <2>1. Digit(op, shape, t, d) =
          IF d < b THEN (t[x] \div Product(SubSeq(shape, a, d - 1))) % shape[d]
          ELSE t[x] \div Product(SubSeq(shape, a, d - 1))
    BY <1>1, <1>2 DEF Digit
  <2>2. DigitOf(s, t[x], i) = IF i < Len(s) THEN (t[x] \div Volume(s, i - 1)) % s[i] ELSE t[x] \div Volume(s, i - 1)
    BY DEF DigitOf
  <2>. QED  BY <1>7, <1>8, <2>1, <2>2
<1>10. Lies(op, shape, d, x, i)
  BY <1>1, <1>2, <1>3, <1>7 DEF Lies
<1>. QED  BY <1>2, <1>9, <1>10 DEF Located

(* The thread at t of the grid computes the index whose parts are at t.    *)
LEMMA GridIndex ==
  ASSUME NEW op, NEW shape \in Shape, Len(shape) \in 1..6,
         NEW t, \A x \in 1..3 : t[x] \in 0..(Extent(op, shape, x) - 1),
         NEW idx, idx = [d \in DOMAIN shape |-> Digit(op, shape, t, d)]
  PROVE  /\ idx \in Indices(shape)
         /\ \A x \in 1..3 : Place(OnAxis(op, shape, x), PartOn(op, shape, x, idx)) = t[x]
<1>0. DOMAIN shape = 1..Len(shape) /\ Len(shape) \in Nat
  BY DEF Shape
<1>5. ASSUME NEW d, d \in 1..Len(shape)
      PROVE  \E y, j : Lies(op, shape, d, y, j) /\ Digit(op, shape, t, d) = DigitOf(OnAxis(op, shape, y), t[y], j)
  <2>1. Located(op, shape, t, d)
    BY <1>5, DigitIs
  <2>. QED  BY <2>1 DEF Located
<1>1. ASSUME NEW x \in 1..3, NEW s, s = OnAxis(op, shape, x),
             NEW jdx, jdx = [i \in DOMAIN s |-> DigitOf(s, t[x], i)]
      PROVE  jdx \in Indices(s) /\ Place(s, jdx) = t[x]
  <2>1. s \in Shape /\ t[x] \in 0..(CalcSize(s) - 1)
    BY <1>1, OnAxisIs
  <2>. QED  BY <1>1, <2>1, DigitsCorrect
<1>2. ASSUME NEW x \in 1..3, NEW s, s = OnAxis(op, shape, x), NEW i \in 1..Len(s)
      PROVE  idx[FirstOn(op, Len(shape), x) + (i - 1)] = DigitOf(s, t[x], i)
  <2>1. PICK d : d = FirstOn(op, Len(shape), x) + (i - 1)
    OBVIOUS
  <2>2. Lies(op, shape, d, x, i)
    BY <1>2, <2>1 DEF Lies
  <2>3. d \in 1..Len(shape)
    BY <1>2, <2>1, OnAxisAt
  <2>4. PICK y, j : Lies(op, shape, d, y, j) /\ Digit(op, shape, t, d) = DigitOf(OnAxis(op, shape, y), t[y], j)
    BY <1>5, <2>3
  <2>5. y = x /\ j = i
    BY <2>2, <2>4, LiesOnce
  <2>6. idx[d] = Digit(op, shape, t, d)
    BY <1>0, <2>3
  <2>. QED  BY <1>2, <2>1, <2>4, <2>5, <2>6
<1>3. idx \in Indices(shape)
  <2>1. ASSUME NEW d \in 1..Len(shape) PROVE idx[d] \in Nat /\ idx[d] < shape[d]
    <3>1. PICK x, i : Lies(op, shape, d, x, i) /\ Digit(op, shape, t, d) = DigitOf(OnAxis(op, shape, x), t[x], i)
      <4>. QED  BY <1>5
    <3>2. x \in 1..3 /\ i \in 1..Len(OnAxis(op, shape, x)) /\ d = FirstOn(op, Len(shape), x) + (i - 1)
      BY <3>1 DEF Lies
    <3>3. PICK s : s = OnAxis(op, shape, x)
      OBVIOUS
    <3>4. PICK jdx : jdx = [k \in DOMAIN s |-> DigitOf(s, t[x], k)]
      OBVIOUS
    <3>5. jdx \in Indices(s)
      BY <1>1, <3>2, <3>3, <3>4
    <3>6. s \in Shape /\ DOMAIN s = 1..Len(s) /\ i \in 1..Len(s) /\ s[i] = shape[d]
      <4>1. s[i] = shape[d]
        BY <3>2, <3>3, OnAxisAt
      <4>2. s \in Shape /\ DOMAIN s = 1..Len(s)
        BY <3>2, <3>3, OnAxisIs
      <4>. QED  BY <3>2, <3>3, <4>1, <4>2
    <3>7. jdx[i] \in Nat /\ jdx[i] < s[i]
      BY <3>5, <3>6, InIndices
    <3>8. idx[d] = jdx[i]
      BY <1>0, <3>1, <3>3, <3>4, <3>6
    <3>. QED  BY <3>6, <3>7, <3>8
  <2>2. PICK f : f = idx
    OBVIOUS
  <2>3. idx = [d \in DOMAIN shape |-> f[d]]
    BY <2>2
  <2>. QED  BY <2>1, <2>2, <2>3, IsIndex
<1>4. ASSUME NEW x \in 1..3
      PROVE  Place(OnAxis(op, shape, x), PartOn(op, shape, x, idx)) = t[x]
  <2>1. PICK s, jdx : s = OnAxis(op, shape, x) /\ jdx = [i \in DOMAIN s |-> DigitOf(s, t[x], i)]
    OBVIOUS
  <2>2. DOMAIN s = 1..Len(s)
    BY <2>1, OnAxisIs
  <2>3. PartOn(op, shape, x, idx) = jdx
    <3>1. PartOn(op, shape, x, idx) = [i \in DOMAIN s |-> idx[FirstOn(op, Len(shape), x) + (i - 1)]]
      BY <2>1 DEF PartOn
    <3>2. \A i \in DOMAIN s : idx[FirstOn(op, Len(shape), x) + (i - 1)] = DigitOf(s, t[x], i)
      BY <1>2, <2>1, <2>2
    <3>. QED  BY <2>1, <3>1, <3>2
  <2>. QED  BY <1>1, <2>1, <2>3
<1>. QED  BY <1>3, <1>4

-----------------------------------------------------------------------------
(* Threads *)

LEMMA PartsPlace ==
  ASSUME NEW op, NEW shape \in Shape, Len(shape) \in 1..6, NEW idx \in Indices(shape), NEW x \in 1..3
  PROVE  /\ PartOn(op, shape, x, idx) \in Indices(OnAxis(op, shape, x))
         /\ Place(OnAxis(op, shape, x), PartOn(op, shape, x, idx)) \in 0..(Extent(op, shape, x) - 1)
<1>1. PICK s, a, jdx : /\ s = OnAxis(op, shape, x) /\ a = FirstOn(op, Len(shape), x)
                       /\ jdx = PartOn(op, shape, x, idx)
  OBVIOUS
<1>2. s \in Shape /\ DOMAIN s = 1..Len(s) /\ Extent(op, shape, x) = CalcSize(s)
  BY <1>1, OnAxisIs
<1>3. ASSUME NEW i \in 1..Len(s) PROVE idx[a + (i - 1)] \in Nat /\ idx[a + (i - 1)] < s[i]
  <2>1. PICK d : d = a + (i - 1)
    OBVIOUS
  <2>2. d \in 1..Len(shape) /\ s[i] = shape[d]
    BY <1>1, <2>1, OnAxisAt
  <2>3. idx \in Seq(Nat) /\ Len(idx) = Len(shape) /\ idx[d] < shape[d]
    BY <2>2, InIndices
  <2>4. idx[d] \in Nat
    BY <2>2, <2>3
  <2>. QED  BY <2>1, <2>2, <2>3, <2>4
<1>4. PICK f : f = [i \in DOMAIN s |-> idx[a + (i - 1)]]
  OBVIOUS
<1>5. jdx = f
  BY <1>1, <1>4 DEF PartOn
<1>6. \A i \in 1..Len(s) : f[i] \in Nat /\ f[i] < s[i]
  BY <1>2, <1>3, <1>4
<1>7. jdx = [i \in DOMAIN s |-> f[i]]
  BY <1>4, <1>5
<1>8. jdx \in Indices(s)
  BY <1>2, <1>6, <1>7, IsIndex
<1>9. Place(s, jdx) \in 0..(CalcSize(s) - 1)
  BY <1>2, <1>8, PlaceBelow
<1>. QED  BY <1>1, <1>2, <1>8, <1>9

(* The threads of the grid reach every index. *)
LEMMA GridReaches ==
  ASSUME NEW op, NEW shape \in Shape, Len(shape) \in 1..6, NEW idx \in Indices(shape),
         NEW t, \A x \in 1..3 : t[x] = Place(OnAxis(op, shape, x), PartOn(op, shape, x, idx))
  PROVE  idx = [d \in DOMAIN shape |-> Digit(op, shape, t, d)]
<1>0. DOMAIN shape = 1..Len(shape) /\ Len(shape) \in Nat
  BY DEF Shape
<1>1. ASSUME NEW d, d \in 1..Len(shape) PROVE Digit(op, shape, t, d) = idx[d]
  <2>1. Located(op, shape, t, d)
    BY <1>1, DigitIs
  <2>2. PICK x, i : Lies(op, shape, d, x, i) /\ Digit(op, shape, t, d) = DigitOf(OnAxis(op, shape, x), t[x], i)
    BY <2>1 DEF Located
  <2>3. x \in 1..3 /\ i \in 1..Len(OnAxis(op, shape, x)) /\ d = FirstOn(op, Len(shape), x) + (i - 1)
    BY <2>2 DEF Lies
  <2>4. PICK s, jdx : s = OnAxis(op, shape, x) /\ jdx = PartOn(op, shape, x, idx)
    OBVIOUS
  <2>5. s \in Shape /\ DOMAIN s = 1..Len(s)
    BY <2>3, <2>4, OnAxisIs
  <2>6. jdx \in Indices(s)
    BY <2>3, <2>4, PartsPlace
  <2>7. t[x] = Place(s, jdx)
    BY <2>3, <2>4
  <2>8. DigitOf(s, t[x], i) = jdx[i]
    BY <2>3, <2>4, <2>5, <2>6, <2>7, DigitsOfPlace
  <2>9. jdx[i] = idx[d]
    BY <2>3, <2>4, <2>5 DEF PartOn
  <2>. QED  BY <2>2, <2>4, <2>8, <2>9
<1>2. idx = [d \in 1..Len(shape) |-> idx[d]]
  <2>1. idx \in Seq(Nat) /\ Len(idx) = Len(shape)
    BY InIndices
  <2>. QED  BY <2>1
<1>. QED  BY <1>0, <1>1, <1>2

LEMMA ProductPositive ==
  ASSUME NEW s \in Seq(Nat), \A d \in 1..Len(s) : s[d] > 0
  PROVE  Product(s) > 0
<1>1. \A d \in 1..Len(s) : s[d] \in Nat \ {0}
  OBVIOUS
<1>2. PICK V : V = Nat \ {0}
  OBVIOUS
<1>3. \A a \in Nat \ {0}, b \in Nat \ {0} : a * b \in Nat \ {0}
  OBVIOUS
<1>4. \A v \in V, d \in 1..Len(s) : Times(v, s[d]) \in V
  BY <1>1, <1>2, <1>3 DEF Times
<1>5. 1 \in V
  BY <1>2
<1>6. Product(s) \in V
  BY <1>4, <1>5, ProductIsFold, Products!FoldInvariant, Zenon
<1>. QED  BY <1>2, <1>6

LEMMA ExtentPositive ==
  ASSUME NEW op, NEW shape \in Shape, Len(shape) \in 1..6, CalcSize(shape) > 0, NEW x \in 1..3
  PROVE  Extent(op, shape, x) \in Nat /\ Extent(op, shape, x) > 0
<1>1. PICK s : s = OnAxis(op, shape, x)
  OBVIOUS
<1>2. s \in Seq(Nat) /\ Extent(op, shape, x) = Product(s) /\ Extent(op, shape, x) \in Nat
  BY <1>1, OnAxisIs DEF Shape, CalcSize
<1>3. ASSUME NEW i \in 1..Len(s) PROVE s[i] > 0
  <2>1. PICK d : d = FirstOn(op, Len(shape), x) + (i - 1)
    OBVIOUS
  <2>2. d \in 1..Len(shape) /\ s[i] = shape[d]
    BY <1>1, <2>1, OnAxisAt
  <2>. QED  BY <2>2, VolumesPositive
<1>. QED  BY <1>2, <1>3, ProductPositive

LEMMA BlocksCover ==
  ASSUME NEW n \in Nat, n > 0, NEW b \in Nat, b > 0
  PROVE  InBlocks(n, b) \in Nat /\ n <= InBlocks(n, b)
<1>1. PICK m, q, r : m = n - 1 /\ q = m \div b /\ r = m % b
  OBVIOUS
<1>2. m = b * q + r /\ r \in 0..(b - 1) /\ q \in Nat
  BY <1>1, Sums!DivMod
<1>3. InBlocks(n, b) = (q + 1) * b
  BY <1>1 DEF InBlocks
<1>4. (q + 1) * b = b * q + b /\ b * q \in Nat
  BY <1>2
<1>. QED  BY <1>1, <1>2, <1>3, <1>4

LEMMA ThreadNumbers ==
  ASSUME NEW n \in Nat
  PROVE  \A t : t \in Indices(<<n>>) <=> \E i \in 0..(n - 1) : t = <<i>>
<1>1. PICK s : s = <<n>>
  OBVIOUS
<1>2. s \in Seq(Nat) /\ Len(s) = 1 /\ s[1] = n
  BY <1>1
<1>3. s \in Shape
  BY <1>2 DEF Shape
<1>4. ASSUME NEW t, t \in Indices(s) PROVE \E i \in 0..(n - 1) : t = <<i>>
  <2>1. t \in Seq(Nat) /\ Len(t) = 1 /\ t[1] < n
    BY <1>2, <1>3, <1>4, InIndices
  <2>2. PICK v : v = t[1]
    OBVIOUS
  <2>3. v \in Nat
    <3>1. \A d \in 1..Len(t) : t[d] \in Nat
      BY <2>1
    <3>2. 1 \in 1..Len(t)
      BY <2>1
    <3>. QED  BY <2>2, <3>1, <3>2
  <2>4. t = [d \in 1..1 |-> t[d]] /\ DOMAIN t = 1..1
    BY <2>1
  <2>5. PICK u : u = <<v>>
    OBVIOUS
  <2>6. u \in Seq(Nat) /\ Len(u) = 1 /\ u[1] = v
    BY <2>3, <2>5
  <2>7. u = [d \in 1..1 |-> u[d]]
    BY <2>6
  <2>8. t = u
    BY <2>2, <2>4, <2>6, <2>7
  <2>. QED  BY <2>1, <2>2, <2>3, <2>5, <2>8
<1>5. ASSUME NEW i \in 0..(n - 1), NEW t, t = <<i>> PROVE t \in Indices(s)
  <2>1. t \in Seq(Nat) /\ Len(t) = Len(s) /\ \A d \in 1..Len(s) : t[d] < s[d]
    BY <1>2, <1>5
  <2>. QED  BY <1>3, <2>1, InIndices
<1>. QED  BY <1>1, <1>4, <1>5

-----------------------------------------------------------------------------
(* Every thread that is at work has an index of its own, and every index a *)
(* thread.                                                                 *)
Active(op, shape) == {t \in Threads(op, shape) : Inside(op, shape, t)}

Enumerates(T, I, f) ==
  /\ \A t \in T : f[t] \in I
  /\ \A t, u \in T : f[t] = f[u] => t = u
  /\ \A i \in I : \E t \in T : f[t] = i

LEMMA LinearThreads ==
  ASSUME NEW op, NEW shape \in Shape, NEW T, \A t : t \in T <=> \E i \in 0..(CalcSize(shape) - 1) : t = <<i>>,
         NEW f, f = [t \in T |-> Unravel(t[1], CalcStrides(shape))]
  PROVE  Enumerates(T, Indices(shape), f)
<1>1. ASSUME NEW t \in T
      PROVE  /\ t = <<t[1]>> /\ t[1] \in 0..(CalcSize(shape) - 1)
             /\ f[t] \in Indices(shape) /\ Place(shape, f[t]) = t[1]
  <2>1. PICK i : i \in 0..(CalcSize(shape) - 1) /\ t = <<i>>
    OBVIOUS
  <2>2. t[1] = i
    BY <2>1
  <2>3. f[t] = Unravel(i, CalcStrides(shape))
    BY <2>2
  <2>4. Unravel(i, CalcStrides(shape)) \in Indices(shape) /\ Place(shape, Unravel(i, CalcStrides(shape))) = i
    BY <2>1, UnravelCorrect
  <2>. QED  BY <2>1, <2>2, <2>3, <2>4
<1>2. ASSUME NEW t \in T, NEW u \in T, f[t] = f[u] PROVE t = u
  <2>1. t[1] = u[1]
    BY <1>1, <1>2
  <2>. QED  BY <1>1, <2>1
<1>3. ASSUME NEW idx \in Indices(shape) PROVE \E t \in T : f[t] = idx
  <2>1. PICK i : i = Place(shape, idx)
    OBVIOUS
  <2>2. i \in 0..(CalcSize(shape) - 1)
    BY <2>1, PlaceBelow
  <2>3. PICK t : t = <<i>>
    OBVIOUS
  <2>4. t \in T /\ t[1] = i
    BY <2>2, <2>3
  <2>5. f[t] \in Indices(shape) /\ Place(shape, f[t]) = Place(shape, idx)
    BY <1>1, <2>1, <2>4
  <2>6. f[t] = idx
    BY <2>5, PlaceInjective
  <2>. QED  BY <2>4, <2>6
<1>. QED  BY <1>1, <1>2, <1>3 DEF Enumerates

LEMMA BuildConstants ==
  /\ BS \in Nat /\ BS > 0
  /\ Backends \subseteq {"host", "blocks", "linear blocks", "ranges", "linear ranges"}
<1>1. BS \in Nat \ {0}
  BY ConstantsAssumption, Zenon DEF ConstantsAssumption
<1>2. Backends \subseteq {"host", "blocks", "linear blocks", "ranges", "linear ranges"}
  BY ConstantsAssumption, Zenon DEF ConstantsAssumption
<1>3. BS \in Nat /\ BS > 0
  BY <1>1
<1>. QED  BY <1>2, <1>3

LEMMA Components ==
  ASSUME NEW s \in Seq(Nat), NEW n, Len(s) = n
  PROVE  \A x \in 1..n : s[x] \in Nat
  OBVIOUS

LEMMA SameThreads ==
  ASSUME NEW I, NEW f, f = [t \in I |-> t]
  PROVE  Enumerates(I, I, f)
  BY DEF Enumerates

(* The grid of per-dimension kernels. *)
LEMMA GridThreads ==
  ASSUME NEW op, NEW shape \in Shape, Len(shape) \in 1..6, CalcSize(shape) > 0, NEW T,
         \A t : t \in T <=> /\ t \in Indices([x \in 1..3 |-> NumThreads(op, shape, x)])
                            /\ \A x \in 1..2 : t[x] < Extent(op, shape, x),
         NEW f, f = [t \in T |-> [d \in DOMAIN shape |-> Digit(op, shape, t, d)]]
  PROVE  Enumerates(T, Indices(shape), f)
<1>0. BS \in Nat /\ BS > 0
  BY BuildConstants
<1>1. ASSUME NEW x \in 1..3
      PROVE  /\ Extent(op, shape, x) \in Nat /\ Extent(op, shape, x) > 0
             /\ NumThreads(op, shape, x) \in Nat /\ Extent(op, shape, x) <= NumThreads(op, shape, x)
             /\ x = 3 => NumThreads(op, shape, x) = Extent(op, shape, x)
  <2>1. Extent(op, shape, x) \in Nat /\ Extent(op, shape, x) > 0
    BY ExtentPositive
  <2>2. CASE OnAxis(op, shape, x) = <<>>
    <3>1. NumThreads(op, shape, x) = 1
      BY <2>2 DEF NumThreads
    <3>2. Extent(op, shape, x) = 1
      BY <2>2, ProductEmpty DEF Extent
    <3>. QED  BY <3>1, <3>2
  <2>3. CASE OnAxis(op, shape, x) # <<>> /\ x = 3
    <3>1. NumThreads(op, shape, x) = Extent(op, shape, x)
      BY <2>3 DEF NumThreads
    <3>. QED  BY <2>1, <3>1
  <2>4. CASE OnAxis(op, shape, x) # <<>> /\ x # 3
    <3>1. NumThreads(op, shape, x) = InBlocks(Extent(op, shape, x), BS)
      BY <2>4 DEF NumThreads
    <3>2. PICK e : e = Extent(op, shape, x)
      OBVIOUS
    <3>3. InBlocks(e, BS) \in Nat /\ e <= InBlocks(e, BS)
      BY <1>0, <2>1, <3>2, BlocksCover
    <3>. QED  BY <2>1, <2>4, <3>1, <3>2, <3>3
  <2>. QED  BY <2>2, <2>3, <2>4
<1>2. PICK grid : grid = [x \in 1..3 |-> NumThreads(op, shape, x)]
  OBVIOUS
<1>3. grid \in Shape /\ Len(grid) = 3 /\ \A x \in 1..3 : grid[x] = NumThreads(op, shape, x)
  <2>1. \A x \in 1..3 : NumThreads(op, shape, x) \in Nat
    BY <1>1
  <2>2. grid \in Seq(Nat) /\ Len(grid) = 3
    BY <1>2, <2>1
  <2>. QED  BY <1>2, <2>2 DEF Shape
<1>4. ASSUME NEW t \in T
      PROVE  /\ t \in Seq(Nat) /\ Len(t) = 3
             /\ \A x \in 1..3 : t[x] \in 0..(Extent(op, shape, x) - 1)
             /\ f[t] \in Indices(shape)
             /\ \A x \in 1..3 : Place(OnAxis(op, shape, x), PartOn(op, shape, x, f[t])) = t[x]
  <2>1. t \in Indices(grid) /\ \A x \in 1..2 : t[x] < Extent(op, shape, x)
    BY <1>2
  <2>2. t \in Seq(Nat) /\ Len(t) = 3 /\ \A x \in 1..3 : t[x] < grid[x]
    BY <1>3, <2>1, InIndices
  <2>3. ASSUME NEW x \in 1..3 PROVE t[x] \in 0..(Extent(op, shape, x) - 1)
    <3>1. t[x] \in Nat /\ t[x] < grid[x] /\ grid[x] = NumThreads(op, shape, x)
      <4>2. t[x] \in Nat
        BY <2>2, Components
      <4>. QED  BY <1>3, <2>2, <4>2
    <3>2. x = 3 \/ x \in 1..2
      OBVIOUS
    <3>3. t[x] < Extent(op, shape, x)
      BY <1>1, <2>1, <3>1, <3>2
    <3>. QED  BY <1>1, <3>1, <3>3
  <2>4. f[t] = [d \in DOMAIN shape |-> Digit(op, shape, t, d)]
    OBVIOUS
  <2>5. PICK jdx : jdx = f[t]
    OBVIOUS
  <2>6. /\ jdx \in Indices(shape)
        /\ \A x \in 1..3 : Place(OnAxis(op, shape, x), PartOn(op, shape, x, jdx)) = t[x]
    BY <2>3, <2>4, <2>5, GridIndex
  <2>. QED  BY <2>2, <2>3, <2>5, <2>6
<1>5. ASSUME NEW t \in T, NEW u \in T, f[t] = f[u] PROVE t = u
  <2>1. \A x \in 1..3 : t[x] = u[x]
    BY <1>4, <1>5
  <2>2. t = [x \in 1..3 |-> t[x]] /\ u = [x \in 1..3 |-> u[x]]
    BY <1>4
  <2>. QED  BY <2>1, <2>2
<1>6. ASSUME NEW idx \in Indices(shape) PROVE \E t \in T : f[t] = idx
  <2>1. PICK t : t = [x \in 1..3 |-> Place(OnAxis(op, shape, x), PartOn(op, shape, x, idx))]
    OBVIOUS
  <2>2. ASSUME NEW x \in 1..3
        PROVE  /\ t[x] = Place(OnAxis(op, shape, x), PartOn(op, shape, x, idx))
               /\ t[x] \in Nat /\ t[x] < Extent(op, shape, x) /\ t[x] < grid[x]
    <3>1. Place(OnAxis(op, shape, x), PartOn(op, shape, x, idx)) \in 0..(Extent(op, shape, x) - 1)
      BY PartsPlace
    <3>2. t[x] = Place(OnAxis(op, shape, x), PartOn(op, shape, x, idx))
      BY <2>1
    <3>3. grid[x] = NumThreads(op, shape, x) /\ NumThreads(op, shape, x) \in Nat /\ Extent(op, shape, x) \in Nat
          /\ Extent(op, shape, x) <= NumThreads(op, shape, x)
      BY <1>1, <1>3
    <3>. QED  BY <3>1, <3>2, <3>3
  <2>3. t \in Seq(Nat) /\ Len(t) = 3
    BY <2>1, <2>2
  <2>4. t \in Indices(grid)
    BY <1>3, <2>2, <2>3, InIndices
  <2>5. t \in T
    BY <1>2, <2>2, <2>4
  <2>6. idx = [d \in DOMAIN shape |-> Digit(op, shape, t, d)]
    BY <2>2, GridReaches
  <2>. QED  BY <2>5, <2>6
<1>. QED  BY <1>4, <1>5, <1>6 DEF Enumerates

LEMMA ThreadsEnumerate ==
  ASSUME NEW op, NEW shape \in Shape, Len(shape) \in 1..6, LaunchableSize(shape), backend \in Backends,
         NEW f, f = [t \in Active(op, shape) |-> Index(op, shape, t)]
  PROVE  Enumerates(Active(op, shape), Indices(shape), f)
<1>0. backend \in {"host", "blocks", "linear blocks", "ranges", "linear ranges"} /\ BS \in Nat /\ BS > 0
  BY BuildConstants
<1>1. PICK g, size, T : g = Geometry(Len(shape)) /\ size = CalcSize(shape) /\ T = Active(op, shape)
  OBVIOUS
<1>2. /\ g \in {"host", "blocks", "linear blocks", "ranges", "linear ranges"}
      /\ g \in {"blocks", "linear blocks"} => size > 0
  BY <1>0, <1>1 DEF Geometry, LaunchableSize
<1>3. size \in Nat
  BY <1>1, ProductIn DEF CalcSize, Shape
<1>4. CASE g \in {"host", "ranges"}
  <2>1. Threads(op, shape) = Indices(shape) /\ \A t : Inside(op, shape, t) /\ Index(op, shape, t) = t
    BY <1>1, <1>4 DEF Threads, Inside, Index
  <2>2. T = Indices(shape)
    BY <1>1, <2>1 DEF Active
  <2>3. f = [t \in T |-> t]
    BY <1>1, <2>1
  <2>. QED  BY <1>1, <2>2, <2>3, SameThreads
<1>5. CASE g = "blocks"
  <2>1. /\ Threads(op, shape) = Indices([x \in 1..3 |-> NumThreads(op, shape, x)])
        /\ \A t : Inside(op, shape, t) <=> \A x \in 1..2 : t[x] < Extent(op, shape, x)
        /\ \A t : Index(op, shape, t) = [d \in DOMAIN shape |-> Digit(op, shape, t, d)]
    BY <1>1, <1>5 DEF Threads, Inside, Index
  <2>2. \A t : t \in T <=> /\ t \in Indices([x \in 1..3 |-> NumThreads(op, shape, x)])
                           /\ \A x \in 1..2 : t[x] < Extent(op, shape, x)
    BY <1>1, <2>1 DEF Active
  <2>3. f = [t \in T |-> [d \in DOMAIN shape |-> Digit(op, shape, t, d)]]
    BY <1>1, <2>1
  <2>. QED  BY <1>1, <1>2, <1>5, <2>2, <2>3, GridThreads
<1>6. CASE g = "linear ranges"
  <2>1. /\ Threads(op, shape) = Indices(<<size>>) /\ \A t : Inside(op, shape, t)
        /\ \A t : Index(op, shape, t) = Unravel(t[1], CalcStrides(shape))
    BY <1>1, <1>6 DEF Threads, Inside, Index
  <2>2. T = Indices(<<size>>)
    BY <1>1, <2>1 DEF Active
  <2>3. \A t : t \in T <=> \E i \in 0..(CalcSize(shape) - 1) : t = <<i>>
    BY <1>1, <1>3, <2>2, ThreadNumbers
  <2>4. f = [t \in T |-> Unravel(t[1], CalcStrides(shape))]
    BY <1>1, <2>1
  <2>. QED  BY <1>1, <2>3, <2>4, LinearThreads
<1>7. CASE g = "linear blocks"
  <2>1. PICK b, m : b = (IF BS > size THEN size ELSE BS) /\ m = InBlocks(size, b)
    OBVIOUS
  <2>2. /\ Threads(op, shape) = Indices(<<m>>) /\ \A t : Inside(op, shape, t) <=> t[1] < size
        /\ \A t : Index(op, shape, t) = Unravel(t[1], CalcStrides(shape))
    BY <1>1, <1>7, <2>1 DEF Threads, Inside, Index
  <2>3. m \in Nat /\ size <= m
    <3>1. b \in Nat /\ b > 0 /\ size > 0
      BY <1>0, <1>2, <1>3, <1>7, <2>1
    <3>. QED  BY <1>3, <2>1, <3>1, BlocksCover
  <2>4. ASSUME NEW t PROVE t \in T <=> \E i \in 0..(size - 1) : t = <<i>>
    <3>1. t \in T <=> t \in Indices(<<m>>) /\ t[1] < size
      BY <1>1, <2>2 DEF Active
    <3>2. t \in Indices(<<m>>) <=> \E i \in 0..(m - 1) : t = <<i>>
      BY <2>3, ThreadNumbers
    <3>3. \A i : t = <<i>> => t[1] = i
      OBVIOUS
    <3>. QED  BY <1>3, <2>3, <3>1, <3>2, <3>3
  <2>5. f = [t \in T |-> Unravel(t[1], CalcStrides(shape))]
    BY <1>1, <2>2
  <2>. QED  BY <1>1, <2>4, <2>5, LinearThreads
<1>. QED  BY <1>2, <1>4, <1>5, <1>6, <1>7

-----------------------------------------------------------------------------
(* Addresses *)

LEMMA TotalShifted ==
  ASSUME NEW s \in Seq(Int), NEW t \in Seq(Int), NEW c \in Int, NEW n \in Nat, n > 0,
         Len(s) = n, Len(t) = n, t[1] = s[1] + c, \A i \in 2..n : t[i] = s[i]
  PROVE  Total(t) = Total(s) + c
<1>1. PICK h : Partial(h, s) /\ Total(s) = h[Len(s)] /\ \A d \in 0..Len(s) : h[d] \in Int
  BY TotalPartial
<1>3. PICK g : g = [d \in 0..n |-> IF d = 0 THEN 0 ELSE h[d] + c]
  OBVIOUS
<1>4. n \in Nat /\ n > 0 /\ Len(t) = n
  OBVIOUS
<1>5. h[0] = 0 /\ \A d \in 1..n : h[d] = h[d - 1] + s[d]
  BY <1>1 DEF Partial
<1>6. g[0] = 0 /\ \A d \in 1..n : g[d] = h[d] + c
  BY <1>3, <1>4
<1>7. ASSUME NEW d \in 1..n PROVE g[d] = g[d - 1] + t[d]
  <2>1. h[d] = h[d - 1] + s[d] /\ h[d - 1] \in Int /\ s[d] \in Int /\ t[d] \in Int
    BY <1>1, <1>4, <1>5
  <2>2. CASE d = 1
    <3>1. g[1] = h[1] + c /\ h[1] = 0 + s[1]
      BY <1>4, <1>5, <1>6
    <3>. QED  BY <1>6, <2>1, <2>2, <3>1
  <2>3. CASE d # 1
    <3>1. PICK e : e = d - 1
      OBVIOUS
    <3>2. e \in 1..n /\ d \in 2..n
      BY <1>4, <2>3, <3>1
    <3>3. g[e] = h[e] + c /\ g[d] = h[d] + c /\ t[d] = s[d]
      BY <1>6, <3>2
    <3>. QED  BY <2>1, <3>1, <3>3
  <2>. QED  BY <2>2, <2>3
<1>8. Partial(g, t)
  BY <1>4, <1>6, <1>7 DEF Partial
<1>9. Total(t) = g[n]
  BY <1>4, <1>8, TotalIs
<1>. QED  BY <1>1, <1>4, <1>6, <1>9

(* An index of another region of an array that has the address of jdx. *)
LEMMA AddressMoves ==
  ASSUME NEW shape \in Shape, Len(shape) > 0, NEW jdx \in Indices(shape),
         NEW st \in Seq(Int), Len(st) = Len(shape), NEW off \in Int,
         NEW idx, \A d \in 1..Len(shape) : idx[d] \in Int,
         \A d \in 2..Len(shape) : idx[d] = jdx[d] /\ st[d] = CalcStrides(shape)[d],
         off + st[1] * idx[1] = CalcStrides(shape)[1] * jdx[1]
  PROVE  off + CalcIndex(st, idx) = Place(shape, jdx)
<1>1. PICK n, cs : n = Len(shape) /\ cs = CalcStrides(shape)
  OBVIOUS
<1>2. /\ n \in Nat /\ n > 0 /\ cs \in Seq(Nat) /\ Len(cs) = n /\ DOMAIN cs = 1..n /\ DOMAIN st = 1..n
      /\ Len(st) = n
  BY <1>1, StridesAre DEF Shape
<1>3. jdx \in Seq(Nat) /\ Len(jdx) = n
  BY <1>1, InIndices
<1>4. PICK s, t : s = [d \in 1..n |-> st[d] * idx[d]] /\ t = [d \in 1..n |-> cs[d] * jdx[d]]
  OBVIOUS
<1>5. \A a, b \in Int : a * b \in Int
  OBVIOUS
<1>6. \A d \in 1..n : st[d] \in Int /\ idx[d] \in Int /\ cs[d] \in Int /\ jdx[d] \in Int
  <2>1. \A d \in 1..n : idx[d] \in Int
    BY <1>1
  <2>2. \A d \in 1..n : st[d] \in Int
    BY <1>2
  <2>3. \A d \in 1..n : cs[d] \in Nat
    BY <1>2
  <2>4. \A d \in 1..n : jdx[d] \in Nat
    BY <1>3
  <2>. QED  BY <2>1, <2>2, <2>3, <2>4
<1>7. s \in Seq(Int) /\ t \in Seq(Int) /\ Len(s) = n /\ Len(t) = n
  BY <1>2, <1>4, <1>5, <1>6
<1>8. \A i \in 2..n : t[i] = s[i]
  BY <1>1, <1>4
<1>9. s[1] \in Int /\ t[1] \in Int /\ t[1] = s[1] + off
  <2>1. 1 \in 1..n
    BY <1>2
  <2>2. s[1] = st[1] * idx[1] /\ t[1] = cs[1] * jdx[1]
    BY <1>4, <2>1
  <2>3. s[1] \in Int /\ t[1] \in Int
    BY <1>7, <2>1
  <2>4. off + s[1] = t[1]
    BY <1>1, <2>2
  <2>. QED  BY <2>3, <2>4
<1>10. Total(t) = Total(s) + off
  BY <1>2, <1>7, <1>8, <1>9, TotalShifted
<1>11. CalcIndex(st, idx) = Total(s) /\ CalcIndex(cs, jdx) = Total(t)
  BY <1>2, <1>4 DEF CalcIndex
<1>12. CalcIndex(cs, jdx) = Place(shape, jdx)
  BY <1>1, ContiguousIndex
<1>13. Total(s) \in Int
  BY <1>7, TotalIn
<1>. QED  BY <1>10, <1>11, <1>12, <1>13

(* The index of the whole array that an index of a part stands for. *)
Moved(shape, part, idx) ==
  [idx EXCEPT ![1] = CASE part = "tail" -> @ + 1 [] part = "flip" -> shape[1] - 1 - @ [] OTHER -> @]

Cut(shape, part) == IF part \in {"head", "tail"} THEN Shortened(shape) ELSE shape

(* A part that a view can be made of. *)
Possible(shape, part) == part # "all" => shape[1] >= IF part = "flip" THEN 1 ELSE 2

LEMMA CutIs ==
  ASSUME NEW shape \in Shape, Len(shape) > 0, NEW part, Possible(shape, part)
  PROVE  /\ Cut(shape, part) \in Shape /\ Len(Cut(shape, part)) = Len(shape)
         /\ \A d \in 2..Len(shape) : Cut(shape, part)[d] = shape[d]
         /\ Cut(shape, part)[1] = IF part \in {"head", "tail"} THEN shape[1] - 1 ELSE shape[1]
<1>1. shape \in Seq(Nat) /\ Len(shape) \in Nat /\ DOMAIN shape = 1..Len(shape) /\ shape[1] \in Nat
  <2>1. shape \in Seq(Nat) /\ Len(shape) \in Nat /\ 1 \in 1..Len(shape)
    BY DEF Shape
  <2>. QED  BY <2>1, Components
<1>2. CASE part \in {"head", "tail"}
  <2>1. shape[1] >= 2
    BY <1>2 DEF Possible
  <2>2. PICK c : c = Cut(shape, part)
    OBVIOUS
  <2>3. c = [shape EXCEPT ![1] = IF shape[1] = 0 THEN 0 ELSE shape[1] - 1]
    BY <1>2, <2>2 DEF Cut, Shortened
  <2>8. PICK v : v = IF shape[1] = 0 THEN 0 ELSE shape[1] - 1
    OBVIOUS
  <2>9. v = shape[1] - 1
    BY <1>1, <2>1, <2>8
  <2>4. c = [shape EXCEPT ![1] = shape[1] - 1]
    BY <2>3, <2>8, <2>9
  <2>5. shape[1] - 1 \in Nat
    BY <1>1, <2>1
  <2>6. c \in Seq(Nat) /\ Len(c) = Len(shape)
    BY <1>1, <2>4, <2>5
  <2>7. c[1] = shape[1] - 1 /\ \A d \in 2..Len(shape) : c[d] = shape[d]
    BY <1>1, <2>4
  <2>. QED  BY <1>2, <2>2, <2>6, <2>7 DEF Shape
<1>3. CASE part \notin {"head", "tail"}
  BY <1>1, <1>3 DEF Cut
<1>. QED  BY <1>2, <1>3

LEMMA MovedIs ==
  ASSUME NEW shape \in Shape, Len(shape) > 0, NEW part, Possible(shape, part),
         NEW idx \in Indices(Cut(shape, part))
  PROVE  /\ Moved(shape, part, idx) \in Indices(shape)
         /\ \A d \in 2..Len(shape) : Moved(shape, part, idx)[d] = idx[d]
         /\ Moved(shape, part, idx)[1] = IF part = "tail" THEN idx[1] + 1
                                         ELSE IF part = "flip" THEN shape[1] - 1 - idx[1] ELSE idx[1]
         /\ idx \in Seq(Nat) /\ Len(idx) = Len(shape)
<1>1. PICK n, c, x, m, jdx : /\ n = Len(shape) /\ c = Cut(shape, part) /\ x = idx[1] /\ m = shape[1]
                             /\ jdx = Moved(shape, part, idx)
  OBVIOUS
<1>2. /\ shape \in Seq(Nat) /\ n \in Nat /\ n > 0 /\ 1 \in 1..n /\ m \in Nat
  <2>1. shape \in Seq(Nat) /\ n \in Nat /\ n > 0 /\ 1 \in 1..n
    BY <1>1 DEF Shape
  <2>. QED  BY <1>1, <2>1, Components
<1>3. /\ c \in Shape /\ Len(c) = n /\ \A d \in 2..n : c[d] = shape[d]
      /\ c[1] = IF part \in {"head", "tail"} THEN m - 1 ELSE m
  BY <1>1, CutIs
<1>4. idx \in Seq(Nat) /\ Len(idx) = n /\ \A d \in 1..n : idx[d] < c[d]
  BY <1>1, <1>3, InIndices
<1>5. x \in Nat /\ x < c[1] /\ DOMAIN idx = 1..n /\ \A d \in 1..n : idx[d] \in Nat
  BY <1>1, <1>2, <1>4, Components
<1>6. PICK y : y = IF part = "tail" THEN x + 1 ELSE IF part = "flip" THEN m - 1 - x ELSE x
  OBVIOUS
<1>7. y \in Nat /\ y < m
  <2>1. CASE part = "tail"
    BY <1>2, <1>3, <1>5, <1>6, <2>1
  <2>2. CASE part = "flip"
    BY <1>2, <1>3, <1>5, <1>6, <2>2
  <2>3. CASE part # "tail" /\ part # "flip"
    BY <1>2, <1>3, <1>5, <1>6, <2>3
  <2>. QED  BY <2>1, <2>2, <2>3
<1>8. jdx = [idx EXCEPT ![1] = y]
  <2>1. CASE part = "tail"
    BY <1>1, <1>6, <2>1 DEF Moved
  <2>2. CASE part = "flip"
    BY <1>1, <1>6, <2>2 DEF Moved
  <2>3. CASE part # "tail" /\ part # "flip"
    BY <1>1, <1>6, <2>3 DEF Moved
  <2>. QED  BY <2>1, <2>2, <2>3
<1>9. jdx \in Seq(Nat) /\ Len(jdx) = n
  BY <1>2, <1>4, <1>7, <1>8
<1>10. jdx[1] = y /\ \A d \in 2..n : jdx[d] = idx[d]
  BY <1>2, <1>5, <1>8
<1>11. ASSUME NEW d \in 1..n PROVE jdx[d] < shape[d]
  <2>1. d = 1 \/ d \in 2..n
    OBVIOUS
  <2>. QED  BY <1>1, <1>3, <1>4, <1>7, <1>10, <2>1
<1>12. jdx \in Indices(shape)
  BY <1>1, <1>9, <1>11, InIndices
<1>. QED  BY <1>1, <1>4, <1>6, <1>10, <1>12

(* Different indices of a part stand for different ones. *)
LEMMA MovedApart ==
  ASSUME NEW shape \in Shape, Len(shape) > 0, NEW part, Possible(shape, part),
         NEW idx \in Indices(Cut(shape, part)), NEW jdx \in Indices(Cut(shape, part)),
         Moved(shape, part, idx) = Moved(shape, part, jdx)
  PROVE  idx = jdx
<1>1. PICK n, m : n = Len(shape) /\ m = shape[1]
  OBVIOUS
<1>2. n \in Nat /\ n > 0 /\ m \in Nat /\ 1 \in 1..n
  <2>1. shape \in Seq(Nat) /\ n \in Nat /\ 1 \in 1..n
    BY <1>1 DEF Shape
  <2>. QED  BY <1>1, <2>1, Components
<1>3. idx \in Seq(Nat) /\ Len(idx) = n /\ jdx \in Seq(Nat) /\ Len(jdx) = n
  BY <1>1, MovedIs
<1>4. \A d \in 2..n : idx[d] = jdx[d]
  BY <1>1, MovedIs
<1>5. idx[1] = jdx[1]
  <2>1. idx[1] \in Nat /\ jdx[1] \in Nat
    BY <1>2, <1>3, Components
  <2>2. PICK u, v : /\ u = Moved(shape, part, idx)[1] /\ v = Moved(shape, part, jdx)[1]
    OBVIOUS
  <2>3. /\ u = IF part = "tail" THEN idx[1] + 1 ELSE IF part = "flip" THEN m - 1 - idx[1] ELSE idx[1]
        /\ v = IF part = "tail" THEN jdx[1] + 1 ELSE IF part = "flip" THEN m - 1 - jdx[1] ELSE jdx[1]
    BY <1>1, <2>2, MovedIs
  <2>4. u = v
    BY <2>2
  <2>. QED  BY <1>2, <2>1, <2>3, <2>4
<1>6. \A d \in 1..n : idx[d] = jdx[d]
  <2>1. \A d \in 1..n : d = 1 \/ d \in 2..n
    BY <1>2
  <2>. QED  BY <1>4, <1>5, <2>1
<1>7. idx = [d \in 1..n |-> idx[d]] /\ jdx = [d \in 1..n |-> jdx[d]]
  BY <1>3
<1>. QED  BY <1>6, <1>7

-----------------------------------------------------------------------------
(* Regions *)

Names == {"a", "b"}

IsArray(a) ==
  /\ a = [shape |-> a.shape, strides |-> CalcStrides(a.shape), cells |-> a.cells]
  /\ a.shape \in Shape
  /\ a.cells = [i \in 0..(CalcSize(a.shape) - 1) |-> a.cells[i]]


LEMMA ArrayIs ==
  ASSUME NEW a, IsArray(a)
  PROVE  /\ a.shape \in Shape /\ a.strides = CalcStrides(a.shape)
         /\ DOMAIN a.cells = 0..(CalcSize(a.shape) - 1) /\ CalcSize(a.shape) \in Nat
<1>1. a.shape \in Shape /\ a.cells = [i \in 0..(CalcSize(a.shape) - 1) |-> a.cells[i]]
  BY Zenon DEF IsArray
<1>2. a.strides = CalcStrides(a.shape)
  BY DEF IsArray
<1>3. DOMAIN a.cells = 0..(CalcSize(a.shape) - 1)
  BY <1>1
<1>4. CalcSize(a.shape) \in Nat
  BY <1>1, ProductIn DEF CalcSize, Shape
<1>. QED  BY <1>1, <1>2, <1>3, <1>4

PartStrides(shape, part) ==
  IF part = "flip" THEN [CalcStrides(shape) EXCEPT ![1] = -@] ELSE CalcStrides(shape)
PartOffset(shape, part) ==
  IF part = "flip" THEN CalcStrides(shape)[1] * (shape[1] - 1)
  ELSE IF part = "tail" THEN CalcStrides(shape)[1] ELSE 0

LEMMA RegionFields ==
  ASSUME NEW as, NEW o, o.of # "scalar", o.part \in Parts, as[o.of].strides = CalcStrides(as[o.of].shape)
  PROVE  Region(as, o) = [of |-> o.of, shape |-> Cut(as[o.of].shape, o.part),
                          strides |-> PartStrides(as[o.of].shape, o.part),
                          offset |-> PartOffset(as[o.of].shape, o.part)]
<1>0. PICK shape, cs : shape = as[o.of].shape /\ cs = as[o.of].strides
  OBVIOUS
<1>1. CASE o.part = "all"
  <2>1. Region(as, o) = [of |-> o.of, shape |-> shape, strides |-> cs, offset |-> 0]
    BY <1>0, <1>1 DEF Region
  <2>. QED  BY <1>0, <1>1, <2>1 DEF Cut, PartStrides, PartOffset
<1>2. CASE o.part = "head"
  <2>1. Region(as, o) = [of |-> o.of, shape |-> Shortened(shape), strides |-> cs, offset |-> 0]
    BY <1>0, <1>2 DEF Region
  <2>. QED  BY <1>0, <1>2, <2>1 DEF Cut, PartStrides, PartOffset
<1>3. CASE o.part = "tail"
  <2>1. Region(as, o) = [of |-> o.of, shape |-> Shortened(shape), strides |-> cs, offset |-> cs[1]]
    BY <1>0, <1>3 DEF Region
  <2>. QED  BY <1>0, <1>3, <2>1 DEF Cut, PartStrides, PartOffset
<1>4. CASE o.part = "flip"
  <2>1. Region(as, o) = [of |-> o.of, shape |-> shape, strides |-> [cs EXCEPT ![1] = -@],
             offset |-> cs[1] * (shape[1] - 1)]
    BY <1>0, <1>4 DEF Region
  <2>. QED  BY <1>0, <1>4, <2>1 DEF Cut, PartStrides, PartOffset
<1>. QED  BY <1>1, <1>2, <1>3, <1>4 DEF Parts

LEMMA FirstDim ==
  ASSUME NEW shape \in Shape, NEW n, n = Len(shape), n > 0
  PROVE  shape \in Seq(Nat) /\ n \in Nat /\ 1 \in 1..n /\ shape[1] \in Nat
<1>1. shape \in Seq(Nat) /\ n \in Nat /\ 1 \in 1..n
  BY DEF Shape
<1>. QED  BY <1>1, Components

LEMMA Negated ==
  ASSUME NEW cs \in Seq(Nat), NEW n, n = Len(cs), 1 \in 1..n, NEW st, st = [cs EXCEPT ![1] = -@]
  PROVE  st \in Seq(Int) /\ Len(st) = n /\ st[1] = -cs[1] /\ \A d \in 2..n : st[d] = cs[d]
<1>1. n \in Nat /\ DOMAIN cs = 1..n /\ \A d \in 1..n : cs[d] \in Int
  OBVIOUS
<1>2. PICK k : k = -cs[1]
  OBVIOUS
<1>3. k \in Int
  BY <1>1, <1>2
<1>4. PICK f : f = [d \in 1..n |-> IF d = 1 THEN k ELSE cs[d]]
  OBVIOUS
<1>5. f \in Seq(Int) /\ Len(f) = n /\ f[1] = k /\ \A d \in 2..n : f[d] = cs[d]
  BY <1>1, <1>3, <1>4
<1>6. st = f
  BY <1>1, <1>2, <1>4
<1>. QED  BY <1>2, <1>5, <1>6

LEMMA PartAddresses ==
  ASSUME NEW shape \in Shape, Len(shape) > 0, NEW p, Possible(shape, p)
  PROVE  /\ PartStrides(shape, p) \in Seq(Int) /\ Len(PartStrides(shape, p)) = Len(shape)
         /\ PartOffset(shape, p) \in Int
         /\ \A idx \in Indices(Cut(shape, p)) :
              PartOffset(shape, p) + CalcIndex(PartStrides(shape, p), idx) = Place(shape, Moved(shape, p, idx))
<1>0. PICK n, cs, st, off : /\ n = Len(shape) /\ cs = CalcStrides(shape)
                            /\ st = PartStrides(shape, p) /\ off = PartOffset(shape, p)
  OBVIOUS
<1>01. /\ st = IF p = "flip" THEN [cs EXCEPT ![1] = -@] ELSE cs
       /\ off = IF p = "flip" THEN cs[1] * (shape[1] - 1) ELSE IF p = "tail" THEN cs[1] ELSE 0
       /\ n > 0
  BY <1>0 DEF PartStrides, PartOffset
<1>1. PICK m, c : m = shape[1] /\ c = cs[1]
  OBVIOUS
<1>2. shape \in Seq(Nat) /\ n \in Nat /\ 1 \in 1..n /\ m \in Nat
  BY <1>0, <1>01, <1>1, FirstDim
<1>3. cs \in Shape /\ Len(cs) = n
  BY <1>0, StridesAre
<1>4. cs \in Seq(Nat) /\ c \in Nat /\ DOMAIN cs = 1..n
  <2>1. cs \in Seq(Nat) /\ cs[1] \in Nat
    BY <1>2, <1>3, FirstDim
  <2>. QED  BY <1>1, <1>3, <2>1
<1>5. /\ st \in Seq(Int) /\ Len(st) = n /\ \A d \in 2..n : st[d] = cs[d]
      /\ st[1] = IF p = "flip" THEN -c ELSE c
  <2>1. CASE p = "flip"
    <3>1. st = [cs EXCEPT ![1] = -@]
      BY <1>01, <2>1
    <3>. QED  BY <1>1, <1>2, <1>3, <1>4, <2>1, <3>1, Negated
  <2>2. CASE p # "flip"
    <3>1. st = cs
      BY <1>01, <2>2
    <3>2. cs \in Seq(Int)
      BY <1>4
    <3>. QED  BY <1>1, <1>3, <2>2, <3>1, <3>2
  <2>. QED  BY <2>1, <2>2
<1>6. off \in Int
  <2>1. c * (m - 1) \in Int
    BY <1>2, <1>4
  <2>. QED  BY <1>01, <1>1, <1>4, <2>1
<1>10. ASSUME NEW idx \in Indices(Cut(shape, p)) PROVE off + CalcIndex(st, idx) = Place(shape, Moved(shape, p, idx))
  <2>1. PICK jdx, x, y : jdx = Moved(shape, p, idx) /\ x = idx[1] /\ y = jdx[1]
    OBVIOUS
  <2>3. /\ jdx \in Indices(shape) /\ \A d \in 2..n : jdx[d] = idx[d]
        /\ y = IF p = "tail" THEN x + 1 ELSE IF p = "flip" THEN m - 1 - x ELSE x
        /\ idx \in Seq(Nat) /\ Len(idx) = n
    <3>1. idx \in Seq(Nat) /\ Len(idx) = n /\ jdx \in Indices(shape) /\ \A d \in 2..n : jdx[d] = idx[d]
      BY <1>0, <2>1, MovedIs
    <3>2. jdx[1] = IF p = "tail" THEN idx[1] + 1 ELSE IF p = "flip" THEN shape[1] - 1 - idx[1] ELSE idx[1]
      BY <1>0, <2>1, MovedIs
    <3>. QED  BY <1>1, <2>1, <3>1, <3>2
  <2>4. (\A d \in 1..n : idx[d] \in Nat) /\ x \in Nat
    BY <1>2, <2>1, <2>3, Components
  <2>5. off + st[1] * x = c * y
    <3>1. CASE p = "tail"
      <4>1. off = c /\ st[1] = c /\ y = x + 1
        BY <1>01, <1>1, <1>5, <2>3, <3>1
      <4>. QED  BY <1>4, <2>4, <4>1
    <3>2. CASE p = "flip"
      <4>1. off = c * (m - 1) /\ st[1] = -c /\ y = m - 1 - x
        BY <1>01, <1>1, <1>5, <2>3, <3>2
      <4>2. PICK b : b = m - 1
        OBVIOUS
      <4>3. b \in Int /\ c * b + (-c) * x = c * (b - x)
        BY <1>2, <1>4, <2>4, <4>2
      <4>. QED  BY <1>2, <2>4, <4>1, <4>2, <4>3
    <3>3. CASE p # "tail" /\ p # "flip"
      <4>1. off = 0 /\ st[1] = c /\ y = x
        BY <1>01, <1>1, <1>5, <2>3, <3>3
      <4>2. c * x \in Int
        BY <1>4, <2>4
      <4>. QED  BY <4>1, <4>2
    <3>. QED  BY <3>1, <3>2, <3>3
  <2>6. \A d \in 1..Len(shape) : idx[d] \in Int
    BY <1>0, <2>4
  <2>7. \A d \in 2..Len(shape) : idx[d] = jdx[d] /\ st[d] = CalcStrides(shape)[d]
    BY <1>0, <1>5, <2>3
  <2>8. off + st[1] * idx[1] = CalcStrides(shape)[1] * jdx[1]
    BY <1>0, <1>1, <2>1, <2>5
  <2>9. Len(st) = Len(shape) /\ Len(shape) > 0
    BY <1>0, <1>5
  <2>10. off + CalcIndex(st, idx) = Place(shape, jdx)
    BY <1>5, <1>6, <2>3, <2>6, <2>7, <2>8, <2>9, AddressMoves
  <2>. QED  BY <2>1, <2>10
<1>. QED  BY <1>0, <1>5, <1>6, <1>10

LEMMA RegionIs ==
  ASSUME NEW as, NEW o, o.of # "scalar", o.part \in Parts, Sliceable(as, o), IsArray(as[o.of]),
         Len(as[o.of].shape) > 0
  PROVE  /\ as[o.of].shape \in Shape /\ Possible(as[o.of].shape, o.part)
         /\ Region(as, o).of = o.of /\ Region(as, o).shape = Cut(as[o.of].shape, o.part)
         /\ PartShape(as, o) = Cut(as[o.of].shape, o.part)
         /\ Cut(as[o.of].shape, o.part) \in Shape
         /\ Len(Cut(as[o.of].shape, o.part)) = Len(as[o.of].shape)
         /\ Region(as, o).strides \in Seq(Int) /\ Len(Region(as, o).strides) = Len(as[o.of].shape)
         /\ Region(as, o).offset \in Int
         /\ \A idx \in Indices(Cut(as[o.of].shape, o.part)) :
              Address(Region(as, o), idx) = Place(as[o.of].shape, Moved(as[o.of].shape, o.part, idx))
<1>1. PICK shape, p, r : shape = as[o.of].shape /\ p = o.part /\ r = Region(as, o)
  OBVIOUS
<1>2. shape \in Shape /\ as[o.of].strides = CalcStrides(shape)
  BY <1>1, ArrayIs
<1>3. Possible(shape, p)
  BY <1>1, Zenon DEF Sliceable, Possible
<1>4. r = [of |-> o.of, shape |-> Cut(shape, p), strides |-> PartStrides(shape, p), offset |-> PartOffset(shape, p)]
  BY <1>1, <1>2, RegionFields
<1>5. r.of = o.of /\ r.shape = Cut(shape, p) /\ r.strides = PartStrides(shape, p) /\ r.offset = PartOffset(shape, p)
  BY <1>4
<1>6. Len(shape) > 0
  BY <1>1
<1>7. /\ PartStrides(shape, p) \in Seq(Int) /\ Len(PartStrides(shape, p)) = Len(shape)
      /\ PartOffset(shape, p) \in Int
      /\ \A idx \in Indices(Cut(shape, p)) :
           PartOffset(shape, p) + CalcIndex(PartStrides(shape, p), idx) = Place(shape, Moved(shape, p, idx))
  BY <1>2, <1>3, <1>6, PartAddresses
<1>8. Cut(shape, p) \in Shape /\ Len(Cut(shape, p)) = Len(shape)
  BY <1>2, <1>3, <1>6, CutIs
<1>9. PartShape(as, o) = Cut(shape, p)
  BY <1>1, Zenon DEF PartShape, Cut
<1>10. \A idx : Address(r, idx) = PartOffset(shape, p) + CalcIndex(PartStrides(shape, p), idx)
  BY <1>5 DEF Address
<1>. QED  BY <1>1, <1>2, <1>3, <1>5, <1>7, <1>8, <1>9, <1>10

LEMMA PlaceOfIs ==
  ASSUME NEW as, NEW o, NEW idx
  PROVE  PlaceOf(as, o, idx) = Place(as[o.of].shape, Moved(as[o.of].shape, o.part, idx))
  BY Zenon DEF PlaceOf, Moved

-----------------------------------------------------------------------------
(* What a kernel reads and writes *)

(* A part of an array that a view can be made of. *)
PartOK(as, o) ==
  /\ o.of # "scalar" /\ o.part \in Parts
  /\ Sliceable(as, o) /\ IsArray(as[o.of])
  /\ Len(as[o.of].shape) > 0

(* The region of such a part. *)
IsRegion(r) ==
  /\ r.shape \in Shape /\ r.strides \in Seq(Int) /\ Len(r.strides) = Len(r.shape) /\ r.offset \in Int

Apart(r) == \A idx, jdx \in Indices(r.shape) : Address(r, idx) = Address(r, jdx) => idx = jdx
Within(as, r) == \A idx \in Indices(r.shape) : Address(r, idx) \in DOMAIN as[r.of].cells
AsPlaced(as, o, r) == \A idx \in Indices(r.shape) : Address(r, idx) = PlaceOf(as, o, idx)

LEMMA RegionInside ==
  ASSUME NEW as, NEW o, PartOK(as, o), NEW r, r = Region(as, o)
  PROVE  /\ r.of = o.of /\ r.shape = PartShape(as, o) /\ Len(r.shape) = Len(as[o.of].shape)
         /\ IsRegion(r) /\ Apart(r) /\ Within(as, r) /\ AsPlaced(as, o, r)
<1>1. PICK shape, p : shape = as[o.of].shape /\ p = o.part
  OBVIOUS
<1>2. /\ shape \in Shape /\ Possible(shape, p)
      /\ r.of = o.of /\ r.shape = Cut(shape, p) /\ PartShape(as, o) = Cut(shape, p)
      /\ Cut(shape, p) \in Shape /\ Len(Cut(shape, p)) = Len(shape)
      /\ r.strides \in Seq(Int) /\ Len(r.strides) = Len(shape) /\ r.offset \in Int
  BY <1>1, RegionIs DEF PartOK
<1>3. \A idx \in Indices(Cut(shape, p)) : Address(r, idx) = Place(shape, Moved(shape, p, idx))
  BY <1>1, RegionIs DEF PartOK
<1>4. DOMAIN as[o.of].cells = 0..(CalcSize(shape) - 1) /\ Len(shape) > 0
  BY <1>1, ArrayIs DEF PartOK
<1>5. ASSUME NEW idx \in Indices(Cut(shape, p)) PROVE Moved(shape, p, idx) \in Indices(shape)
  BY <1>2, <1>4, MovedIs
<1>6. Within(as, r)
  <2>1. ASSUME NEW idx \in Indices(r.shape) PROVE Address(r, idx) \in DOMAIN as[r.of].cells
    <3>1. PICK jdx : jdx = Moved(shape, p, idx)
      OBVIOUS
    <3>2. jdx \in Indices(shape) /\ Address(r, idx) = Place(shape, jdx)
      BY <1>2, <1>3, <1>5, <3>1
    <3>3. Place(shape, jdx) \in 0..(CalcSize(shape) - 1)
      BY <1>2, <3>2, PlaceBelow
    <3>. QED  BY <1>2, <1>4, <3>2, <3>3
  <2>. QED  BY <2>1 DEF Within
<1>7. Apart(r)
  <2>1. ASSUME NEW idx \in Indices(r.shape), NEW jdx \in Indices(r.shape), Address(r, idx) = Address(r, jdx)
        PROVE  idx = jdx
    <3>1. PICK i, j : i = Moved(shape, p, idx) /\ j = Moved(shape, p, jdx)
      OBVIOUS
    <3>2. idx \in Indices(Cut(shape, p)) /\ jdx \in Indices(Cut(shape, p))
      BY <1>2
    <3>3. i \in Indices(shape) /\ j \in Indices(shape) /\ Place(shape, i) = Place(shape, j)
      BY <1>3, <1>5, <2>1, <3>1, <3>2
    <3>4. i = j
      BY <1>2, <3>3, PlaceInjective
    <3>. QED  BY <1>2, <1>4, <3>1, <3>2, <3>4, MovedApart
  <2>. QED  BY <2>1 DEF Apart
<1>8. AsPlaced(as, o, r)
  BY <1>1, <1>2, <1>3, PlaceOfIs DEF AsPlaced
<1>9. IsRegion(r)
  BY <1>2 DEF IsRegion
<1>. QED  BY <1>1, <1>2, <1>6, <1>7, <1>8, <1>9

(* Broadcasting: in each dimension the extent of the whole, or one element *)
(* with stride 0.                                                          *)
Clamped(shape, idx) == [d \in DOMAIN idx |-> IF shape[d] = 1 THEN 0 ELSE idx[d]]

Broadcasts(r, whole) ==
  /\ Len(r.shape) = Len(whole)
  /\ \A d \in 1..Len(whole) : r.shape[d] = 1 \/ r.shape[d] = whole[d]
  /\ \A d \in 1..Len(whole) : r.shape[d] = 1 /\ whole[d] # 1 => r.strides[d] = 0

LEMMA ClampedReads ==
  ASSUME NEW r, IsRegion(r), NEW whole \in Shape, Broadcasts(r, whole), NEW idx \in Indices(whole)
  PROVE  /\ Clamped(r.shape, idx) \in Indices(r.shape)
         /\ Address(r, idx) = Address(r, Clamped(r.shape, idx))
<1>1. PICK n, shape, st, jdx : n = Len(whole) /\ shape = r.shape /\ st = r.strides /\ jdx = Clamped(r.shape, idx)
  OBVIOUS
<1>2. n \in Nat /\ shape \in Shape /\ shape \in Seq(Nat) /\ Len(shape) = n /\ st \in Seq(Int) /\ Len(st) = n
      /\ whole \in Seq(Nat)
  BY <1>1 DEF IsRegion, Broadcasts, Shape
<1>3. idx \in Seq(Nat) /\ Len(idx) = n /\ \A d \in 1..n : idx[d] < whole[d]
  BY <1>1, InIndices
<1>4. \A d \in 1..n : idx[d] \in Nat /\ shape[d] \in Nat /\ whole[d] \in Nat /\ st[d] \in Int
  <2>1. (\A d \in 1..n : idx[d] \in Nat) /\ (\A d \in 1..n : shape[d] \in Nat) /\ (\A d \in 1..n : whole[d] \in Nat)
    BY <1>1, <1>2, <1>3, Components
  <2>. QED  BY <1>2, <2>1
<1>5. /\ \A d \in 1..n : shape[d] = 1 \/ shape[d] = whole[d]
      /\ \A d \in 1..n : shape[d] = 1 /\ whole[d] # 1 => st[d] = 0
  BY <1>1 DEF Broadcasts
<1>6. jdx = [d \in 1..n |-> IF shape[d] = 1 THEN 0 ELSE idx[d]]
  BY <1>1, <1>2, <1>3 DEF Clamped
<1>7. jdx \in Indices(shape)
  <2>1. \A d \in 1..n : jdx[d] \in Nat /\ jdx[d] < shape[d]
    BY <1>3, <1>4, <1>5, <1>6
  <2>2. jdx \in Seq(Nat) /\ Len(jdx) = n
    BY <1>2, <1>4, <1>6
  <2>. QED  BY <1>2, <2>1, <2>2, InIndices
<1>8. ASSUME NEW d \in 1..n PROVE st[d] * idx[d] = st[d] * jdx[d]
  <2>1. CASE shape[d] = 1 /\ whole[d] # 1
    <3>1. st[d] = 0 /\ jdx[d] = 0 /\ idx[d] \in Nat
      BY <1>4, <1>5, <1>6, <2>1
    <3>. QED  BY <3>1
  <2>2. CASE shape[d] = 1 /\ whole[d] = 1
    <3>1. idx[d] = 0 /\ jdx[d] = 0
      BY <1>3, <1>4, <1>6, <2>2
    <3>. QED  BY <3>1
  <2>3. CASE shape[d] # 1
    <3>1. idx[d] = jdx[d]
      BY <1>6, <2>3
    <3>. QED  BY <3>1
  <2>. QED  BY <2>1, <2>2, <2>3
<1>9. DOMAIN st = 1..n
  BY <1>2
<1>10. [d \in DOMAIN st |-> st[d] * idx[d]] = [d \in DOMAIN st |-> st[d] * jdx[d]]
  BY <1>8, <1>9
<1>11. CalcIndex(st, idx) = CalcIndex(st, jdx)
  BY <1>10 DEF CalcIndex
<1>12. Address(r, idx) = Address(r, jdx)
  BY <1>1, <1>11 DEF Address
<1>. QED  BY <1>1, <1>7, <1>12

(* A region that is read at the indices of what is written. *)
Reads(as, lhs, r) ==
  /\ r.of \in Names \cup {"scalar"}
  /\ Len(r.shape) \in {0, Len(lhs.shape)}
  /\ r.of # "scalar" => \A idx \in Indices(lhs.shape) : Address(r, idx) \in DOMAIN as[r.of].cells
  /\ r.of = lhs.of => \A idx, jdx \in Indices(lhs.shape) : Address(r, idx) = Address(lhs, jdx) => idx = jdx

(* The reads of an operand. *)
Disjoint(r, lhs) == r = lhs \/ Addresses(r) \cap Addresses(lhs) = {}

LEMMA RegionReads ==
  ASSUME NEW as, NEW lhs, IsRegion(lhs), Apart(lhs),
         NEW r, r.of \in Names, IsRegion(r), Within(as, r), Broadcasts(r, lhs.shape),
         r.of = lhs.of => Disjoint(r, lhs)
  PROVE  Reads(as, lhs, r)
<1>1. PICK whole : whole = lhs.shape
  OBVIOUS
<1>2. whole \in Shape
  BY <1>1 DEF IsRegion
<1>3. Len(r.shape) = Len(whole)
  BY <1>1 DEF Broadcasts
<1>4. ASSUME NEW idx \in Indices(whole)
      PROVE  /\ Clamped(r.shape, idx) \in Indices(r.shape)
             /\ Address(r, idx) = Address(r, Clamped(r.shape, idx))
  BY <1>1, <1>2, ClampedReads
<1>5. ASSUME NEW idx \in Indices(whole) PROVE Address(r, idx) \in DOMAIN as[r.of].cells
  BY <1>4 DEF Within
<1>6. ASSUME NEW idx \in Indices(whole), NEW jdx \in Indices(whole), r.of = lhs.of,
             Address(r, idx) = Address(lhs, jdx)
      PROVE  idx = jdx
  <2>1. CASE r = lhs
    BY <1>1, <1>6, <2>1 DEF Apart
  <2>2. CASE Addresses(r) \cap Addresses(lhs) = {}
    <3>1. Address(r, idx) \in Addresses(r)
      BY <1>4 DEF Addresses
    <3>2. Address(lhs, jdx) \in Addresses(lhs)
      BY <1>1 DEF Addresses
    <3>. QED  BY <1>6, <2>2, <3>1, <3>2
  <2>. QED  BY <1>6, <2>1, <2>2 DEF Disjoint
<1>. QED  BY <1>1, <1>3, <1>5, <1>6, Zenon DEF Reads

(* The value that is read is that of the operand. *)
LEMMA OperandRead ==
  ASSUME NEW as, NEW o, PartOK(as, o), NEW r, r = Region(as, o),
         NEW whole \in Shape, Broadcasts(r, whole), NEW idx \in Indices(whole)
  PROVE  ValueAt(as, r, idx) = Operand(as, o, idx)
<1>1. r.of = o.of /\ r.shape = PartShape(as, o) /\ IsRegion(r) /\ Within(as, r) /\ AsPlaced(as, o, r)
  BY RegionInside
<1>2. PICK jdx : jdx = Clamped(r.shape, idx)
  OBVIOUS
<1>3. jdx \in Indices(r.shape) /\ Address(r, idx) = Address(r, jdx)
  BY <1>1, <1>2, ClampedReads
<1>4. Address(r, jdx) = PlaceOf(as, o, jdx) /\ Address(r, jdx) \in DOMAIN as[r.of].cells
  BY <1>1, <1>3 DEF AsPlaced, Within
<1>5. o.of # "scalar"
  BY DEF PartOK
<1>6. ValueAt(as, r, idx) = as[o.of].cells[PlaceOf(as, o, jdx)]
  BY <1>1, <1>3, <1>4, <1>5 DEF ValueAt
<1>7. Operand(as, o, idx) = as[o.of].cells[PlaceOf(as, o, jdx)]
  BY <1>1, <1>2, <1>5 DEF Operand, Clamped
<1>. QED  BY <1>6, <1>7

LEMMA ScalarRead ==
  ASSUME NEW as, NEW o, o.of = "scalar", NEW idx
  PROVE  /\ Region(as, o).of = "scalar" /\ Region(as, o).shape = << >> /\ Region(as, o).strides = << >>
         /\ ValueAt(as, Region(as, o), idx) = Operand(as, o, idx)
<1>1. Region(as, o) = [of |-> "scalar", shape |-> << >>, strides |-> << >>, offset |-> 0]
  BY DEF Region
<1>2. /\ Region(as, o).of = "scalar" /\ Region(as, o).shape = << >> /\ Region(as, o).strides = << >>
  BY <1>1
<1>. QED  BY <1>2 DEF ValueAt, Operand

-----------------------------------------------------------------------------
(* The shape of an expression *)

Shapes == INSTANCE InductionFacts WITH Op <- Joining

LEMMA CalcShapeIsFold ==
  ASSUME NEW rank, NEW regions
  PROVE  CalcShape(rank, regions) = Shapes!FoldLeft(Joining, Ones(rank), regions)
  BY Zenon DEF CalcShape, FoldLeft, MapThenFoldSet, Max, Shapes!FoldLeft,
               Shapes!MapThenFoldSet, Shapes!Max

(* h[n] is the shape of the first n operands. *)
Joins(h, rank, regions) ==
  /\ h[0] = Ones(rank)
  /\ \A n \in 1..Len(regions) : h[n] = BroadcastShape(h[n - 1], regions[n].shape)

LEMMA JoinsExist ==
  ASSUME NEW rank, NEW T, NEW regions \in Seq(T)
  PROVE  \E h : /\ Joins(h, rank, regions)
                /\ \A n \in 0..Len(regions) : CalcShape(rank, SubSeq(regions, 1, n)) = h[n]
<1>0. Len(regions) \in Nat
  OBVIOUS
<1>1. PICK h : Shapes!Chain(h, Ones(rank), regions)
               /\ Shapes!FoldLeft(Joining, Ones(rank), regions) = h[Len(regions)]
  BY Shapes!FoldIsChain, Zenon
<1>2. Joins(h, rank, regions)
  BY <1>1 DEF Joins, Shapes!Chain, Joining
<1>3. ASSUME NEW n \in 0..Len(regions) PROVE CalcShape(rank, SubSeq(regions, 1, n)) = h[n]
  <2>1. PICK s : s = SubSeq(regions, 1, n)
    OBVIOUS
  <2>2. s \in Seq(T) /\ Len(s) = n /\ \A i \in 1..n : s[i] = regions[i]
    BY <1>0, <2>1
  <2>3. h[0] = Ones(rank) /\ \A i \in 1..n : h[i] = Joining(h[i - 1], s[i])
    <3>1. \A i \in 1..n : i \in 1..Len(regions)
      BY <1>0
    <3>. QED  BY <1>1, <2>2, <3>1 DEF Shapes!Chain
  <2>4. Shapes!Chain(h, Ones(rank), s)
    BY <2>2, <2>3 DEF Shapes!Chain
  <2>5. Shapes!FoldLeft(Joining, Ones(rank), s) = h[Len(s)]
    BY <2>2, <2>4, Shapes!ChainEndsInFold, Zenon
  <2>. QED  BY <2>1, <2>2, <2>5, CalcShapeIsFold
<1>. QED  BY <1>2, <1>3

(* One more operand. *)
Extents1(s, K, regions, d) ==
  /\ \A n \in K : regions[n].shape[d] = 1 \/ regions[n].shape[d] = s[d]
  /\ s[d] = 1 \/ \E n \in K : regions[n].shape[d] = s[d]

JoinedShape(s, rank, K, regions) ==
  /\ DOMAIN s = 1..rank /\ s = [d \in 1..rank |-> s[d]]
  /\ \A d \in 1..rank : Extents1(s, K, regions, d)

OperandShapes(rank, regions, N) ==
  \A n \in 1..Len(regions) :
     /\ n \in N => Len(regions[n].shape) = rank /\ DOMAIN regions[n].shape = 1..rank
     /\ n \notin N => regions[n].shape = << >>

LEMMA BroadcastWhole ==
  ASSUME NEW rank \in Nat, NEW to, DOMAIN to = 1..rank, Len(to) = rank,
         NEW from, Len(from) = rank, DOMAIN from = 1..rank
  PROVE  /\ BroadcastShape(to, from) = [d \in 1..rank |-> IF to[d] = 1 THEN from[d] ELSE to[d]]
         /\ CanBroadcast(to, from) => \A d \in 1..rank : to[d] = 1 \/ from[d] = 1 \/ from[d] = to[d]
<1>1. \A d \in 1..rank : Aligned(to, from, d) = d
  BY DEF Aligned
<1>2. BroadcastShape(to, from) = [d \in 1..rank |-> IF to[d] = 1 THEN from[d] ELSE to[d]]
  BY <1>1 DEF BroadcastShape
<1>3. CanBroadcast(to, from) => \A d \in 1..rank : to[d] = 1 \/ from[d] = 1 \/ from[d] = to[d]
  BY <1>1 DEF CanBroadcast
<1>. QED  BY <1>2, <1>3

LEMMA BroadcastScalar ==
  ASSUME NEW rank \in Nat, NEW to, DOMAIN to = 1..rank, to = [d \in 1..rank |-> to[d]]
  PROVE  BroadcastShape(to, << >>) = to
<1>1. DOMAIN << >> = {}
  OBVIOUS
<1>2. BroadcastShape(to, << >>) = [d \in 1..rank |-> to[d]]
  BY <1>1 DEF BroadcastShape
<1>. QED  BY <1>2

(* The first n operands of N. *)
Upto(N, n) == {m \in N : m <= n}

LEMMA UptoRules ==
  ASSUME NEW len \in Nat, NEW N, N \subseteq 1..len
  PROVE  /\ Upto(N, 0) = {} /\ Upto(N, len) = N
         /\ \A m \in Nat : m > 0 => Upto(N, m) = Upto(N, m - 1) \cup (IF m \in N THEN {m} ELSE {})
<1>1. \A m \in N : m \in Nat /\ m > 0 /\ m <= len
  OBVIOUS
<1>2. Upto(N, 0) = {} /\ Upto(N, len) = N
  <2>1. \A m \in N : ~(m <= 0)
    BY <1>1
  <2>2. {m \in N : m <= 0} = {}
    BY <2>1
  <2>3. {m \in N : m <= len} = N
    BY <1>1
  <2>. QED  BY <2>2, <2>3 DEF Upto
<1>3. ASSUME NEW m \in Nat, m > 0, NEW n, n = m - 1
      PROVE  Upto(N, m) = Upto(N, n) \cup (IF m \in N THEN {m} ELSE {})
  <2>1. \A k \in N : k <= m <=> k <= n \/ k = m
    BY <1>1, <1>3
  <2>2. \A k : k \in Upto(N, m) <=> k \in Upto(N, n) \/ (k = m /\ m \in N)
    BY <1>1, <1>3, <2>1 DEF Upto
  <2>. QED  BY <2>2
<1>. QED  BY <1>2, <1>3

LEMMA ShapeJoined ==
  ASSUME NEW rank \in Nat, NEW T, NEW regions \in Seq(T), NEW N, N \subseteq 1..Len(regions),
         OperandShapes(rank, regions, N), HasShape(rank, regions)
  PROVE  JoinedShape(CalcShape(rank, regions), rank, N, regions)
<1>1. PICK h : /\ Joins(h, rank, regions)
               /\ \A n \in 0..Len(regions) : CalcShape(rank, SubSeq(regions, 1, n)) = h[n]
  BY JoinsExist
<1>2. PICK len : len = Len(regions)
  OBVIOUS
<1>3. len \in Nat /\ DOMAIN regions = 1..len
  BY <1>2
<1>9. N \subseteq 1..len
  BY <1>2
<1>. DEFINE Good(n) == JoinedShape(h[n], rank, Upto(N, n), regions)
            S == {n \in Nat : n <= len => Good(n)}
<1>4. 0 \in S
  <2>1. h[0] = Ones(rank)
    BY <1>1 DEF Joins
  <2>2. Upto(N, 0) = {}
    BY <1>3, <1>9, UptoRules
  <2>3. h[0] = [d \in 1..rank |-> 1]
    BY <2>1 DEF Ones
  <2>4. PICK s : s = h[0]
    OBVIOUS
  <2>5. DOMAIN s = 1..rank /\ s = [d \in 1..rank |-> s[d]] /\ \A d \in 1..rank : s[d] = 1
    BY <2>3, <2>4
  <2>6. JoinedShape(s, rank, {}, regions)
    BY <2>5 DEF JoinedShape, Extents1
  <2>. QED  BY <2>2, <2>4, <2>6
<1>5. ASSUME NEW n \in Nat, n \in S PROVE n + 1 \in S
  <2>. SUFFICES ASSUME n + 1 <= len PROVE Good(n + 1)
    OBVIOUS
  <2>0. n <= len
    BY <1>3
  <2>1. PICK m, to, s, from : m = n + 1 /\ to = h[n] /\ s = h[m] /\ from = regions[m].shape
    OBVIOUS
  <2>2. m \in 1..len /\ m - 1 = n
    BY <1>3, <2>1
  <2>3. JoinedShape(to, rank, Upto(N, n), regions)
    BY <1>5, <2>0, <2>1
  <2>4. s = BroadcastShape(to, from)
    BY <1>1, <1>2, <2>1, <2>2 DEF Joins
  <2>5. CanBroadcast(to, from)
    <3>1. m \in DOMAIN regions /\ m - 1 \in 0..Len(regions)
      BY <1>2, <1>3, <2>2
    <3>2. CalcShape(rank, SubSeq(regions, 1, m - 1)) = to
      BY <1>1, <2>1, <2>2, <3>1
    <3>. QED  BY <2>1, <3>1, <3>2 DEF HasShape
  <2>6. /\ DOMAIN to = 1..rank /\ to = [d \in 1..rank |-> to[d]]
        /\ \A d \in 1..rank : Extents1(to, Upto(N, n), regions, d)
    BY <2>3 DEF JoinedShape
  <2>7. PICK A, B : A = Upto(N, n) /\ B = Upto(N, m)
    OBVIOUS
  <2>10. B = A \cup (IF m \in N THEN {m} ELSE {})
    <3>1. m \in Nat /\ m > 0
      BY <1>3, <2>2
    <3>2. Upto(N, m) = Upto(N, m - 1) \cup (IF m \in N THEN {m} ELSE {})
      BY <1>3, <1>9, <3>1, UptoRules
    <3>. QED  BY <2>2, <2>7, <3>2
  <2>8. JoinedShape(s, rank, B, regions)
    <3>1. CASE m \in N
      <4>1. B = A \cup {m}
        BY <2>10, <3>1
      <4>2. Len(from) = rank /\ DOMAIN from = 1..rank
        BY <1>2, <2>1, <2>2, <3>1 DEF OperandShapes
      <4>7. DOMAIN to = 1..rank
        BY <2>6
      <4>3. Len(to) = rank
        BY <2>6
      <4>6. /\ BroadcastShape(to, from) = [d \in 1..rank |-> IF to[d] = 1 THEN from[d] ELSE to[d]]
            /\ \A d \in 1..rank : to[d] = 1 \/ from[d] = 1 \/ from[d] = to[d]
        BY <2>5, <4>2, <4>3, <4>7, BroadcastWhole
      <4>4. /\ DOMAIN s = 1..rank /\ s = [d \in 1..rank |-> s[d]]
            /\ \A d \in 1..rank : s[d] = IF to[d] = 1 THEN from[d] ELSE to[d]
            /\ \A d \in 1..rank : to[d] = 1 \/ from[d] = 1 \/ from[d] = to[d]
        BY <2>4, <4>6
      <4>5. ASSUME NEW d \in 1..rank PROVE Extents1(s, B, regions, d)
        <5>1. /\ \A k \in A : regions[k].shape[d] = 1 \/ regions[k].shape[d] = to[d]
              /\ to[d] = 1 \/ \E k \in A : regions[k].shape[d] = to[d]
          BY <2>6, <2>7 DEF Extents1
        <5>2. s[d] = (IF to[d] = 1 THEN from[d] ELSE to[d]) /\ (to[d] = 1 \/ from[d] = 1 \/ from[d] = to[d])
          BY <4>4
        <5>3. ASSUME NEW k \in B PROVE regions[k].shape[d] = 1 \/ regions[k].shape[d] = s[d]
          BY <2>1, <4>1, <5>1, <5>2
        <5>4. s[d] = 1 \/ \E k \in B : regions[k].shape[d] = s[d]
          BY <2>1, <4>1, <5>1, <5>2
        <5>. QED  BY <5>3, <5>4 DEF Extents1
      <4>. QED  BY <4>4, <4>5 DEF JoinedShape
    <3>2. CASE m \notin N
      <4>1. B = A
        BY <2>10, <3>2
      <4>2. from = << >>
        BY <1>2, <2>1, <2>2, <3>2 DEF OperandShapes
      <4>3. s = to
        BY <2>4, <2>6, <4>2, BroadcastScalar
      <4>. QED  BY <2>3, <2>7, <4>1, <4>3
    <3>. QED  BY <3>1, <3>2
  <2>. QED  BY <2>1, <2>7, <2>8
<1>6. Good(len)
  <2>. HIDE DEF S
  <2>1. Nat \subseteq S
    BY <1>4, <1>5, Sums!Induction
  <2>. QED  BY <1>3, <2>1 DEF S
<1>7. Upto(N, len) = N
  BY <1>3, <1>9, UptoRules
<1>8. h[len] = CalcShape(rank, regions)
  <2>1. SubSeq(regions, 1, len) = regions /\ len \in 0..Len(regions)
    BY <1>2, <1>3
  <2>. QED  BY <1>1, <1>2, <2>1
<1>. QED  BY <1>6, <1>7, <1>8

-----------------------------------------------------------------------------
(* Expressions *)

(* The two arrays of a state. *)
WellFormed(as, rank) ==
  rank \in 1..6 /\ \A x \in Names : IsArray(as[x]) /\ Len(as[x].shape) = rank

(* An expression that can be built. *)
Expressed(as, e) == e \in Seq(Operands) /\ \A n \in DOMAIN e : Sliceable(as, e[n])

LEMMA WellFormedIs ==
  ASSUME NEW as, NEW rank, WellFormed(as, rank), NEW x \in Names
  PROVE  IsArray(as[x]) /\ Len(as[x].shape) = rank /\ rank \in 1..6 /\ rank \in Nat /\ rank > 0
<1>1. IsArray(as[x]) /\ Len(as[x].shape) = rank /\ rank \in 1..6
  BY Zenon DEF WellFormed
<1>2. rank \in Nat /\ rank > 0
  BY <1>1
<1>. QED  BY <1>1, <1>2

LEMMA OperandIs ==
  ASSUME NEW as, NEW rank, WellFormed(as, rank), NEW e, Expressed(as, e), NEW n \in DOMAIN e
  PROVE  \/ e[n].of = "scalar" /\ n \notin Sized(e)
         \/ e[n].of \in Names /\ n \in Sized(e) /\ PartOK(as, e[n])
<1>1. PICK o : o = e[n]
  OBVIOUS
<1>2. o \in Operands /\ Sliceable(as, o)
  <2>1. e \in Seq(Operands) /\ Sliceable(as, o)
    BY <1>1 DEF Expressed
  <2>. QED  BY <1>1, <2>1
<1>3. o.of \in {"a", "b", "scalar"} /\ o.part \in Parts
  BY <1>2 DEF Operands
<1>4. CASE o.of = "scalar"
  BY <1>1, <1>4 DEF Sized
<1>5. CASE o.of # "scalar"
  <2>1. o.of \in Names
    BY <1>3, <1>5 DEF Names
  <2>2. IsArray(as[o.of]) /\ Len(as[o.of].shape) = rank /\ rank > 0
    BY <2>1, WellFormedIs
  <2>3. Len(as[o.of].shape) > 0
    BY <2>2
  <2>4. PartOK(as, o)
    BY <1>2, <1>3, <1>5, <2>2, <2>3 DEF PartOK
  <2>5. n \in Sized(e)
    BY <1>1, <1>5 DEF Sized
  <2>. QED  BY <1>1, <2>1, <2>4, <2>5
<1>. QED  BY <1>4, <1>5

LEMMA IsSequence ==
  ASSUME NEW n \in Nat, NEW T, NEW f, \A i \in 1..n : f[i] \in T
  PROVE  [i \in 1..n |-> f[i]] \in Seq(T)
  OBVIOUS

LEMMA RegionsAre ==
  ASSUME NEW as, NEW rank, WellFormed(as, rank), NEW e, Expressed(as, e)
  PROVE  /\ DOMAIN e = 1..Len(e) /\ Len(e) \in Nat
         /\ DOMAIN Regions(as, e) = 1..Len(e) /\ Len(Regions(as, e)) = Len(e)
         /\ \E T : Regions(as, e) \in Seq(T)
         /\ \A n \in 1..Len(e) : Regions(as, e)[n] = Region(as, e[n])
<1>1. e \in Seq(Operands)
  BY DEF Expressed
<1>2. DOMAIN e = 1..Len(e) /\ Len(e) \in Nat
  BY <1>1
<1>3. PICK r : r = [n \in 1..Len(e) |-> Region(as, e[n])]
  OBVIOUS
<1>4. r = Regions(as, e)
  BY <1>2, <1>3 DEF Regions
<1>5. DOMAIN r = 1..Len(e) /\ Len(r) = Len(e) /\ \A n \in 1..Len(e) : r[n] = Region(as, e[n])
  BY <1>2, <1>3
<1>6. PICK T : T = {r[n] : n \in 1..Len(e)}
  OBVIOUS
<1>8. \A n \in 1..Len(e) : r[n] \in T
  BY <1>6
<1>7. r \in Seq(T)
  <2>1. [n \in 1..Len(e) |-> r[n]] \in Seq(T)
    BY <1>2, <1>8, IsSequence
  <2>. QED  BY <1>3, <2>1
<1>. QED  BY <1>2, <1>4, <1>5, <1>7

IsPart(as, rank, o, r) ==
  /\ r.of = o.of /\ r.shape = PartShape(as, o) /\ Len(r.shape) = rank
  /\ IsRegion(r) /\ Apart(r) /\ Within(as, r) /\ AsPlaced(as, o, r)
  /\ r.shape \in Shape /\ DOMAIN r.shape = 1..rank /\ \A d \in 1..rank : r.shape[d] \in Nat

LEMMA SizedRegion ==
  ASSUME NEW as, NEW rank, WellFormed(as, rank), NEW o, o.of \in Names, PartOK(as, o)
  PROVE  IsPart(as, rank, o, Region(as, o))
<1>0. PICK r : r = Region(as, o)
  OBVIOUS
<1>1. Len(as[o.of].shape) = rank
  BY WellFormedIs
<1>2. /\ r.of = o.of /\ r.shape = PartShape(as, o) /\ Len(r.shape) = rank
      /\ IsRegion(r) /\ Apart(r) /\ Within(as, r) /\ AsPlaced(as, o, r)
  BY <1>0, <1>1, RegionInside
<1>3. r.shape \in Shape
  BY <1>2 DEF IsRegion
<1>4. r.shape \in Seq(Nat)
  BY <1>3 DEF Shape
<1>5. DOMAIN r.shape = 1..rank
  BY <1>2, <1>4
<1>6. \A d \in 1..rank : r.shape[d] \in Nat
  BY <1>2, <1>4, Components
<1>. QED  BY <1>0, <1>2, <1>3, <1>5, <1>6 DEF IsPart

LEMMA ShapesAre ==
  ASSUME NEW as, NEW rank, WellFormed(as, rank), NEW e, Expressed(as, e)
  PROVE  /\ OperandShapes(rank, Regions(as, e), Sized(e))
         /\ Sized(e) \subseteq 1..Len(e)
         /\ \A n \in Sized(e) : /\ Regions(as, e)[n].shape = PartShape(as, e[n])
                                /\ \A d \in 1..rank : PartShape(as, e[n])[d] \in Nat
<1>1. /\ DOMAIN e = 1..Len(e) /\ Len(Regions(as, e)) = Len(e)
      /\ \A n \in 1..Len(e) : Regions(as, e)[n] = Region(as, e[n])
  BY RegionsAre
<1>2. Sized(e) \subseteq 1..Len(e)
  BY <1>1 DEF Sized
<1>3. ASSUME NEW n \in 1..Len(e)
      PROVE  /\ n \in Sized(e) => /\ Len(Region(as, e[n]).shape) = rank /\ DOMAIN Region(as, e[n]).shape = 1..rank
                                  /\ Region(as, e[n]).shape = PartShape(as, e[n])
                                  /\ \A d \in 1..rank : PartShape(as, e[n])[d] \in Nat
             /\ n \notin Sized(e) => Region(as, e[n]).shape = << >>
  <2>0. n \in DOMAIN e
    BY <1>1
  <2>1. CASE e[n].of = "scalar" /\ n \notin Sized(e)
    BY <2>1, ScalarRead
  <2>2. CASE e[n].of \in Names /\ n \in Sized(e) /\ PartOK(as, e[n])
    <3>1. PICK o, r : o = e[n] /\ r = Region(as, o)
      OBVIOUS
    <3>2. r.shape = PartShape(as, o) /\ Len(r.shape) = rank /\ DOMAIN r.shape = 1..rank
          /\ \A d \in 1..rank : r.shape[d] \in Nat
      <4>1. IsPart(as, rank, o, r)
        BY <2>2, <3>1, SizedRegion
      <4>. QED  BY <4>1 DEF IsPart
    <3>. QED  BY <2>2, <3>1, <3>2
  <2>. QED  BY <2>0, <2>1, <2>2, OperandIs
<1>4. OperandShapes(rank, Regions(as, e), Sized(e))
  BY <1>1, <1>3 DEF OperandShapes
<1>5. \A n \in Sized(e) : /\ Regions(as, e)[n].shape = PartShape(as, e[n])
                          /\ \A d \in 1..rank : PartShape(as, e[n])[d] \in Nat
  BY <1>1, <1>2, <1>3
<1>. QED  BY <1>2, <1>4, <1>5

(* What calc_shape() comes to: in every dimension 1, or the extent of all *)
(* the operands that do not have 1 there.                                  *)
Covering(as, e, s, d) ==
  /\ \A n \in Sized(e) : PartShape(as, e[n])[d] = 1 \/ PartShape(as, e[n])[d] = s[d]
  /\ s[d] = 1 \/ \E n \in Sized(e) : PartShape(as, e[n])[d] = s[d]

Fitted(as, rank, e, s) ==
  /\ s \in Shape /\ Len(s) = rank /\ DOMAIN s = 1..rank
  /\ \A d \in 1..rank : Covering(as, e, s, d)

LEMMA ShapeIs ==
  ASSUME NEW as, NEW rank, WellFormed(as, rank), NEW e, Expressed(as, e), HasShape(rank, Regions(as, e))
  PROVE  Fitted(as, rank, e, CalcShape(rank, Regions(as, e)))
<1>0. rank \in Nat
  BY DEF WellFormed
<1>1. PICK r, N, s : r = Regions(as, e) /\ N = Sized(e) /\ s = CalcShape(rank, Regions(as, e))
  OBVIOUS
<1>2. PICK T : r \in Seq(T)
  BY <1>1, RegionsAre
<1>3. N \subseteq 1..Len(r) /\ OperandShapes(rank, r, N)
  BY <1>1, RegionsAre, ShapesAre
<1>4. JoinedShape(s, rank, N, r)
  BY <1>0, <1>1, <1>2, <1>3, ShapeJoined
<1>5. DOMAIN s = 1..rank /\ s = [d \in 1..rank |-> s[d]] /\ \A d \in 1..rank : Extents1(s, N, r, d)
  BY <1>4 DEF JoinedShape
<1>6. \A n \in N : r[n].shape = PartShape(as, e[n]) /\ \A d \in 1..rank : PartShape(as, e[n])[d] \in Nat
  BY <1>1, ShapesAre
<1>7. ASSUME NEW d \in 1..rank PROVE Covering(as, e, s, d) /\ s[d] \in Nat
  <2>1. \A n \in N : r[n].shape[d] = 1 \/ r[n].shape[d] = s[d]
    BY <1>5 DEF Extents1
  <2>2. s[d] = 1 \/ \E n \in N : r[n].shape[d] = s[d]
    BY <1>5 DEF Extents1
  <2>3. \A n \in N : PartShape(as, e[n])[d] = 1 \/ PartShape(as, e[n])[d] = s[d]
    BY <1>6, <2>1
  <2>4. s[d] = 1 \/ \E n \in N : PartShape(as, e[n])[d] = s[d]
    BY <1>6, <2>2
  <2>5. s[d] \in Nat
    <3>1. CASE s[d] = 1
      BY <3>1
    <3>2. ASSUME NEW n \in N, PartShape(as, e[n])[d] = s[d] PROVE s[d] \in Nat
      <4>1. PartShape(as, e[n])[d] \in Nat
        BY <1>6
      <4>. QED  BY <3>2, <4>1
    <3>. QED  BY <2>4, <3>1, <3>2
  <2>. QED  BY <1>1, <2>3, <2>4, <2>5 DEF Covering
<1>9. \A d \in 1..rank : s[d] \in Nat
  BY <1>7
<1>10. s \in Seq(Nat) /\ Len(s) = rank
  <2>1. PICK t : t = [d \in 1..rank |-> s[d]]
    OBVIOUS
  <2>2. t \in Seq(Nat) /\ Len(t) = rank
    BY <1>0, <1>9, <2>1
  <2>. QED  BY <1>5, <2>1, <2>2
<1>. QED  BY <1>1, <1>5, <1>7, <1>10 DEF Shape, Fitted

(* The check of an assignment is right. *)
LEMMA ChecksFit ==
  ASSUME NEW as, NEW rank, NEW e, NEW s, Fitted(as, rank, e, s), NEW whole, DOMAIN whole = 1..rank
  PROVE  Fits(as, e, whole) <=> ValidAssignBroadcast(whole, s)
<1>1. ASSUME NEW d \in 1..rank
      PROVE  /\ \A n \in Sized(e) : PartShape(as, e[n])[d] = 1 \/ PartShape(as, e[n])[d] = s[d]
             /\ s[d] = 1 \/ \E n \in Sized(e) : PartShape(as, e[n])[d] = s[d]
  BY DEF Fitted, Covering
<1>2. ASSUME Fits(as, e, whole) PROVE ValidAssignBroadcast(whole, s)
  BY <1>1, <1>2 DEF Fits, ValidAssignBroadcast
<1>3. ASSUME ValidAssignBroadcast(whole, s) PROVE Fits(as, e, whole)
  BY <1>1, <1>3 DEF Fits, ValidAssignBroadcast
<1>. QED  BY <1>2, <1>3

LEMMA ShapeMeant ==
  ASSUME NEW as, NEW rank, WellFormed(as, rank), NEW e, NEW s, Fitted(as, rank, e, s)
  PROVE  ShapeOf(as, e) = s /\ Fits(as, e, s)
<1>1. s \in Shape /\ DOMAIN s = 1..rank
  BY DEF Fitted
<1>0. ASSUME NEW d \in 1..rank
      PROVE  /\ \A n \in Sized(e) : PartShape(as, e[n])[d] = 1 \/ PartShape(as, e[n])[d] = s[d]
             /\ s[d] = 1 \/ \E n \in Sized(e) : PartShape(as, e[n])[d] = s[d]
  BY DEF Fitted, Covering
<1>2. Fits(as, e, s)
  BY <1>0, <1>1 DEF Fits
<1>3. DOMAIN as["a"].shape = 1..rank
  <2>1. "a" \in Names
    BY DEF Names
  <2>2. IsArray(as["a"]) /\ Len(as["a"].shape) = rank
    BY <2>1, WellFormedIs
  <2>3. as["a"].shape \in Seq(Nat)
    BY <2>2, ArrayIs DEF Shape
  <2>4. PICK t : t = as["a"].shape
    OBVIOUS
  <2>5. t \in Seq(Nat) /\ Len(t) = rank
    BY <2>2, <2>3, <2>4
  <2>6. DOMAIN t = 1..rank
    BY <2>5
  <2>. QED  BY <2>4, <2>6
<1>4. PICK X : X = [d \in 1..rank |-> {PartShape(as, e[n])[d] : n \in Sized(e)}]
  OBVIOUS
<1>5. ShapeOf(as, e) = [d \in 1..rank |-> IF X[d] \subseteq {1} THEN 1 ELSE CHOOSE x \in X[d] : x # 1]
  BY <1>3, <1>4 DEF ShapeOf
<1>6. ASSUME NEW d \in 1..rank PROVE (IF X[d] \subseteq {1} THEN 1 ELSE CHOOSE x \in X[d] : x # 1) = s[d]
  <2>1. X[d] = {PartShape(as, e[n])[d] : n \in Sized(e)}
    BY <1>4
  <2>2. \A x \in X[d] : x = 1 \/ x = s[d]
    BY <1>0, <2>1
  <2>3. s[d] = 1 \/ s[d] \in X[d]
    BY <1>0, <2>1
  <2>4. PICK Y, v : Y = X[d] /\ v = s[d]
    OBVIOUS
  <2>5. (IF Y \subseteq {1} THEN 1 ELSE CHOOSE x \in Y : x # 1) = v
    <3>1. (\A x \in Y : x = 1 \/ x = v) /\ (v = 1 \/ v \in Y)
      BY <2>2, <2>3, <2>4
    <3>2. CASE Y \subseteq {1}
      BY <3>1, <3>2
    <3>3. CASE ~(Y \subseteq {1})
      <4>1. PICK z \in Y : z # 1
        BY <3>3
      <4>2. (CHOOSE x \in Y : x # 1) \in Y /\ (CHOOSE x \in Y : x # 1) # 1
        BY <4>1
      <4>. QED  BY <3>1, <3>3, <4>2
    <3>. QED  BY <3>2, <3>3
  <2>. QED  BY <2>4, <2>5
<1>7. s = [d \in 1..rank |-> s[d]]
  <2>1. s \in Seq(Nat)
    BY <1>1 DEF Shape
  <2>. QED  BY <1>1, <2>1
<1>. QED  BY <1>2, <1>5, <1>6, <1>7

(* A kernel that reads an expression. *)
KernelReads(as, e, lhs, rhs) ==
  /\ \A n \in DOMAIN rhs : Reads(as, lhs, rhs[n])
  /\ \A idx \in Indices(lhs.shape) :
       Applied([n \in DOMAIN rhs |-> ValueAt(as, rhs[n], idx)]) = Meaning(as, e, idx)

LEMMA ExpressionRead ==
  ASSUME NEW as, NEW rank, WellFormed(as, rank), NEW e, Expressed(as, e),
         NEW lhs, IsRegion(lhs), Apart(lhs), lhs.of \in Names, Len(lhs.shape) = rank,
         Fits(as, e, lhs.shape), NEW rhs, rhs = Regions(as, e),
         SlicesKeepStrides(lhs.shape, rhs), Unaliased(lhs, rhs)
  PROVE  KernelReads(as, e, lhs, rhs)
<1>1. PICK whole : whole = lhs.shape
  OBVIOUS
<1>2. whole \in Shape /\ Len(whole) = rank /\ DOMAIN whole = 1..rank /\ rank \in Nat
  <2>1. whole \in Shape /\ Len(whole) = rank /\ rank \in Nat
    BY <1>1 DEF IsRegion, WellFormed
  <2>. QED  BY <2>1 DEF Shape
<1>3. /\ DOMAIN e = 1..Len(e) /\ DOMAIN rhs = 1..Len(e) /\ \A n \in 1..Len(e) : rhs[n] = Region(as, e[n])
  BY RegionsAre
<1>4. ASSUME NEW n \in 1..Len(e)
      PROVE  Reads(as, lhs, rhs[n]) /\ \A idx \in Indices(whole) : ValueAt(as, rhs[n], idx) = Operand(as, e[n], idx)
  <2>1. PICK o, r : o = e[n] /\ r = rhs[n]
    OBVIOUS
  <2>2. r = Region(as, o) /\ n \in DOMAIN e /\ n \in DOMAIN rhs
    BY <1>3, <2>1
  <2>3. CASE o.of = "scalar"
    <3>1. r.of = "scalar" /\ r.shape = << >> /\ \A idx : ValueAt(as, r, idx) = Operand(as, o, idx)
      BY <2>2, <2>3, ScalarRead
    <3>2. Len(r.shape) = 0 /\ r.of # lhs.of
      BY <3>1 DEF Names
    <3>3. Reads(as, lhs, r)
      BY <3>1, <3>2 DEF Reads
    <3>. QED  BY <2>1, <3>1, <3>3
  <2>4. CASE o.of \in Names /\ n \in Sized(e) /\ PartOK(as, o)
    <3>1. /\ r.of = o.of /\ r.shape = PartShape(as, o) /\ Len(r.shape) = rank
          /\ IsRegion(r) /\ Within(as, r) /\ DOMAIN r.shape = 1..rank
      <4>1. IsPart(as, rank, o, r)
        BY <2>2, <2>4, SizedRegion
      <4>. QED  BY <4>1 DEF IsPart
    <3>2. \A d \in 1..rank : r.shape[d] = 1 \/ r.shape[d] = whole[d]
      BY <1>1, <1>2, <2>1, <2>4, <3>1 DEF Fits
    <3>3. \A d \in 1..rank : r.shape[d] = 1 /\ whole[d] # 1 => r.strides[d] = 0
      <4>1. \A d \in DOMAIN rhs[n].shape : rhs[n].shape[d] = 1 /\ lhs.shape[d] # 1 => rhs[n].strides[d] = 0
        BY <2>2 DEF SlicesKeepStrides
      <4>. QED  BY <1>1, <2>1, <3>1, <4>1
    <3>4. Broadcasts(r, whole)
      BY <1>2, <3>1, <3>2, <3>3 DEF Broadcasts
    <3>5. r.of = lhs.of => Disjoint(r, lhs)
      BY <2>1, <2>2 DEF Unaliased, Disjoint
    <3>6. Reads(as, lhs, r)
      BY <1>1, <2>4, <3>1, <3>4, <3>5, RegionReads
    <3>7. ASSUME NEW idx \in Indices(whole) PROVE ValueAt(as, r, idx) = Operand(as, o, idx)
      BY <1>2, <2>2, <2>4, <3>4, OperandRead
    <3>. QED  BY <2>1, <3>6, <3>7
  <2>. QED  BY <2>1, <2>2, <2>3, <2>4, OperandIs
<1>5. ASSUME NEW idx \in Indices(whole)
      PROVE  Applied([n \in DOMAIN rhs |-> ValueAt(as, rhs[n], idx)]) = Meaning(as, e, idx)
  <2>1. [n \in DOMAIN rhs |-> ValueAt(as, rhs[n], idx)] = [n \in DOMAIN e |-> Operand(as, e[n], idx)]
    BY <1>3, <1>4
  <2>. QED  BY <2>1, Zenon DEF Meaning
<1>. QED  BY <1>1, <1>3, <1>4, <1>5 DEF KernelReads

-----------------------------------------------------------------------------
(* The inductive invariant *)

Expecting(as, ex) ==
  /\ as = [x \in Names |-> as[x]] /\ ex = [x \in Names |-> ex[x]]
  /\ \A x \in Names : ex[x] = [i \in DOMAIN as[x].cells |-> ex[x][i]]

Done(as, ex) == \A x \in Names : as[x].cells = ex[x]

Writes(as, lhs) == lhs.of \in Names /\ Within(as, lhs) /\ Apart(lhs)

(* A kernel and the threads it has left. *)
Runs(k) ==
  /\ k = [op |-> k.op, lhs |-> k.lhs, rhs |-> k.rhs, todo |-> [t \in DOMAIN k.todo |-> k.todo[t]]]
  /\ k.op \in {"assign", "launch"}
  /\ DOMAIN k.todo # {}
  /\ \A t \in DOMAIN k.todo : k.todo[t] \in Indices(k.lhs.shape)
  /\ \A t, u \in DOMAIN k.todo : k.todo[t] = k.todo[u] => t = u

(* The elements that are still to be assigned to, with the value they will *)
(* get, and the others as they ought to be.                                *)
Progress(as, ex, k) ==
  /\ \A t \in DOMAIN k.todo : ex[k.lhs.of][Address(k.lhs, k.todo[t])] = Result(as, k, k.todo[t])
  /\ \A c \in DOMAIN as[k.lhs.of].cells :
       (\E t \in DOMAIN k.todo : Address(k.lhs, k.todo[t]) = c) \/ as[k.lhs.of].cells[c] = ex[k.lhs.of][c]
  /\ \A x \in Names \ {k.lhs.of} : as[x].cells = ex[x]

Running(as, ex, k) ==
  /\ Len(k.lhs.shape) = Len(as["a"].shape)
  /\ Runs(k) /\ Writes(as, k.lhs) /\ Progress(as, ex, k)
  /\ \A n \in DOMAIN k.rhs : Reads(as, k.lhs, k.rhs[n])

(* Nothing is being assigned, and everything is as it ought to be; or a    *)
(* kernel is under way.                                                    *)
Underway(as, ex, k) == IF k = Idle THEN Done(as, ex) ELSE Running(as, ex, k)

Inv ==
  /\ backend \in Backends /\ issued \in 0..MaxAssignments
  /\ WellFormed(arrays, Rank) /\ Expecting(arrays, expected)
  /\ Underway(arrays, expected, kernel)

-----------------------------------------------------------------------------
(* A kernel begins *)

(* What a target is to have when it is done. *)
Intended(as, e, lhs, ex) ==
  /\ \A idx \in Indices(lhs.shape) : ex[lhs.of][Address(lhs, idx)] = Meaning(as, e, idx)
  /\ \A c \in DOMAIN as[lhs.of].cells :
       (\E idx \in Indices(lhs.shape) : Address(lhs, idx) = c) \/ as[lhs.of].cells[c] = ex[lhs.of][c]
  /\ \A x \in Names \ {lhs.of} : as[x].cells = ex[x]

Agree(as, ex, x) == \A c \in DOMAIN as[x].cells : as[x].cells[c] = ex[x][c]

LEMMA CellsEqual ==
  ASSUME NEW as, NEW ex, Expecting(as, ex), NEW x \in Names, IsArray(as[x]), Agree(as, ex, x)
  PROVE  as[x].cells = ex[x]
<1>1. PICK cells, dom : cells = as[x].cells /\ dom = DOMAIN as[x].cells
  OBVIOUS
<1>2. cells = [i \in 0..(CalcSize(as[x].shape) - 1) |-> cells[i]]
  BY <1>1, Zenon DEF IsArray
<1>3. cells = [i \in dom |-> cells[i]]
  BY <1>1, <1>2
<1>4. ex[x] = [i \in dom |-> ex[x][i]]
  BY <1>1, Zenon DEF Expecting
<1>5. \A i \in dom : cells[i] = ex[x][i]
  BY <1>1 DEF Agree
<1>6. [i \in dom |-> cells[i]] = [i \in dom |-> ex[x][i]]
  BY <1>5
<1>. QED  BY <1>1, <1>3, <1>4, <1>6

LEMMA RunningIsBusy ==
  ASSUME NEW as, NEW ex, NEW k, Running(as, ex, k)
  PROVE  k # Idle /\ Underway(as, ex, k)
<1>1. DOMAIN k.todo # {}
  BY DEF Running, Runs
<1>2. k # Idle
  BY <1>1 DEF Idle
<1>. QED  BY <1>2, Zenon DEF Underway

LEMMA KernelBegins ==
  ASSUME NEW as, NEW rank, WellFormed(as, rank), rank = Len(as["a"].shape), NEW ex, Expecting(as, ex),
         NEW op \in {"assign", "launch"}, NEW lhs, IsRegion(lhs), Writes(as, lhs), Len(lhs.shape) = rank,
         NEW e, NEW rhs, KernelReads(as, e, lhs, rhs), Intended(as, e, lhs, ex),
         backend \in Backends, LaunchableSize(lhs.shape), Run(op, lhs, rhs)
  PROVE  Underway(as, ex, kernel')
<1>1. PICK shape, T, f : /\ shape = lhs.shape /\ T = Active(op, shape)
                         /\ f = [t \in T |-> Index(op, shape, t)]
  OBVIOUS
<1>2. shape \in Shape /\ Len(shape) \in 1..6
  BY <1>1 DEF IsRegion, WellFormed
<1>3. Enumerates(T, Indices(shape), f)
  BY <1>1, <1>2, ThreadsEnumerate
<1>4. kernel' = IF T = {} THEN Idle ELSE [op |-> op, lhs |-> lhs, rhs |-> rhs, todo |-> f]
  BY <1>1, Zenon DEF Run, Active
<1>5. /\ \A idx \in Indices(shape) : ex[lhs.of][Address(lhs, idx)] = Meaning(as, e, idx)
      /\ \A c \in DOMAIN as[lhs.of].cells :
           (\E idx \in Indices(shape) : Address(lhs, idx) = c) \/ as[lhs.of].cells[c] = ex[lhs.of][c]
      /\ \A x \in Names \ {lhs.of} : as[x].cells = ex[x]
  BY <1>1 DEF Intended
<1>6. CASE T = {}
  <2>1. \A idx : idx \notin Indices(shape)
    BY <1>3, <1>6 DEF Enumerates
  <2>2. lhs.of \in Names /\ IsArray(as[lhs.of])
    BY WellFormedIs DEF Writes
  <2>3. \A c \in DOMAIN as[lhs.of].cells : as[lhs.of].cells[c] = ex[lhs.of][c]
    BY <1>5, <2>1
  <2>4. as[lhs.of].cells = ex[lhs.of]
    <3>1. Agree(as, ex, lhs.of)
      BY <2>3 DEF Agree
    <3>. QED  BY <2>2, <3>1, CellsEqual
  <2>5. Done(as, ex)
    BY <1>5, <2>4 DEF Done
  <2>6. kernel' = Idle
    BY <1>4, <1>6
  <2>. QED  BY <2>5, <2>6, Zenon DEF Underway
<1>7. CASE T # {}
  <2>1. PICK k : k = [op |-> op, lhs |-> lhs, rhs |-> rhs, todo |-> f]
    OBVIOUS
  <2>2. k.op = op /\ k.lhs = lhs /\ k.rhs = rhs /\ k.todo = f /\ DOMAIN f = T
    BY <1>1, <2>1
  <2>3. /\ \A t \in T : f[t] \in Indices(shape)
        /\ \A t, u \in T : f[t] = f[u] => t = u
        /\ \A i \in Indices(shape) : \E t \in T : f[t] = i
    BY <1>3 DEF Enumerates
  <2>4. Runs(k)
    <3>1. f = [t \in DOMAIN f |-> f[t]]
      BY <1>1
    <3>2. k = [op |-> k.op, lhs |-> k.lhs, rhs |-> k.rhs, todo |-> [t \in DOMAIN k.todo |-> k.todo[t]]]
      BY <2>1, <2>2, <3>1
    <3>3. k.op \in {"assign", "launch"}
      BY <2>2
    <3>4. /\ DOMAIN k.todo # {}
          /\ \A t \in DOMAIN k.todo : k.todo[t] \in Indices(k.lhs.shape)
          /\ \A t, u \in DOMAIN k.todo : k.todo[t] = k.todo[u] => t = u
      BY <1>1, <1>7, <2>2, <2>3
    <3>. QED  BY <3>2, <3>3, <3>4 DEF Runs
  <2>5. \A idx \in Indices(shape) : Result(as, k, idx) = Meaning(as, e, idx)
    BY <1>1, <2>2, Zenon DEF KernelReads, Result
  <2>6. Progress(as, ex, k)
    <3>1. \A t \in T : ex[lhs.of][Address(lhs, f[t])] = Result(as, k, f[t])
      BY <1>5, <2>3, <2>5
    <3>2. ASSUME NEW c \in DOMAIN as[lhs.of].cells
          PROVE  (\E t \in T : Address(lhs, f[t]) = c) \/ as[lhs.of].cells[c] = ex[lhs.of][c]
      <4>1. CASE \E idx \in Indices(shape) : Address(lhs, idx) = c
        <5>1. PICK idx \in Indices(shape) : Address(lhs, idx) = c
          BY <4>1
        <5>2. PICK t \in T : f[t] = idx
          BY <2>3
        <5>. QED  BY <5>1, <5>2
      <4>. QED  BY <1>5, <4>1
    <3>. QED  BY <1>5, <2>2, <3>1, <3>2 DEF Progress
  <2>7. \A n \in DOMAIN rhs : Reads(as, lhs, rhs[n])
    BY DEF KernelReads
  <2>8. Running(as, ex, k)
    BY <2>2, <2>4, <2>6, <2>7 DEF Running
  <2>9. kernel' = k
    BY <1>4, <1>7, <2>1
  <2>. QED  BY <2>8, <2>9, RunningIsBusy
<1>. QED  BY <1>6, <1>7

-----------------------------------------------------------------------------
(* What is expected *)

LEMMA TargetIs ==
  ASSUME NEW as, NEW rank, WellFormed(as, rank), NEW t \in Targets
  PROVE  /\ t.of \in Names /\ t.of # "scalar" /\ (t.kind = "container" => t.part = "all")
         /\ Sliceable(as, t) => PartOK(as, t)
<1>1. /\ Targets \subseteq [kind : {"container", "span", "view"}, of : {"a", "b"}, part : Parts]
      /\ \A u \in Targets : u.kind = "container" => u.part = "all"
  BY ConstantsAssumption, Zenon DEF ConstantsAssumption
<1>2. t \in [kind : {"container", "span", "view"}, of : {"a", "b"}, part : Parts]
  BY <1>1
<1>3. t.of \in {"a", "b"} /\ t.part \in Parts
  BY <1>2
<1>4. t.of \in Names /\ t.of # "scalar"
  BY <1>3 DEF Names
<1>5. IsArray(as[t.of]) /\ Len(as[t.of].shape) > 0
  <2>1. IsArray(as[t.of]) /\ Len(as[t.of].shape) = rank /\ rank > 0
    BY <1>4, WellFormedIs
  <2>. QED  BY <2>1
<1>6. Sliceable(as, t) => PartOK(as, t)
  BY <1>3, <1>4, <1>5, Zenon DEF PartOK
<1>. QED  BY <1>1, <1>4, <1>6

(* An assignment to a part of an array. *)
HitBy(as, o, c) == {idx \in Indices(PartShape(as, o)) : PlaceOf(as, o, idx) = c}

(* u has the value of e at every index of lhs, and is as before elsewhere. *)
Assigned(as, x, lhs, e, u) ==
  /\ u = [c \in DOMAIN as[x].cells |-> u[c]]
  /\ \A idx \in Indices(lhs.shape) : u[Address(lhs, idx)] = Meaning(as, e, idx)
  /\ \A c \in DOMAIN as[x].cells :
       (\E idx \in Indices(lhs.shape) : Address(lhs, idx) = c) \/ u[c] = as[x].cells[c]

LEMMA UpdatedIs ==
  ASSUME NEW as, NEW rank, WellFormed(as, rank), NEW o, o.of \in Names, PartOK(as, o),
         NEW e
  PROVE  Assigned(as, o.of, Region(as, o), e, Updated(as, o, e))
<1>0. PICK lhs : lhs = Region(as, o)
  OBVIOUS
<1>1. PICK u, dom : u = Updated(as, o, e) /\ dom = DOMAIN as[o.of].cells
  OBVIOUS
<1>2. u = [c \in dom |-> IF HitBy(as, o, c) = {} THEN as[o.of].cells[c]
                         ELSE Meaning(as, e, CHOOSE idx \in HitBy(as, o, c) : TRUE)]
  BY <1>1, Zenon DEF Updated, HitBy
<1>3. lhs.of = o.of /\ lhs.shape = PartShape(as, o) /\ Apart(lhs) /\ Within(as, lhs) /\ AsPlaced(as, o, lhs)
  <2>1. IsPart(as, rank, o, lhs)
    BY <1>0, SizedRegion
  <2>. QED  BY <2>1 DEF IsPart
<1>4. ASSUME NEW idx \in Indices(lhs.shape) PROVE Address(lhs, idx) \in dom /\ u[Address(lhs, idx)] = Meaning(as, e, idx)
  <2>1. PICK c : c = Address(lhs, idx)
    OBVIOUS
  <2>2. c \in dom
    BY <1>1, <1>3, <2>1 DEF Within
  <2>3. PICK H : H = HitBy(as, o, c)
    OBVIOUS
  <2>4. idx \in H
    BY <1>3, <2>1, <2>3 DEF HitBy, AsPlaced
  <2>5. ASSUME NEW jdx \in H PROVE jdx = idx
    <3>1. jdx \in Indices(lhs.shape) /\ Address(lhs, jdx) = Address(lhs, idx)
      BY <1>3, <2>1, <2>3 DEF HitBy, AsPlaced
    <3>. QED  BY <1>3, <3>1 DEF Apart
  <2>6. (CHOOSE jdx \in H : TRUE) = idx
    BY <2>4, <2>5
  <2>7. u[c] = Meaning(as, e, CHOOSE jdx \in H : TRUE)
    BY <1>2, <2>2, <2>3, <2>4
  <2>. QED  BY <2>1, <2>2, <2>6, <2>7
<1>5. ASSUME NEW c \in dom
      PROVE  (\E idx \in Indices(lhs.shape) : Address(lhs, idx) = c) \/ u[c] = as[o.of].cells[c]
  <2>1. CASE HitBy(as, o, c) = {}
    BY <1>2, <2>1
  <2>2. CASE HitBy(as, o, c) # {}
    <3>1. PICK idx \in HitBy(as, o, c) : TRUE
      BY <2>2
    <3>. QED  BY <1>3, <3>1 DEF HitBy, AsPlaced
  <2>. QED  BY <2>1, <2>2
<1>6. u = [c \in dom |-> u[c]]
  BY <1>2
<1>. QED  BY <1>0, <1>1, <1>4, <1>5, <1>6 DEF Assigned

(* Whether the array itself has changed its shape before, or not. *)
LEMMA ExpectAssigned ==
  ASSUME NEW as, as = [y \in Names |-> as[y]], NEW ex, ex = [y \in Names |-> ex[y]], NEW x \in Names,
         \A y \in Names \ {x} : ex[y] = as[y].cells /\ ex[y] = [i \in DOMAIN as[y].cells |-> ex[y][i]],
         NEW lhs, lhs.of = x, NEW e, NEW u, Assigned(as, x, lhs, e, u)
  PROVE  Expecting(as, [ex EXCEPT ![x] = u]) /\ Intended(as, e, lhs, [ex EXCEPT ![x] = u])
<1>0. /\ u = [c \in DOMAIN as[x].cells |-> u[c]]
      /\ \A idx \in Indices(lhs.shape) : u[Address(lhs, idx)] = Meaning(as, e, idx)
      /\ \A c \in DOMAIN as[x].cells :
           (\E idx \in Indices(lhs.shape) : Address(lhs, idx) = c) \/ u[c] = as[x].cells[c]
  BY DEF Assigned
<1>1. PICK f : f = [ex EXCEPT ![x] = u]
  OBVIOUS
<1>2. f[x] = u /\ (\A y \in Names \ {x} : f[y] = ex[y])
  BY <1>1
<1>3. f = [y \in Names |-> f[y]]
  BY <1>1
<1>4. ASSUME NEW y \in Names PROVE f[y] = [i \in DOMAIN as[y].cells |-> f[y][i]]
  <2>1. CASE y = x
    BY <1>0, <1>2, <2>1
  <2>2. CASE y # x
    <3>1. f[y] = ex[y] /\ ex[y] = [i \in DOMAIN as[y].cells |-> ex[y][i]]
      BY <1>2, <2>2
    <3>. QED  BY <3>1
  <2>. QED  BY <2>1, <2>2
<1>5. Expecting(as, f)
  BY <1>3, <1>4, Zenon DEF Expecting
<1>6. \A y \in Names \ {x} : as[y].cells = f[y]
  BY <1>2
<1>7. Intended(as, e, lhs, f)
  BY <1>0, <1>2, <1>6 DEF Intended
<1>. QED  BY <1>1, <1>5, <1>7

LEMMA UpdatedIntended ==
  ASSUME NEW as, NEW rank, WellFormed(as, rank), NEW o, o.of \in Names, PartOK(as, o),
         NEW e, NEW ex, Expecting(as, ex), Done(as, ex)
  PROVE  /\ Expecting(as, [ex EXCEPT ![o.of] = Updated(as, o, e)])
         /\ Intended(as, e, Region(as, o), [ex EXCEPT ![o.of] = Updated(as, o, e)])
<1>1. PICK x, u, lhs : x = o.of /\ u = Updated(as, o, e) /\ lhs = Region(as, o)
  OBVIOUS
<1>2. Assigned(as, x, lhs, e, u)
  BY <1>1, UpdatedIs
<1>3. lhs.of = x
  <2>1. IsPart(as, rank, o, lhs)
    BY <1>1, SizedRegion
  <2>. QED  BY <1>1, <2>1 DEF IsPart
<1>4. as = [y \in Names |-> as[y]] /\ ex = [y \in Names |-> ex[y]]
  BY DEF Expecting
<1>5. \A y \in Names \ {x} : ex[y] = as[y].cells /\ ex[y] = [i \in DOMAIN as[y].cells |-> ex[y][i]]
  BY Zenon DEF Expecting, Done
<1>6. x \in Names
  BY <1>1
<1>7. Expecting(as, [ex EXCEPT ![x] = u]) /\ Intended(as, e, lhs, [ex EXCEPT ![x] = u])
  BY <1>2, <1>3, <1>4, <1>5, <1>6, ExpectAssigned
<1>. QED  BY <1>1, <1>7

-----------------------------------------------------------------------------
(* Resizing *)

LEMMA ResizedIs ==
  ASSUME NEW a, NEW shape \in Shape
  PROVE  /\ IsArray(Resized(a, shape)) /\ Resized(a, shape).shape = shape
         /\ DOMAIN Resized(a, shape).cells = 0..(CalcSize(shape) - 1)
<1>1. PICK f : f = [i \in 0..(CalcSize(shape) - 1) |-> IF i \in DOMAIN a.cells THEN a.cells[i] ELSE Junk]
  OBVIOUS
<1>2. PICK r : r = [shape |-> shape, strides |-> CalcStrides(shape), cells |-> f]
  OBVIOUS
<1>3. r = Resized(a, shape)
  BY <1>1, <1>2 DEF Resized
<1>4. r.shape = shape /\ r.cells = f /\ r.strides = CalcStrides(shape)
  BY <1>2
<1>5. f = [i \in 0..(CalcSize(shape) - 1) |-> f[i]] /\ DOMAIN f = 0..(CalcSize(shape) - 1)
  BY <1>1
<1>6. IsArray(r)
  BY <1>2, <1>4, <1>5, Zenon DEF IsArray
<1>. QED  BY <1>3, <1>4, <1>5, <1>6

LEMMA ResizedSame ==
  ASSUME NEW a, IsArray(a)
  PROVE  Resized(a, a.shape) = a
<1>1. PICK s, f, dom : s = a.shape /\ f = a.cells /\ dom = 0..(CalcSize(a.shape) - 1)
  OBVIOUS
<1>2. a = [shape |-> s, strides |-> CalcStrides(s), cells |-> f]
  BY <1>1, Zenon DEF IsArray
<1>3. f = [i \in dom |-> f[i]] /\ DOMAIN f = dom
  <2>1. f = [i \in dom |-> f[i]]
    BY <1>1, Zenon DEF IsArray
  <2>. QED  BY <2>1
<1>4. [i \in dom |-> IF i \in DOMAIN f THEN f[i] ELSE Junk] = [i \in dom |-> f[i]]
  BY <1>3
<1>5. Resized(a, s) = [shape |-> s, strides |-> CalcStrides(s),
                       cells |-> [i \in dom |-> IF i \in DOMAIN f THEN f[i] ELSE Junk]]
  BY <1>1, Zenon DEF Resized
<1>. QED  BY <1>1, <1>2, <1>3, <1>4, <1>5

(* Operands whose arrays are the same mean the same. *)
LEMMA SameOperand ==
  ASSUME NEW as, NEW bs, NEW o, o.of # "scalar" => as[o.of] = bs[o.of]
  PROVE  /\ Region(as, o) = Region(bs, o) /\ (Sliceable(as, o) <=> Sliceable(bs, o))
         /\ \A idx : Operand(as, o, idx) = Operand(bs, o, idx)
<1>1. CASE o.of = "scalar"
  BY <1>1 DEF Region, Sliceable, Operand
<1>2. CASE o.of # "scalar"
  <2>1. as[o.of] = bs[o.of]
    BY <1>2
  <2>2. Region(as, o) = Region(bs, o)
    <3>1. PICK a : a = as[o.of]
      OBVIOUS
    <3>2. a = bs[o.of]
      BY <2>1, <3>1
    <3>. QED  BY <3>1, <3>2 DEF Region
  <2>3. Sliceable(as, o) <=> Sliceable(bs, o)
    BY <2>1, Zenon DEF Sliceable
  <2>4. PartShape(as, o) = PartShape(bs, o) /\ \A idx : PlaceOf(as, o, idx) = PlaceOf(bs, o, idx)
    BY <2>1, Zenon DEF PartShape, PlaceOf
  <2>5. \A idx : Operand(as, o, idx) = Operand(bs, o, idx)
    BY <1>2, <2>1, <2>4, Zenon DEF Operand
  <2>. QED  BY <2>2, <2>3, <2>5
<1>. QED  BY <1>1, <1>2

SameArrays(as, bs, e) == \A n \in DOMAIN e : e[n].of # "scalar" => as[e[n].of] = bs[e[n].of]

SameMeaning(as, bs, e) ==
  /\ Regions(as, e) = Regions(bs, e) /\ (Expressed(as, e) => Expressed(bs, e))
  /\ \A idx : Meaning(as, e, idx) = Meaning(bs, e, idx)
  /\ [n \in DOMAIN e |-> Region(IF e[n].part = "all" THEN bs ELSE as, e[n])] = Regions(bs, e)

LEMMA SameExpression ==
  ASSUME NEW as, NEW bs, NEW e, SameArrays(as, bs, e)
  PROVE  SameMeaning(as, bs, e)
<1>1. ASSUME NEW n \in DOMAIN e
      PROVE  /\ Region(as, e[n]) = Region(bs, e[n]) /\ (Sliceable(as, e[n]) <=> Sliceable(bs, e[n]))
             /\ \A idx : Operand(as, e[n], idx) = Operand(bs, e[n], idx)
  <2>1. PICK o : o = e[n]
    OBVIOUS
  <2>2. o.of # "scalar" => as[o.of] = bs[o.of]
    BY <2>1 DEF SameArrays
  <2>. QED  BY <2>1, <2>2, SameOperand
<1>2. Regions(as, e) = Regions(bs, e)
  BY <1>1 DEF Regions
<1>3. Expressed(as, e) => Expressed(bs, e)
  BY <1>1 DEF Expressed
<1>4. ASSUME NEW idx PROVE Meaning(as, e, idx) = Meaning(bs, e, idx)
  <2>1. [n \in DOMAIN e |-> Operand(as, e[n], idx)] = [n \in DOMAIN e |-> Operand(bs, e[n], idx)]
    BY <1>1
  <2>. QED  BY <2>1, Zenon DEF Meaning
<1>5. \A n \in DOMAIN e : Region(IF e[n].part = "all" THEN bs ELSE as, e[n]) = Region(bs, e[n])
  BY <1>1
<1>6. [n \in DOMAIN e |-> Region(IF e[n].part = "all" THEN bs ELSE as, e[n])] = Regions(bs, e)
  BY <1>5 DEF Regions
<1>. QED  BY <1>2, <1>3, <1>4, <1>6 DEF SameMeaning

(* The arrays once x has been given the shape of what it is assigned. *)
TakesShape(as, bs, rank, x, shape, e) ==
  /\ WellFormed(bs, rank) /\ bs = [y \in Names |-> bs[y]]
  /\ bs[x].shape = shape
  /\ \A y \in Names \ {x} : bs[y] = as[y]
  /\ SameArrays(as, bs, e)

LEMMA ResizedArrays ==
  ASSUME NEW as, NEW rank, WellFormed(as, rank), as = [y \in Names |-> as[y]], NEW x \in Names,
         NEW shape \in Shape, Len(shape) = rank,
         NEW bs, bs = [as EXCEPT ![x] = Resized(@, shape)],
         NEW e, Expressed(as, e), (\E n \in DOMAIN e : e[n].of = x) => shape = as[x].shape
  PROVE  TakesShape(as, bs, rank, x, shape, e)
<1>1. /\ bs[x] = Resized(as[x], shape) /\ (\A y \in Names \ {x} : bs[y] = as[y])
      /\ bs = [y \in Names |-> bs[y]]
  OBVIOUS
<1>2. IsArray(bs[x]) /\ bs[x].shape = shape
  BY <1>1, ResizedIs
<1>3. \A y \in Names : IsArray(as[y]) /\ Len(as[y].shape) = rank
  BY DEF WellFormed
<1>4. \A y \in Names : IsArray(bs[y]) /\ Len(bs[y].shape) = rank
  BY <1>1, <1>2, <1>3
<1>5. WellFormed(bs, rank)
  BY <1>4 DEF WellFormed
<1>6. ASSUME NEW n \in DOMAIN e, e[n].of # "scalar" PROVE as[e[n].of] = bs[e[n].of]
  <2>1. e[n].of \in Names
    BY <1>6, OperandIs
  <2>2. CASE e[n].of = x
    <3>1. bs[x] = Resized(as[x], as[x].shape)
      BY <1>1, <2>2
    <3>2. bs[x] = as[x]
      BY <1>3, <3>1, ResizedSame
    <3>. QED  BY <2>2, <3>2
  <2>. QED  BY <1>1, <2>1, <2>2
<1>. QED  BY <1>1, <1>2, <1>5, <1>6 DEF SameArrays, TakesShape

-----------------------------------------------------------------------------
(* Regions whose elements are contiguous *)

LEMMA ContiguousRegion ==
  ASSUME NEW r, IsRegion(r), r.strides = CalcStrides(r.shape)
  PROVE  /\ \A idx \in Indices(r.shape) : Address(r, idx) = r.offset + Place(r.shape, idx)
         /\ \A c : c \in Filled(r) <=> \E idx \in Indices(r.shape) : Address(r, idx) = c
<1>1. PICK s, off, n : s = r.shape /\ off = r.offset /\ n = CalcSize(r.shape)
  OBVIOUS
<1>2. s \in Shape /\ off \in Int
  BY <1>1 DEF IsRegion
<1>3. n \in Nat
  BY <1>1, <1>2, ProductIn DEF CalcSize, Shape
<1>4. ASSUME NEW idx \in Indices(s) PROVE Address(r, idx) = off + Place(s, idx) /\ Place(s, idx) \in 0..(n - 1)
  <2>1. CalcIndex(r.strides, idx) = Place(s, idx)
    BY <1>1, <1>2, ContiguousIndex
  <2>2. Place(s, idx) \in 0..(n - 1)
    BY <1>1, <1>2, PlaceBelow
  <2>. QED  BY <1>1, <2>1, <2>2 DEF Address
<1>5. Filled(r) = off..(off + n - 1)
  BY <1>1 DEF Filled
<1>6. ASSUME NEW c \in Filled(r) PROVE \E idx \in Indices(s) : Address(r, idx) = c
  <2>1. PICK i : i = c - off
    OBVIOUS
  <2>2. i \in 0..(n - 1) /\ off + i = c
    BY <1>2, <1>3, <1>5, <2>1
  <2>3. PICK idx : idx = Unravel(i, CalcStrides(s))
    OBVIOUS
  <2>4. idx \in Indices(s) /\ Place(s, idx) = i
    BY <1>1, <1>2, <2>2, <2>3, UnravelCorrect
  <2>. QED  BY <1>4, <2>2, <2>4
<1>7. ASSUME NEW idx \in Indices(s) PROVE Address(r, idx) \in Filled(r)
  <2>1. PICK i : i = Place(s, idx)
    OBVIOUS
  <2>2. i \in 0..(n - 1) /\ Address(r, idx) = off + i
    BY <1>4, <2>1
  <2>. QED  BY <1>2, <1>3, <1>5, <2>2
<1>. QED  BY <1>1, <1>4, <1>6, <1>7

LEMMA WholeRegion ==
  ASSUME NEW as, NEW rank, WellFormed(as, rank), NEW o, o.of \in Names, PartOK(as, o), o.part = "all"
  PROVE  Region(as, o).strides = CalcStrides(Region(as, o).shape) /\ Region(as, o).offset = 0
         /\ Region(as, o).shape = as[o.of].shape
<1>1. PICK s, r : s = as[o.of].shape /\ r = Region(as, o)
  OBVIOUS
<1>2. as[o.of].strides = CalcStrides(s) /\ o.of # "scalar" /\ o.part \in Parts
  BY <1>1, ArrayIs DEF PartOK
<1>3. r = [of |-> o.of, shape |-> Cut(s, "all"), strides |-> PartStrides(s, "all"), offset |-> PartOffset(s, "all")]
  BY <1>1, <1>2, RegionFields
<1>4. Cut(s, "all") = s /\ PartStrides(s, "all") = CalcStrides(s) /\ PartOffset(s, "all") = 0
  BY DEF Cut, PartStrides, PartOffset
<1>5. r.shape = Cut(s, "all") /\ r.strides = PartStrides(s, "all") /\ r.offset = PartOffset(s, "all")
  BY <1>3
<1>6. r.shape = s /\ r.strides = CalcStrides(r.shape) /\ r.offset = 0
  BY <1>4, <1>5
<1>. QED  BY <1>1, <1>6

-----------------------------------------------------------------------------
(* A container that takes the shape of what it is assigned *)

LEMMA PlaceChosen ==
  ASSUME NEW s \in Shape, NEW idx \in Indices(s), NEW c, c = Place(s, idx)
  PROVE  (CHOOSE jdx \in Indices(s) : Place(s, jdx) = c) = idx
<1>1. \A jdx \in Indices(s) : Place(s, jdx) = c => jdx = idx
  BY PlaceInjective
<1>. QED  BY <1>1

LEMMA ReplacedIs ==
  ASSUME NEW as, NEW e, NEW s \in Shape, ShapeOf(as, e) = s,
         NEW bs, NEW rank, WellFormed(bs, rank), NEW o, o.of \in Names, PartOK(bs, o), o.part = "all",
         bs[o.of].shape = s, \A idx : Meaning(as, e, idx) = Meaning(bs, e, idx)
  PROVE  Assigned(bs, o.of, Region(bs, o), e, Replaced(as, e))
<1>1. PICK u, r, n : u = Replaced(as, e) /\ r = Region(bs, o) /\ n = CalcSize(s)
  OBVIOUS
<1>2. u = [c \in 0..(n - 1) |-> Meaning(as, e, CHOOSE idx \in Indices(s) : Place(s, idx) = c)]
  BY <1>1, Zenon DEF Replaced
<1>3. r.strides = CalcStrides(r.shape) /\ r.offset = 0 /\ r.shape = s
  BY <1>1, WholeRegion
<1>4. IsRegion(r)
  <2>1. IsPart(bs, rank, o, r)
    BY <1>1, SizedRegion
  <2>. QED  BY <2>1 DEF IsPart
<1>5. DOMAIN bs[o.of].cells = 0..(n - 1)
  BY <1>1, ArrayIs DEF PartOK
<1>6. u = [c \in DOMAIN bs[o.of].cells |-> u[c]]
  BY <1>2, <1>5
<1>7. ASSUME NEW idx \in Indices(r.shape) PROVE u[Address(r, idx)] = Meaning(bs, e, idx)
  <2>1. PICK c : c = Place(s, idx)
    OBVIOUS
  <2>2. c \in 0..(n - 1)
    BY <1>1, <1>3, <2>1, PlaceBelow
  <2>3. Address(r, idx) = r.offset + c
    BY <1>3, <1>4, <2>1, ContiguousRegion
  <2>4. Address(r, idx) = c
    BY <1>3, <2>2, <2>3
  <2>5. idx \in Indices(s)
    BY <1>3
  <2>6. (CHOOSE jdx \in Indices(s) : Place(s, jdx) = c) = idx
    BY <2>1, <2>5, PlaceChosen
  <2>7. u[c] = Meaning(as, e, CHOOSE jdx \in Indices(s) : Place(s, jdx) = c)
    BY <1>2, <2>2
  <2>. QED  BY <2>4, <2>6, <2>7
<1>8. ASSUME NEW c \in DOMAIN bs[o.of].cells PROVE \E idx \in Indices(r.shape) : Address(r, idx) = c
  <2>1. Filled(r) = 0..(n - 1)
    <3>1. n \in Nat
      BY <1>1, ProductIn DEF CalcSize, Shape
    <3>2. Filled(r) = 0..(0 + n - 1)
      BY <1>1, <1>3 DEF Filled
    <3>. QED  BY <3>1, <3>2
  <2>2. c \in Filled(r)
    BY <1>5, <2>1
  <2>. QED  BY <1>3, <1>4, <2>2, ContiguousRegion
<1>. QED  BY <1>1, <1>6, <1>7, <1>8 DEF Assigned

-----------------------------------------------------------------------------
(* Filling with 0 *)

Concats == INSTANCE InductionFacts WITH Op <- \o

LEMMA AppliedOnce == Applied(<< Scalar >>) = Scalar
<1>1. \A s : Applied(s) = Concats!FoldLeft(\o, << >>, s)
  BY Zenon DEF Applied, FoldLeft, MapThenFoldSet, Max, Concats!FoldLeft,
               Concats!MapThenFoldSet, Concats!Max
<1>2. PICK T : T = {Scalar}
  OBVIOUS
<1>3. << >> \in Seq(T) /\ Scalar \in T
  BY <1>2
<1>4. Concats!FoldLeft(\o, << >>, Append(<< >>, Scalar)) = Concats!FoldLeft(\o, << >>, << >>) \o Scalar
  BY <1>3, Concats!FoldAppend, Zenon
<1>5. Concats!FoldLeft(\o, << >>, << >>) = << >>
  BY Concats!FoldEmpty, Zenon
<1>6. Append(<< >>, Scalar) = << Scalar >>
  OBVIOUS
<1>7. << >> \o Scalar = Scalar
  BY DEF Scalar
<1>. QED  BY <1>1, <1>4, <1>5, <1>6, <1>7

LEMMA ZeroMeans ==
  ASSUME NEW as, NEW idx
  PROVE  Meaning(as, << [of |-> "scalar", part |-> "all"] >>, idx) = Scalar
<1>1. PICK o : o = [of |-> "scalar", part |-> "all"]
  OBVIOUS
<1>2. PICK e : e = << o >>
  OBVIOUS
<1>3. DOMAIN e = 1..1 /\ e[1] = o /\ o.of = "scalar"
  BY <1>1, <1>2
<1>4. Operand(as, o, idx) = Scalar
  BY <1>3 DEF Operand
<1>5. [n \in DOMAIN e |-> Operand(as, e[n], idx)] = << Scalar >>
  <2>1. \A n \in 1..1 : n = 1
    OBVIOUS
  <2>2. \A n \in 1..1 : Operand(as, e[n], idx) = Scalar
    BY <1>3, <1>4, <2>1
  <2>3. PICK f : f = [n \in 1..1 |-> Scalar]
    OBVIOUS
  <2>4. f = << Scalar >>
    BY <2>3
  <2>5. [n \in DOMAIN e |-> Operand(as, e[n], idx)] = [n \in 1..1 |-> Scalar]
    BY <1>3, <2>2
  <2>. QED  BY <2>3, <2>4, <2>5
<1>6. Meaning(as, e, idx) = Scalar
  BY <1>5, AppliedOnce DEF Meaning
<1>. QED  BY <1>1, <1>2, <1>6

ZeroFill(as, ex, o, r, bs, new) ==
  /\ bs = [as EXCEPT ![o.of].cells = [i \in DOMAIN @ |-> IF i \in Filled(r) THEN Scalar ELSE @[i]]]
  /\ new = [ex EXCEPT ![o.of] = Updated(as, o, << [of |-> "scalar", part |-> "all"] >>)]

(* Everything is as it ought to be, in arrays of the shapes they had. *)
Settled(as, bs, rank, new) ==
  /\ WellFormed(bs, rank) /\ Expecting(bs, new) /\ Done(bs, new)
  /\ \A x \in Names : bs[x].shape = as[x].shape

LEMMA FilledArrays ==
  ASSUME NEW as, NEW rank, WellFormed(as, rank), NEW ex, Expecting(as, ex), Done(as, ex),
         NEW o, o.of \in Names, PartOK(as, o), NEW r, r = Region(as, o), r.strides = CalcStrides(r.shape),
         NEW bs, NEW new, ZeroFill(as, ex, o, r, bs, new)
  PROVE  Settled(as, bs, rank, new)
<1>. /\ bs = [as EXCEPT ![o.of].cells = [i \in DOMAIN @ |-> IF i \in Filled(r) THEN Scalar ELSE @[i]]]
     /\ new = [ex EXCEPT ![o.of] = Updated(as, o, << [of |-> "scalar", part |-> "all"] >>)]
  BY Zenon DEF ZeroFill
<1>1. PICK x, e, cells, dom : /\ x = o.of /\ e = << [of |-> "scalar", part |-> "all"] >>
                              /\ cells = as[x].cells /\ dom = DOMAIN cells
  OBVIOUS
<1>2. PICK u, f : u = Updated(as, o, e) /\ f = [i \in dom |-> IF i \in Filled(r) THEN Scalar ELSE cells[i]]
  OBVIOUS
<1>3. Assigned(as, x, r, e, u)
  BY <1>1, <1>2, UpdatedIs
<1>4. IsRegion(r)
  <2>1. IsPart(as, rank, o, r)
    BY SizedRegion
  <2>. QED  BY <2>1 DEF IsPart
<1>5. \A c : c \in Filled(r) <=> \E idx \in Indices(r.shape) : Address(r, idx) = c
  BY <1>4, ContiguousRegion
<1>6. ASSUME NEW c \in dom PROVE u[c] = f[c]
  <2>1. CASE c \in Filled(r)
    <3>1. PICK idx \in Indices(r.shape) : Address(r, idx) = c
      BY <1>5, <2>1
    <3>2. u[c] = Meaning(as, e, idx)
      BY <1>3, <3>1 DEF Assigned
    <3>3. u[c] = Scalar
      BY <1>1, <3>2, ZeroMeans
    <3>. QED  BY <1>2, <2>1, <3>3
  <2>2. CASE c \notin Filled(r)
    <3>1. u[c] = cells[c]
      BY <1>1, <1>3, <1>5, <2>2 DEF Assigned
    <3>. QED  BY <1>2, <2>2, <3>1
  <2>. QED  BY <2>1, <2>2
<1>7. u = f /\ DOMAIN f = dom
  <2>1. u = [c \in dom |-> u[c]] /\ f = [c \in dom |-> f[c]]
    BY <1>1, <1>2, <1>3 DEF Assigned
  <2>. QED  BY <1>2, <1>6, <2>1
<1>8. PICK a : a = as[x]
  OBVIOUS
<1>9. as = [y \in Names |-> as[y]] /\ ex = [y \in Names |-> ex[y]]
      /\ \A y \in Names : ex[y] = [i \in DOMAIN as[y].cells |-> ex[y][i]]
  BY DEF Expecting
<1>10. IsArray(a) /\ a.cells = cells
  BY <1>1, <1>8, WellFormedIs
<1>11. a = [shape |-> a.shape, strides |-> CalcStrides(a.shape), cells |-> cells] /\ a.shape \in Shape
       /\ dom = 0..(CalcSize(a.shape) - 1)
  <2>1. a = [shape |-> a.shape, strides |-> CalcStrides(a.shape), cells |-> cells] /\ a.shape \in Shape
    BY <1>10, Zenon DEF IsArray
  <2>2. dom = 0..(CalcSize(a.shape) - 1)
    BY <1>1, <1>10, ArrayIs
  <2>. QED  BY <2>1, <2>2
<1>12. PICK b : b = [shape |-> a.shape, strides |-> CalcStrides(a.shape), cells |-> f]
  OBVIOUS
<1>13. bs = [as EXCEPT ![x] = b]
  <2>1. b = [a EXCEPT !.cells = f]
    BY <1>11, <1>12
  <2>2. bs = [as EXCEPT ![x].cells = f]
    BY <1>1, <1>2, Zenon
  <2>. QED  BY <1>8, <1>9, <2>1, <2>2
<1>14. bs[x] = b /\ (\A y \in Names \ {x} : bs[y] = as[y]) /\ bs = [y \in Names |-> bs[y]]
  BY <1>1, <1>9, <1>13
<1>15. b.shape = a.shape /\ b.cells = f /\ b.strides = CalcStrides(b.shape)
  BY <1>12
<1>16. IsArray(b)
  <2>1. f = [i \in 0..(CalcSize(b.shape) - 1) |-> f[i]]
    BY <1>2, <1>11, <1>15
  <2>. QED  BY <1>11, <1>12, <1>15, <2>1, Zenon DEF IsArray
<1>17. \A y \in Names : IsArray(as[y]) /\ Len(as[y].shape) = rank
  BY DEF WellFormed
<1>18. \A y \in Names : IsArray(bs[y]) /\ Len(bs[y].shape) = rank /\ bs[y].shape = as[y].shape
  BY <1>8, <1>14, <1>15, <1>16, <1>17
<1>19. WellFormed(bs, rank)
  BY <1>18 DEF WellFormed
<1>20. new = [ex EXCEPT ![x] = f]
  BY <1>1, <1>2, <1>7
<1>21. new[x] = f /\ (\A y \in Names \ {x} : new[y] = ex[y]) /\ new = [y \in Names |-> new[y]]
  BY <1>1, <1>9, <1>20
<1>22. Done(bs, new)
  <2>1. ASSUME NEW y \in Names PROVE bs[y].cells = new[y]
    <3>1. CASE y = x
      BY <1>14, <1>15, <1>21, <3>1
    <3>2. CASE y # x
      <4>1. bs[y] = as[y] /\ new[y] = ex[y]
        BY <1>14, <1>21, <3>2
      <4>2. as[y].cells = ex[y]
        BY DEF Done
      <4>. QED  BY <4>1, <4>2
    <3>. QED  BY <3>1, <3>2
  <2>. QED  BY <2>1 DEF Done
<1>23. ASSUME NEW y \in Names PROVE new[y] = [i \in DOMAIN bs[y].cells |-> new[y][i]]
  <2>1. CASE y = x
    <3>1. DOMAIN bs[y].cells = dom /\ new[y] = f
      BY <1>7, <1>14, <1>15, <1>21, <2>1
    <3>. QED  BY <1>2, <3>1
  <2>2. CASE y # x
    <3>1. bs[y] = as[y] /\ new[y] = ex[y]
      BY <1>14, <1>21, <2>2
    <3>. QED  BY <1>9, <3>1
  <2>. QED  BY <2>1, <2>2
<1>. QED  BY <1>14, <1>18, <1>19, <1>21, <1>22, <1>23 DEF Expecting, Settled

-----------------------------------------------------------------------------
(* One element *)

(* An array with one of its elements changed. *)
Changed(as, bs, x, c, v) ==
  /\ bs = [y \in Names |-> bs[y]]
  /\ \A y \in Names : bs[y].shape = as[y].shape /\ DOMAIN bs[y].cells = DOMAIN as[y].cells
  /\ \A y \in Names \ {x} : bs[y] = as[y]
  /\ bs[x].cells[c] = v /\ \A d \in DOMAIN as[x].cells : d # c => bs[x].cells[d] = as[x].cells[d]

LEMMA CellChanged ==
  ASSUME NEW as, NEW rank, WellFormed(as, rank), as = [y \in Names |-> as[y]], NEW x \in Names,
         NEW c \in DOMAIN as[x].cells, NEW v,
         NEW bs, bs = [as EXCEPT ![x].cells = [@ EXCEPT ![c] = v]]
  PROVE  WellFormed(bs, rank) /\ Changed(as, bs, x, c, v)
<1>1. PICK a, f : a = as[x] /\ f = [as[x].cells EXCEPT ![c] = v]
  OBVIOUS
<1>2. IsArray(a)
  BY <1>1, WellFormedIs
<1>3. a = [shape |-> a.shape, strides |-> CalcStrides(a.shape), cells |-> a.cells] /\ a.shape \in Shape
  BY <1>2, Zenon DEF IsArray
<1>4. PICK b : b = [shape |-> a.shape, strides |-> CalcStrides(a.shape), cells |-> f]
  OBVIOUS
<1>5. b = [a EXCEPT !.cells = f]
  BY <1>3, <1>4
<1>6. bs = [as EXCEPT ![x] = b]
  <2>1. bs = [as EXCEPT ![x].cells = f]
    BY <1>1, Zenon
  <2>. QED  BY <1>1, <1>5, <2>1
<1>7. bs[x] = b /\ (\A y \in Names \ {x} : bs[y] = as[y]) /\ bs = [y \in Names |-> bs[y]]
  BY <1>6
<1>8. DOMAIN f = DOMAIN a.cells /\ f[c] = v /\ \A d \in DOMAIN a.cells : d # c => f[d] = a.cells[d]
  BY <1>1
<1>9. b.shape = a.shape /\ b.cells = f
  BY <1>4
<1>10. DOMAIN a.cells = 0..(CalcSize(a.shape) - 1)
  BY <1>2, ArrayIs
<1>11. IsArray(b)
  <2>1. f = [i \in 0..(CalcSize(b.shape) - 1) |-> f[i]]
    <3>1. f = [i \in DOMAIN f |-> f[i]]
      BY <1>1
    <3>. QED  BY <1>8, <1>9, <1>10, <3>1
  <2>. QED  BY <1>3, <1>4, <1>9, <2>1, Zenon DEF IsArray
<1>12. \A y \in Names : IsArray(as[y]) /\ Len(as[y].shape) = rank
  BY DEF WellFormed
<1>13. \A y \in Names : IsArray(bs[y]) /\ Len(bs[y].shape) = rank
  BY <1>1, <1>7, <1>9, <1>11, <1>12
<1>14. WellFormed(bs, rank)
  BY <1>13 DEF WellFormed
<1>15. \A y \in Names : bs[y].shape = as[y].shape /\ DOMAIN bs[y].cells = DOMAIN as[y].cells
  BY <1>1, <1>7, <1>8, <1>9
<1>. QED  BY <1>1, <1>7, <1>8, <1>9, <1>14, <1>15 DEF Changed

(* What a thread reads no other thread writes. *)
Others(lhs, idx, jdx) == idx \in Indices(lhs.shape) /\ jdx \in Indices(lhs.shape) /\ idx # jdx

Written(as, bs, lhs, jdx, v) == lhs.of \in Names /\ Changed(as, bs, lhs.of, Address(lhs, jdx), v)

Undisturbed(as, bs, r, idx) == ValueAt(bs, r, idx) = ValueAt(as, r, idx)

LEMMA ReadUnchanged ==
  ASSUME NEW as, NEW bs, NEW lhs, NEW r, Reads(as, lhs, r), NEW idx, NEW jdx, Others(lhs, idx, jdx),
         NEW v, Written(as, bs, lhs, jdx, v)
  PROVE  Undisturbed(as, bs, r, idx)
<1>. USE DEF Undisturbed
<1>. idx \in Indices(lhs.shape) /\ jdx \in Indices(lhs.shape) /\ idx # jdx /\ lhs.of \in Names
  BY DEF Others, Written
<1>. Changed(as, bs, lhs.of, Address(lhs, jdx), v)
  BY DEF Written
<1>0. /\ \A y \in Names : DOMAIN bs[y].cells = DOMAIN as[y].cells
      /\ \A y \in Names \ {lhs.of} : bs[y] = as[y]
      /\ \A d \in DOMAIN as[lhs.of].cells : d # Address(lhs, jdx) => bs[lhs.of].cells[d] = as[lhs.of].cells[d]
  BY DEF Changed
<1>1. PICK c, x : c = Address(r, idx) /\ x = lhs.of
  OBVIOUS
<1>2. r.of \in Names \cup {"scalar"}
  BY DEF Reads
<1>3. CASE r.of = "scalar"
  BY <1>3 DEF ValueAt
<1>4. CASE r.of # "scalar" /\ r.of # x
  <2>1. r.of \in Names /\ bs[r.of] = as[r.of]
    BY <1>0, <1>1, <1>2, <1>4
  <2>. QED  BY <2>1, Zenon DEF ValueAt
<1>5. CASE r.of # "scalar" /\ r.of = x
  <2>1. c \in DOMAIN as[x].cells
    BY <1>1, <1>5 DEF Reads
  <2>2. c # Address(lhs, jdx)
    BY <1>1, <1>5 DEF Reads
  <2>3. c \in DOMAIN bs[x].cells /\ bs[x].cells[c] = as[x].cells[c]
    BY <1>0, <1>1, <2>1, <2>2
  <2>4. ValueAt(as, r, idx) = as[x].cells[c] /\ ValueAt(bs, r, idx) = bs[x].cells[c]
    BY <1>1, <1>5, <2>1, <2>3 DEF ValueAt
  <2>. QED  BY <2>3, <2>4
<1>. QED  BY <1>3, <1>4, <1>5

SameResult(as, bs, k, m, idx) == Result(bs, m, idx) = Result(as, k, idx)

LEMMA ResultUnchanged ==
  ASSUME NEW as, NEW bs, NEW lhs, NEW k, \A n \in DOMAIN k.rhs : Reads(as, lhs, k.rhs[n]),
         NEW idx, NEW jdx, Others(lhs, idx, jdx), NEW v, Written(as, bs, lhs, jdx, v), NEW m, m.rhs = k.rhs
  PROVE  SameResult(as, bs, k, m, idx)
<1>1. ASSUME NEW n \in DOMAIN k.rhs PROVE ValueAt(bs, k.rhs[n], idx) = ValueAt(as, k.rhs[n], idx)
  <2>1. PICK r : r = k.rhs[n]
    OBVIOUS
  <2>2. Reads(as, lhs, r)
    BY <2>1
  <2>3. Undisturbed(as, bs, r, idx)
    BY <2>2, ReadUnchanged
  <2>. QED  BY <2>1, <2>3 DEF Undisturbed
<1>2. [n \in DOMAIN k.rhs |-> ValueAt(bs, k.rhs[n], idx)] = [n \in DOMAIN k.rhs |-> ValueAt(as, k.rhs[n], idx)]
  BY <1>1
<1>. QED  BY <1>2 DEF Result, SameResult

LEMMA SameReads ==
  ASSUME NEW as, NEW bs, NEW x, NEW c, NEW v, Changed(as, bs, x, c, v),
         NEW lhs, NEW r, Reads(as, lhs, r)
  PROVE  Reads(bs, lhs, r)
<1>0. \A y \in Names : DOMAIN bs[y].cells = DOMAIN as[y].cells
  BY DEF Changed
<1>1. r.of # "scalar" => r.of \in Names
  BY DEF Reads
<1>2. r.of # "scalar" => \A idx \in Indices(lhs.shape) : Address(r, idx) \in DOMAIN bs[r.of].cells
  BY <1>0, <1>1 DEF Reads
<1>. QED  BY <1>2, Zenon DEF Reads

(* The element a thread writes. *)
LEMMA ElementWritten ==
  ASSUME NEW as, NEW rank, WellFormed(as, rank), as = [y \in Names |-> as[y]],
         NEW lhs, Writes(as, lhs), NEW idx \in Indices(lhs.shape), NEW v,
         NEW bs, bs = [as EXCEPT ![lhs.of].cells =
                         IF Address(lhs, idx) \in DOMAIN @ THEN [@ EXCEPT ![Address(lhs, idx)] = v] ELSE @]
  PROVE  WellFormed(bs, rank) /\ Changed(as, bs, lhs.of, Address(lhs, idx), v)
<1>1. PICK x, c : x = lhs.of /\ c = Address(lhs, idx)
  OBVIOUS
<1>2. x \in Names /\ c \in DOMAIN as[x].cells
  BY <1>1 DEF Writes, Within
<1>3. PICK b2 : b2 = [as EXCEPT ![x].cells = [@ EXCEPT ![c] = v]]
  OBVIOUS
<1>4. WellFormed(b2, rank) /\ Changed(as, b2, x, c, v)
  BY <1>2, <1>3, CellChanged
<1>5. bs = b2
  <2>1. bs = [as EXCEPT ![x].cells = IF c \in DOMAIN @ THEN [@ EXCEPT ![c] = v] ELSE @]
    BY <1>1, Zenon
  <2>. QED  BY <1>2, <1>3, <2>1
<1>. QED  BY <1>1, <1>4, <1>5

StepsTo(as, bs, ex, k, left) ==
  /\ Expecting(bs, ex) /\ \A y \in Names : bs[y].shape = as[y].shape
  /\ Underway(bs, ex, IF left = {} THEN Idle ELSE [k EXCEPT !.todo = Restrict(@, left)])

LEMMA ElementStep ==
  ASSUME NEW as, NEW rank, WellFormed(as, rank), NEW ex, Expecting(as, ex),
         NEW k, Running(as, ex, k), NEW t \in DOMAIN k.todo,
         NEW bs, WellFormed(bs, rank),
         Changed(as, bs, k.lhs.of, Address(k.lhs, k.todo[t]), Result(as, k, k.todo[t])),
         NEW left, left = DOMAIN k.todo \ {t}
  PROVE  StepsTo(as, bs, ex, k, left)
<1>1. PICK x, lhs, todo, T, c, v : /\ x = k.lhs.of /\ lhs = k.lhs /\ todo = k.todo /\ T = DOMAIN k.todo
                                   /\ c = Address(k.lhs, k.todo[t]) /\ v = Result(as, k, k.todo[t])
  OBVIOUS
<1>2. /\ Len(lhs.shape) = Len(as["a"].shape) /\ Runs(k) /\ Writes(as, lhs) /\ Progress(as, ex, k)
      /\ \A n \in DOMAIN k.rhs : Reads(as, lhs, k.rhs[n])
  BY <1>1, Zenon DEF Running
<1>3. /\ k = [op |-> k.op, lhs |-> lhs, rhs |-> k.rhs, todo |-> todo]
      /\ todo = [u \in T |-> todo[u]] /\ k.op \in {"assign", "launch"}
      /\ \A u \in T : todo[u] \in Indices(lhs.shape)
      /\ \A u, w \in T : todo[u] = todo[w] => u = w
  <2>1. k = [op |-> k.op, lhs |-> k.lhs, rhs |-> k.rhs, todo |-> [u \in DOMAIN k.todo |-> k.todo[u]]]
    BY <1>2, Zenon DEF Runs
  <2>2. todo = [u \in T |-> todo[u]]
    BY <1>1, <2>1
  <2>3. k = [op |-> k.op, lhs |-> lhs, rhs |-> k.rhs, todo |-> todo]
    BY <1>1, <2>1, <2>2
  <2>4. k.op \in {"assign", "launch"} /\ (\A u \in T : todo[u] \in Indices(lhs.shape))
        /\ \A u, w \in T : todo[u] = todo[w] => u = w
    BY <1>1, <1>2, Zenon DEF Runs
  <2>. QED  BY <2>2, <2>3, <2>4
<1>4. /\ x \in Names /\ t \in T
      /\ \A idx \in Indices(lhs.shape) : Address(lhs, idx) \in DOMAIN as[x].cells
      /\ \A idx, jdx \in Indices(lhs.shape) : Address(lhs, idx) = Address(lhs, jdx) => idx = jdx
  BY <1>1, <1>2 DEF Writes, Within, Apart
<1>5. c \in DOMAIN as[x].cells /\ c = Address(lhs, todo[t])
  BY <1>1, <1>3, <1>4
<1>16. Changed(as, bs, x, c, v)
  BY <1>1
<1>8. /\ bs = [y \in Names |-> bs[y]]
      /\ \A y \in Names : bs[y].shape = as[y].shape /\ DOMAIN bs[y].cells = DOMAIN as[y].cells
      /\ \A y \in Names \ {x} : bs[y] = as[y]
      /\ bs[x].cells[c] = v /\ \A d \in DOMAIN as[x].cells : d # c => bs[x].cells[d] = as[x].cells[d]
  BY <1>16, Zenon DEF Changed
<1>9. Expecting(bs, ex)
  BY <1>8 DEF Expecting
<1>10. /\ \A u \in T : ex[x][Address(lhs, todo[u])] = Result(as, k, todo[u])
       /\ \A d \in DOMAIN as[x].cells :
            (\E u \in T : Address(lhs, todo[u]) = d) \/ as[x].cells[d] = ex[x][d]
       /\ \A y \in Names \ {x} : as[y].cells = ex[y]
  BY <1>1, <1>2 DEF Progress
<1>11. \A y \in Names \ {x} : bs[y].cells = ex[y]
  BY <1>8, <1>10
<1>12. bs[x].cells[c] = ex[x][c]
  <2>1. ex[x][c] = Result(as, k, todo[t])
    BY <1>4, <1>5, <1>10
  <2>2. bs[x].cells[c] = v
    BY <1>8
  <2>. QED  BY <1>1, <2>1, <2>2
<1>13. ASSUME NEW d \in DOMAIN bs[x].cells
       PROVE  (\E u \in left : Address(lhs, todo[u]) = d) \/ bs[x].cells[d] = ex[x][d]
  <2>0. d \in DOMAIN as[x].cells
    BY <1>4, <1>8
  <2>1. CASE d = c
    BY <1>12, <2>1
  <2>2. CASE d # c
    <3>1. bs[x].cells[d] = as[x].cells[d]
      BY <1>8, <2>0, <2>2
    <3>2. CASE \E u \in T : Address(lhs, todo[u]) = d
      <4>1. PICK u \in T : Address(lhs, todo[u]) = d
        BY <3>2
      <4>2. u # t
        BY <1>5, <2>2, <4>1
      <4>3. u \in left
        BY <1>1, <4>1, <4>2
      <4>. QED  BY <4>1, <4>3
    <3>. QED  BY <1>10, <2>0, <3>1, <3>2
  <2>. QED  BY <2>1, <2>2
<1>14. CASE left = {}
  <2>1. \A d \in DOMAIN bs[x].cells : bs[x].cells[d] = ex[x][d]
    BY <1>13, <1>14
  <2>2. IsArray(bs[x])
    BY <1>4, <1>8, WellFormedIs
  <2>3. bs[x].cells = ex[x]
    <3>1. Agree(bs, ex, x)
      BY <2>1 DEF Agree
    <3>. QED  BY <1>4, <1>9, <2>2, <3>1, CellsEqual
  <2>4. Done(bs, ex)
    BY <1>11, <2>3 DEF Done
  <2>5. Underway(bs, ex, Idle)
    BY <2>4 DEF Underway
  <2>. QED  BY <1>8, <1>9, <1>14, <2>5 DEF StepsTo
<1>15. CASE left # {}
  <2>1. PICK f, m : f = [u \in left |-> todo[u]] /\ m = [op |-> k.op, lhs |-> lhs, rhs |-> k.rhs, todo |-> f]
    OBVIOUS
  <2>2. m.op = k.op /\ m.lhs = lhs /\ m.rhs = k.rhs /\ m.todo = f /\ DOMAIN f = left
    BY <2>1
  <2>3. left \subseteq T /\ t \notin left /\ \A u \in left : f[u] = todo[u]
    BY <1>1, <2>1
  <2>4. m = [k EXCEPT !.todo = Restrict(@, left)]
    <3>1. Restrict(k.todo, left) = f
      BY <1>1, <2>1, Zenon DEF Restrict
    <3>2. [k EXCEPT !.todo = Restrict(@, left)] = [k EXCEPT !.todo = f]
      BY <3>1
    <3>3. [k EXCEPT !.todo = f] = m
      BY <1>3, <2>1
    <3>. QED  BY <3>2, <3>3
  <2>5. Runs(m)
    <3>1. f = [u \in left |-> f[u]]
      BY <2>1
    <3>2. m = [op |-> m.op, lhs |-> m.lhs, rhs |-> m.rhs, todo |-> [u \in DOMAIN m.todo |-> m.todo[u]]]
      BY <2>1, <2>2, <3>1
    <3>3. /\ DOMAIN m.todo # {} /\ \A u \in DOMAIN m.todo : m.todo[u] \in Indices(m.lhs.shape)
      BY <1>3, <1>15, <2>2, <2>3
    <3>4. \A u, w \in DOMAIN m.todo : m.todo[u] = m.todo[w] => u = w
      BY <1>3, <2>2, <2>3
    <3>5. m.op \in {"assign", "launch"}
      BY <1>3, <2>2
    <3>. QED  BY <3>2, <3>3, <3>4, <3>5 DEF Runs
  <2>6. Writes(bs, lhs)
    <3>1. lhs.of \in Names /\ Apart(lhs) /\ Within(as, lhs)
      BY <1>2 DEF Writes
    <3>2. Within(bs, lhs)
      BY <1>8, <3>1 DEF Within
    <3>. QED  BY <3>1, <3>2 DEF Writes
  <2>7. ASSUME NEW u \in left PROVE Result(bs, m, todo[u]) = Result(as, k, todo[u])
    <3>1. PICK idx, jdx : idx = todo[u] /\ jdx = todo[t]
      OBVIOUS
    <3>2. idx \in Indices(lhs.shape) /\ jdx \in Indices(lhs.shape) /\ idx # jdx
      BY <1>3, <1>4, <2>3, <3>1
    <3>3. \A n \in DOMAIN k.rhs : Reads(as, lhs, k.rhs[n])
      BY <1>2
    <3>4. lhs.of \in Names
      BY <1>1, <1>4
    <3>5. Changed(as, bs, lhs.of, Address(lhs, jdx), v)
      BY <1>1, <1>5, <1>16, <3>1
    <3>6. Result(bs, m, idx) = Result(as, k, idx)
      <4>1. Others(lhs, idx, jdx) /\ Written(as, bs, lhs, jdx, v)
        BY <3>2, <3>4, <3>5 DEF Others, Written
      <4>2. SameResult(as, bs, k, m, idx)
        BY <2>2, <3>3, <4>1, ResultUnchanged
      <4>. QED  BY <4>2 DEF SameResult
    <3>. QED  BY <3>1, <3>6
  <2>8. Progress(bs, ex, m)
    <3>1. \A u \in left : ex[x][Address(lhs, f[u])] = Result(bs, m, f[u])
      BY <1>10, <2>3, <2>7
    <3>2. \A d \in DOMAIN bs[x].cells : (\E u \in left : Address(lhs, f[u]) = d) \/ bs[x].cells[d] = ex[x][d]
      BY <1>13, <2>3
    <3>3. m.lhs.of = x /\ m.lhs = lhs /\ m.todo = f /\ DOMAIN m.todo = left
      BY <1>1, <2>2
    <3>. QED  BY <1>11, <3>1, <3>2, <3>3, Zenon DEF Progress
  <2>9. \A n \in DOMAIN k.rhs : Reads(bs, lhs, k.rhs[n])
    BY <1>2, <1>16, SameReads
  <2>10. Len(lhs.shape) = Len(bs["a"].shape)
    BY <1>2, <1>8 DEF Names
  <2>11. Running(bs, ex, m)
    BY <2>2, <2>5, <2>6, <2>8, <2>9, <2>10 DEF Running
  <2>12. Underway(bs, ex, m)
    BY <2>11, RunningIsBusy
  <2>. QED  BY <1>8, <1>9, <1>15, <2>4, <2>12 DEF StepsTo
<1>. QED  BY <1>14, <1>15

-----------------------------------------------------------------------------
(* The steps *)

(* Assignments that leave the shapes alone. *)
LEMMA TargetStep ==
  ASSUME NEW as, NEW rank, WellFormed(as, rank), rank = Len(as["a"].shape),
         NEW ex, Expecting(as, ex), Done(as, ex), NEW t \in Targets, Sliceable(as, t),
         NEW e, Expressed(as, e), NEW op \in {"assign", "launch"},
         NEW lhs, lhs = Region(as, t), NEW rhs, rhs = Regions(as, e),
         Fits(as, e, lhs.shape), LaunchableSize(lhs.shape),
         SlicesKeepStrides(lhs.shape, rhs), Unaliased(lhs, rhs),
         backend \in Backends, Run(op, lhs, rhs),
         NEW new, new = [ex EXCEPT ![t.of] = Updated(as, t, e)]
  PROVE  Expecting(as, new) /\ Underway(as, new, kernel')
<1>1. t.of \in Names /\ PartOK(as, t)
  BY TargetIs
<1>2. IsPart(as, rank, t, lhs)
  BY <1>1, SizedRegion
<1>3. lhs.of = t.of /\ IsRegion(lhs) /\ Apart(lhs) /\ Within(as, lhs) /\ Len(lhs.shape) = rank
  BY <1>2 DEF IsPart
<1>4. Writes(as, lhs) /\ lhs.of \in Names
  BY <1>1, <1>3 DEF Writes
<1>5. Expecting(as, new) /\ Intended(as, e, lhs, new)
  BY <1>1, UpdatedIntended
<1>6. KernelReads(as, e, lhs, rhs)
  BY <1>3, <1>4, ExpressionRead
<1>7. Underway(as, new, kernel')
  BY <1>3, <1>4, <1>5, <1>6, KernelBegins
<1>. QED  BY <1>5, <1>7

(* The target of an assignment to a container, once that has been resized. *)
IsTarget(bs, rank, t, shape, lhs) ==
  /\ t.of \in Names /\ t.part = "all" /\ PartOK(bs, t)
  /\ lhs.of = t.of /\ IsRegion(lhs) /\ Apart(lhs) /\ Within(bs, lhs) /\ Len(lhs.shape) = rank
  /\ lhs.shape = shape /\ Writes(bs, lhs) /\ lhs.of \in Names

LEMMA ContainerTarget ==
  ASSUME NEW as, NEW bs, NEW rank, NEW shape, NEW e, NEW t \in Targets, t.kind = "container",
         TakesShape(as, bs, rank, t.of, shape, e), NEW lhs, lhs = Region(bs, t)
  PROVE  IsTarget(bs, rank, t, shape, lhs)
<1>1. WellFormed(bs, rank) /\ bs[t.of].shape = shape
  BY DEF TakesShape
<1>2. t.of \in Names /\ t.part = "all"
  BY <1>1, TargetIs
<1>3. Sliceable(bs, t)
  BY <1>2 DEF Sliceable
<1>4. PartOK(bs, t)
  BY <1>1, <1>3, TargetIs
<1>5. IsPart(bs, rank, t, lhs)
  BY <1>1, <1>2, <1>4, SizedRegion
<1>6. lhs.of = t.of /\ IsRegion(lhs) /\ Apart(lhs) /\ Within(bs, lhs) /\ Len(lhs.shape) = rank
  BY <1>5 DEF IsPart
<1>7. lhs.shape = shape
  BY <1>1, <1>2, <1>4, WholeRegion
<1>8. Writes(bs, lhs) /\ lhs.of \in Names
  BY <1>2, <1>6 DEF Writes
<1>. QED  BY <1>2, <1>4, <1>6, <1>7, <1>8 DEF IsTarget

(* What it is expected to hold when that is done. *)
LEMMA ContainerIntended ==
  ASSUME NEW as, NEW rank, WellFormed(as, rank), NEW ex, Expecting(as, ex), Done(as, ex),
         NEW bs, NEW shape \in Shape, NEW e, ShapeOf(as, e) = shape,
         NEW t \in Targets, t.kind = "container", TakesShape(as, bs, rank, t.of, shape, e),
         NEW lhs, lhs = Region(bs, t)
  PROVE  /\ Expecting(bs, [ex EXCEPT ![t.of] = Replaced(as, e)])
         /\ Intended(bs, e, lhs, [ex EXCEPT ![t.of] = Replaced(as, e)])
<1>1. PICK x, u : x = t.of /\ u = Replaced(as, e)
  OBVIOUS
<1>2. /\ WellFormed(bs, rank) /\ bs = [y \in Names |-> bs[y]] /\ bs[x].shape = shape
      /\ (\A y \in Names \ {x} : bs[y] = as[y]) /\ SameArrays(as, bs, e)
  BY <1>1 DEF TakesShape
<1>3. x \in Names /\ t.part = "all" /\ PartOK(bs, t) /\ lhs.of = x
  <2>1. IsTarget(bs, rank, t, shape, lhs)
    BY ContainerTarget
  <2>. QED  BY <1>1, <2>1 DEF IsTarget
<1>4. \A idx : Meaning(as, e, idx) = Meaning(bs, e, idx)
  <2>1. SameMeaning(as, bs, e)
    BY <1>2, SameExpression
  <2>. QED  BY <2>1, Zenon DEF SameMeaning
<1>5. Assigned(bs, x, lhs, e, u)
  <2>1. Assigned(bs, t.of, Region(bs, t), e, Replaced(as, e))
    BY <1>1, <1>2, <1>3, <1>4, ReplacedIs
  <2>. QED  BY <1>1, <2>1
<1>6. ex = [y \in Names |-> ex[y]]
      /\ \A y \in Names : ex[y] = as[y].cells /\ ex[y] = [i \in DOMAIN as[y].cells |-> ex[y][i]]
  BY Zenon DEF Expecting, Done
<1>7. \A y \in Names \ {x} : ex[y] = bs[y].cells /\ ex[y] = [i \in DOMAIN bs[y].cells |-> ex[y][i]]
  BY <1>2, <1>6
<1>8. Expecting(bs, [ex EXCEPT ![x] = u]) /\ Intended(bs, e, lhs, [ex EXCEPT ![x] = u])
  BY <1>2, <1>3, <1>5, <1>6, <1>7, ExpectAssigned
<1>. QED  BY <1>1, <1>8

LEMMA SameFits ==
  ASSUME NEW as, NEW bs, NEW e, SameArrays(as, bs, e), NEW shape, Fits(as, e, shape)
  PROVE  Fits(bs, e, shape)
<1>1. ASSUME NEW n \in Sized(e) PROVE PartShape(bs, e[n]) = PartShape(as, e[n])
  <2>1. PICK o : o = e[n]
    OBVIOUS
  <2>2. as[o.of] = bs[o.of]
    BY <2>1 DEF Sized, SameArrays
  <2>3. PartShape(bs, o) = PartShape(as, o)
    BY <2>2, Zenon DEF PartShape
  <2>. QED  BY <2>1, <2>3
<1>. QED  BY <1>1 DEF Fits

(* An assignment to a container, which takes the shape of the expression. *)
Container(as, bs, rank, t, e, lhs, rhs) ==
  LET shape == CalcShape(rank, Regions(as, e))
  IN  /\ bs = [as EXCEPT ![t.of] = Resized(@, shape)]
      /\ lhs = Region(bs, t)
      /\ rhs = [n \in DOMAIN e |-> Region(IF e[n].part = "all" THEN bs ELSE as, e[n])]
      /\ (\E n \in DOMAIN e : e[n].of = t.of) => shape = as[t.of].shape
      /\ LaunchableSize(shape) /\ SlicesKeepStrides(shape, rhs) /\ Unaliased(lhs, rhs)

LEMMA ContainerIs ==
  ASSUME NEW as, NEW rank, WellFormed(as, rank), as = [y \in Names |-> as[y]],
         NEW t \in Targets, NEW e, Expressed(as, e), NEW bs, NEW lhs, NEW rhs,
         Container(as, bs, rank, t, e, lhs, rhs),
         NEW shape \in Shape, Len(shape) = rank, shape = CalcShape(rank, Regions(as, e))
  PROVE  /\ TakesShape(as, bs, rank, t.of, shape, e) /\ lhs = Region(bs, t) /\ rhs = Regions(bs, e)
         /\ LaunchableSize(shape) /\ SlicesKeepStrides(shape, rhs) /\ Unaliased(lhs, rhs)
<1>1. PICK x : x = t.of
  OBVIOUS
<1>2. bs = [as EXCEPT ![x] = Resized(@, shape)]
  BY <1>1, Zenon DEF Container
<1>3. (\E n \in DOMAIN e : e[n].of = x) => shape = as[x].shape
  BY <1>1, Zenon DEF Container
<1>4. x \in Names
  BY <1>1, TargetIs
<1>5. TakesShape(as, bs, rank, x, shape, e)
  BY <1>2, <1>3, <1>4, ResizedArrays
<1>6. SameMeaning(as, bs, e)
  <2>1. SameArrays(as, bs, e)
    BY <1>5 DEF TakesShape
  <2>. QED  BY <2>1, SameExpression
<1>7. rhs = [n \in DOMAIN e |-> Region(IF e[n].part = "all" THEN bs ELSE as, e[n])]
  BY Zenon DEF Container
<1>8. rhs = Regions(bs, e)
  BY <1>6, <1>7 DEF SameMeaning
<1>9. lhs = Region(bs, t) /\ LaunchableSize(shape) /\ SlicesKeepStrides(shape, rhs) /\ Unaliased(lhs, rhs)
  BY Zenon DEF Container
<1>. QED  BY <1>1, <1>5, <1>8, <1>9

LEMMA ContainerStep ==
  ASSUME NEW as, NEW rank, WellFormed(as, rank), NEW ex, Expecting(as, ex), Done(as, ex),
         NEW t \in Targets, t.kind = "container",
         NEW e, Expressed(as, e), HasShape(rank, Regions(as, e)), NEW bs, NEW lhs, NEW rhs,
         Container(as, bs, rank, t, e, lhs, rhs),
         backend \in Backends, Run("assign", lhs, rhs)
  PROVE  /\ WellFormed(bs, rank) /\ Len(bs["a"].shape) = rank
         /\ Expecting(bs, [ex EXCEPT ![t.of] = Replaced(as, e)])
         /\ Underway(bs, [ex EXCEPT ![t.of] = Replaced(as, e)], kernel')
<1>1. PICK shape : shape = CalcShape(rank, Regions(as, e))
  OBVIOUS
<1>2. Fitted(as, rank, e, shape)
  BY <1>1, ShapeIs
<1>3. ShapeOf(as, e) = shape /\ Fits(as, e, shape)
  BY <1>2, ShapeMeant
<1>4. shape \in Shape /\ Len(shape) = rank
  BY <1>2 DEF Fitted
<1>5. /\ TakesShape(as, bs, rank, t.of, shape, e) /\ lhs = Region(bs, t) /\ rhs = Regions(bs, e)
      /\ LaunchableSize(shape) /\ SlicesKeepStrides(shape, rhs) /\ Unaliased(lhs, rhs)
  <2>1. as = [y \in Names |-> as[y]]
    BY DEF Expecting
  <2>. QED  BY <1>1, <1>4, <2>1, ContainerIs
<1>6. /\ lhs.of = t.of /\ IsRegion(lhs) /\ Apart(lhs) /\ Within(bs, lhs) /\ Len(lhs.shape) = rank
      /\ lhs.shape = shape /\ Writes(bs, lhs) /\ lhs.of \in Names
  <2>1. IsTarget(bs, rank, t, shape, lhs)
    BY <1>5, ContainerTarget
  <2>. QED  BY <2>1 DEF IsTarget
<1>7. PICK new : new = [ex EXCEPT ![t.of] = Replaced(as, e)]
  OBVIOUS
<1>8. Expecting(bs, new) /\ Intended(bs, e, lhs, new)
  BY <1>3, <1>4, <1>5, <1>7, ContainerIntended
<1>9. WellFormed(bs, rank) /\ SameArrays(as, bs, e)
  BY <1>5 DEF TakesShape
<1>10. Fits(bs, e, lhs.shape)
  BY <1>3, <1>6, <1>9, SameFits
<1>11. Expressed(bs, e)
  <2>1. SameMeaning(as, bs, e)
    BY <1>9, SameExpression
  <2>. QED  BY <2>1 DEF SameMeaning
<1>12. KernelReads(bs, e, lhs, rhs)
  BY <1>5, <1>6, <1>9, <1>10, <1>11, ExpressionRead
<1>13. rank = Len(bs["a"].shape)
  <2>1. "a" \in Names
    BY DEF Names
  <2>. QED  BY <1>9, <2>1, WellFormedIs
<1>14. Underway(bs, new, kernel')
  <2>1. LaunchableSize(lhs.shape)
    BY <1>5, <1>6
  <2>2. PICK op \in {"assign", "launch"} : op = "assign"
    OBVIOUS
  <2>3. Run(op, lhs, rhs)
    BY <2>2
  <2>. QED  BY <1>6, <1>8, <1>9, <1>12, <1>13, <2>1, <2>3, KernelBegins
<1>. QED  BY <1>7, <1>8, <1>9, <1>13, <1>14

-----------------------------------------------------------------------------
(* Inv is inductive *)

InvParts == backend \in Backends /\ issued \in 0..MaxAssignments
            /\ WellFormed(arrays, Rank) /\ Expecting(arrays, expected)

LEMMA InvIs == Inv <=> InvParts /\ Underway(arrays, expected, kernel)
  BY Zenon DEF Inv, InvParts

(* A state in which an assignment can start. *)
LEMMA ReadyToAssign ==
  ASSUME Inv, Ready
  PROVE  /\ kernel = Idle /\ issued < MaxAssignments /\ issued + 1 \in 0..MaxAssignments
         /\ backend \in Backends /\ WellFormed(arrays, Rank)
         /\ Expecting(arrays, expected) /\ Done(arrays, expected)
<1>1. backend \in Backends /\ issued \in 0..MaxAssignments /\ WellFormed(arrays, Rank)
      /\ Expecting(arrays, expected) /\ Underway(arrays, expected, kernel)
  BY Zenon DEF Inv
<1>2. kernel = Idle /\ issued < MaxAssignments
  BY DEF Ready
<1>3. Done(arrays, expected)
  BY <1>1, <1>2, Zenon DEF Underway
<1>4. MaxAssignments \in Nat
  BY ConstantsAssumption, Zenon DEF ConstantsAssumption
<1>5. issued + 1 \in 0..MaxAssignments
  BY <1>1, <1>2, <1>4
<1>. QED  BY <1>1, <1>2, <1>3, <1>5

LEMMA BuiltIs ==
  ASSUME NEW e \in Expressions, \A n \in DOMAIN e : Sliceable(arrays, e[n])
  PROVE  Expressed(arrays, e)
<1>1. Expressions \subseteq Seq(Operands)
  BY ConstantsAssumption, Zenon DEF ConstantsAssumption
<1>. QED  BY <1>1 DEF Expressed

(* An assignment that leaves the shapes alone, or throws. *)
LEMMA NextInv ==
  ASSUME InvParts, Issued, issued + 1 \in 0..MaxAssignments,
         WellFormed(arrays', Rank), Len(arrays'["a"].shape) = Rank,
         Expecting(arrays', expected'), Underway(arrays', expected', kernel')
  PROVE  Inv'
<1>1. backend' \in Backends /\ issued' \in 0..MaxAssignments
  BY DEF Issued, InvParts
<1>2. Rank' = Rank
  BY DEF Rank
<1>3. WellFormed(arrays', Rank')
  BY <1>2
<1>. QED  BY <1>1, <1>3, Zenon DEF Inv

LEMMA InvInit == Init => Inv
<1>. SUFFICES ASSUME Init PROVE Inv
  OBVIOUS
<1>1. PICK e \in Extents : /\ arrays = [a |-> Array(e.a, 1), b |-> Array(e.b, 101)]
                           /\ expected = [a |-> Array(e.a, 1).cells, b |-> Array(e.b, 101).cells]
  BY DEF Init
<1>2. e.a \in Seq(Nat) /\ e.b \in Seq(Nat) /\ Len(e.a) = Len(e.b) /\ Len(e.a) \in 1..6
  BY ConstantsAssumption, Zenon DEF ConstantsAssumption
<1>3. ASSUME NEW s \in Seq(Nat), NEW n
      PROVE  IsArray(Array(s, n)) /\ Array(s, n).shape = s
             /\ \E f : Array(s, n).cells = f /\ f = [i \in DOMAIN f |-> f[i]]
  <2>1. PICK f, dom : dom = 0..(CalcSize(s) - 1) /\ f = [i \in dom |-> << n + i >>]
    OBVIOUS
  <2>2. PICK a : a = [shape |-> s, strides |-> CalcStrides(s), cells |-> f]
    OBVIOUS
  <2>3. a = Array(s, n)
    BY <2>1, <2>2, Zenon DEF Array
  <2>4. a.shape = s /\ a.strides = CalcStrides(s) /\ a.cells = f
    BY <2>2
  <2>5. f = [i \in dom |-> f[i]] /\ DOMAIN f = dom
    BY <2>1
  <2>6. IsArray(a)
    <3>1. f = [i \in 0..(CalcSize(a.shape) - 1) |-> f[i]]
      BY <2>1, <2>4, <2>5
    <3>2. s \in Shape
      BY DEF Shape
    <3>. QED  BY <2>2, <2>4, <3>1, <3>2, Zenon DEF IsArray
  <2>. QED  BY <2>3, <2>4, <2>5, <2>6
<1>4. PICK A, B : A = Array(e.a, 1) /\ B = Array(e.b, 101)
  OBVIOUS
<1>5. /\ IsArray(A) /\ A.shape = e.a /\ A.cells = [i \in DOMAIN A.cells |-> A.cells[i]]
      /\ IsArray(B) /\ B.shape = e.b /\ B.cells = [i \in DOMAIN B.cells |-> B.cells[i]]
  BY <1>2, <1>3, <1>4
<1>6. PICK as, ex : as = [a |-> A, b |-> B] /\ ex = [a |-> A.cells, b |-> B.cells]
  OBVIOUS
<1>7. arrays = as /\ expected = ex
  BY <1>1, <1>4, <1>6
<1>8. as["a"] = A /\ as["b"] = B /\ ex["a"] = A.cells /\ ex["b"] = B.cells
  BY <1>6
<1>9. as = [x \in Names |-> as[x]] /\ ex = [x \in Names |-> ex[x]]
  BY <1>6 DEF Names
<1>10. \A x \in Names : x = "a" \/ x = "b"
  BY DEF Names
<1>11. PICK rank : rank = Len(as["a"].shape)
  OBVIOUS
<1>12. rank \in 1..6 /\ Len(A.shape) = rank /\ Len(B.shape) = rank
  BY <1>2, <1>5, <1>8, <1>11
<1>13. WellFormed(as, rank)
  BY <1>5, <1>8, <1>10, <1>12 DEF WellFormed
<1>14. Expecting(as, ex) /\ Done(as, ex)
  BY <1>5, <1>8, <1>9, <1>10 DEF Expecting, Done
<1>15. Rank = rank
  BY <1>7, <1>11 DEF Rank
<1>16. kernel = Idle /\ backend \in Backends /\ issued = 0
  BY DEF Init
<1>17. issued \in 0..MaxAssignments
  <2>1. MaxAssignments \in Nat
    BY ConstantsAssumption, Zenon DEF ConstantsAssumption
  <2>. QED  BY <1>16, <2>1
<1>18. Underway(arrays, expected, kernel)
  BY <1>7, <1>14, <1>16, Zenon DEF Underway
<1>. QED  BY <1>7, <1>13, <1>14, <1>15, <1>16, <1>17, <1>18, Zenon DEF Inv

LEMMA BuildThrowsStep ==
  ASSUME Inv, NEW e \in Expressions, BuildThrows(e)
  PROVE  Inv'
<1>1. Ready /\ Issued /\ UNCHANGED <<arrays, kernel, expected>>
  BY DEF BuildThrows
<1>2. issued + 1 \in 0..MaxAssignments
  BY <1>1, ReadyToAssign
<1>3. InvParts /\ Underway(arrays, expected, kernel)
  BY InvIs
<1>4. WellFormed(arrays', Rank) /\ Len(arrays'["a"].shape) = Rank
      /\ Expecting(arrays', expected') /\ Underway(arrays', expected', kernel')
  BY <1>1, <1>3, Zenon DEF InvParts, Rank
<1>. QED  BY <1>1, <1>2, <1>3, <1>4, NextInv

LEMMA ContainerAssignStep ==
  ASSUME Inv, NEW t \in Targets, NEW e \in Expressions, ContainerAssign(t, e)
  PROVE  Inv'
<1>1. Ready /\ Issued /\ t.kind = "container"
      /\ (\A n \in DOMAIN e : Sliceable(arrays, e[n])) /\ HasShape(Rank, Regions(arrays, e))
  BY DEF ContainerAssign, CanBuild
<1>2. PICK shape : shape = CalcShape(Rank, Regions(arrays, e))
  OBVIOUS
<1>3. PICK bs : bs = [arrays EXCEPT ![t.of] = Resized(@, shape)]
  OBVIOUS
<1>4. PICK rhs : rhs = [n \in DOMAIN e |-> Region(IF e[n].part = "all" THEN bs ELSE arrays, e[n])]
  OBVIOUS
<1>5. PICK lhs : lhs = Region(bs, t)
  OBVIOUS
<1>6. /\ LaunchableSize(shape) /\ SlicesKeepStrides(shape, rhs) /\ Unaliased(lhs, rhs)
      /\ (\E n \in DOMAIN e : e[n].of = t.of) => shape = arrays[t.of].shape
      /\ arrays' = bs /\ Run("assign", lhs, rhs)
      /\ expected' = [expected EXCEPT ![t.of] = Replaced(arrays, e)]
  BY <1>2, <1>3, <1>4, <1>5, Zenon DEF ContainerAssign
<1>7. PICK rank, as, ex : rank = Rank /\ as = arrays /\ ex = expected
  OBVIOUS
<1>8. issued + 1 \in 0..MaxAssignments /\ backend \in Backends /\ WellFormed(as, rank)
      /\ Expecting(as, ex) /\ Done(as, ex)
  BY <1>1, <1>7, ReadyToAssign
<1>9. Container(as, bs, rank, t, e, lhs, rhs)
  BY <1>2, <1>3, <1>4, <1>5, <1>6, <1>7, Zenon DEF Container
<1>10. Expressed(as, e) /\ HasShape(rank, Regions(as, e))
  BY <1>1, <1>7, BuiltIs
<1>11. PICK new : new = [ex EXCEPT ![t.of] = Replaced(as, e)]
  OBVIOUS
<1>12. /\ WellFormed(bs, rank) /\ Len(bs["a"].shape) = rank
       /\ Expecting(bs, new) /\ Underway(bs, new, kernel')
  BY <1>1, <1>6, <1>8, <1>9, <1>10, <1>11, ContainerStep
<1>13. expected' = new /\ arrays' = bs /\ InvParts
  BY <1>6, <1>7, <1>11, InvIs
<1>14. WellFormed(arrays', Rank) /\ Len(arrays'["a"].shape) = Rank
       /\ Expecting(arrays', expected') /\ Underway(arrays', expected', kernel')
  BY <1>7, <1>12, <1>13, Zenon
<1>. QED  BY <1>1, <1>8, <1>13, <1>14, NextInv

LEMMA AssignStep ==
  ASSUME Inv, NEW t \in Targets, NEW e \in Expressions, Assign(t, e)
  PROVE  Inv'
<1>1. Ready /\ Issued /\ arrays' = arrays /\ Sliceable(arrays, t)
      /\ (\A n \in DOMAIN e : Sliceable(arrays, e[n])) /\ HasShape(Rank, Regions(arrays, e))
  BY DEF Assign, CanBuild
<1>2. PICK rank, as, ex : rank = Rank /\ as = arrays /\ ex = expected
  OBVIOUS
<1>3. PICK rhs, lhs : rhs = Regions(as, e) /\ lhs = Region(as, t)
  OBVIOUS
<1>4. PICK shape : shape = CalcShape(rank, rhs)
  OBVIOUS
<1>5. issued + 1 \in 0..MaxAssignments /\ backend \in Backends /\ WellFormed(as, rank)
      /\ Expecting(as, ex) /\ Done(as, ex) /\ kernel = Idle
  BY <1>1, <1>2, ReadyToAssign
<1>6. Expressed(as, e) /\ HasShape(rank, Regions(as, e)) /\ Sliceable(as, t)
  BY <1>1, <1>2, BuiltIs
<1>7. Fitted(as, rank, e, shape)
  BY <1>3, <1>4, <1>5, <1>6, ShapeIs
<1>8. lhs.shape = PartShape(as, t) /\ DOMAIN lhs.shape = 1..rank
  <2>1. t.of \in Names /\ PartOK(as, t)
    BY <1>5, <1>6, TargetIs
  <2>2. IsPart(as, rank, t, lhs)
    BY <1>3, <1>5, <2>1, SizedRegion
  <2>. QED  BY <2>2 DEF IsPart
<1>9. Fits(as, e, PartShape(as, t)) <=> ValidAssignBroadcast(lhs.shape, shape)
  <2>1. PICK whole : whole = lhs.shape
    OBVIOUS
  <2>2. Fits(as, e, whole) <=> ValidAssignBroadcast(whole, shape)
    BY <1>7, <1>8, <2>1, ChecksFit
  <2>. QED  BY <1>8, <2>1, <2>2
<1>10. expected' = IF Fits(as, e, PartShape(as, t)) THEN [ex EXCEPT ![t.of] = Updated(as, t, e)] ELSE ex
  BY <1>2, Zenon DEF Assign
<1>11. IF ValidAssignBroadcast(lhs.shape, shape)
       THEN /\ LaunchableSize(lhs.shape) /\ SlicesKeepStrides(lhs.shape, rhs)
            /\ Unaliased(lhs, rhs) /\ Run("assign", lhs, rhs)
       ELSE UNCHANGED kernel
  BY <1>2, <1>3, <1>4, Zenon DEF Assign
<1>12. Expecting(as, expected') /\ Underway(as, expected', kernel')
  <2>1. CASE ValidAssignBroadcast(lhs.shape, shape)
    <3>1. PICK new : new = [ex EXCEPT ![t.of] = Updated(as, t, e)]
      OBVIOUS
    <3>2. expected' = new
      BY <1>9, <1>10, <2>1, <3>1
    <3>3. Fits(as, e, lhs.shape)
      BY <1>8, <1>9, <2>1
    <3>4. LaunchableSize(lhs.shape) /\ SlicesKeepStrides(lhs.shape, rhs) /\ Unaliased(lhs, rhs)
      BY <1>11, <2>1
    <3>5. PICK op \in {"assign", "launch"} : op = "assign"
      OBVIOUS
    <3>6. Run(op, lhs, rhs)
      BY <1>11, <2>1, <3>5
    <3>7. rank = Len(as["a"].shape)
      BY <1>2 DEF Rank
    <3>8. Expecting(as, new) /\ Underway(as, new, kernel')
      BY <1>3, <1>5, <1>6, <3>1, <3>3, <3>4, <3>6, <3>7, TargetStep
    <3>. QED  BY <3>2, <3>8
  <2>2. CASE ~ValidAssignBroadcast(lhs.shape, shape)
    <3>1. expected' = ex /\ kernel' = Idle
      BY <1>5, <1>9, <1>10, <1>11, <2>2
    <3>. QED  BY <1>5, <3>1, Zenon DEF Underway
  <2>. QED  BY <2>1, <2>2
<1>13. WellFormed(arrays', Rank) /\ Len(arrays'["a"].shape) = Rank
       /\ Expecting(arrays', expected') /\ Underway(arrays', expected', kernel')
  BY <1>1, <1>2, <1>5, <1>12, Zenon DEF Rank
<1>14. InvParts
  BY InvIs
<1>. QED  BY <1>1, <1>5, <1>13, <1>14, NextInv

LEMMA LaunchStep ==
  ASSUME Inv, NEW t \in Targets, NEW e \in Expressions, Launch(t, e)
  PROVE  Inv'
<1>1. Ready /\ Issued /\ arrays' = arrays /\ Sliceable(arrays, t)
      /\ \A n \in DOMAIN e : Sliceable(arrays, e[n])
  BY DEF Launch, CanBuild
<1>2. PICK rank, as, ex : rank = Rank /\ as = arrays /\ ex = expected
  OBVIOUS
<1>3. PICK rhs, lhs : rhs = Regions(as, e) /\ lhs = Region(as, t)
  OBVIOUS
<1>4. PICK new : new = [ex EXCEPT ![t.of] = Updated(as, t, e)]
  OBVIOUS
<1>5. issued + 1 \in 0..MaxAssignments /\ backend \in Backends /\ WellFormed(as, rank)
      /\ Expecting(as, ex) /\ Done(as, ex)
  BY <1>1, <1>2, ReadyToAssign
<1>6. Expressed(as, e) /\ Sliceable(as, t)
  BY <1>1, <1>2, BuiltIs
<1>7. /\ Fits(as, e, lhs.shape)
      /\ LaunchableSize(lhs.shape) /\ SlicesKeepStrides(lhs.shape, rhs)
      /\ Unaliased(lhs, rhs) /\ Run("launch", lhs, rhs)
      /\ expected' = new
  BY <1>2, <1>3, <1>4, Zenon DEF Launch
<1>8. PICK op \in {"assign", "launch"} : op = "launch"
  OBVIOUS
<1>9. Run(op, lhs, rhs)
  BY <1>7, <1>8
<1>10. rank = Len(as["a"].shape)
  BY <1>2 DEF Rank
<1>11. Expecting(as, new) /\ Underway(as, new, kernel')
  BY <1>3, <1>4, <1>5, <1>6, <1>7, <1>9, <1>10, TargetStep
<1>12. WellFormed(arrays', Rank) /\ Len(arrays'["a"].shape) = Rank
       /\ Expecting(arrays', expected') /\ Underway(arrays', expected', kernel')
  BY <1>1, <1>2, <1>5, <1>7, <1>11, Zenon DEF Rank
<1>13. InvParts
  BY InvIs
<1>. QED  BY <1>1, <1>5, <1>12, <1>13, NextInv

LEMMA FillZeroStep ==
  ASSUME Inv, NEW t \in Targets, FillZero(t)
  PROVE  Inv'
<1>1. Ready /\ Issued /\ kernel' = kernel /\ Sliceable(arrays, t) /\ t.kind \in {"container", "span"}
  BY DEF FillZero
<1>2. PICK rank, as, ex : rank = Rank /\ as = arrays /\ ex = expected
  OBVIOUS
<1>3. PICK r : r = Region(as, t)
  OBVIOUS
<1>4. PICK new : new = [ex EXCEPT ![t.of] = Updated(as, t, << [of |-> "scalar", part |-> "all"] >>)]
  OBVIOUS
<1>5. PICK bs : bs = [as EXCEPT ![t.of].cells = [i \in DOMAIN @ |-> IF i \in Filled(r) THEN Scalar ELSE @[i]]]
  OBVIOUS
<1>6. issued + 1 \in 0..MaxAssignments /\ WellFormed(as, rank)
      /\ Expecting(as, ex) /\ Done(as, ex) /\ kernel = Idle /\ Sliceable(as, t)
  BY <1>1, <1>2, ReadyToAssign
<1>7. (t.kind = "span" => r.strides = CalcStrides(r.shape)) /\ arrays' = bs /\ expected' = new
  BY <1>2, <1>3, <1>4, <1>5, Zenon DEF FillZero
<1>8. t.of \in Names /\ PartOK(as, t) /\ (t.kind = "container" => t.part = "all")
  BY <1>6, TargetIs
<1>9. r.strides = CalcStrides(r.shape)
  <2>1. CASE t.kind = "span"
    BY <1>7, <2>1
  <2>2. CASE t.kind = "container"
    <3>1. t.part = "all"
      BY <1>8, <2>2
    <3>. QED  BY <1>3, <1>6, <1>8, <3>1, WholeRegion
  <2>. QED  BY <1>1, <2>1, <2>2
<1>10. /\ WellFormed(bs, rank) /\ Expecting(bs, new) /\ Done(bs, new)
       /\ \A x \in Names : bs[x].shape = as[x].shape
  <2>1. ZeroFill(as, ex, t, r, bs, new)
    BY <1>4, <1>5, Zenon DEF ZeroFill
  <2>2. Settled(as, bs, rank, new)
    BY <1>3, <1>6, <1>8, <1>9, <2>1, FilledArrays
  <2>. QED  BY <2>2 DEF Settled
<1>11. Len(bs["a"].shape) = rank
  BY <1>2, <1>10 DEF Names, Rank
<1>12. Underway(bs, new, kernel')
  BY <1>1, <1>6, <1>10, Zenon DEF Underway
<1>13. WellFormed(arrays', Rank) /\ Len(arrays'["a"].shape) = Rank
       /\ Expecting(arrays', expected') /\ Underway(arrays', expected', kernel')
  BY <1>2, <1>7, <1>10, <1>11, <1>12, Zenon
<1>14. InvParts
  BY InvIs
<1>. QED  BY <1>1, <1>6, <1>13, <1>14, NextInv

LEMMA ElementInv ==
  ASSUME Inv, NEW t \in DOMAIN kernel.todo, Element(t)
  PROVE  Inv'
<1>1. PICK rank, as, ex, k : rank = Rank /\ as = arrays /\ ex = expected /\ k = kernel
  OBVIOUS
<1>2. backend \in Backends /\ issued \in 0..MaxAssignments
      /\ WellFormed(as, rank) /\ Expecting(as, ex) /\ Underway(as, ex, k)
  BY <1>1, Zenon DEF Inv
<1>3. k # Idle
  BY <1>1 DEF Idle
<1>4. Running(as, ex, k)
  BY <1>2, <1>3, Zenon DEF Underway
<1>5. PICK lhs, idx, v, left : /\ lhs = k.lhs /\ idx = k.todo[t] /\ v = Result(as, k, k.todo[t])
                               /\ left = DOMAIN k.todo \ {t}
  OBVIOUS
<1>6. PICK bs : bs = [as EXCEPT ![lhs.of].cells =
                        IF Address(lhs, idx) \in DOMAIN @ THEN [@ EXCEPT ![Address(lhs, idx)] = v] ELSE @]
  OBVIOUS
<1>7. arrays' = bs
  BY <1>1, <1>5, <1>6, Zenon DEF Element
<1>8. kernel' = (IF left = {} THEN Idle ELSE [k EXCEPT !.todo = Restrict(@, left)])
      /\ backend' = backend /\ expected' = expected /\ issued' = issued
  BY <1>1, <1>5, Zenon DEF Element
<1>9. Writes(as, lhs) /\ idx \in Indices(lhs.shape)
  BY <1>1, <1>4, <1>5 DEF Running, Runs
<1>10. WellFormed(bs, rank) /\ Changed(as, bs, lhs.of, Address(lhs, idx), v)
  <2>1. as = [y \in Names |-> as[y]]
    BY <1>2 DEF Expecting
  <2>. QED  BY <1>2, <1>6, <1>9, <2>1, ElementWritten
<1>11. PICK m : m = IF left = {} THEN Idle ELSE [k EXCEPT !.todo = Restrict(@, left)]
  OBVIOUS
<1>12. Expecting(bs, ex) /\ (\A y \in Names : bs[y].shape = as[y].shape) /\ Underway(bs, ex, m)
  <2>1. t \in DOMAIN k.todo
    BY <1>1
  <2>2. Changed(as, bs, k.lhs.of, Address(k.lhs, k.todo[t]), Result(as, k, k.todo[t]))
    BY <1>5, <1>10
  <2>3. StepsTo(as, bs, ex, k, left)
    BY <1>2, <1>4, <1>5, <1>10, <2>1, <2>2, ElementStep
  <2>. QED  BY <1>11, <2>3 DEF StepsTo
<1>13. Rank' = rank
  <2>1. bs["a"].shape = as["a"].shape
    BY <1>12 DEF Names
  <2>. QED  BY <1>1, <1>7, <2>1 DEF Rank
<1>14. kernel' = m /\ expected' = ex
  BY <1>1, <1>8, <1>11
<1>. QED  BY <1>2, <1>7, <1>8, <1>10, <1>12, <1>13, <1>14, Zenon DEF Inv

LEMMA InvNext == Inv /\ [Next]_vars => Inv'
<1>. SUFFICES ASSUME Inv, [Next]_vars PROVE Inv'
  OBVIOUS
<1>1. ASSUME NEW e \in Expressions, BuildThrows(e) PROVE Inv'
  BY <1>1, BuildThrowsStep
<1>2. ASSUME NEW e \in Expressions, NEW t \in Targets, ContainerAssign(t, e) PROVE Inv'
  BY <1>2, ContainerAssignStep
<1>3. ASSUME NEW e \in Expressions, NEW t \in Targets, Assign(t, e) PROVE Inv'
  BY <1>3, AssignStep
<1>4. ASSUME NEW e \in Expressions, NEW t \in Targets, Launch(t, e) PROVE Inv'
  BY <1>4, LaunchStep
<1>5. ASSUME NEW t \in Targets, FillZero(t) PROVE Inv'
  BY <1>5, FillZeroStep
<1>6. ASSUME NEW t \in DOMAIN kernel.todo, Element(t) PROVE Inv'
  BY <1>6, ElementInv
<1>7. CASE UNCHANGED vars
  <2>1. backend' = backend /\ arrays' = arrays /\ kernel' = kernel /\ expected' = expected /\ issued' = issued
    BY <1>7 DEF vars
  <2>. QED  BY <2>1, Zenon DEF Inv, Rank
<1>. QED  BY <1>1, <1>2, <1>3, <1>4, <1>5, <1>6, <1>7, Zenon DEF Next

-----------------------------------------------------------------------------
(* What follows from it *)

LEMMA InvTypes == Inv => TypeOK
<1>. SUFFICES ASSUME Inv PROVE TypeOK
  OBVIOUS
<1>1. PICK rank, as, k : rank = Rank /\ as = arrays /\ k = kernel
  OBVIOUS
<1>2. backend \in Backends /\ issued \in 0..MaxAssignments
      /\ WellFormed(as, rank) /\ Underway(as, expected, k)
  BY <1>1, Zenon DEF Inv
<1>3. ASSUME NEW x \in Names
      PROVE  /\ Len(as[x].shape) = rank /\ as[x].strides = CalcStrides(as[x].shape)
             /\ DOMAIN as[x].cells = 0..(CalcSize(as[x].shape) - 1)
  BY <1>2, WellFormedIs, ArrayIs
<1>4. ASSUME k # Idle
      PROVE  /\ k.op \in {"assign", "launch"} /\ Len(k.lhs.shape) = rank
             /\ \A n \in DOMAIN k.rhs : Len(k.rhs[n].shape) \in {0, rank}
  <2>1. Running(as, expected, k)
    BY <1>2, <1>4, Zenon DEF Underway
  <2>2. Len(k.lhs.shape) = rank
    BY <1>1, <2>1 DEF Running, Rank
  <2>3. k.op \in {"assign", "launch"}
    BY <2>1 DEF Running, Runs
  <2>4. \A n \in DOMAIN k.rhs : Len(k.rhs[n].shape) \in {0, Len(k.lhs.shape)}
    BY <2>1 DEF Running, Reads
  <2>. QED  BY <2>2, <2>3, <2>4
<1>. QED  BY <1>1, <1>2, <1>3, <1>4 DEF TypeOK, Names

LEMMA InvAssigned == Inv => AssignmentCorrect
<1>. SUFFICES ASSUME Inv, kernel = Idle PROVE \A x \in {"a", "b"} : arrays[x].cells = expected[x]
  BY DEF AssignmentCorrect
<1>1. Done(arrays, expected)
  BY Zenon DEF Inv, Underway
<1>. QED  BY <1>1, Zenon DEF Done, Names

LEMMA InvInBounds == Inv => InBounds
<1>. SUFFICES ASSUME Inv, NEW t \in DOMAIN kernel.todo
              PROVE  /\ Address(kernel.lhs, kernel.todo[t]) \in DOMAIN arrays[kernel.lhs.of].cells
                     /\ \A n \in DOMAIN kernel.rhs :
                          kernel.rhs[n].of # "scalar" =>
                            Address(kernel.rhs[n], kernel.todo[t]) \in DOMAIN arrays[kernel.rhs[n].of].cells
  BY Zenon DEF InBounds
<1>1. PICK as, k : as = arrays /\ k = kernel
  OBVIOUS
<1>2. k # Idle
  BY <1>1 DEF Idle
<1>3. Running(as, expected, k)
  BY <1>1, <1>2, Zenon DEF Inv, Underway
<1>4. PICK idx : idx = k.todo[t]
  OBVIOUS
<1>5. idx \in Indices(k.lhs.shape)
  BY <1>1, <1>3, <1>4 DEF Running, Runs
<1>6. Address(k.lhs, idx) \in DOMAIN as[k.lhs.of].cells
  BY <1>3, <1>5 DEF Running, Writes, Within
<1>7. ASSUME NEW n \in DOMAIN k.rhs, k.rhs[n].of # "scalar"
      PROVE  Address(k.rhs[n], idx) \in DOMAIN as[k.rhs[n].of].cells
  <2>1. Reads(as, k.lhs, k.rhs[n])
    BY <1>3 DEF Running
  <2>. QED  BY <1>5, <1>7, <2>1 DEF Reads
<1>. QED  BY <1>1, <1>4, <1>6, <1>7

LEMMA InvRaceFree == Inv => RaceFree
<1>. SUFFICES ASSUME Inv, kernel # Idle PROVE RaceFree
  BY Zenon DEF RaceFree
<1>1. PICK as, k : as = arrays /\ k = kernel
  OBVIOUS
<1>2. Running(as, expected, k)
  BY <1>1, Zenon DEF Inv, Underway
<1>3. PICK T, todo, lhs : T = DOMAIN k.todo /\ todo = k.todo /\ lhs = k.lhs
  OBVIOUS
<1>4. (\A t \in T : todo[t] \in Indices(lhs.shape)) /\ (\A t, u \in T : todo[t] = todo[u] => t = u)
  BY <1>2, <1>3 DEF Running, Runs
<1>5. \A idx, jdx \in Indices(lhs.shape) : Address(lhs, idx) = Address(lhs, jdx) => idx = jdx
  BY <1>2, <1>3 DEF Running, Writes, Apart
<1>6. PICK written : written = [t \in T |-> Address(lhs, todo[t])]
  OBVIOUS
<1>7. DOMAIN written = T /\ \A t \in T : written[t] = Address(lhs, todo[t])
  BY <1>6
<1>8. \A t, u \in T : written[t] = written[u] => t = u
  BY <1>4, <1>5, <1>7
<1>9. IsInjective(written)
  BY <1>7, <1>8 DEF IsInjective
<1>10. ASSUME NEW n \in DOMAIN k.rhs, k.rhs[n].of = lhs.of, NEW t \in T, NEW u \in T,
              Address(k.rhs[n], todo[t]) = written[u]
       PROVE  t = u
  <2>1. PICK r : r = k.rhs[n]
    OBVIOUS
  <2>2. Reads(as, lhs, r)
    BY <1>2, <1>3, <2>1 DEF Running
  <2>3. \A idx, jdx \in Indices(lhs.shape) : Address(r, idx) = Address(lhs, jdx) => idx = jdx
    BY <1>10, <2>1, <2>2 DEF Reads
  <2>4. Address(r, todo[t]) = Address(lhs, todo[u])
    BY <1>7, <1>10, <2>1
  <2>5. todo[t] = todo[u]
    BY <1>4, <2>3, <2>4
  <2>. QED  BY <1>4, <2>5
<1>11. ASSUME NEW n \in DOMAIN k.rhs, k.rhs[n].of = lhs.of
       PROVE  LET read == [t \in T |-> Address(k.rhs[n], todo[t])]
              IN  \A t, u \in T : read[t] = written[u] => t = u
  BY <1>10, <1>11
<1>. QED  BY <1>1, <1>3, <1>6, <1>9, <1>11 DEF RaceFree

LEMMA Invariance == Spec => []Inv
<1>. QED  BY InvInit, InvNext, PTL DEF Spec

(* In every reachable state the containers hold one value per element of   *)
(* their shape with column-major strides, and a kernel works on regions of *)
(* their rank (gcontainer::resize, gt::assign).                            *)
THEOREM AssignmentTypeOK == Spec => []TypeOK
<1>. QED  BY Invariance, InvTypes, PTL

(* Whatever the build evaluates with, for all shapes of up to six          *)
(* dimensions, targets and expressions: when an assignment is done every   *)
(* element it is for has the value of the expression there, computed from  *)
(* the values from before it, nothing else has changed, and one whose      *)
(* shapes do not fit changes nothing (assign.h, gcontainer.h:87,           *)
(* gview.h:308).                                                           *)
THEOREM AssignmentsAreRight == Spec => []AssignmentCorrect
<1>. QED  BY Invariance, InvAssigned, PTL

(* No loop or kernel reads or writes outside of an array, whatever the     *)
(* blocks its threads come in (the guards of the kernels, assign.h:518).   *)
THEOREM KernelsStayInside == Spec => []InBounds
<1>. QED  BY Invariance, InvInBounds, PTL

(* No two threads write the same element, and none reads what another one  *)
(* writes (the kernels of assign.h and gtensor.h).                         *)
THEOREM KernelsDoNotRace == Spec => []RaceFree
<1>. QED  BY Invariance, InvRaceFree, PTL
=============================================================================
