-------------------------- MODULE ReductionsProofs --------------------------
(***************************************************************************)
(* Proofs about Reductions, for any arrays, initial values, shapes and     *)
(* number of work groups.                                                  *)
(*                                                                         *)
(* A reduction on a device takes its items in any order and keeps partial  *)
(* results in as many copies as there are groups.  The invariant says that *)
(* the terms still to be combined, the copies, and the result so far       *)
(* always combine to what is asked for (Balanced): combining is            *)
(* associative and commutative, so that it does not matter which two of    *)
(* them a step combines.  What is asked for is known from the moment of    *)
(* the call, although the array is still to be written then: Queued says   *)
(* which operations of the queues come before the reduction.               *)
(*                                                                         *)
(* For axis sums the invariant says what the threads that are done have    *)
(* written (Written), and that no two of them write the same cell, for     *)
(* which the layouts of the views matter.                                  *)
(***************************************************************************)
EXTENDS Reductions, IndexingProofs

-----------------------------------------------------------------------------
(* Combining two values *)

(* An element, or the result of nothing. *)
Values == Int \cup {None}

LEMMA NoneApart == None \notin Int /\ None \notin Seq(Seq(Nat))
  BY ConstantsAssumption DEF ConstantsAssumption

LEMMA CombineIs ==
  ASSUME NEW x \in Values, NEW y \in Values
  PROVE  /\ Combine("plus", x, y) = IF x = None THEN y ELSE IF y = None THEN x ELSE x + y
         /\ Combine("maximum", x, y) = IF x = None THEN y ELSE IF y = None THEN x ELSE IF x > y THEN x ELSE y
         /\ Combine("minimum", x, y) = IF x = None THEN y ELSE IF y = None THEN x ELSE IF x < y THEN x ELSE y
  BY DEF Combine

LEMMA CombineNone ==
  \A op : \A x : Combine(op, x, None) = x /\ Combine(op, None, x) = x
  BY DEF Combine

LEMMA CombineRules ==
  \A op \in BinaryOp : \A x \in Values : \A y \in Values :
    /\ Combine(op, x, y) \in Values
    /\ Combine(op, x, y) = Combine(op, y, x)
    /\ x \in Int \/ y \in Int => Combine(op, x, y) \in Int
<1>. SUFFICES ASSUME NEW op \in BinaryOp, NEW x \in Values, NEW y \in Values
              PROVE  /\ Combine(op, x, y) \in Values
                     /\ Combine(op, x, y) = Combine(op, y, x)
                     /\ x \in Int \/ y \in Int => Combine(op, x, y) \in Int
  OBVIOUS
<1>0. None \notin Int /\ x \in Int \cup {None} /\ y \in Int \cup {None} /\ Values = Int \cup {None}
  BY NoneApart DEF Values
<1>1. CASE op = "plus"
  BY <1>0, <1>1, CombineIs
<1>2. CASE op = "maximum"
  <2>1. /\ Combine(op, x, y) = IF x = None THEN y ELSE IF y = None THEN x ELSE IF x > y THEN x ELSE y
        /\ Combine(op, y, x) = IF y = None THEN x ELSE IF x = None THEN y ELSE IF y > x THEN y ELSE x
    BY <1>2, CombineIs
  <2>. QED  BY <1>0, <2>1
<1>3. CASE op = "minimum"
  <2>1. /\ Combine(op, x, y) = IF x = None THEN y ELSE IF y = None THEN x ELSE IF x < y THEN x ELSE y
        /\ Combine(op, y, x) = IF y = None THEN x ELSE IF x = None THEN y ELSE IF y < x THEN y ELSE x
    BY <1>3, CombineIs
  <2>. QED  BY <1>0, <2>1
<1>. QED  BY <1>1, <1>2, <1>3 DEF BinaryOp

LEMMA CombineAssociates ==
  \A op \in BinaryOp : \A x \in Values : \A y \in Values : \A z \in Values :
    Combine(op, Combine(op, x, y), z) = Combine(op, x, Combine(op, y, z))
<1>. SUFFICES ASSUME NEW op \in BinaryOp, NEW x \in Values, NEW y \in Values, NEW z \in Values
              PROVE  Combine(op, Combine(op, x, y), z) = Combine(op, x, Combine(op, y, z))
  OBVIOUS
<1>0. None \notin Int /\ x \in Int \cup {None} /\ y \in Int \cup {None} /\ z \in Int \cup {None}
  BY NoneApart DEF Values
<1>1. PICK a, b : a = Combine(op, x, y) /\ b = Combine(op, y, z)
  OBVIOUS
<1>2. a \in Values /\ b \in Values
  BY <1>1, CombineRules
<1>3. CASE op = "plus"
  BY <1>0, <1>1, <1>2, <1>3, CombineIs
<1>4. CASE op = "maximum"
  BY <1>0, <1>1, <1>2, <1>4, CombineIs
<1>5. CASE op = "minimum"
  BY <1>0, <1>1, <1>2, <1>5, CombineIs
<1>. QED  BY <1>3, <1>4, <1>5 DEF BinaryOp

-----------------------------------------------------------------------------
(* Combining one after the other: h[i] is start and the first i of s. *)

Folded(h, op, start, s, n) ==
  h[0] = start /\ \A i \in 1..n : h[i] = Combine(op, h[i - 1], s[i])

LEMMA FoldedIn ==
  ASSUME NEW op \in BinaryOp, NEW start \in Values, NEW n \in Nat, NEW s, \A i \in 1..n : s[i] \in Values,
         NEW h, Folded(h, op, start, s, n)
  PROVE  \A i \in 0..n : h[i] \in Values
<1>. DEFINE S == {i \in Nat : i <= n => h[i] \in Values}
<1>1. 0 \in S
  BY DEF Folded
<1>2. ASSUME NEW i \in Nat, i \in S PROVE i + 1 \in S
  <2>1. SUFFICES ASSUME i + 1 <= n PROVE h[i + 1] \in Values
    OBVIOUS
  <2>2. PICK j : j = i + 1
    OBVIOUS
  <2>3. j \in 1..n /\ j - 1 = i /\ h[i] \in Values
    BY <1>2, <2>1, <2>2
  <2>4. h[j] = Combine(op, h[i], s[j]) /\ s[j] \in Values
    BY <2>3 DEF Folded
  <2>. QED  BY <2>2, <2>3, <2>4, CombineRules
<1>. HIDE DEF S
<1>3. Nat \subseteq S
  BY <1>1, <1>2, Sums!Induction, Zenon
<1>. USE DEF S
<1>. QED  BY <1>3

Built(h, op, start, s, n) ==
  h = [i \in 0..n |-> IF i = 0 THEN start ELSE Combine(op, h[i - 1], s[i])]

LEMMA FoldedExists ==
  ASSUME NEW op, NEW start, NEW s
  PROVE  \A n \in Nat : \E h : Built(h, op, start, s, n)
<1>. DEFINE F(h, i) == IF i = 0 THEN start ELSE Combine(op, h[i - 1], s[i])
            S == {n \in Nat : \E h : h = [i \in 0..n |-> F(h, i)]}
<1>1. 0 \in S
  <2>1. PICK h : h = [i \in 0..0 |-> start]
    OBVIOUS
  <2>2. h = [i \in 0..0 |-> F(h, i)]
    BY <2>1
  <2>. QED  BY <2>2
<1>2. ASSUME NEW n \in Nat, n \in S PROVE n + 1 \in S
  <2>1. PICK h : h = [i \in 0..n |-> F(h, i)]
    BY <1>2
  <2>2. PICK g : g = [i \in 0..(n + 1) |-> IF i = n + 1 THEN Combine(op, h[n], s[n + 1]) ELSE h[i]]
    OBVIOUS
  <2>3. \A i \in 0..n : g[i] = h[i] /\ h[i] = F(h, i)
    <3>. HIDE DEF F
    <3>1. \A i \in 0..n : g[i] = h[i]
      BY <2>2
    <3>. QED  BY <2>1, <3>1
  <2>4. \A i \in 0..(n + 1) : g[i] = F(g, i)
    <3>1. ASSUME NEW i \in 0..(n + 1) PROVE g[i] = F(g, i)
      <4>1. CASE i = n + 1
        <5>1. i - 1 = n /\ n \in 0..n /\ i # 0
          BY <4>1
        <5>2. g[i] = Combine(op, h[n], s[i])
          BY <2>2, <4>1
        <5>. QED  BY <2>3, <5>1, <5>2
      <4>2. CASE i # n + 1
        <5>1. i \in 0..n /\ (i # 0 => i - 1 \in 0..n)
          BY <4>2
        <5>. QED  BY <2>3, <5>1
      <4>. QED  BY <4>1, <4>2
    <3>. QED  BY <3>1
  <2>5. g = [i \in 0..(n + 1) |-> F(g, i)]
    <3>. HIDE DEF F
    <3>1. g = [i \in 0..(n + 1) |-> g[i]]
      BY <2>2
    <3>. QED  BY <2>4, <3>1
  <2>. QED  BY <2>5
<1>. HIDE DEF S
<1>3. Nat \subseteq S
  BY <1>1, <1>2, Sums!Induction, Zenon
<1>. USE DEF S, Built
<1>. QED  BY <1>3

LEMMA Folding ==
  ASSUME NEW op, NEW start, NEW s, NEW n \in Nat
  PROVE  \E h : Folded(h, op, start, s, n)
<1>1. PICK h : Built(h, op, start, s, n)
  BY FoldedExists
<1>2. \A i \in 0..n : h[i] = IF i = 0 THEN start ELSE Combine(op, h[i - 1], s[i])
  <2>1. PICK g : g = h
    OBVIOUS
  <2>2. h = [i \in 0..n |-> IF i = 0 THEN start ELSE Combine(op, g[i - 1], s[i])]
    BY <1>1, <2>1 DEF Built
  <2>3. \A i \in 0..n : h[i] = IF i = 0 THEN start ELSE Combine(op, g[i - 1], s[i])
    BY <2>2
  <2>. QED  BY <2>1, <2>3
<1>3. h[0] = start
  BY <1>2
<1>4. \A i \in 1..n : h[i] = Combine(op, h[i - 1], s[i])
  BY <1>2
<1>. QED  BY <1>3, <1>4 DEF Folded

(* One more value into one of the terms is one more into the whole. *)
OneMore(op, s, t, j, x, n) ==
  /\ \A i \in 1..n : s[i] \in Values
  /\ t[j] = Combine(op, s[j], x) /\ \A i \in 1..n : i # j => t[i] = s[i]

LEMMA Absorbed ==
  ASSUME NEW op \in BinaryOp, NEW start \in Values, NEW n \in Nat,
         NEW s, NEW t, NEW j \in 1..n, NEW x \in Values, OneMore(op, s, t, j, x, n),
         NEW h, Folded(h, op, start, s, n), NEW g, Folded(g, op, start, t, n)
  PROVE  g[n] = Combine(op, h[n], x)
<1>a. \A i \in 1..n : s[i] \in Values
  BY DEF OneMore
<1>b. t[j] = Combine(op, s[j], x) /\ \A i \in 1..n : i # j => t[i] = s[i]
  BY DEF OneMore
<1>0. \A i \in 0..n : h[i] \in Values
  BY <1>a, FoldedIn
<1>. DEFINE S == {i \in Nat : i <= n => g[i] = IF i < j THEN h[i] ELSE Combine(op, h[i], x)}
<1>1. 0 \in S
  BY DEF Folded
<1>2. ASSUME NEW i \in Nat, i \in S PROVE i + 1 \in S
  <2>1. SUFFICES ASSUME i + 1 <= n PROVE g[i + 1] = IF i + 1 < j THEN h[i + 1] ELSE Combine(op, h[i + 1], x)
    OBVIOUS
  <2>2. PICK k : k = i + 1
    OBVIOUS
  <2>3. k \in 1..n /\ k - 1 = i /\ i \in 0..n /\ g[i] = IF i < j THEN h[i] ELSE Combine(op, h[i], x)
    BY <1>2, <2>1, <2>2
  <2>8. h[k] = Combine(op, h[i], s[k]) /\ g[k] = Combine(op, g[i], t[k])
    BY <2>3 DEF Folded
  <2>4. h[k] = Combine(op, h[i], s[k]) /\ g[k] = Combine(op, g[i], t[k])
        /\ s[k] \in Values /\ h[i] \in Values
    BY <1>0, <1>a, <2>3, <2>8
  <2>5. CASE k < j
    BY <1>b, <2>2, <2>3, <2>4, <2>5
  <2>6. CASE k = j
    <3>1. g[k] = Combine(op, h[i], Combine(op, s[k], x))
      BY <1>b, <2>2, <2>3, <2>4, <2>6
    <3>2. Combine(op, Combine(op, h[i], s[k]), x) = Combine(op, h[i], Combine(op, s[k], x))
      BY <2>4, CombineAssociates
    <3>. QED  BY <2>2, <2>4, <2>6, <3>1, <3>2
  <2>7. CASE k > j
    <3>1. g[k] = Combine(op, Combine(op, h[i], x), s[k])
      BY <1>b, <2>2, <2>3, <2>4, <2>7
    <3>3. PICK a, b : a = h[i] /\ b = s[k]
      OBVIOUS
    <3>4. a \in Values /\ b \in Values
      BY <2>4, <3>3
    <3>5. /\ Combine(op, Combine(op, a, x), b) = Combine(op, a, Combine(op, x, b))
          /\ Combine(op, x, b) = Combine(op, b, x)
          /\ Combine(op, Combine(op, a, b), x) = Combine(op, a, Combine(op, b, x))
      BY <3>4, CombineRules, CombineAssociates
    <3>2. /\ Combine(op, Combine(op, h[i], x), s[k]) = Combine(op, h[i], Combine(op, x, s[k]))
          /\ Combine(op, x, s[k]) = Combine(op, s[k], x)
          /\ Combine(op, Combine(op, h[i], s[k]), x) = Combine(op, h[i], Combine(op, s[k], x))
      BY <3>3, <3>5
    <3>. QED  BY <2>2, <2>4, <2>7, <3>1, <3>2
  <2>. QED  BY <2>2, <2>3, <2>5, <2>6, <2>7
<1>. HIDE DEF S
<1>3. Nat \subseteq S
  BY <1>1, <1>2, Sums!Induction, Zenon
<1>. USE DEF S
<1>4. n \in S
  BY <1>3
<1>. QED  BY <1>4

(* A value may move from one of the terms into another. *)
LEMMA Moved ==
  ASSUME NEW op \in BinaryOp, NEW start \in Values, NEW n \in Nat,
         NEW s, \A i \in 1..n : s[i] \in Values, NEW t, NEW a \in 1..n, NEW b \in 1..n, a # b,
         t[a] = Combine(op, s[a], s[b]), t[b] = None, \A i \in 1..n : i # a /\ i # b => t[i] = s[i],
         NEW h, Folded(h, op, start, s, n), NEW g, Folded(g, op, start, t, n)
  PROVE  g[n] = h[n]
<1>1. None \in Values
  BY DEF Values
<1>2. PICK u : u = [i \in 1..n |-> IF i = b THEN None ELSE s[i]]
  OBVIOUS
<1>3. \A i \in 1..n : u[i] = IF i = b THEN None ELSE s[i]
  BY <1>2
<1>4. \A i \in 1..n : u[i] \in Values
  BY <1>1, <1>3
<1>5. PICK w : Folded(w, op, start, u, n)
  BY Folding
<1>6. PICK x : x = s[b]
  OBVIOUS
<1>7. x \in Values
  BY <1>6
<1>8. h[n] = Combine(op, w[n], x)
  <2>1. s[b] = Combine(op, u[b], x)
    BY <1>3, <1>6, CombineNone
  <2>2. \A i \in 1..n : i # b => s[i] = u[i]
    BY <1>3
  <2>3. OneMore(op, u, s, b, x, n)
    BY <1>4, <2>1, <2>2 DEF OneMore
  <2>. QED  BY <1>5, <1>7, <2>3, Absorbed
<1>9. g[n] = Combine(op, w[n], x)
  <2>1. t[a] = Combine(op, u[a], x) /\ u[b] = t[b]
    BY <1>3, <1>6
  <2>2. \A i \in 1..n : i # a => t[i] = u[i]
    BY <1>3, <2>1
  <2>3. OneMore(op, u, t, a, x, n)
    BY <1>4, <2>1, <2>2 DEF OneMore
  <2>. QED  BY <1>5, <1>7, <2>3, Absorbed
<1>. QED  BY <1>8, <1>9

-----------------------------------------------------------------------------
(* What a loop returns *)

Transformed(f, data) == [i \in 1..Len(data) |-> Transform(f, data[i])]

LEMMA TransformedIn ==
  ASSUME NEW f, NEW data \in Seq(Int)
  PROVE  /\ Transformed(f, data) \in Seq(Int) /\ Len(Transformed(f, data)) = Len(data)
         /\ \A i \in 1..Len(data) : /\ Transformed(f, data)[i] = Transform(f, data[i])
                                    /\ Transform(f, data[i]) \in Int
<1>1. \A i \in 1..Len(data) : Transform(f, data[i]) \in Int
  <2>1. ASSUME NEW x \in Int PROVE Transform(f, x) \in Int
    BY DEF Transform
  <2>. QED  BY <2>1
<1>2. PICK s : s = [i \in 1..Len(data) |-> Transform(f, data[i])]
  OBVIOUS
<1>3. s \in Seq(Int) /\ Len(s) = Len(data) /\ \A i \in 1..Len(data) : s[i] = Transform(f, data[i])
  BY <1>1, <1>2
<1>. QED  BY <1>1, <1>2, <1>3 DEF Transformed

LEMMA LoopIs ==
  ASSUME NEW f, NEW op, NEW start, NEW data, Len(data) \in Nat
  PROVE  \E h : Folded(h, op, start, Transformed(f, data), Len(data)) /\ Loop(f, op, start, data) = h[Len(data)]
<1>. DEFINE n == Len(data)
            s == Transformed(f, data)
            Body(g) == [i \in 0..Len(data) |->
                          IF i = 0 THEN start ELSE Combine(op, g[i - 1], Transform(f, data[i]))]
            v == CHOOSE g : g = [i \in 0..Len(data) |->
                          IF i = 0 THEN start ELSE Combine(op, g[i - 1], Transform(f, data[i]))]
<1>1. Loop(f, op, start, data) = v[Len(data)]
  BY Zenon DEF Loop
<1>2. ASSUME NEW g, Built(g, op, start, s, n) PROVE g = Body(g)
  <2>1. \A i \in 1..n : s[i] = Transform(f, data[i])
    BY DEF Transformed
  <2>2. PICK k : k = g
    OBVIOUS
  <2>. HIDE DEF s
  <2>3. g = [i \in 0..n |-> IF i = 0 THEN start ELSE Combine(op, k[i - 1], s[i])]
    BY <1>2, <2>2 DEF Built
  <2>4. \A i \in 0..n : (IF i = 0 THEN start ELSE Combine(op, k[i - 1], s[i]))
                        = (IF i = 0 THEN start ELSE Combine(op, k[i - 1], Transform(f, data[i])))
    BY <2>1
  <2>5. g = [i \in 0..n |-> IF i = 0 THEN start ELSE Combine(op, k[i - 1], Transform(f, data[i]))]
    BY <2>3, <2>4
  <2>. QED  BY <2>2, <2>5
<1>3. \E g : g = Body(g)
  <2>1. PICK g : Built(g, op, start, s, n)
    BY FoldedExists
  <2>. HIDE DEF Body, s
  <2>. QED  BY <1>2, <2>1
<1>4. v = Body(v)
  BY <1>3, Zenon
<1>. HIDE DEF v
<1>5. Folded(v, op, start, s, n)
  <2>1. \A i \in 1..n : s[i] = Transform(f, data[i])
    BY DEF Transformed
  <2>2. PICK k : k = v
    OBVIOUS
  <2>3. v = [i \in 0..n |-> IF i = 0 THEN start ELSE Combine(op, k[i - 1], Transform(f, data[i]))]
    BY <1>4, <2>2
  <2>4. \A i \in 0..n : v[i] = IF i = 0 THEN start ELSE Combine(op, k[i - 1], Transform(f, data[i]))
    BY <2>3
  <2>5. v[0] = start
    BY <2>4
  <2>. HIDE DEF s
  <2>6. \A i \in 1..n : v[i] = Combine(op, v[i - 1], s[i])
    BY <2>1, <2>2, <2>4
  <2>. QED  BY <2>5, <2>6 DEF Folded
<1>. QED  BY <1>1, <1>5

LEMMA FoldedPlus ==
  ASSUME NEW start \in Int, NEW s \in Seq(Int), NEW h, Folded(h, "plus", start, s, Len(s))
  PROVE  h[Len(s)] = start + Total(s)
<1>1. \A i \in 0..Len(s) : h[i] \in Int
  <2>. DEFINE S == {i \in Nat : i <= Len(s) => h[i] \in Int}
  <2>1. 0 \in S
    BY DEF Folded
  <2>2. ASSUME NEW i \in Nat, i \in S PROVE i + 1 \in S
    <3>1. SUFFICES ASSUME i + 1 <= Len(s) PROVE h[i + 1] \in Int
      OBVIOUS
    <3>2. PICK j : j = i + 1
      OBVIOUS
    <3>3. j \in 1..Len(s) /\ j - 1 = i /\ h[i] \in Int /\ s[j] \in Int
      BY <2>2, <3>1, <3>2
    <3>4. h[j] = Combine("plus", h[i], s[j])
      BY <3>3 DEF Folded
    <3>5. h[i] \in Values /\ s[j] \in Values /\ h[i] # None /\ s[j] # None
      BY <3>3, NoneApart DEF Values
    <3>6. h[j] = h[i] + s[j]
      BY <3>4, <3>5, CombineIs
    <3>. QED  BY <3>2, <3>3, <3>6
  <2>. HIDE DEF S
  <2>3. Nat \subseteq S
    BY <2>1, <2>2, Sums!Induction, Zenon
  <2>. USE DEF S
  <2>. QED  BY <2>3
<1>2. PICK p : p = [i \in 0..Len(s) |-> h[i] - start]
  OBVIOUS
<1>3. Partial(p, s)
  <2>1. p[0] = 0
    BY <1>2 DEF Folded
  <2>2. ASSUME NEW i \in 1..Len(s) PROVE p[i] = p[i - 1] + s[i]
    <3>1. h[i] = Combine("plus", h[i - 1], s[i])
      BY DEF Folded
    <3>2. i - 1 \in 0..Len(s) /\ i \in 0..Len(s)
      OBVIOUS
    <3>3. h[i] \in Int /\ h[i - 1] \in Int /\ s[i] \in Int
      BY <1>1, <3>2
    <3>4. h[i] = h[i - 1] + s[i]
      BY <3>1, <3>3, CombineIs, NoneApart DEF Values
    <3>5. p[i] = h[i] - start /\ p[i - 1] = h[i - 1] - start
      BY <1>2, <3>2
    <3>. QED  BY <3>3, <3>4, <3>5
  <2>. QED  BY <2>1, <2>2 DEF Partial
<1>4. Total(s) = p[Len(s)]
  BY <1>3, TotalIs
<1>. QED  BY <1>1, <1>2, <1>4

Beats(op, x, y) == IF op = "maximum" THEN x >= y ELSE x <= y

LEMMA Extreme ==
  ASSUME NEW op \in {"maximum", "minimum"}, NEW start \in Values, NEW n \in Nat,
         NEW s, \A i \in 1..n : s[i] \in Int, NEW h, Folded(h, op, start, s, n), n > 0 \/ start \in Int
  PROVE  /\ h[n] \in Int
         /\ h[n] = start \/ \E j \in 1..n : h[n] = s[j]
         /\ start \in Int => Beats(op, h[n], start)
         /\ \A j \in 1..n : Beats(op, h[n], s[j])
<1>. DEFINE Holds(i) ==
              /\ h[i] = start \/ \E j \in 1..i : h[i] = s[j]
              /\ start \in Int => Beats(op, h[i], start)
              /\ \A j \in 1..i : Beats(op, h[i], s[j])
              /\ i > 0 \/ start \in Int => h[i] \in Int
              /\ h[i] \in Values
            S == {i \in Nat : i <= n => Holds(i)}
<1>0. op = "maximum" \/ op = "minimum"
  OBVIOUS
<1>1. 0 \in S
  <2>1. Holds(0)
    BY DEF Folded, Beats, Values
  <2>. QED  BY <2>1
<1>2. ASSUME NEW i \in Nat, i \in S PROVE i + 1 \in S
  <2>1. SUFFICES ASSUME i + 1 <= n PROVE Holds(i + 1)
    OBVIOUS
  <2>2. PICK k : k = i + 1
    OBVIOUS
  <2>3. k \in 1..n /\ k - 1 = i /\ Holds(i) /\ s[k] \in Int /\ k > 0
    <3>. HIDE DEF Holds
    <3>. QED  BY <1>2, <2>1, <2>2
  <2>4. h[k] = Combine(op, h[i], s[k])
    BY <2>3 DEF Folded
  <2>5. PICK x, y : x = h[i] /\ y = s[k]
    OBVIOUS
  <2>6. x \in Values /\ y \in Int /\ y \in Values /\ None \notin Int
    BY <2>3, <2>5, NoneApart DEF Values
  <2>7. /\ h[k] \in Int
        /\ h[k] = x \/ h[k] = y
        /\ x \in Int => Beats(op, h[k], x)
        /\ Beats(op, h[k], y)
    <3>1. CASE op = "maximum"
      <4>1. h[k] = IF x = None THEN y ELSE IF y = None THEN x ELSE IF x > y THEN x ELSE y
        BY <2>4, <2>5, <2>6, <3>1, CombineIs
      <4>. QED  BY <2>6, <3>1, <4>1 DEF Beats, Values
    <3>2. CASE op = "minimum"
      <4>1. h[k] = IF x = None THEN y ELSE IF y = None THEN x ELSE IF x < y THEN x ELSE y
        BY <2>4, <2>5, <2>6, <3>2, CombineIs
      <4>. QED  BY <2>6, <3>2, <4>1 DEF Beats, Values
    <3>. QED  BY <1>0, <3>1, <3>2
  <2>8. \A a, b, c \in Int : Beats(op, a, b) /\ Beats(op, b, c) => Beats(op, a, c)
    BY DEF Beats
  <2>9. h[k] = start \/ \E j \in 1..k : h[k] = s[j]
    <3>1. 1..i \subseteq 1..k /\ k \in 1..k
      BY <2>2
    <3>. QED  BY <2>3, <2>5, <2>7, <3>1
  <2>10. start \in Int => Beats(op, h[k], start)
    BY <2>3, <2>5, <2>6, <2>7, <2>8 DEF Values
  <2>11. ASSUME NEW j \in 1..k PROVE Beats(op, h[k], s[j])
    <3>1. CASE j = k
      BY <2>5, <2>7, <3>1
    <3>2. CASE j # k
      <4>1. j \in 1..i /\ i > 0 /\ s[j] \in Int
        BY <2>1, <2>2, <3>2
      <4>2. x \in Int /\ Beats(op, x, s[j])
        BY <2>3, <2>5, <4>1
      <4>. QED  BY <2>7, <2>8, <4>1, <4>2
    <3>. QED  BY <3>1, <3>2
  <2>12. Holds(k)
    BY <2>7, <2>9, <2>10, <2>11 DEF Values
  <2>. HIDE DEF Holds
  <2>. QED  BY <2>2, <2>12
<1>. HIDE DEF S
<1>3. Nat \subseteq S
  BY <1>1, <1>2, Sums!Induction, Zenon
<1>4. Holds(n)
  <2>. HIDE DEF Holds
  <2>. USE DEF S
  <2>. QED  BY <1>3
<1>. QED  BY <1>4

(* The operation fits the function, and there are elements where it needs  *)
(* one.                                                                    *)
Applicable(f, op, data) ==
  /\ f \in Function /\ op \in BinaryOp
  /\ f \in {"sum", "sum_squares"} => op = "plus"
  /\ f \in {"max", "norm_linf"} => op = "maximum"
  /\ f = "min" => op = "minimum"
  /\ f \in {"max", "min", "norm_linf"} => Len(data) > 0

(* The values the result may start from. *)
StartsRight(f, init, data, start) ==
  /\ f \in {"sum", "sum_squares"} => start = 0
  /\ f \in {"max", "norm_linf"} => start = None \/ (start = 0 /\ \E i \in DOMAIN data : data[i] >= 0)
  /\ f = "min" => start = None \/ start = data[1]
  /\ f \in {"reduce", "transform_reduce"} => start = init

LEMMA ExtremeIs ==
  ASSUME NEW op \in {"maximum", "minimum"}, NEW f, NEW init, NEW data \in Seq(Int), NEW x \in Int,
         f \in {"reduce", "transform_reduce"} => init \in Int /\ Beats(op, x, init),
         \/ \E i \in 1..Len(data) : x = Transform(f, data[i])
         \/ f \in {"reduce", "transform_reduce"} /\ x = init,
         \A i \in 1..Len(data) : Beats(op, x, Transform(f, data[i]))
  PROVE  Reduced(f, op, init, data) = x
<1>. DEFINE given == f \in {"reduce", "transform_reduce"}
            V == {Transform(f, data[i]) : i \in DOMAIN data} \cup (IF given THEN {init} ELSE {})
<1>1. \A i \in 1..Len(data) : Transform(f, data[i]) \in Int
  BY TransformedIn
<1>2. DOMAIN data = 1..Len(data)
  OBVIOUS
<1>3. x \in V /\ \A y \in V : y \in Int /\ Beats(op, x, y)
  BY <1>1, <1>2
<1>4. CASE op = "maximum"
  <2>1. Reduced(f, op, init, data) = CHOOSE z \in V : \A y \in V : z >= y
    BY <1>4 DEF Reduced
  <2>. HIDE DEF V
  <2>2. \A y \in V : x >= y
    BY <1>3, <1>4 DEF Beats
  <2>3. \A z \in V : (\A y \in V : z >= y) => z = x
    BY <1>3, <2>2
  <2>. QED  BY <1>3, <2>1, <2>2, <2>3
<1>5. CASE op = "minimum"
  <2>1. Reduced(f, op, init, data) = CHOOSE z \in V : \A y \in V : z <= y
    BY <1>5 DEF Reduced
  <2>. HIDE DEF V
  <2>2. \A y \in V : x <= y
    BY <1>3, <1>5 DEF Beats
  <2>3. \A z \in V : (\A y \in V : z <= y) => z = x
    BY <1>3, <2>2
  <2>. QED  BY <1>3, <2>1, <2>2, <2>3
<1>. QED  BY <1>4, <1>5

LEMMA WantIs ==
  ASSUME NEW f, NEW op, NEW init \in Int, NEW data \in Seq(Int), NEW start,
         Applicable(f, op, data), StartsRight(f, init, data, start),
         NEW h, Folded(h, op, start, Transformed(f, data), Len(data))
  PROVE  h[Len(data)] = Reduced(f, op, init, data)
<1>. DEFINE n == Len(data)
            s == Transformed(f, data)
            given == f \in {"reduce", "transform_reduce"}
<1>0. /\ s \in Seq(Int) /\ Len(s) = n /\ n \in Nat /\ DOMAIN data = 1..n
      /\ \A i \in 1..n : s[i] = Transform(f, data[i]) /\ s[i] \in Int
  BY TransformedIn
<1>1. start \in Values
  BY DEF Applicable, StartsRight, Values, Function
<1>2. CASE op = "plus"
  <2>1. start = (IF given THEN init ELSE 0)
    BY <1>2 DEF Applicable, StartsRight, Function
  <2>2. start \in Int
    BY <2>1
  <2>3. h[n] = start + Total(s)
    BY <1>0, <1>2, <2>2, FoldedPlus
  <2>4. Reduced(f, op, init, data) = (IF given THEN init ELSE 0) + Total([i \in DOMAIN data |-> Transform(f, data[i])])
    BY <1>2 DEF Reduced
  <2>5. s = [i \in DOMAIN data |-> Transform(f, data[i])]
    BY <1>0 DEF Transformed
  <2>. QED  BY <2>1, <2>3, <2>4, <2>5
<1>3. CASE op \in {"maximum", "minimum"}
  <2>1. /\ given => start = init
        /\ ~ given => n > 0
        /\ ~ given => \/ start = None
                      \/ op = "maximum" /\ start = 0 /\ \E i \in 1..n : data[i] >= 0 /\ s[i] = data[i]
                      \/ start \in Int /\ start = s[1]
    <3>1. CASE f \in {"max", "norm_linf"}
      BY <1>0, <3>1 DEF Applicable, StartsRight, Transform
    <3>2. CASE f = "min"
      BY <1>0, <3>2 DEF Applicable, StartsRight, Transform
    <3>. QED  BY <1>3, <3>1, <3>2 DEF Applicable, StartsRight, Function
  <2>. HIDE DEF s, n
  <2>2. /\ h[n] \in Int
        /\ h[n] = start \/ \E j \in 1..n : h[n] = s[j]
        /\ start \in Int => Beats(op, h[n], start)
        /\ \A j \in 1..n : Beats(op, h[n], s[j])
    <3>1. n > 0 \/ start \in Int
      BY <2>1
    <3>2. Folded(h, op, start, s, n)
      BY DEF s, n
    <3>3. n \in Nat /\ \A i \in 1..n : s[i] \in Int
      BY <1>0 DEF s, n
    <3>4. PICK m, t : m = n /\ t = s
      OBVIOUS
    <3>5. m \in Nat /\ (\A i \in 1..m : t[i] \in Int) /\ (m > 0 \/ start \in Int) /\ Folded(h, op, start, t, m)
      BY <3>1, <3>2, <3>3, <3>4
    <3>6. /\ h[m] \in Int
          /\ h[m] = start \/ \E j \in 1..m : h[m] = t[j]
          /\ start \in Int => Beats(op, h[m], start)
          /\ \A j \in 1..m : Beats(op, h[m], t[j])
      BY <1>1, <1>3, <3>5, Extreme
    <3>. QED  BY <3>4, <3>6
  <2>3. \/ \E j \in 1..n : h[n] = s[j]
        \/ given /\ h[n] = init
    <3>1. CASE given
      BY <2>1, <2>2, <3>1
    <3>2. CASE ~ given /\ h[n] = start
      <4>1. start \in Int /\ start # None
        BY <2>2, <3>2, NoneApart
      <4>2. CASE op = "maximum" /\ start = 0 /\ \E i \in 1..n : data[i] >= 0 /\ s[i] = data[i]
        <5>1. PICK i \in 1..n : data[i] >= 0 /\ s[i] = data[i]
          BY <4>2
        <5>2. s[i] \in Int /\ Beats("maximum", h[n], s[i])
          BY <1>0, <2>2, <4>2
        <5>3. h[n] >= s[i] /\ s[i] >= 0 /\ h[n] = 0
          BY <3>2, <4>2, <5>1, <5>2 DEF Beats
        <5>. QED  BY <5>2, <5>3
      <4>3. CASE start = s[1]
        <5>1. 1 \in 1..n
          BY <1>0, <2>1, <3>2
        <5>. QED  BY <3>2, <4>3, <5>1
      <4>. QED  BY <2>1, <3>2, <4>1, <4>2, <4>3
    <3>. QED  BY <2>2, <3>1, <3>2
  <2>4. given => Beats(op, h[n], init)
    BY <2>1, <2>2
  <2>5. /\ \/ \E i \in 1..n : h[n] = Transform(f, data[i])
           \/ given /\ h[n] = init
        /\ \A i \in 1..n : Beats(op, h[n], Transform(f, data[i]))
    BY <1>0, <2>2, <2>3
  <2>6. PICK x : x = h[n]
    OBVIOUS
  <2>7. Reduced(f, op, init, data) = x
    BY <1>3, <2>2, <2>4, <2>5, <2>6, ExtremeIs DEF n
  <2>. QED  BY <2>6, <2>7 DEF n
<1>. QED  BY <1>2, <1>3 DEF Applicable, BinaryOp

(* The loops of the host return what was asked for. *)
LEMMA HostIsRight ==
  ASSUME NEW f, NEW op, NEW init \in Int, NEW data \in Seq(Int), Applicable(f, op, data)
  PROVE  HostReduce(f, op, init, data) = Reduced(f, op, init, data)
<1>0. Len(data) \in Nat
  OBVIOUS
<1>1. CASE f \in {"sum", "sum_squares"}
  <2>1. HostReduce(f, op, init, data) = Loop(f, op, 0, data)
    BY <1>1 DEF HostReduce
  <2>2. StartsRight(f, init, data, 0)
    BY <1>1 DEF StartsRight
  <2>. QED  BY <1>0, <2>1, <2>2, LoopIs, WantIs
<1>2. CASE f = "min"
  <2>1. HostReduce(f, op, init, data) = Loop(f, op, data[1], data)
    BY <1>2 DEF HostReduce
  <2>2. StartsRight(f, init, data, data[1])
    BY <1>2 DEF StartsRight
  <2>. QED  BY <1>0, <2>1, <2>2, LoopIs, WantIs
<1>3. CASE f \in {"reduce", "transform_reduce"}
  <2>1. HostReduce(f, op, init, data) = Loop(f, op, init, data)
    BY <1>3 DEF HostReduce
  <2>2. StartsRight(f, init, data, init)
    BY <1>3 DEF StartsRight
  <2>. QED  BY <1>0, <2>1, <2>2, LoopIs, WantIs
<1>4. CASE f \in {"max", "norm_linf"}
  <2>1. HostReduce(f, op, init, data) = Loop(f, op, data[1], Tail(data))
    BY <1>4 DEF HostReduce
  <2>2. PICK n, rest : n = Len(data) /\ rest = Tail(data)
    OBVIOUS
  <2>3. /\ n \in Nat /\ n > 0 /\ Len(rest) = n - 1 /\ n - 1 \in Nat
        /\ \A i \in 1..(n - 1) : rest[i] = data[i + 1]
    BY <1>4, <2>2 DEF Applicable
  <2>4. PICK h : Folded(h, op, data[1], Transformed(f, rest), n - 1) /\ Loop(f, op, data[1], rest) = h[n - 1]
    <3>1. PICK d : d = data[1]
      OBVIOUS
    <3>2. \E h : Folded(h, op, d, Transformed(f, rest), Len(rest)) /\ Loop(f, op, d, rest) = h[Len(rest)]
      BY <2>3, LoopIs
    <3>. QED  BY <2>3, <3>1, <3>2
  <2>5. PICK g : g = [i \in 0..n |-> IF i = 0 THEN None ELSE h[i - 1]]
    OBVIOUS
  <2>6. g[0] = None /\ \A i \in 1..n : g[i] = h[i - 1]
    BY <2>3, <2>5
  <2>7. \A i \in 1..n : Transformed(f, data)[i] = data[i]
    BY <1>4, <2>2 DEF Transformed, Transform
  <2>8. \A i \in 1..(n - 1) : Transformed(f, rest)[i] = data[i + 1]
    BY <1>4, <2>3 DEF Transformed, Transform
  <2>9. Folded(g, op, None, Transformed(f, data), n)
    <3>1. ASSUME NEW i \in 1..n PROVE g[i] = Combine(op, g[i - 1], Transformed(f, data)[i])
      <4>1. CASE i = 1
        <5>1. g[i] = data[1] /\ g[i - 1] = None
          BY <2>4, <2>6, <4>1 DEF Folded
        <5>. QED  BY <2>7, <4>1, <5>1, CombineNone
      <4>2. CASE i # 1
        <5>1. PICK k : k = i - 1
          OBVIOUS
        <5>2. k \in 1..(n - 1) /\ k \in 1..n /\ k + 1 = i
          BY <2>3, <4>2, <5>1
        <5>3. h[k] = Combine(op, h[k - 1], data[i])
          BY <2>4, <2>8, <5>2 DEF Folded
        <5>. QED  BY <2>6, <2>7, <5>1, <5>2, <5>3
      <4>. QED  BY <4>1, <4>2
    <3>. QED  BY <2>6, <3>1 DEF Folded
  <2>10. StartsRight(f, init, data, None)
    BY <1>4 DEF StartsRight
  <2>11. g[n] = Reduced(f, op, init, data)
    BY <2>2, <2>9, <2>10, WantIs
  <2>. QED  BY <2>1, <2>2, <2>3, <2>4, <2>6, <2>11
<1>. QED  BY <1>1, <1>2, <1>3, <1>4 DEF Applicable, Function

-----------------------------------------------------------------------------
(* What is left of a reduction: the terms that still have to be combined,  *)
(* in whatever order, make the value wanted.                               *)

Settled(op, s, n, want) ==
  \A h : Folded(h, op, None, s, n) => h[n] = want

LEMMA SettledMoves ==
  ASSUME NEW op \in BinaryOp, NEW n \in Nat, NEW want,
         NEW s, \A i \in 1..n : s[i] \in Values, NEW t, NEW a \in 1..n, NEW b \in 1..n, a # b,
         t[a] = Combine(op, s[a], s[b]), t[b] = None, \A i \in 1..n : i # a /\ i # b => t[i] = s[i],
         Settled(op, s, n, want)
  PROVE  Settled(op, t, n, want)
<1>1. SUFFICES ASSUME NEW g, Folded(g, op, None, t, n) PROVE g[n] = want
  BY DEF Settled
<1>2. PICK h : Folded(h, op, None, s, n)
  BY Folding
<1>3. None \in Values
  BY DEF Values
<1>4. g[n] = h[n]
  BY <1>1, <1>2, <1>3, Moved
<1>. QED  BY <1>2, <1>4 DEF Settled

(* Terms that change nothing.                                              *)
Neutral(op, s, l) == \A k \in 2..l : Combine(op, s[1], s[k]) = s[1]

LEMMA FoldedOver ==
  \A op : \A n \in Nat : \A s : \A h : \A l \in 1..n :
    Folded(h, op, None, s, n) /\ Neutral(op, s, l) => \A k \in 1..l : h[k] = s[1]
<1>. SUFFICES ASSUME NEW op, NEW n \in Nat, NEW s, NEW h, NEW l \in 1..n, Folded(h, op, None, s, n),
                     \A k \in 2..l : Combine(op, s[1], s[k]) = s[1]
              PROVE  \A k \in 1..l : h[k] = s[1]
  BY DEF Neutral
<1>0. h[1] = s[1]
  <2>1. 1 \in 1..n /\ 1 - 1 = 0
    OBVIOUS
  <2>2. h[1] = Combine(op, h[1 - 1], s[1]) /\ h[0] = None
    BY <2>1 DEF Folded
  <2>. QED  BY <2>1, <2>2, CombineNone
<1>. DEFINE S == {i \in Nat : i + 1 <= l => h[i + 1] = s[1]}
<1>1. 0 \in S
  BY <1>0
<1>2. ASSUME NEW i \in Nat, i \in S PROVE i + 1 \in S
  <2>1. SUFFICES ASSUME i + 1 + 1 <= l PROVE h[i + 1 + 1] = s[1]
    OBVIOUS
  <2>2. PICK k : k = i + 1 + 1
    OBVIOUS
  <2>3. k \in 1..n /\ k \in 2..l /\ k - 1 = i + 1 /\ h[i + 1] = s[1]
    BY <1>2, <2>1, <2>2
  <2>4. h[k] = Combine(op, h[k - 1], s[k])
    BY <2>3 DEF Folded
  <2>. QED  BY <2>2, <2>3, <2>4
<1>. HIDE DEF S
<1>3. Nat \subseteq S
  BY <1>1, <1>2, Sums!Induction, Zenon
<1>. USE DEF S
<1>4. SUFFICES ASSUME NEW k \in 1..l PROVE h[k] = s[1]
  OBVIOUS
<1>5. PICK i : i = k - 1
  OBVIOUS
<1>6. i \in Nat /\ i + 1 <= l /\ i + 1 = k
  BY <1>5
<1>. QED  BY <1>3, <1>6

LEMMA SettledEnds ==
  ASSUME NEW op, NEW m \in Nat, NEW s, NEW want, Settled(op, s, m + 1, want),
         \A k \in 2..(m + 1) : s[k] = None
  PROVE  s[1] = want
<1>1. PICK n : n = m + 1
  OBVIOUS
<1>2. n \in Nat /\ n \in 1..(m + 1) /\ m + 1 <= n
  BY <1>1
<1>3. PICK h : Folded(h, op, None, s, n)
  BY <1>2, Folding
<1>4. \A k \in 2..(m + 1) : Combine(op, s[1], s[k]) = s[1]
  BY CombineNone
<1>5. n \in 1..n /\ Neutral(op, s, n)
  BY <1>1, <1>2, <1>4 DEF Neutral
<1>6. h[n] = s[1]
  <2>1. \A k \in 1..n : h[k] = s[1]
    BY <1>2, <1>3, <1>5, FoldedOver
  <2>. QED  BY <1>5, <2>1
<1>7. h[n] = want
  BY <1>1, <1>3 DEF Settled
<1>. QED  BY <1>6, <1>7

LEMMA SettledStarts ==
  ASSUME NEW f, NEW op, NEW init \in Int, NEW data \in Seq(Int), NEW s, Applicable(f, op, data),
         StartsRight(f, init, data, s[1]), NEW m \in Nat, Neutral(op, s, m + 1),
         \A i \in 1..Len(data) : s[m + 1 + i] = Transform(f, data[i])
  PROVE  Settled(op, s, m + 1 + Len(data), Reduced(f, op, init, data))
<1>0. PICK n : n = Len(data)
  OBVIOUS
<1>1. n \in Nat /\ m + 1 + n \in Nat /\ m + 1 <= m + 1 + n
  BY <1>0
<1>2. SUFFICES ASSUME NEW h, Folded(h, op, None, s, m + 1 + n) PROVE h[m + 1 + n] = Reduced(f, op, init, data)
  BY <1>0 DEF Settled
<1>3. \A k \in 1..(m + 1) : h[k] = s[1]
  <2>1. PICK l, p : l = m + 1 + n /\ p = m + 1
    OBVIOUS
  <2>2. l \in Nat /\ p \in 1..l /\ Folded(h, op, None, s, l) /\ Neutral(op, s, p)
    BY <1>1, <1>2, <2>1
  <2>3. \A k \in 1..p : h[k] = s[1]
    BY <2>2, FoldedOver
  <2>. QED  BY <2>1, <2>3
<1>4. h[m + 1] = s[1]
  BY <1>3
<1>5. PICK g : g = [i \in 0..n |-> h[m + 1 + i]]
  OBVIOUS
<1>6. \A i \in 0..n : g[i] = h[m + 1 + i]
  BY <1>5
<1>7. g[0] = s[1]
  BY <1>1, <1>4, <1>6
<1>8. ASSUME NEW i \in 1..n PROVE g[i] = Combine(op, g[i - 1], Transformed(f, data)[i])
  <2>1. PICK j, k : j = i - 1 /\ k = m + 1 + i
    OBVIOUS
  <2>2. j \in 0..n /\ i \in 0..n /\ k \in 1..(m + 1 + n) /\ k - 1 = m + 1 + j
    BY <1>1, <2>1
  <2>3. h[k] = Combine(op, h[k - 1], s[k])
    BY <1>2, <2>2 DEF Folded
  <2>4. s[k] = Transformed(f, data)[i]
    BY <1>0, <2>1 DEF Transformed
  <2>. QED  BY <1>6, <2>1, <2>2, <2>3, <2>4
<1>9. Folded(g, op, s[1], Transformed(f, data), n)
  BY <1>7, <1>8 DEF Folded
<1>10. g[n] = Reduced(f, op, init, data)
  BY <1>0, <1>9, WantIs
<1>. QED  BY <1>1, <1>6, <1>10

-----------------------------------------------------------------------------
(* The terms of a reduction: the result so far, what the groups hold and   *)
(* the items nobody has taken.                                             *)

Lists(s) ==
  /\ s \in Seq(Groups)
  /\ \A g \in Groups : \E k \in 1..Len(s) : s[k] = g
  /\ \A j, k \in 1..Len(s) : s[j] = s[k] => j = k

GroupList == CHOOSE s : Lists(s)

LEMMA GroupsListed == Lists(GroupList)
<1>1. IsFiniteSet(Groups)
  BY ConstantsAssumption DEF ConstantsAssumption
<1>2. PICK n \in Nat : ExistsBijection(1..n, Groups)
  BY <1>1, FS_NatBijection
<1>3. PICK e \in Bijection(1..n, Groups) : TRUE
  BY <1>2 DEF ExistsBijection
<1>4. /\ e \in [1..n -> Groups]
      /\ \A g \in Groups : \E k \in 1..n : e[k] = g
      /\ \A j, k \in 1..n : e[j] = e[k] => j = k
  BY <1>3 DEF Bijection, Injection, Surjection, IsInjective
<1>5. e \in Seq(Groups) /\ Len(e) = n
  BY <1>4
<1>6. Lists(e)
  BY <1>4, <1>5 DEF Lists
<1>. QED  BY <1>6 DEF GroupList

Terms(r, p, left, f, data) ==
  [k \in 1..(Len(GroupList) + 1 + Len(data)) |->
     IF k = 1 THEN r
     ELSE IF k <= Len(GroupList) + 1 THEN p[GroupList[k - 1]]
     ELSE IF k - (Len(GroupList) + 1) \in left THEN Transform(f, data[k - (Len(GroupList) + 1)])
     ELSE None]

Balanced(op, r, p, left, f, data, want) ==
  Settled(op, Terms(r, p, left, f, data), Len(GroupList) + 1 + Len(data), want)

LEMMA TermsAre ==
  ASSUME NEW r, NEW p, NEW left, NEW f, NEW data \in Seq(Int)
  PROVE  LET m == Len(GroupList)
             s == Terms(r, p, left, f, data)
         IN  /\ m \in Nat
             /\ s[1] = r
             /\ \A k \in 1..m : GroupList[k] \in Groups /\ s[k + 1] = p[GroupList[k]]
             /\ \A i \in 1..Len(data) : s[m + 1 + i] = IF i \in left THEN Transform(f, data[i]) ELSE None
<1>. DEFINE m == Len(GroupList)
            s == Terms(r, p, left, f, data)
<1>1. m \in Nat /\ \A k \in 1..m : GroupList[k] \in Groups
  BY GroupsListed DEF Lists
<1>2. \A k \in 1..(m + 1 + Len(data)) :
        s[k] = IF k = 1 THEN r
               ELSE IF k <= m + 1 THEN p[GroupList[k - 1]]
               ELSE IF k - (m + 1) \in left THEN Transform(f, data[k - (m + 1)])
               ELSE None
  BY DEF Terms
<1>3. Len(data) \in Nat
  OBVIOUS
<1>. HIDE DEF m, s
<1>4. s[1] = r
  BY <1>1, <1>2, <1>3
<1>5. ASSUME NEW k \in 1..m PROVE s[k + 1] = p[GroupList[k]]
  <2>1. PICK j : j = k + 1
    OBVIOUS
  <2>2. j \in 1..(m + 1 + Len(data)) /\ j # 1 /\ j <= m + 1 /\ j - 1 = k
    BY <1>1, <1>3, <2>1
  <2>. QED  BY <1>2, <2>1, <2>2
<1>6. ASSUME NEW i \in 1..Len(data) PROVE s[m + 1 + i] = IF i \in left THEN Transform(f, data[i]) ELSE None
  <2>1. PICK j : j = m + 1 + i
    OBVIOUS
  <2>2. j \in 1..(m + 1 + Len(data)) /\ j # 1 /\ ~ (j <= m + 1) /\ j - (m + 1) = i
    BY <1>1, <1>3, <2>1
  <2>3. s[j] = IF j - (m + 1) \in left THEN Transform(f, data[j - (m + 1)]) ELSE None
    BY <1>2, <2>2
  <2>. QED  BY <2>1, <2>2, <2>3
<1>. QED  BY <1>1, <1>4, <1>5, <1>6 DEF m, s

LEMMA TermsIn ==
  ASSUME NEW r \in Values, NEW p \in [Groups -> Values], NEW left, NEW f, NEW data \in Seq(Int),
         NEW k \in 1..(Len(GroupList) + 1 + Len(data))
  PROVE  Terms(r, p, left, f, data)[k] \in Values
<1>. DEFINE m == Len(GroupList)
            s == Terms(r, p, left, f, data)
<1>1. /\ m \in Nat
      /\ s[1] = r
      /\ \A j \in 1..m : GroupList[j] \in Groups /\ s[j + 1] = p[GroupList[j]]
      /\ \A i \in 1..Len(data) : s[m + 1 + i] = IF i \in left THEN Transform(f, data[i]) ELSE None
  BY TermsAre
<1>2. Len(data) \in Nat
  OBVIOUS
<1>8. \A i \in 1..Len(data) : Transform(f, data[i]) \in Int
  BY TransformedIn
<1>3. None \in Values /\ Int \subseteq Values
  BY DEF Values
<1>. SUFFICES s[k] \in Values
  OBVIOUS
<1>. HIDE DEF s
<1>4. CASE k = 1
  BY <1>1, <1>4
<1>5. CASE k # 1 /\ k <= m + 1
  <2>1. PICK j : j = k - 1
    OBVIOUS
  <2>2. j \in 1..m /\ j + 1 = k
    BY <1>1, <1>5, <2>1
  <2>. QED  BY <1>1, <2>2
<1>6. CASE k > m + 1
  <2>1. PICK i : i = k - (m + 1)
    OBVIOUS
  <2>2. i \in 1..Len(data) /\ m + 1 + i = k
    BY <1>1, <1>2, <1>6, <2>1 DEF m
  <2>3. s[k] = IF i \in left THEN Transform(f, data[i]) ELSE None
    BY <1>1, <2>2
  <2>. QED  BY <1>8, <1>3, <2>2, <2>3
<1>. QED  BY <1>1, <1>2, <1>4, <1>5, <1>6

LEMMA BalanceStarts ==
  ASSUME NEW f, NEW op, NEW init \in Int, NEW data \in Seq(Int), Applicable(f, op, data),
         NEW r, StartsRight(f, init, data, r), NEW p, \A g \in Groups : Combine(op, r, p[g]) = r
  PROVE  Balanced(op, r, p, DOMAIN data, f, data, Reduced(f, op, init, data))
<1>. DEFINE left == DOMAIN data
<1>1. PICK m, s : m = Len(GroupList) /\ s = Terms(r, p, left, f, data)
  OBVIOUS
<1>2. /\ m \in Nat
      /\ s[1] = r
      /\ \A k \in 1..m : GroupList[k] \in Groups /\ s[k + 1] = p[GroupList[k]]
      /\ \A i \in 1..Len(data) : s[m + 1 + i] = IF i \in left THEN Transform(f, data[i]) ELSE None
  BY <1>1, TermsAre
<1>3. left = 1..Len(data)
  OBVIOUS
<1>4. Neutral(op, s, m + 1)
  <2>1. ASSUME NEW k \in 2..(m + 1) PROVE Combine(op, s[1], s[k]) = s[1]
    <3>1. PICK j : j = k - 1
      OBVIOUS
    <3>2. j \in 1..m /\ j + 1 = k
      BY <1>2, <3>1
    <3>. QED  BY <1>2, <3>2
  <2>. QED  BY <2>1 DEF Neutral
<1>5. \A i \in 1..Len(data) : s[m + 1 + i] = Transform(f, data[i])
  BY <1>2, <1>3
<1>6. StartsRight(f, init, data, s[1])
  BY <1>2
<1>7. Settled(op, s, m + 1 + Len(data), Reduced(f, op, init, data))
  BY <1>2, <1>4, <1>5, <1>6, SettledStarts
<1>. QED  BY <1>1, <1>7 DEF Balanced

LEMMA BalanceEnds ==
  ASSUME NEW f, NEW op, NEW data \in Seq(Int), NEW r, NEW p, NEW want,
         Balanced(op, r, p, {}, f, data, want), \A g \in Groups : p[g] = None
  PROVE  r = want
<1>1. PICK m, s : m = Len(GroupList) /\ s = Terms(r, p, {}, f, data)
  OBVIOUS
<1>2. /\ m \in Nat
      /\ s[1] = r
      /\ \A k \in 1..m : GroupList[k] \in Groups /\ s[k + 1] = p[GroupList[k]]
      /\ \A i \in 1..Len(data) : s[m + 1 + i] = IF i \in {} THEN Transform(f, data[i]) ELSE None
  BY <1>1, TermsAre
<1>3. PICK n : n = m + Len(data)
  OBVIOUS
<1>4. Len(data) \in Nat
  OBVIOUS
<1>5. n \in Nat /\ n + 1 = m + 1 + Len(data)
  BY <1>2, <1>3, <1>4
<1>6. ASSUME NEW k \in 2..(n + 1) PROVE s[k] = None
  <2>1. CASE k <= m + 1
    <3>1. PICK j : j = k - 1
      OBVIOUS
    <3>2. j \in 1..m /\ j + 1 = k
      BY <1>2, <2>1, <3>1
    <3>. QED  BY <1>2, <3>2
  <2>2. CASE k > m + 1
    <3>1. PICK i : i = k - (m + 1)
      OBVIOUS
    <3>2. i \in 1..Len(data) /\ m + 1 + i = k
      BY <1>2, <1>5, <2>2, <3>1
    <3>. QED  BY <1>2, <3>2
  <2>. QED  BY <1>2, <2>1, <2>2
<1>7. Settled(op, s, n + 1, want)
  BY <1>1, <1>5 DEF Balanced
<1>8. s[1] = want
  BY <1>5, <1>6, <1>7, SettledEnds
<1>. QED  BY <1>2, <1>8

(* Group g takes item i.                                                   *)
LEMMA BalanceTake ==
  ASSUME NEW f, NEW op \in BinaryOp, NEW data \in Seq(Int), NEW r \in Values, NEW p \in [Groups -> Values],
         NEW want, NEW left, left \subseteq DOMAIN data, NEW g \in Groups, NEW i \in left,
         Balanced(op, r, p, left, f, data, want)
  PROVE  Balanced(op, r, [p EXCEPT ![g] = Combine(op, @, Transform(f, data[i]))], left \ {i}, f, data, want)
<1>. DEFINE q == [p EXCEPT ![g] = Combine(op, @, Transform(f, data[i]))]
<1>1. PICK m, s, t, n : /\ m = Len(GroupList) /\ s = Terms(r, p, left, f, data)
                        /\ t = Terms(r, q, left \ {i}, f, data) /\ n = m + 1 + Len(data)
  OBVIOUS
<1>2. /\ m \in Nat
      /\ s[1] = r
      /\ \A k \in 1..m : GroupList[k] \in Groups /\ s[k + 1] = p[GroupList[k]]
      /\ \A k \in 1..Len(data) : s[m + 1 + k] = IF k \in left THEN Transform(f, data[k]) ELSE None
  BY <1>1, TermsAre
<1>3. /\ t[1] = r
      /\ \A k \in 1..m : t[k + 1] = q[GroupList[k]]
      /\ \A k \in 1..Len(data) : t[m + 1 + k] = IF k \in left \ {i} THEN Transform(f, data[k]) ELSE None
  <2>1. PICK u, v : u = q /\ v = left \ {i}
    OBVIOUS
  <2>2. m = Len(GroupList) /\ t = Terms(r, u, v, f, data)
    BY <1>1, <2>1
  <2>3. /\ t[1] = r
        /\ \A k \in 1..m : t[k + 1] = u[GroupList[k]]
        /\ \A k \in 1..Len(data) : t[m + 1 + k] = IF k \in v THEN Transform(f, data[k]) ELSE None
    BY <2>2, TermsAre
  <2>. QED  BY <2>1, <2>3
<1>4. Len(data) \in Nat /\ DOMAIN data = 1..Len(data)
  OBVIOUS
<1>5. i \in 1..Len(data)
  BY <1>4
<1>6. PICK j \in 1..m : GroupList[j] = g
  BY <1>1, GroupsListed DEF Lists
<1>7. PICK a, b : a = j + 1 /\ b = m + 1 + i
  OBVIOUS
<1>8. n \in Nat /\ a \in 1..n /\ b \in 1..n /\ a # b
  BY <1>1, <1>2, <1>4, <1>5, <1>6, <1>7
<1>9. \A k \in 1..n : s[k] \in Values
  BY <1>1, TermsIn
<1>10. /\ q[g] = Combine(op, p[g], Transform(f, data[i]))
       /\ \A k \in Groups : k # g => q[k] = p[k]
  OBVIOUS
<1>. HIDE DEF q
<1>11. t[a] = Combine(op, s[a], s[b])
  BY <1>2, <1>3, <1>5, <1>6, <1>7, <1>10
<1>12. t[b] = None
  BY <1>3, <1>5, <1>7
<1>13. ASSUME NEW k \in 1..n, k # a, k # b PROVE t[k] = s[k]
  <2>1. CASE k = 1
    BY <1>2, <1>3, <2>1
  <2>2. CASE k # 1 /\ k <= m + 1
    <3>1. PICK l : l = k - 1
      OBVIOUS
    <3>2. l \in 1..m /\ l + 1 = k /\ l # j
      BY <1>2, <1>7, <1>13, <2>2, <3>1
    <3>3. GroupList[l] # g
      BY <1>1, <1>6, <3>2, GroupsListed DEF Lists
    <3>. QED  BY <1>2, <1>3, <1>10, <3>2, <3>3
  <2>3. CASE k > m + 1
    <3>1. PICK l : l = k - (m + 1)
      OBVIOUS
    <3>2. l \in 1..Len(data) /\ m + 1 + l = k /\ l # i
      BY <1>1, <1>2, <1>4, <1>5, <1>7, <1>13, <2>3, <3>1
    <3>. QED  BY <1>2, <1>3, <3>2
  <2>. QED  BY <1>2, <1>8, <2>1, <2>2, <2>3
<1>14. Settled(op, s, n, want)
  BY <1>1 DEF Balanced
<1>15. Settled(op, t, n, want)
  BY <1>8, <1>9, <1>11, <1>12, <1>13, <1>14, SettledMoves
<1>. QED  BY <1>1, <1>15 DEF Balanced, q

(* Group g hands over what it holds.                                       *)
LEMMA BalanceFlush ==
  ASSUME NEW f, NEW op \in BinaryOp, NEW data \in Seq(Int), NEW r \in Values, NEW p \in [Groups -> Values],
         NEW want, NEW left, NEW g \in Groups,
         Balanced(op, r, p, left, f, data, want)
  PROVE  Balanced(op, Combine(op, r, p[g]), [p EXCEPT ![g] = None], left, f, data, want)
<1>. DEFINE q == [p EXCEPT ![g] = None]
            c == Combine(op, r, p[g])
<1>1. PICK m, s, t, n : /\ m = Len(GroupList) /\ s = Terms(r, p, left, f, data)
                        /\ t = Terms(c, q, left, f, data) /\ n = m + 1 + Len(data)
  OBVIOUS
<1>2. /\ m \in Nat
      /\ s[1] = r
      /\ \A k \in 1..m : GroupList[k] \in Groups /\ s[k + 1] = p[GroupList[k]]
      /\ \A k \in 1..Len(data) : s[m + 1 + k] = IF k \in left THEN Transform(f, data[k]) ELSE None
  BY <1>1, TermsAre
<1>3. /\ t[1] = c
      /\ \A k \in 1..m : t[k + 1] = q[GroupList[k]]
      /\ \A k \in 1..Len(data) : t[m + 1 + k] = IF k \in left THEN Transform(f, data[k]) ELSE None
  <2>1. PICK u, v : u = q /\ v = c
    OBVIOUS
  <2>2. m = Len(GroupList) /\ t = Terms(v, u, left, f, data)
    BY <1>1, <2>1
  <2>3. /\ t[1] = v
        /\ \A k \in 1..m : t[k + 1] = u[GroupList[k]]
        /\ \A k \in 1..Len(data) : t[m + 1 + k] = IF k \in left THEN Transform(f, data[k]) ELSE None
    BY <2>2, TermsAre
  <2>. QED  BY <2>1, <2>3
<1>4. Len(data) \in Nat
  OBVIOUS
<1>6. PICK j \in 1..m : GroupList[j] = g
  BY <1>1, GroupsListed DEF Lists
<1>7. PICK b : b = j + 1
  OBVIOUS
<1>8. n \in Nat /\ 1 \in 1..n /\ b \in 1..n /\ 1 # b
  BY <1>1, <1>2, <1>4, <1>6, <1>7
<1>9. \A k \in 1..n : s[k] \in Values
  BY <1>1, TermsIn
<1>10. q[g] = None /\ \A k \in Groups : k # g => q[k] = p[k]
  OBVIOUS
<1>11. t[1] = Combine(op, s[1], s[b])
  BY <1>2, <1>3, <1>6, <1>7
<1>. HIDE DEF q, c
<1>12. t[b] = None
  BY <1>3, <1>6, <1>7, <1>10
<1>13. ASSUME NEW k \in 1..n, k # 1, k # b PROVE t[k] = s[k]
  <2>2. CASE k <= m + 1
    <3>1. PICK l : l = k - 1
      OBVIOUS
    <3>2. l \in 1..m /\ l + 1 = k /\ l # j
      BY <1>2, <1>7, <1>13, <2>2, <3>1
    <3>3. GroupList[l] # g
      BY <1>1, <1>6, <3>2, GroupsListed DEF Lists
    <3>. QED  BY <1>2, <1>3, <1>10, <3>2, <3>3
  <2>3. CASE k > m + 1
    <3>1. PICK l : l = k - (m + 1)
      OBVIOUS
    <3>2. l \in 1..Len(data) /\ m + 1 + l = k
      BY <1>1, <1>2, <1>4, <2>3, <3>1
    <3>. QED  BY <1>2, <1>3, <3>2
  <2>. QED  BY <1>2, <1>8, <2>2, <2>3
<1>14. Settled(op, s, n, want)
  BY <1>1 DEF Balanced
<1>15. Settled(op, t, n, want)
  BY <1>8, <1>9, <1>11, <1>12, <1>13, <1>14, SettledMoves
<1>. QED  BY <1>1, <1>15 DEF Balanced, q, c

-----------------------------------------------------------------------------
(* The device *)

FillOp(v) == {Store("a", v, << >>)}
EvalOp(source) == {Store("temp", source, <<"a">>)}
WorkOp(b) == {Store("result", "reduce", <<b>>)}

Operation ==
  {FillOp(v) : v \in DOMAIN Contents} \cup {EvalOp(x) : x \in {"abs", "double"}}
    \cup {WorkOp(b) : b \in {"a", "temp"}}

Device(d) ==
  d \in [mem : {d.mem}, queue : [Queue -> Seq(Operation)]] /\ DOMAIN d.mem = {"a", "temp"}

(* Operations are told apart by the buffer they store in.                  *)
LEMMA StoreParts ==
  ASSUME NEW to, NEW name, NEW from
  PROVE  Store(to, name, from).to = to /\ Store(to, name, from).name = name /\ Store(to, name, from).from = from
  BY DEF Store

LEMMA OperationsDiffer ==
  ASSUME NEW v, NEW x, NEW b
  PROVE  FillOp(v) # EvalOp(x) /\ FillOp(v) # WorkOp(b) /\ EvalOp(x) # WorkOp(b)
<1>1. PICK s1, s2, s3 : s1 = Store("a", v, << >>) /\ s2 = Store("temp", x, <<"a">>) /\ s3 = Store("result", "reduce", <<b>>)
  OBVIOUS
<1>2. s1.to = "a" /\ s2.to = "temp" /\ s3.to = "result"
  BY <1>1, StoreParts
<1>3. s1 # s2 /\ s1 # s3 /\ s2 # s3
  BY <1>2
<1>4. {s1} # {s2} /\ {s1} # {s3} /\ {s2} # {s3}
  BY <1>3
<1>. QED  BY <1>1, <1>4, Zenon DEF FillOp, EvalOp, WorkOp

LEMMA OperationsIn ==
  /\ \A v \in DOMAIN Contents : FillOp(v) \in Operation
  /\ EvalOp("abs") \in Operation /\ EvalOp("double") \in Operation
  /\ WorkOp("a") \in Operation /\ WorkOp("temp") \in Operation
  BY Zenon DEF Operation

LEMMA QueueUpdate ==
  ASSUME NEW M, NEW T, NEW d \in [mem : M, queue : T], NEW q, NEW w
  PROVE  [d EXCEPT !.queue[q] = w] = [mem |-> d.mem, queue |-> [d.queue EXCEPT ![q] = w]]
  OBVIOUS

LEMMA DeviceUpdate ==
  ASSUME NEW M, NEW T, NEW d \in [mem : M, queue : T], NEW q, NEW m, NEW w
  PROVE  [d EXCEPT !.mem = m, !.queue[q] = w] = [mem |-> m, queue |-> [d.queue EXCEPT ![q] = w]]
<1>. DEFINE e == [d EXCEPT !.mem = m, !.queue[q] = w]
<1>1. e.mem = m /\ e.queue = [d.queue EXCEPT ![q] = w]
  OBVIOUS
<1>2. DOMAIN e = {"mem", "queue"} /\ e = [i \in {"mem", "queue"} |-> e[i]]
  OBVIOUS
<1>. HIDE DEF e
<1>3. e = [mem |-> e.mem, queue |-> e.queue]
  BY <1>2
<1>. QED  BY <1>1, <1>3 DEF e

LEMMA SubmitIs ==
  ASSUME NEW d, Device(d), NEW q \in Queue, NEW op \in Operation
  PROVE  /\ Device(Submit(d, q, op))
         /\ Submit(d, q, op).mem = d.mem
         /\ Submit(d, q, op).queue[q] = Append(d.queue[q], op)
         /\ \A p \in Queue : p # q => Submit(d, q, op).queue[p] = d.queue[p]
<1>. DEFINE w == Append(d.queue[q], op)
            e == Submit(d, q, op)
<1>1. e = [d EXCEPT !.queue[q] = w]
  BY DEF Submit
<1>. HIDE DEF w
<1>2. e = [mem |-> d.mem, queue |-> [d.queue EXCEPT ![q] = w]]
  BY <1>1, QueueUpdate, Zenon DEF Device
<1>3. w \in Seq(Operation) /\ d.queue \in [Queue -> Seq(Operation)] /\ DOMAIN d.mem = {"a", "temp"}
  BY DEF w, Device
<1>. HIDE DEF e
<1>4. e.mem = d.mem /\ e.queue = [d.queue EXCEPT ![q] = w]
  BY <1>2
<1>5. e.queue \in [Queue -> Seq(Operation)]
  BY <1>3, <1>4
<1>6. e = [mem |-> e.mem, queue |-> e.queue]
  BY <1>2, <1>4
<1>7. Device(e)
  BY <1>3, <1>4, <1>5, <1>6 DEF Device
<1>8. e.queue[q] = w /\ \A p \in Queue : p # q => e.queue[p] = d.queue[p]
  BY <1>3, <1>4
<1>. QED  BY <1>4, <1>7, <1>8 DEF w, e

LEMMA StepIs ==
  ASSUME NEW d, Device(d), NEW q \in Queue, d.queue[q] # << >>
  PROVE  /\ Device(Step(d, q))
         /\ Step(d, q).mem = Executed(d.mem, Head(d.queue[q]))
         /\ Step(d, q).queue[q] = Tail(d.queue[q])
         /\ \A p \in Queue : p # q => Step(d, q).queue[p] = d.queue[p]
<1>. DEFINE w == Tail(d.queue[q])
            m == Executed(d.mem, Head(d.queue[q]))
            e == Step(d, q)
<1>1. e = [d EXCEPT !.mem = m, !.queue[q] = w]
  BY DEF Step
<1>3. w \in Seq(Operation) /\ d.queue \in [Queue -> Seq(Operation)] /\ DOMAIN m = {"a", "temp"}
  BY DEF Device, Executed
<1>. HIDE DEF w, m
<1>2. e = [mem |-> m, queue |-> [d.queue EXCEPT ![q] = w]]
  BY <1>1, DeviceUpdate, Zenon DEF Device
<1>. HIDE DEF e
<1>4. e.mem = m /\ e.queue = [d.queue EXCEPT ![q] = w]
  BY <1>2
<1>5. e.queue \in [Queue -> Seq(Operation)]
  BY <1>3, <1>4
<1>6. e = [mem |-> e.mem, queue |-> e.queue]
  BY <1>2, <1>4
<1>7. Device(e)
  BY <1>3, <1>4, <1>5, <1>6 DEF Device
<1>8. e.queue[q] = w /\ \A p \in Queue : p # q => e.queue[p] = d.queue[p]
  BY <1>3, <1>4
<1>. QED  BY <1>4, <1>7, <1>8 DEF w, m, e

LEMMA ExecutedIs ==
  ASSUME NEW mem, NEW s
  PROVE  /\ DOMAIN Executed(mem, {s}) = DOMAIN mem
         /\ \A b \in DOMAIN mem : Executed(mem, {s})[b] = IF b = s.to THEN Result(mem, s) ELSE mem[b]
<1>. DEFINE by == [b \in Writes({s}) |-> CHOOSE r \in {s} : r.to = b]
<1>1. Writes({s}) = {s.to}
  BY DEF Writes
<1>2. (CHOOSE r \in {s} : r.to = s.to) = s
  OBVIOUS
<1>3. by[s.to] = s
  BY <1>1, <1>2
<1>4. Executed(mem, {s}) = [b \in DOMAIN mem |-> IF b \in Writes({s}) THEN Result(mem, by[b]) ELSE mem[b]]
  BY DEF Executed
<1>. HIDE DEF by
<1>. QED  BY <1>1, <1>3, <1>4

LEMMA Joins ==
  ASSUME NEW x, NEW y
  PROVE  <<x>> \o << >> = <<x>> /\ <<x>> \o <<y>> = <<x, y>>
<1>1. <<x>> \in Seq({x, y}) /\ <<y>> \in Seq({x, y}) /\ << >> \in Seq({x, y}) /\ <<x, y>> \in Seq({x, y})
  OBVIOUS
<1>2. <<x>> \o << >> = <<x>>
  <2>1. /\ <<x>> \o << >> \in Seq({x, y}) /\ Len(<<x>> \o << >>) = 1
        /\ (<<x>> \o << >>)[1] = x
    BY <1>1
  <2>. QED  BY <1>1, <2>1
<1>3. <<x>> \o <<y>> = <<x, y>>
  <2>1. /\ <<x>> \o <<y>> \in Seq({x, y}) /\ Len(<<x>> \o <<y>>) = 2
        /\ (<<x>> \o <<y>>)[1] = x /\ (<<x>> \o <<y>>)[2] = y
    BY <1>1
  <2>2. PICK u, w : u = <<x>> \o <<y>> /\ w = <<x, y>>
    OBVIOUS
  <2>3. /\ u \in Seq({x, y}) /\ Len(u) = 2 /\ u[1] = x /\ u[2] = y
        /\ w \in Seq({x, y}) /\ Len(w) = 2 /\ w[1] = x /\ w[2] = y
    BY <1>1, <2>1, <2>2
  <2>4. u = [i \in 1..2 |-> u[i]] /\ w = [i \in 1..2 |-> w[i]] /\ \A i \in 1..2 : u[i] = w[i]
    BY <2>3
  <2>5. u = w
    BY <2>4
  <2>. QED  BY <2>2, <2>5
<1>. QED  BY <1>2, <1>3

LEMMA FillExecuted ==
  ASSUME NEW mem, DOMAIN mem = {"a", "temp"}, NEW v \in DOMAIN Contents
  PROVE  Executed(mem, FillOp(v))["a"] = <<v>>
<1>1. PICK s : s = Store("a", v, << >>)
  OBVIOUS
<1>3. s.to = "a" /\ s.name = v /\ s.from = << >> /\ v # "copy"
  BY <1>1, StoreParts, ConstantsAssumption DEF ConstantsAssumption
<1>2. Executed(mem, {s})["a"] = Result(mem, s)
  BY <1>3, ExecutedIs
<1>4. Result(mem, s) = <<v>> \o [i \in DOMAIN s.from |-> mem[s.from[i]]]
  BY <1>3 DEF Result
<1>5. [i \in DOMAIN s.from |-> mem[s.from[i]]] = << >>
  BY <1>3
<1>. QED  BY <1>1, <1>2, <1>4, <1>5, Joins, Zenon DEF FillOp

LEMMA EvalExecuted ==
  ASSUME NEW mem, DOMAIN mem = {"a", "temp"}, NEW x \in {"abs", "double"}
  PROVE  /\ Executed(mem, EvalOp(x))["a"] = mem["a"]
         /\ Executed(mem, EvalOp(x))["temp"] = <<x, mem["a"]>>
<1>1. PICK s : s = Store("temp", x, <<"a">>)
  OBVIOUS
<1>3. s.to = "temp" /\ s.name = x /\ s.from = <<"a">> /\ x # "copy" /\ "a" # "temp"
  BY <1>1, StoreParts
<1>2. Executed(mem, {s})["temp"] = Result(mem, s) /\ Executed(mem, {s})["a"] = mem["a"]
  BY <1>3, ExecutedIs
<1>4. Result(mem, s) = <<x>> \o [i \in DOMAIN s.from |-> mem[s.from[i]]]
  BY <1>3 DEF Result
<1>5. [i \in DOMAIN s.from |-> mem[s.from[i]]] = <<mem["a"]>>
  BY <1>3
<1>. QED  BY <1>1, <1>2, <1>4, <1>5, Joins, Zenon DEF EvalOp

LEMMA WorkExecuted ==
  ASSUME NEW mem, DOMAIN mem = {"a", "temp"}, NEW b
  PROVE  /\ Executed(mem, WorkOp(b))["a"] = mem["a"]
         /\ Executed(mem, WorkOp(b))["temp"] = mem["temp"]
<1>1. PICK s : s = Store("result", "reduce", <<b>>)
  OBVIOUS
<1>2. s.to = "result" /\ "a" # "result" /\ "temp" # "result" /\ "a" \in DOMAIN mem /\ "temp" \in DOMAIN mem
  BY <1>1, StoreParts
<1>4. \A c \in DOMAIN mem : Executed(mem, {s})[c] = IF c = s.to THEN Result(mem, s) ELSE mem[c]
  BY ExecutedIs
<1>3. Executed(mem, {s})["a"] = mem["a"] /\ Executed(mem, {s})["temp"] = mem["temp"]
  BY <1>2, <1>4
<1>. QED  BY <1>1, <1>3 DEF WorkOp

-----------------------------------------------------------------------------
(* The inductive invariant *)

(* What is in the buffer the call reduces when the queues have got there.  *)
Term(c) == IF c.source = "a" THEN expected ELSE <<c.source, expected>>

Asked(c) == Meaning(Term(c))

StartOK(c) ==
  LET s == Start(c.f, c.init, Asked(c))
  IN  /\ s.result \in Values /\ s.private \in Values
      /\ StartsRight(c.f, c.init, Asked(c), s.result)
      /\ Combine(c.op, s.result, s.private) = s.result

CallOK(c) ==
  /\ c = [f |-> c.f, op |-> c.op, init |-> c.init, source |-> c.source, queue |-> c.queue,
          running |-> c.running, want |-> c.want]
  /\ c.init \in Int /\ c.source \in {"a", "abs", "double"} /\ c.queue \in Queue /\ c.running \in BOOLEAN
  /\ Applicable(c.f, c.op, Asked(c))
  /\ c.want = Reduced(c.f, c.op, c.init, Asked(c))
  /\ ~ Loops(c.f) => StartOK(c)

(* The first n operations of the default queue write the array.            *)
Fills(d, n) ==
  LET w == d.queue["default"]
  IN  /\ n \in 0..Len(w)
      /\ \A i \in 1..n : \E v \in DOMAIN Contents : w[i] = FillOp(v)
      /\ IF n = 0 THEN d.mem["a"] = expected ELSE w[n] = FillOp(expected[1])

OnStream(d, c, n) ==
  /\ c.queue = "stream" /\ c.source = "a" /\ n = 0
  /\ Len(d.queue["default"]) = 0
  /\ Len(d.queue["stream"]) = 1 /\ d.queue["stream"][1] = Work(c)

OnDefault(d, c, n) ==
  LET w == d.queue["default"]
  IN  /\ c.queue = "default" /\ Len(d.queue["stream"]) = 0
      /\ \/ c.source = "a" /\ Len(w) = n + 1 /\ w[n + 1] = Work(c)
         \/ c.source # "a" /\ Len(w) = n + 2 /\ w[n + 1] = EvalOp(c.source) /\ w[n + 2] = Work(c)
         \/ c.source # "a" /\ n = 0 /\ Len(w) = 1 /\ w[1] = Work(c) /\ d.mem["temp"] = Term(c)

Queued(d, c, n) ==
  /\ Fills(d, n)
  /\ Host => n = 0
  /\ c = NoCall \/ Loops(c.f) => Len(d.queue["default"]) = n /\ Len(d.queue["stream"]) = 0
  /\ c # NoCall /\ Loops(c.f) => d.mem[Buffer(c.source)] = Term(c)
  /\ c # NoCall /\ ~ Loops(c.f) => OnStream(d, c, n) \/ OnDefault(d, c, n)
  /\ c # NoCall /\ ~ Loops(c.f) /\ c.running => n = 0 /\ Len(d.queue[c.queue]) = 1

Running == call # NoCall /\ ~ Loops(call.f) /\ call.running

DeviceOK ==
  /\ backend \in Backend
  /\ \E v \in DOMAIN Contents : expected = <<v>>
  /\ Device(dev)
  /\ call # NoCall => CallOK(call)
  /\ \E n \in Nat : Queued(dev, call, n)
  /\ correct = TRUE

ItemsOK ==
  /\ result \in Values /\ private \in [Groups -> Values]
  /\ ~ Running => todo = {} /\ \A g \in Groups : private[g] = None
  /\ Running => /\ todo \subseteq DOMAIN Asked(call)
                /\ Balanced(call.op, result, private, todo, call.f, Asked(call), call.want)

IInv == DeviceOK /\ ItemsOK

-----------------------------------------------------------------------------
(* The steps of a reduction *)

LEMMA MeaningIs ==
  ASSUME NEW v \in DOMAIN Contents, expected = <<v>>
  PROVE  /\ Contents[v] \in Seq(Int)
         /\ Meaning(expected) = Contents[v]
         /\ \A x \in {"abs", "double"} :
              /\ Meaning(<<x, expected>>) \in Seq(Int)
              /\ Len(Meaning(<<x, expected>>)) = Len(Contents[v])
         /\ \A i \in 1..Len(Contents[v]) : Meaning(<<"abs", expected>>)[i] >= 0
<1>1. Contents[v] \in Seq(Int)
  BY ConstantsAssumption DEF ConstantsAssumption
<1>2. PICK first : first = Contents[v]
  OBVIOUS
<1>3. Meaning(expected) = first
  <2>1. Len(expected) = 1 /\ expected[1] = v
    OBVIOUS
  <2>. QED  BY <1>2, <2>1 DEF Meaning
<1>4. Meaning(<<"abs", expected>>) = [i \in DOMAIN first |-> Abs(first[i])]
  <2>1. PICK t : t = <<"abs", expected>>
    OBVIOUS
  <2>2. Len(t) = 2 /\ t[1] = "abs" /\ t[2] = expected /\ expected[1] = v
    BY <2>1
  <2>3. Contents[t[Len(t)][1]] = first /\ Len(t) # 1
    BY <1>2, <2>2
  <2>4. Meaning(t) = [i \in DOMAIN first |-> Abs(first[i])]
    BY <2>2, <2>3 DEF Meaning
  <2>. QED  BY <2>1, <2>4
<1>5. Meaning(<<"double", expected>>) = [i \in DOMAIN first |-> 2 * first[i]]
  <2>1. PICK t : t = <<"double", expected>>
    OBVIOUS
  <2>2. Len(t) = 2 /\ t[1] = "double" /\ t[2] = expected /\ expected[1] = v
    BY <2>1
  <2>3. Contents[t[Len(t)][1]] = first /\ Len(t) # 1
    BY <1>2, <2>2
  <2>4. Meaning(t) = [i \in DOMAIN first |-> 2 * first[i]]
    BY <2>2, <2>3 DEF Meaning
  <2>. QED  BY <2>1, <2>4
<1>6. first \in Seq(Int) /\ DOMAIN first = 1..Len(first)
  BY <1>1, <1>2
<1>7. \A i \in 1..Len(first) : Abs(first[i]) \in Int /\ Abs(first[i]) >= 0
  BY <1>6 DEF Abs
<1>8. PICK s, d : s = Meaning(<<"abs", expected>>) /\ d = Meaning(<<"double", expected>>)
  OBVIOUS
<1>9. s = [i \in DOMAIN first |-> Abs(first[i])] /\ d = [i \in DOMAIN first |-> 2 * first[i]]
  BY <1>4, <1>5, <1>8
<1>10. s \in Seq(Int) /\ Len(s) = Len(first) /\ \A i \in 1..Len(first) : s[i] >= 0
  BY <1>6, <1>7, <1>9
<1>11. d \in Seq(Int) /\ Len(d) = Len(first)
  BY <1>6, <1>9
<1>12. /\ Meaning(<<"abs", expected>>) \in Seq(Int) /\ Len(Meaning(<<"abs", expected>>)) = Len(first)
       /\ \A i \in 1..Len(first) : Meaning(<<"abs", expected>>)[i] >= 0
       /\ Meaning(<<"double", expected>>) \in Seq(Int) /\ Len(Meaning(<<"double", expected>>)) = Len(first)
  BY <1>8, <1>10, <1>11
<1>. QED  BY <1>1, <1>2, <1>3, <1>12

LEMMA AskedIn ==
  ASSUME NEW v \in DOMAIN Contents, expected = <<v>>, NEW c, c.source \in {"a", "abs", "double"}
  PROVE  /\ Asked(c) \in Seq(Int)
         /\ Len(Asked(c)) = Len(Contents[v])
         /\ c.source = "a" => Asked(c) = Contents[v]
         /\ c.source = "abs" => \A i \in 1..Len(Contents[v]) : Asked(c)[i] >= 0
<1>1. CASE c.source = "a"
  BY <1>1, MeaningIs DEF Asked, Term
<1>2. CASE c.source # "a"
  <2>1. Asked(c) = Meaning(<<c.source, expected>>)
    BY <1>2 DEF Asked, Term
  <2>2. c.source \in {"abs", "double"}
    BY <1>2
  <2>. QED  BY <1>2, <2>1, <2>2, MeaningIs
<1>. QED  BY <1>1, <1>2

(* A call is told from no call by its parts.                               *)
LEMMA CallIsCall ==
  ASSUME NEW f, NEW op, NEW init, NEW source, NEW q, NEW running, NEW want
  PROVE  [f |-> f, op |-> op, init |-> init, source |-> source, queue |-> q, running |-> running, want |-> want] # NoCall
<1>. DEFINE c == [f |-> f, op |-> op, init |-> init, source |-> source, queue |-> q, running |-> running, want |-> want]
<1>1. "op" \in DOMAIN c
  OBVIOUS
<1>2. "op" \notin DOMAIN NoCall
  BY DEF NoCall
<1>. QED  BY <1>1, <1>2

(* Every start the devices make is right for what is asked.                *)
LEMMA StartIsRight ==
  ASSUME NEW v \in DOMAIN Contents, expected = <<v>>, backend \in {"thrust", "sycl", "sycl_host"},
         NEW c, c.source \in {"a", "abs", "double"}, c.init \in Int,
         Applicable(c.f, c.op, Asked(c)),
         c.f = "norm_linf" => c.source = "abs", c.f = "max" => c.source = "a",
         c.f = "max" => \E i \in DOMAIN Contents[v] : Contents[v][i] >= 0,
         backend # "thrust" /\ c.f \in {"reduce", "transform_reduce"} => Combine(c.op, c.init, c.init) = c.init
  PROVE  StartOK(c)
<1>0. PICK data, f, op, init : data = Asked(c) /\ f = c.f /\ op = c.op /\ init = c.init
  OBVIOUS
<1>1. /\ data \in Seq(Int) /\ Len(data) = Len(Contents[v])
      /\ c.source = "a" => data = Contents[v]
      /\ c.source = "abs" => \A i \in 1..Len(data) : data[i] >= 0
  BY <1>0, AskedIn
<1>2. /\ f \in Function /\ op \in BinaryOp /\ init \in Int
      /\ f \in {"sum", "sum_squares"} => op = "plus"
      /\ f \in {"max", "norm_linf", "min"} => Len(data) > 0
  BY <1>0 DEF Applicable
<1>3. 0 \in Values /\ None \in Values /\ init \in Values /\ (Len(data) > 0 => data[1] \in Values)
  BY <1>1, <1>2 DEF Values
<1>4. Combine("plus", 0, 0) = 0
  BY <1>3, CombineIs, NoneApart
<1>5. f \in {"max", "norm_linf"} => \E i \in DOMAIN data : data[i] >= 0
  <2>1. ASSUME f = "norm_linf" PROVE \E i \in DOMAIN data : data[i] >= 0
    <3>1. 1 \in DOMAIN data /\ data[1] >= 0
      BY <1>0, <1>1, <1>2, <2>1
    <3>. QED  BY <3>1
  <2>2. ASSUME f = "max" PROVE \E i \in DOMAIN data : data[i] >= 0
    BY <1>0, <1>1, <2>2
  <2>. QED  BY <2>1, <2>2
<1>6. SUFFICES /\ Start(f, init, data).result \in Values /\ Start(f, init, data).private \in Values
               /\ StartsRight(f, init, data, Start(f, init, data).result)
               /\ Combine(op, Start(f, init, data).result, Start(f, init, data).private) = Start(f, init, data).result
  BY <1>0 DEF StartOK
<1>7. PICK s : s = Start(f, init, data)
  OBVIOUS
<1>8. CASE f \in {"sum", "sum_squares"}
  <2>1. s.result = 0 /\ (s.private = 0 \/ s.private = None)
    BY <1>7, <1>8 DEF Start, ThrustStart, SyclStart
  <2>2. StartsRight(f, init, data, 0)
    BY <1>8 DEF StartsRight
  <2>3. op = "plus" /\ Combine(op, 0, s.private) = 0
    BY <1>2, <1>4, <1>8, <2>1, CombineNone
  <2>. QED  BY <1>3, <1>7, <2>1, <2>2, <2>3
<1>9. CASE f \in {"max", "norm_linf"}
  <2>1. s.result = 0 /\ s.private = None
    BY <1>7, <1>9 DEF Start, ThrustStart, SyclStart
  <2>2. StartsRight(f, init, data, 0)
    BY <1>5, <1>9 DEF StartsRight
  <2>. QED  BY <1>3, <1>7, <2>1, <2>2, CombineNone
<1>10. CASE f = "min"
  <2>1. s.private = None /\ (s.result = None \/ s.result = data[1])
    BY <1>7, <1>10 DEF Start, ThrustStart, SyclStart
  <2>2. StartsRight(f, init, data, s.result)
    BY <1>10, <2>1 DEF StartsRight
  <2>. QED  BY <1>2, <1>3, <1>7, <1>10, <2>1, <2>2, CombineNone
<1>11. CASE f \in {"reduce", "transform_reduce"}
  <2>1. s.result = init /\ (s.private = None \/ (backend # "thrust" /\ s.private = init))
    BY <1>7, <1>11 DEF Start, ThrustStart, SyclStart
  <2>2. StartsRight(f, init, data, init)
    BY <1>11 DEF StartsRight
  <2>3. Combine(op, init, s.private) = init
    <3>1. CASE s.private = None
      BY <3>1, CombineNone
    <3>2. CASE backend # "thrust" /\ s.private = init
      BY <1>0, <1>11, <3>2
    <3>. QED  BY <2>1, <3>1, <3>2
  <2>. QED  BY <1>3, <1>7, <2>1, <2>2, <2>3
<1>. QED  BY <1>2, <1>8, <1>9, <1>10, <1>11 DEF Function

LEMMA CallOKNext ==
  ASSUME UNCHANGED <<backend, expected>>, NEW c, c = call', CallOK(c)
  PROVE  CallOK(call)'
  BY DEF CallOK, Asked, Term, StartOK, Loops, Start

LEMMA QueuedNext ==
  ASSUME UNCHANGED <<backend, expected>>, NEW c, c = call', NEW d, d = dev', NEW n, Queued(d, c, n)
  PROVE  Queued(dev, call, n)'
  BY DEF Queued, Fills, OnStream, OnDefault, Host, Loops, Term

LEMMA DeviceNext ==
  ASSUME NEW d, d = dev', Device(d)
  PROVE  Device(dev)'
  BY DEF Device

LEMMA BalancedNext ==
  ASSUME UNCHANGED <<backend, expected>>, NEW c, c = call', NEW r, r = result', NEW p, p = private', NEW left, left = todo',
         Balanced(c.op, r, p, left, c.f, Asked(c), c.want)
  PROVE  Balanced(call.op, result, private, todo, call.f, Asked(call), call.want)'
  BY DEF Asked, Term

(* The parts the device steps leave alone. *)
LEMMA DeviceOKNext ==
  ASSUME DeviceOK, UNCHANGED <<backend, expected>>, correct' = TRUE, NEW d, d = dev', Device(d),
         NEW c, c = call', c # NoCall => CallOK(c), NEW n \in Nat, Queued(d, c, n)
  PROVE  DeviceOK'
<1>1. CASE c = NoCall
  <2>1. Device(dev)' /\ Queued(dev, call, n)'
    BY DeviceNext, QueuedNext
  <2>2. call' = NoCall
    BY <1>1
  <2>. QED  BY <2>1, <2>2 DEF DeviceOK, NoCall
<1>2. CASE c # NoCall
  <2>1. Device(dev)' /\ Queued(dev, call, n)' /\ CallOK(call)'
    BY <1>2, DeviceNext, QueuedNext, CallOKNext
  <2>. QED  BY <2>1 DEF DeviceOK
<1>. QED  BY <1>1, <1>2

LEMMA InitOK == Init => IInv
<1>. SUFFICES ASSUME Init PROVE IInv
  OBVIOUS
<1>1. PICK v \in DOMAIN Contents :
        /\ dev = [mem |-> [b \in {"a", "temp"} |-> <<v>>], queue |-> [q \in Queue |-> << >>]]
        /\ expected = <<v>>
  BY DEF Init
<1>2. backend \in Backend /\ call = NoCall /\ private = [g \in Groups |-> None] /\ result = None /\ todo = {} /\ correct = TRUE
  BY DEF Init
<1>3. /\ dev.mem["a"] = expected /\ DOMAIN dev.mem = {"a", "temp"}
      /\ dev.queue = [q \in Queue |-> << >>] /\ dev.queue["default"] = << >> /\ dev.queue["stream"] = << >>
      /\ dev = [mem |-> dev.mem, queue |-> dev.queue]
  BY <1>1 DEF Queue
<1>4. dev.queue \in [Queue -> Seq(Operation)]
  BY <1>3
<1>5. Device(dev)
  BY <1>3, <1>4 DEF Device
<1>6. Queued(dev, call, 0)
  BY <1>2, <1>3 DEF Queued, Fills
<1>7. DeviceOK
  BY <1>1, <1>2, <1>5, <1>6 DEF DeviceOK
<1>8. ItemsOK
  BY <1>2 DEF ItemsOK, Running, Values
<1>. QED  BY <1>7, <1>8 DEF IInv

LEMMA MemoryUpdate ==
  ASSUME NEW d, Device(d), NEW op
  PROVE  LET e == [d EXCEPT !.mem = Executed(@, op)]
         IN  Device(e) /\ e.mem = Executed(d.mem, op) /\ e.queue = d.queue
<1>. DEFINE m == Executed(d.mem, op)
            e == [d EXCEPT !.mem = m]
<1>1. DOMAIN m = {"a", "temp"} /\ d.queue \in [Queue -> Seq(Operation)]
  BY DEF Device, Executed
<1>2. e.mem = m /\ e.queue = d.queue /\ DOMAIN e = {"mem", "queue"} /\ e = [i \in {"mem", "queue"} |-> e[i]]
  <2>. HIDE DEF m
  <2>. QED  BY DEF Device
<1>. HIDE DEF e, m
<1>3. e = [mem |-> e.mem, queue |-> e.queue]
  BY <1>2
<1>4. Device(e)
  BY <1>1, <1>2, <1>3 DEF Device
<1>. QED  BY <1>2, <1>4 DEF e, m

LEMMA Appended ==
  ASSUME NEW T, NEW w \in Seq(T), NEW x \in T
  PROVE  /\ Append(w, x) \in Seq(T) /\ Len(Append(w, x)) = Len(w) + 1
         /\ \A i \in 1..Len(w) : Append(w, x)[i] = w[i]
         /\ Append(w, x)[Len(w) + 1] = x
  OBVIOUS

LEMMA Shortened ==
  ASSUME NEW T, NEW w \in Seq(T), w # << >>
  PROVE  /\ Tail(w) \in Seq(T) /\ Len(Tail(w)) = Len(w) - 1 /\ Len(w) > 0
         /\ \A i \in 1..(Len(w) - 1) : Tail(w)[i] = w[i + 1]
         /\ Head(w) = w[1]
  OBVIOUS

LEMMA WorkIs ==
  ASSUME NEW c
  PROVE  Work(c) = WorkOp(Buffer(c.source)) /\ Buffer(c.source) = (IF c.source = "a" THEN "a" ELSE "temp")
         /\ Work(c) \in Operation
  BY OperationsIn DEF Work, WorkOp, Buffer

(* No call, no work on an item. *)
LEMMA ItemsIdle ==
  ASSUME ItemsOK, ~ Running, UNCHANGED <<result, private, todo>>, ~ Running'
  PROVE  ItemsOK'
  BY DEF ItemsOK

LEMMA FillStep ==
  ASSUME IInv, NEW v \in DOMAIN Contents, Fill(v)
  PROVE  IInv'
<1>. DEFINE w == dev.queue["default"]
            u == dev'.queue["default"]
<1>1. /\ call = NoCall /\ call' = NoCall /\ backend' = backend /\ expected' = <<v>>
      /\ dev' = Enqueue(dev, FillOp(v)) /\ correct' = correct
      /\ UNCHANGED <<result, private, todo>>
  BY DEF Fill, HostRuns, SameReduction, FillOp
<1>2. Device(dev) /\ correct = TRUE /\ backend \in Backend
  BY DEF IInv, DeviceOK
<1>3. PICK n \in Nat : Queued(dev, call, n)
  BY DEF IInv, DeviceOK
<1>4. /\ n = Len(w) /\ Len(dev.queue["stream"]) = 0 /\ (Host => n = 0)
      /\ \A i \in 1..n : \E x \in DOMAIN Contents : w[i] = FillOp(x)
  BY <1>1, <1>3 DEF Queued, Fills
<1>5. Host' = Host
  BY <1>1 DEF Host
<1>6. CASE Host
  <2>1. dev' = [dev EXCEPT !.mem = Executed(@, FillOp(v))]
    BY <1>1, <1>6 DEF Enqueue
  <2>2. Device(dev') /\ dev'.mem = Executed(dev.mem, FillOp(v)) /\ dev'.queue = dev.queue
    BY <1>2, <2>1, MemoryUpdate
  <2>3. dev'.mem["a"] = <<v>>
    <3>1. PICK m : m = dev.mem
      OBVIOUS
    <3>2. DOMAIN m = {"a", "temp"}
      BY <1>2, <3>1 DEF Device
    <3>. QED  BY <2>2, <3>1, <3>2, FillExecuted
  <2>4. Device(dev)'
    BY <2>2 DEF Device
  <2>5. Queued(dev, call, 0)'
    BY <1>1, <1>4, <1>5, <1>6, <2>2, <2>3 DEF Queued, Fills
  <2>. QED  BY <1>1, <1>2, <2>4, <2>5 DEF IInv, DeviceOK, ItemsOK, Running
<1>7. CASE ~ Host
  <2>1. dev' = Submit(dev, "default", FillOp(v))
    BY <1>1, <1>7 DEF Enqueue
  <2>2. "default" \in Queue /\ "stream" \in Queue /\ FillOp(v) \in Operation
    BY OperationsIn DEF Queue
  <2>3. Device(dev') /\ u = Append(w, FillOp(v)) /\ dev'.queue["stream"] = dev.queue["stream"]
    BY <1>2, <2>1, <2>2, SubmitIs
  <2>4. w \in Seq(Operation)
    BY <1>2, <2>2 DEF Device
  <2>5. Device(dev)'
    BY <2>3 DEF Device
  <2>. HIDE DEF w, u
  <2>6. Len(u) = n + 1 /\ (\A i \in 1..n : u[i] = w[i]) /\ u[n + 1] = FillOp(v)
    BY <1>4, <2>2, <2>3, <2>4, Appended
  <2>7. \A i \in 1..(n + 1) : \E x \in DOMAIN Contents : u[i] = FillOp(x)
    <3>1. ASSUME NEW i \in 1..(n + 1) PROVE \E x \in DOMAIN Contents : u[i] = FillOp(x)
      <4>1. CASE i = n + 1
        BY <2>6, <4>1
      <4>2. CASE i # n + 1
        <5>1. i \in 1..n
          BY <4>2
        <5>. QED  BY <1>4, <2>6, <5>1
      <4>. QED  BY <4>1, <4>2
    <3>. QED  BY <3>1
  <2>8. PICK k \in Nat : k = n + 1
    OBVIOUS
  <2>9. k # 0 /\ k \in 0..Len(u) /\ Len(u) = k /\ u[k] = FillOp(expected'[1])
    BY <1>1, <2>6, <2>8
  <2>10. \A i \in 1..k : \E x \in DOMAIN Contents : u[i] = FillOp(x)
    BY <2>7, <2>8
  <2>11. Queued(dev, call, k)'
    BY <1>1, <1>4, <1>5, <1>7, <2>3, <2>9, <2>10 DEF Queued, Fills, u
  <2>. QED  BY <1>1, <1>2, <2>5, <2>11 DEF IInv, DeviceOK, ItemsOK, Running
<1>. QED  BY <1>6, <1>7

(* What a call asks for. *)
CallOf(f, op, init, e, q) ==
  [f |-> f, op |-> OpOf(f, op), init |-> IF f \in {"reduce", "transform_reduce"} THEN init ELSE 0,
   source |-> Source(f, e), queue |-> q, running |-> FALSE,
   want |-> Reduced(f, OpOf(f, op), init,
                    Meaning(IF Source(f, e) = "a" THEN expected ELSE <<Source(f, e), expected>>))]

Called(c, f, op, init, e, q) ==
  /\ c.f = f /\ c.op = OpOf(f, op) /\ c.init = (IF f \in {"reduce", "transform_reduce"} THEN init ELSE 0)
  /\ c.source = Source(f, e) /\ c.queue = q /\ c.running = FALSE
  /\ c.want = Reduced(f, OpOf(f, op), init, Asked(c))
  /\ c = [f |-> c.f, op |-> c.op, init |-> c.init, source |-> c.source, queue |-> c.queue,
          running |-> c.running, want |-> c.want]
  /\ c # NoCall

LEMMA CallParts ==
  ASSUME NEW f, NEW op, NEW init, NEW e, NEW q, NEW c, c = CallOf(f, op, init, e, q)
  PROVE  Called(c, f, op, init, e, q)
<1>1. PICK o, i, s, w :
        /\ o = OpOf(f, op) /\ i = (IF f \in {"reduce", "transform_reduce"} THEN init ELSE 0) /\ s = Source(f, e)
        /\ w = Reduced(f, OpOf(f, op), init, Meaning(IF Source(f, e) = "a" THEN expected ELSE <<Source(f, e), expected>>))
  OBVIOUS
<1>2. c = [f |-> f, op |-> o, init |-> i, source |-> s, queue |-> q, running |-> FALSE, want |-> w]
  BY <1>1 DEF CallOf
<1>3. c.f = f /\ c.op = o /\ c.init = i /\ c.source = s /\ c.queue = q /\ c.running = FALSE /\ c.want = w
  BY <1>2
<1>4. Meaning(IF Source(f, e) = "a" THEN expected ELSE <<Source(f, e), expected>>) = Asked(c)
  BY <1>1, <1>3 DEF Asked, Term
<1>5. c # NoCall
  BY <1>2, CallIsCall
<1>. QED  BY <1>1, <1>2, <1>3, <1>4, <1>5 DEF Called

(* The inits that are not used do not matter. *)
LEMMA ReducedInit ==
  ASSUME NEW f, f \notin {"reduce", "transform_reduce"}, NEW op, NEW i, NEW j, NEW data
  PROVE  Reduced(f, op, i, data) = Reduced(f, op, j, data)
  BY DEF Reduced

LEMMA CallIsOK ==
  ASSUME NEW f \in Function, NEW op \in BinaryOp, NEW init \in Inits, NEW e \in {"a", "double"}, NEW q \in Queue,
         e = "a" \/ f = "sum_squares", Supported(f, OpOf(f, op), init, e, q),
         backend \in Backend, NEW v \in DOMAIN Contents, expected = <<v>>,
         NEW c, Called(c, f, op, init, e, q)
  PROVE  CallOK(c)
<1>1. /\ c.f = f /\ c.op = OpOf(f, op) /\ c.init = (IF f \in {"reduce", "transform_reduce"} THEN init ELSE 0)
      /\ c.source = Source(f, e) /\ c.queue = q /\ c.running = FALSE
      /\ c.want = Reduced(f, OpOf(f, op), init, Asked(c))
      /\ c = [f |-> c.f, op |-> c.op, init |-> c.init, source |-> c.source, queue |-> c.queue,
              running |-> c.running, want |-> c.want]
  BY DEF Called
<1>2. init \in Int /\ c.init \in Int
  BY <1>1, ConstantsAssumption DEF ConstantsAssumption
<1>3. c.source \in {"a", "abs", "double"} /\ (f = "norm_linf" => c.source = "abs") /\ (f = "max" => c.source = "a")
  BY <1>1 DEF Source
<1>4. PICK data : data = Contents[v]
  OBVIOUS
<1>5. data \in Seq(Int) /\ Len(Asked(c)) = Len(data)
  BY <1>3, <1>4, AskedIn, ConstantsAssumption DEF ConstantsAssumption
<1>6. /\ f \in {"max", "min", "norm_linf"} => Len(data) > 0
      /\ f = "max" /\ backend \in {"thrust", "sycl"} => \E i \in DOMAIN data : data[i] >= 0
      /\ backend \in {"sycl", "sycl_host"} /\ f \in {"reduce", "transform_reduce"}
           => Combine(OpOf(f, op), init, init) = init
  <2>1. expected[1] = v
    OBVIOUS
  <2>. QED  BY <1>4, <2>1 DEF Supported
<1>7. /\ OpOf(f, op) \in BinaryOp
      /\ f \in {"sum", "sum_squares"} => OpOf(f, op) = "plus"
      /\ f \in {"max", "norm_linf"} => OpOf(f, op) = "maximum"
      /\ f = "min" => OpOf(f, op) = "minimum"
  <2>1. CASE f \in {"sum", "sum_squares"}
    BY <2>1 DEF OpOf, BinaryOp
  <2>2. CASE f \in {"max", "norm_linf"}
    BY <2>2 DEF OpOf, BinaryOp
  <2>3. CASE f = "min"
    BY <2>3 DEF OpOf, BinaryOp
  <2>4. CASE f \in {"reduce", "transform_reduce"}
    BY <2>4 DEF OpOf
  <2>. QED  BY <2>1, <2>2, <2>3, <2>4 DEF Function
<1>8. Applicable(c.f, c.op, Asked(c))
  BY <1>1, <1>5, <1>6, <1>7 DEF Applicable
<1>9. c.want = Reduced(c.f, c.op, c.init, Asked(c))
  <2>1. CASE f \in {"reduce", "transform_reduce"}
    BY <1>1, <2>1
  <2>2. CASE f \notin {"reduce", "transform_reduce"}
    <3>1. PICK i, d : i = c.init /\ d = Asked(c)
      OBVIOUS
    <3>2. Reduced(f, OpOf(f, op), init, d) = Reduced(f, OpOf(f, op), i, d)
      BY <2>2, ReducedInit
    <3>. QED  BY <1>1, <3>1, <3>2
  <2>. QED  BY <2>1, <2>2
<1>10. ~ Loops(c.f) => StartOK(c)
  <2>1. SUFFICES ASSUME ~ Loops(c.f) PROVE StartOK(c)
    OBVIOUS
  <2>2. backend \in {"thrust", "sycl", "sycl_host"} /\ (c.f = "max" => backend \in {"thrust", "sycl"})
    BY <2>1 DEF Loops, Backend
  <2>3. c.f = "max" => \E i \in DOMAIN Contents[v] : Contents[v][i] >= 0
    BY <1>1, <1>4, <1>6, <2>2
  <2>4. backend # "thrust" /\ c.f \in {"reduce", "transform_reduce"} => Combine(c.op, c.init, c.init) = c.init
    BY <1>1, <1>6, <2>2
  <2>5. (c.f = "norm_linf" => c.source = "abs") /\ (c.f = "max" => c.source = "a")
    BY <1>1, <1>3
  <2>. QED  BY <1>2, <1>3, <1>8, <2>2, <2>3, <2>4, <2>5, StartIsRight
<1>. QED  BY <1>1, <1>2, <1>3, <1>8, <1>9, <1>10 DEF CallOK

LEMMA CallStep ==
  ASSUME IInv, NEW f \in Function, NEW op \in BinaryOp, NEW init \in Inits, NEW e \in {"a", "double"}, NEW q \in Queue,
         e = "a" \/ f = "sum_squares", Call(f, op, init, e, q)
  PROVE  IInv'
<1>1. PICK c, d : /\ c = CallOf(f, op, init, e, q)
                  /\ d = IF Source(f, e) = "a" THEN dev ELSE Enqueue(dev, EvalOp(Source(f, e)))
  OBVIOUS
<1>2. /\ call = NoCall /\ call' = c /\ UNCHANGED <<backend, expected, correct, result, private, todo>>
      /\ dev' = IF Loops(f) THEN d ELSE Submit(d, q, Work(c))
      /\ Supported(f, OpOf(f, op), init, e, q)
  BY <1>1, Zenon DEF Call, HostRuns, CallOf, EvalOp
<1>3. Device(dev) /\ correct = TRUE /\ backend \in Backend /\ DeviceOK /\ ItemsOK
  BY DEF IInv, DeviceOK
<1>4. PICK v \in DOMAIN Contents : expected = <<v>>
  BY <1>3 DEF DeviceOK
<1>5. Called(c, f, op, init, e, q)
  BY <1>1, CallParts
<1>6. CallOK(c)
  BY <1>2, <1>3, <1>4, <1>5, CallIsOK
<1>7. PICK n \in Nat : Queued(dev, call, n)
  BY <1>3 DEF DeviceOK
<1>8. PICK w : w = dev.queue["default"]
  OBVIOUS
<1>9. /\ n = Len(w) /\ Len(dev.queue["stream"]) = 0 /\ (Host => n = 0)
      /\ \A i \in 1..n : \E x \in DOMAIN Contents : w[i] = FillOp(x)
      /\ IF n = 0 THEN dev.mem["a"] = expected ELSE w[n] = FillOp(expected[1])
  BY <1>2, <1>7, <1>8 DEF Queued, Fills
<1>10. /\ "default" \in Queue /\ "stream" \in Queue /\ "default" # "stream"
       /\ w \in Seq(Operation) /\ dev.queue["stream"] \in Seq(Operation)
  BY <1>3, <1>8 DEF Device, Queue
<1>11. /\ c.f = f /\ c.source = Source(f, e) /\ c.queue = q /\ c # NoCall /\ c.running = FALSE
       /\ c.source \in {"a", "abs", "double"}
  BY <1>5, <1>6 DEF Called, CallOK
<1>12. q = "stream" => c.source = "a" /\ w = << >>
  BY <1>2, <1>8, <1>11 DEF Supported, Source
<1>13. ~ Running /\ ~ Running'
  BY <1>2, <1>11 DEF Running
<1>14. ItemsOK'
  BY <1>2, <1>3, <1>13, ItemsIdle
<1>15. SUFFICES \E k \in Nat : Device(dev') /\ Queued(dev', c, k)
  <2>1. ASSUME NEW k \in Nat, Device(dev'), Queued(dev', c, k) PROVE DeviceOK'
    <3>1. PICK g : g = dev'
      OBVIOUS
    <3>2. Device(g) /\ Queued(g, c, k)
      BY <2>1, <3>1
    <3>. QED  BY <1>2, <1>3, <1>6, <3>1, <3>2, DeviceOKNext
  <2>. QED  BY <1>14, <2>1 DEF IInv
<1>16. Loops(c.f) => Host
  BY DEF Loops, Host
<1>17. CASE Loops(c.f) /\ c.source = "a"
  <2>1. dev' = dev
    BY <1>1, <1>2, <1>11, <1>17
  <2>2. Queued(dev', c, 0)
    BY <1>8, <1>9, <1>11, <1>16, <1>17, <2>1 DEF Queued, Fills, Buffer, Term
  <2>. QED  BY <1>3, <2>1, <2>2
<1>18. CASE Loops(c.f) /\ c.source # "a"
  <2>1. dev' = [dev EXCEPT !.mem = Executed(@, EvalOp(c.source))]
    BY <1>1, <1>2, <1>11, <1>16, <1>18 DEF Enqueue
  <2>2. Device(dev') /\ dev'.mem = Executed(dev.mem, EvalOp(c.source)) /\ dev'.queue = dev.queue
    BY <1>3, <2>1, MemoryUpdate
  <2>3. PICK m, x : m = dev.mem /\ x = c.source
    OBVIOUS
  <2>4. DOMAIN m = {"a", "temp"} /\ x \in {"abs", "double"}
    BY <1>3, <1>11, <1>18, <2>3 DEF Device
  <2>5. dev'.mem["a"] = m["a"] /\ dev'.mem["temp"] = <<x, m["a"]>>
    BY <2>2, <2>3, <2>4, EvalExecuted
  <2>6. Queued(dev', c, 0)
    BY <1>8, <1>9, <1>11, <1>16, <1>18, <2>2, <2>3, <2>5 DEF Queued, Fills, Buffer, Term
  <2>. QED  BY <2>2, <2>6
<1>19. CASE ~ Loops(c.f) /\ c.source = "a"
  <2>1. dev' = Submit(dev, q, Work(c)) /\ Work(c) \in Operation
    BY <1>1, <1>2, <1>11, <1>19, WorkIs
  <2>2. /\ Device(dev') /\ dev'.mem = dev.mem /\ dev'.queue[q] = Append(dev.queue[q], Work(c))
        /\ \A p \in Queue : p # q => dev'.queue[p] = dev.queue[p]
    BY <1>3, <2>1, SubmitIs
  <2>3. CASE q = "stream"
    <3>1. PICK s, t : s = dev.queue["stream"] /\ t = dev'.queue["stream"]
      OBVIOUS
    <3>2. t = Append(s, Work(c)) /\ s \in Seq(Operation) /\ Len(s) = 0
      BY <1>9, <1>10, <2>2, <2>3, <3>1
    <3>3. Len(t) = 1 /\ t[1] = Work(c)
      BY <2>1, <3>2, Appended
    <3>4. dev'.queue["default"] = w /\ Len(w) = 0 /\ n = 0
      BY <1>8, <1>9, <1>10, <1>12, <2>2, <2>3
    <3>5. OnStream(dev', c, 0)
      BY <1>11, <1>19, <2>3, <3>1, <3>3, <3>4 DEF OnStream
    <3>6. Queued(dev', c, 0)
      BY <1>9, <1>11, <1>19, <2>2, <3>4, <3>5 DEF Queued, Fills
    <3>. QED  BY <2>2, <3>6
  <2>4. CASE q = "default"
    <3>1. PICK t : t = dev'.queue["default"]
      OBVIOUS
    <3>2. t = Append(w, Work(c))
      BY <1>8, <2>2, <2>4, <3>1
    <3>3. Len(t) = n + 1 /\ (\A i \in 1..n : t[i] = w[i]) /\ t[n + 1] = Work(c)
      BY <1>9, <1>10, <2>1, <3>2, Appended
    <3>4. dev'.queue["stream"] = dev.queue["stream"]
      BY <1>10, <2>2, <2>4
    <3>5. OnDefault(dev', c, n)
      BY <1>9, <1>11, <1>19, <2>4, <3>1, <3>3, <3>4 DEF OnDefault
    <3>6. Fills(dev', n)
      <4>1. \A i \in 1..n : \E x \in DOMAIN Contents : t[i] = FillOp(x)
        BY <1>9, <3>3
      <4>2. n \in 0..Len(t) /\ (n # 0 => t[n] = w[n])
        BY <3>3
      <4>. QED  BY <1>9, <2>2, <3>1, <4>1, <4>2 DEF Fills
    <3>7. Queued(dev', c, n)
      BY <1>9, <1>11, <1>19, <3>5, <3>6 DEF Queued
    <3>. QED  BY <2>2, <3>7
  <2>. QED  BY <2>3, <2>4 DEF Queue
<1>20. CASE ~ Host /\ c.source # "a"
  <2>0. q = "default"
    BY <1>12, <1>20 DEF Queue
  <2>1. d = Submit(dev, "default", EvalOp(c.source)) /\ EvalOp(c.source) \in Operation
    BY <1>1, <1>11, <1>20, OperationsIn DEF Enqueue
  <2>2. /\ Device(d) /\ d.mem = dev.mem /\ d.queue["default"] = Append(w, EvalOp(c.source))
        /\ d.queue["stream"] = dev.queue["stream"]
    BY <1>3, <1>8, <1>10, <2>1, SubmitIs
  <2>3. dev' = Submit(d, "default", Work(c)) /\ Work(c) \in Operation
    BY <1>2, <1>11, <1>16, <1>20, <2>0, WorkIs
  <2>4. /\ Device(dev') /\ dev'.mem = d.mem /\ dev'.queue["default"] = Append(d.queue["default"], Work(c))
        /\ dev'.queue["stream"] = d.queue["stream"]
    BY <1>10, <2>2, <2>3, SubmitIs
  <2>5. PICK s, t : s = d.queue["default"] /\ t = dev'.queue["default"]
    OBVIOUS
  <2>6. s \in Seq(Operation) /\ Len(s) = n + 1 /\ (\A i \in 1..n : s[i] = w[i]) /\ s[n + 1] = EvalOp(c.source)
    BY <1>9, <1>10, <2>1, <2>2, <2>5, Appended
  <2>7. /\ Len(t) = n + 2 /\ (\A i \in 1..n : t[i] = w[i]) /\ t[n + 1] = EvalOp(c.source)
        /\ t[n + 2] = Work(c)
    <3>1. /\ Len(t) = Len(s) + 1 /\ (\A i \in 1..Len(s) : t[i] = s[i]) /\ t[Len(s) + 1] = Work(c)
      BY <2>3, <2>4, <2>5, <2>6, Appended
    <3>2. n + 1 + 1 = n + 2 /\ n + 1 \in 1..(n + 1) /\ \A i \in 1..n : i \in 1..(n + 1)
      OBVIOUS
    <3>. QED  BY <2>6, <3>1, <3>2
  <2>8. OnDefault(dev', c, n)
    BY <1>9, <1>11, <1>20, <2>0, <2>2, <2>4, <2>5, <2>7 DEF OnDefault
  <2>9. Fills(dev', n)
    <3>1. \A i \in 1..n : \E x \in DOMAIN Contents : t[i] = FillOp(x)
      BY <1>9, <2>7
    <3>2. n \in 0..Len(t) /\ (n # 0 => t[n] = w[n])
      BY <2>7
    <3>. QED  BY <1>9, <2>2, <2>4, <2>5, <3>1, <3>2 DEF Fills
  <2>10. Queued(dev', c, n)
    BY <1>11, <1>16, <1>20, <2>8, <2>9 DEF Queued
  <2>. QED  BY <2>4, <2>10
<1>21. CASE Host /\ ~ Loops(c.f) /\ c.source # "a"
  <2>0. q = "default" /\ n = 0
    BY <1>9, <1>12, <1>11, <1>21 DEF Queue
  <2>1. d = [dev EXCEPT !.mem = Executed(@, EvalOp(c.source))]
    BY <1>1, <1>11, <1>21 DEF Enqueue
  <2>2. Device(d) /\ d.mem = Executed(dev.mem, EvalOp(c.source)) /\ d.queue = dev.queue
    BY <1>3, <2>1, MemoryUpdate
  <2>3. dev' = Submit(d, "default", Work(c)) /\ Work(c) \in Operation
    BY <1>2, <1>11, <1>21, <2>0, WorkIs
  <2>4. /\ Device(dev') /\ dev'.mem = d.mem /\ dev'.queue["default"] = Append(w, Work(c))
        /\ dev'.queue["stream"] = dev.queue["stream"]
    <3>1. /\ Device(dev') /\ dev'.mem = d.mem
          /\ dev'.queue["default"] = Append(d.queue["default"], Work(c))
          /\ dev'.queue["stream"] = d.queue["stream"]
      BY <1>10, <2>2, <2>3, SubmitIs
    <3>. QED  BY <1>8, <2>2, <3>1
  <2>5. PICK m, x, t : m = dev.mem /\ x = c.source /\ t = dev'.queue["default"]
    OBVIOUS
  <2>6. DOMAIN m = {"a", "temp"} /\ x \in {"abs", "double"}
    <3>1. DOMAIN dev.mem = {"a", "temp"}
      BY <1>3 DEF Device
    <3>. QED  BY <1>11, <1>21, <2>5, <3>1
  <2>7. dev'.mem["a"] = m["a"] /\ dev'.mem["temp"] = <<x, m["a"]>>
    <3>1. dev'.mem = Executed(m, EvalOp(x))
      BY <2>2, <2>4, <2>5
    <3>2. Executed(m, EvalOp(x))["a"] = m["a"] /\ Executed(m, EvalOp(x))["temp"] = <<x, m["a"]>>
      BY <2>6, EvalExecuted
    <3>. QED  BY <3>1, <3>2
  <2>8. m["a"] = expected /\ Len(w) = 0
    BY <1>9, <2>0, <2>5
  <2>9. Len(t) = 1 /\ t[1] = Work(c)
    BY <1>10, <2>3, <2>4, <2>5, <2>8, Appended
  <2>10. dev'.mem["temp"] = Term(c)
    BY <1>21, <2>5, <2>7, <2>8 DEF Term
  <2>11. OnDefault(dev', c, 0)
    BY <1>9, <1>11, <1>21, <2>0, <2>4, <2>5, <2>9, <2>10 DEF OnDefault
  <2>12. Fills(dev', 0)
    BY <2>5, <2>7, <2>8, <2>9 DEF Fills
  <2>13. Queued(dev', c, 0)
    BY <1>11, <1>21, <2>11, <2>12 DEF Queued
  <2>. QED  BY <2>4, <2>13
<1>. QED  BY <1>17, <1>18, <1>19, <1>20, <1>21

(* Where the work is when it is next.                                      *)
LEMMA AtWork ==
  ASSUME NEW c, CallOK(c), c # NoCall, ~ Loops(c.f), NEW d, NEW n \in Nat, Queued(d, c, n),
         n = 0, Len(d.queue[c.queue]) = 1
  PROVE  /\ d.mem[Buffer(c.source)] = Term(c) /\ d.queue[c.queue][1] = Work(c)
         /\ c.queue = "stream" => Len(d.queue["default"]) = 0
         /\ c.queue = "default" => Len(d.queue["stream"]) = 0
<1>1. d.mem["a"] = expected
  BY DEF Queued, Fills
<1>2. CASE OnStream(d, c, n)
  BY <1>1, <1>2 DEF OnStream, Buffer, Term
<1>3. CASE OnDefault(d, c, n)
  BY <1>1, <1>3 DEF OnDefault, Buffer, Term
<1>. QED  BY <1>2, <1>3 DEF Queued

LEMMA WorkIsNext ==
  ASSUME NEW c, CallOK(c), c # NoCall, ~ Loops(c.f), NEW d, NEW n \in Nat, Queued(d, c, n),
         d.queue[c.queue] # << >>, d.queue[c.queue] \in Seq(Operation), Head(d.queue[c.queue]) = Work(c)
  PROVE  n = 0 /\ Len(d.queue[c.queue]) = 1
<1>1. CASE OnStream(d, c, n)
  BY <1>1 DEF OnStream
<1>2. CASE OnDefault(d, c, n)
  <2>1. PICK w : w = d.queue["default"]
    OBVIOUS
  <2>2. w[1] = Work(c)
    <3>1. c.queue = "default"
      BY <1>2 DEF OnDefault
    <3>2. w # << >> /\ w \in Seq(Operation) /\ Head(w) = Work(c)
      BY <2>1, <3>1
    <3>. QED  BY <3>2, Shortened
  <2>3. n = 0
    <3>1. SUFFICES ASSUME n # 0 PROVE FALSE
      OBVIOUS
    <3>2. 1 \in 1..n
      BY <3>1
    <3>3. PICK v \in DOMAIN Contents : w[1] = FillOp(v)
      BY <2>1, <3>2 DEF Queued, Fills
    <3>. QED  BY <2>2, <3>3, WorkIs, OperationsDiffer
  <2>4. \/ c.source = "a" /\ Len(w) = n + 1 /\ w[n + 1] = Work(c)
        \/ c.source # "a" /\ Len(w) = n + 2 /\ w[n + 1] = EvalOp(c.source) /\ w[n + 2] = Work(c)
        \/ c.source # "a" /\ n = 0 /\ Len(w) = 1 /\ w[1] = Work(c)
    BY <1>2, <2>1 DEF OnDefault
  <2>5. w[1] # EvalOp(c.source)
    BY <2>2, WorkIs, OperationsDiffer
  <2>6. Len(w) = 1
    BY <2>3, <2>4, <2>5
  <2>. QED  BY <1>2, <2>1, <2>3, <2>6 DEF OnDefault
<1>. QED  BY <1>1, <1>2 DEF Queued

LEMMA ItemsUnchanged ==
  ASSUME ItemsOK, UNCHANGED <<backend, expected, call, result, private, todo>>
  PROVE  ItemsOK'
  BY DEF ItemsOK, Running, Loops, Asked, Term

LEMMA DeviceStepStep ==
  ASSUME IInv, DeviceStep
  PROVE  IInv'
<1>1. /\ UNCHANGED <<backend, expected, call, correct, result, private, todo>>
      /\ dev' = Step(dev, "default") /\ dev.queue["default"] # << >>
      /\ ~ (call # NoCall /\ Head(dev.queue["default"]) = Work(call))
  BY DEF DeviceStep, IsReduction, SameReduction
<1>2. Device(dev) /\ correct = TRUE /\ DeviceOK /\ ItemsOK
  BY DEF IInv, DeviceOK
<1>3. ItemsOK'
  BY <1>1, <1>2, ItemsUnchanged
<1>4. PICK v \in DOMAIN Contents : expected = <<v>>
  BY <1>2 DEF DeviceOK
<1>5. PICK n \in Nat : Queued(dev, call, n)
  BY <1>2 DEF DeviceOK
<1>6. PICK w, c, d, t, m : w = dev.queue["default"] /\ c = call /\ d = dev' /\ t = dev'.queue["default"] /\ m = dev.mem
  OBVIOUS
<1>7. "default" \in Queue /\ "stream" \in Queue /\ "default" # "stream"
  BY DEF Queue
<1>8. /\ Device(d) /\ d.mem = Executed(m, Head(w)) /\ t = Tail(w)
      /\ d.queue["stream"] = dev.queue["stream"]
  BY <1>1, <1>2, <1>6, <1>7, StepIs
<1>9. w \in Seq(Operation) /\ w # << >> /\ DOMAIN m = {"a", "temp"}
  BY <1>1, <1>2, <1>6, <1>7 DEF Device
<1>10. /\ t \in Seq(Operation) /\ Len(t) = Len(w) - 1 /\ Len(w) > 0
       /\ \A i \in 1..(Len(w) - 1) : t[i] = w[i + 1]
       /\ Head(w) = w[1]
  BY <1>8, <1>9, Shortened
<1>11. (n # 0 => ~ Host) /\ (c # NoCall => ~ Loops(c.f))
  <2>1. Loops(c.f) => Host
    BY DEF Loops, Host
  <2>. QED  BY <1>5, <1>6, <1>10, <2>1 DEF Queued
<1>12. /\ n \in 0..Len(w)
       /\ \A i \in 1..n : \E x \in DOMAIN Contents : w[i] = FillOp(x)
       /\ IF n = 0 THEN m["a"] = expected ELSE w[n] = FillOp(v)
       /\ c = NoCall => Len(w) = n /\ Len(dev.queue["stream"]) = 0
       /\ c # NoCall => OnStream(dev, c, n) \/ OnDefault(dev, c, n)
       /\ c # NoCall /\ c.running => n = 0 /\ Len(dev.queue[c.queue]) = 1
  BY <1>4, <1>5, <1>6, <1>11 DEF Queued, Fills
<1>13. SUFFICES \E k \in Nat : Queued(d, c, k)
  <2>1. ASSUME NEW k \in Nat, Queued(d, c, k) PROVE DeviceOK'
    <3>1. c # NoCall => CallOK(c)
      BY <1>2, <1>6 DEF DeviceOK
    <3>2. c = call' /\ d = dev' /\ correct' = TRUE /\ UNCHANGED <<backend, expected>>
      BY <1>1, <1>2, <1>6
    <3>. QED  BY <1>2, <1>8, <2>1, <3>1, <3>2, DeviceOKNext
  <2>. QED  BY <1>3, <1>13, <2>1 DEF IInv
<1>14. CASE n # 0
  <2>1. PICK k \in Nat : n = k + 1
    <3>1. n - 1 \in Nat /\ n = (n - 1) + 1
      BY <1>14
    <3>. QED  BY <3>1
  <2>2. PICK x \in DOMAIN Contents : w[1] = FillOp(x)
    <3>1. 1 \in 1..n
      BY <1>14
    <3>. QED  BY <1>12, <3>1
  <2>3. ASSUME NEW i \in 1..k PROVE t[i] = w[i + 1] /\ \E y \in DOMAIN Contents : t[i] = FillOp(y)
    <3>1. i \in 1..(Len(w) - 1)
      BY <1>10, <1>12, <2>1
    <3>2. PICK j : j = i + 1
      OBVIOUS
    <3>3. j \in 1..n
      BY <2>1, <3>2
    <3>4. t[i] = w[j] /\ \E y \in DOMAIN Contents : w[j] = FillOp(y)
      BY <1>10, <1>12, <3>1, <3>2, <3>3
    <3>. QED  BY <3>2, <3>4
  <2>4. k = 0 => d.mem["a"] = expected
    <3>1. SUFFICES ASSUME k = 0 PROVE d.mem["a"] = expected
      OBVIOUS
    <3>2. Head(w) = FillOp(v)
      BY <1>10, <1>12, <1>14, <2>1, <3>1
    <3>. QED  BY <1>4, <1>8, <1>9, <3>2, FillExecuted
  <2>5. k # 0 => t[k] = FillOp(v)
    <3>1. SUFFICES ASSUME k # 0 PROVE t[k] = FillOp(v)
      OBVIOUS
    <3>2. k \in 1..k
      BY <3>1
    <3>. QED  BY <1>12, <1>14, <2>1, <2>3, <3>2
  <2>6. Fills(d, k)
    <3>1. k \in 0..Len(t)
      BY <1>10, <1>12, <2>1
    <3>. QED  BY <1>4, <1>6, <2>3, <2>4, <2>5, <3>1 DEF Fills
  <2>7. c = NoCall => Len(t) = k /\ Len(d.queue["stream"]) = 0
    <3>1. SUFFICES ASSUME c = NoCall PROVE Len(t) = k /\ Len(d.queue["stream"]) = 0
      OBVIOUS
    <3>2. Len(w) = n /\ Len(dev.queue["stream"]) = 0
      BY <1>12, <3>1
    <3>3. Len(d.queue["stream"]) = 0
      BY <1>8, <3>2
    <3>. QED  BY <1>10, <2>1, <3>2, <3>3
  <2>8. ASSUME c # NoCall PROVE OnDefault(d, c, k) /\ ~ c.running
    <3>1. OnDefault(dev, c, n) /\ ~ c.running
      BY <1>12, <1>14, <2>8 DEF OnStream
    <3>2. /\ c.queue = "default" /\ Len(dev.queue["stream"]) = 0
          /\ \/ c.source = "a" /\ Len(w) = n + 1 /\ w[n + 1] = Work(c)
             \/ c.source # "a" /\ Len(w) = n + 2 /\ w[n + 1] = EvalOp(c.source) /\ w[n + 2] = Work(c)
      BY <1>6, <1>14, <3>1 DEF OnDefault
    <3>3. \/ c.source = "a" /\ Len(t) = k + 1 /\ t[k + 1] = Work(c)
          \/ c.source # "a" /\ Len(t) = k + 2 /\ t[k + 1] = EvalOp(c.source) /\ t[k + 2] = Work(c)
      <4>1. ASSUME NEW i \in 1..Len(t) PROVE t[i] = w[i + 1]
        BY <1>10, <4>1
      <4>2. CASE c.source = "a" /\ Len(w) = n + 1 /\ w[n + 1] = Work(c)
        <5>1. PICK j : j = k + 1
          OBVIOUS
        <5>2. j \in 1..Len(t) /\ j + 1 = n + 1 /\ Len(t) = j
          BY <1>10, <2>1, <4>2, <5>1
        <5>3. t[j] = Work(c)
          BY <4>1, <4>2, <5>2
        <5>. QED  BY <4>2, <5>1, <5>2, <5>3
      <4>3. CASE c.source # "a" /\ Len(w) = n + 2 /\ w[n + 1] = EvalOp(c.source) /\ w[n + 2] = Work(c)
        <5>1. PICK j, l : j = k + 1 /\ l = k + 2
          OBVIOUS
        <5>2. j \in 1..Len(t) /\ l \in 1..Len(t) /\ j + 1 = n + 1 /\ l + 1 = n + 2 /\ Len(t) = l
          BY <1>10, <2>1, <4>3, <5>1
        <5>3. t[j] = EvalOp(c.source) /\ t[l] = Work(c)
          BY <4>1, <4>3, <5>2
        <5>. QED  BY <4>3, <5>1, <5>2, <5>3
      <4>. QED  BY <3>2, <4>2, <4>3
    <3>4. OnDefault(d, c, k)
      BY <1>6, <1>8, <3>2, <3>3 DEF OnDefault
    <3>. QED  BY <3>1, <3>4
  <2>9. Queued(d, c, k)
    BY <1>6, <1>11, <1>14, <2>6, <2>7, <2>8 DEF Queued
  <2>. QED  BY <2>9
<1>15. CASE n = 0
  <2>1. c # NoCall
    BY <1>10, <1>12, <1>15
  <2>2. w[1] # Work(c)
    BY <1>1, <1>6, <1>10, <2>1
  <2>3. OnDefault(dev, c, n)
    BY <1>6, <1>10, <1>12, <2>1 DEF OnStream
  <2>4. /\ c.queue = "default" /\ Len(dev.queue["stream"]) = 0
        /\ c.source # "a" /\ Len(w) = 2 /\ w[1] = EvalOp(c.source) /\ w[2] = Work(c)
    BY <1>6, <1>15, <2>2, <2>3 DEF OnDefault
  <2>5. ~ c.running
    BY <1>6, <1>12, <2>1, <2>4
  <2>6. c.source \in {"abs", "double"}
    BY <1>2, <1>6, <2>1, <2>4 DEF DeviceOK, CallOK
  <2>7. d.mem["a"] = expected /\ d.mem["temp"] = Term(c)
    <3>1. PICK x : x = c.source
      OBVIOUS
    <3>2. x \in {"abs", "double"} /\ Head(w) = EvalOp(x) /\ m["a"] = expected
      BY <1>10, <1>12, <1>15, <2>4, <2>6, <3>1
    <3>3. d.mem["a"] = m["a"] /\ d.mem["temp"] = <<x, m["a"]>>
      BY <1>8, <1>9, <3>2, EvalExecuted
    <3>. QED  BY <2>4, <3>1, <3>2, <3>3 DEF Term
  <2>8. Len(t) = 1 /\ t[1] = Work(c)
    <3>1. 1 \in 1..(Len(w) - 1) /\ 1 + 1 = 2
      BY <2>4
    <3>. QED  BY <1>10, <2>4, <3>1
  <2>9. OnDefault(d, c, 0)
    BY <1>6, <1>8, <2>4, <2>7, <2>8 DEF OnDefault
  <2>10. Fills(d, 0)
    BY <2>7 DEF Fills
  <2>11. Queued(d, c, 0)
    BY <1>11, <2>1, <2>5, <2>9, <2>10 DEF Queued
  <2>. QED  BY <2>11
<1>. QED  BY <1>14, <1>15

LEMMA BeginStep ==
  ASSUME IInv, Begin
  PROVE  IInv'
<1>1. /\ call # NoCall /\ ~ Loops(call.f) /\ ~ call.running
      /\ dev.queue[call.queue] # << >> /\ Head(dev.queue[call.queue]) = Work(call)
      /\ result' = Start(call.f, call.init, Data).result
      /\ private' = [g \in Groups |-> Start(call.f, call.init, Data).private]
      /\ todo' = DOMAIN Data /\ call' = [call EXCEPT !.running = TRUE]
      /\ UNCHANGED <<backend, dev, expected, correct>>
  BY DEF Begin, IsReduction
<1>2. Device(dev) /\ correct = TRUE /\ DeviceOK /\ CallOK(call)
  BY <1>1 DEF IInv, DeviceOK
<1>3. PICK n \in Nat : Queued(dev, call, n)
  BY <1>2 DEF DeviceOK
<1>4. PICK b, c, d : b = call /\ c = call' /\ d = dev
  OBVIOUS
<1>5. b \in [f : {b.f}, op : {b.op}, init : {b.init}, source : {b.source}, queue : {b.queue}, running : BOOLEAN, want : {b.want}]
  BY <1>2, <1>4 DEF CallOK
<1>6. /\ c.f = b.f /\ c.op = b.op /\ c.init = b.init /\ c.source = b.source /\ c.queue = b.queue
      /\ c.running = TRUE /\ c.want = b.want
      /\ c = [f |-> c.f, op |-> c.op, init |-> c.init, source |-> c.source, queue |-> c.queue,
              running |-> c.running, want |-> c.want]
  BY <1>1, <1>4, <1>5
<1>7. c # NoCall
  <2>1. PICK f, op, init, source, q, running, want :
          c = [f |-> f, op |-> op, init |-> init, source |-> source, queue |-> q, running |-> running, want |-> want]
    BY <1>6
  <2>. QED  BY <2>1, CallIsCall
<1>8. Asked(c) = Asked(b) /\ Work(c) = Work(b) /\ Term(c) = Term(b)
  BY <1>6 DEF Asked, Term, Work
<1>9. CallOK(c)
  BY <1>2, <1>4, <1>6, <1>8 DEF CallOK, StartOK
<1>10. d.queue[b.queue] \in Seq(Operation)
  BY <1>2, <1>4 DEF Device, CallOK
<1>11. n = 0 /\ Len(d.queue[b.queue]) = 1
  BY <1>1, <1>2, <1>3, <1>4, <1>10, WorkIsNext
<1>12. d.mem[Buffer(b.source)] = Term(b)
  BY <1>1, <1>2, <1>3, <1>4, <1>11, AtWork
<1>13. Data = Asked(b)
  BY <1>4, <1>12 DEF Data, Asked
<1>14. Queued(d, c, n)
  <2>1. Queued(d, b, n)
    BY <1>3, <1>4
  <2>2. OnStream(d, b, n) => OnStream(d, c, n)
    BY <1>6, <1>8 DEF OnStream
  <2>3. OnDefault(d, b, n) => OnDefault(d, c, n)
    BY <1>6, <1>8 DEF OnDefault
  <2>. QED  BY <1>1, <1>4, <1>6, <1>7, <1>11, <2>1, <2>2, <2>3 DEF Queued
<1>15. DeviceOK'
  <2>1. d = dev' /\ c = call' /\ correct' = TRUE /\ UNCHANGED <<backend, expected>>
    BY <1>1, <1>2, <1>4
  <2>2. Device(d)
    BY <1>2, <1>4
  <2>. QED  BY <1>2, <1>9, <1>14, <2>1, <2>2, DeviceOKNext
<1>16. PICK data, s : data = Asked(c) /\ s = Start(c.f, c.init, data)
  OBVIOUS
<1>17. /\ result' = s.result /\ private' = [g \in Groups |-> s.private] /\ todo' = DOMAIN data
  BY <1>1, <1>4, <1>6, <1>8, <1>13, <1>16
<1>18. /\ s.result \in Values /\ s.private \in Values /\ StartsRight(c.f, c.init, data, s.result)
       /\ Combine(c.op, s.result, s.private) = s.result
       /\ Applicable(c.f, c.op, data) /\ c.init \in Int /\ c.want = Reduced(c.f, c.op, c.init, data)
  <2>1. ~ Loops(c.f)
    BY <1>1, <1>4, <1>6
  <2>. QED  BY <1>9, <1>16, <2>1 DEF CallOK, StartOK
<1>19. data \in Seq(Int)
  <2>1. PICK v \in DOMAIN Contents : expected = <<v>>
    BY <1>2 DEF DeviceOK
  <2>2. c.source \in {"a", "abs", "double"}
    BY <1>9 DEF CallOK
  <2>. QED  BY <1>16, <2>1, <2>2, AskedIn
<1>20. PICK f, op, init, r, p : f = c.f /\ op = c.op /\ init = c.init /\ r = result' /\ p = private'
  OBVIOUS
<1>21. r = s.result /\ \A g \in Groups : p[g] = s.private
  BY <1>17, <1>20
<1>22. Balanced(op, r, p, DOMAIN data, f, data, Reduced(f, op, init, data))
  <2>1. \A g \in Groups : Combine(op, r, p[g]) = r
    BY <1>18, <1>20, <1>21
  <2>2. Applicable(f, op, data) /\ StartsRight(f, init, data, r) /\ init \in Int
    BY <1>18, <1>20, <1>21
  <2>. QED  BY <1>19, <2>1, <2>2, BalanceStarts
<1>23. Balanced(call.op, result, private, todo, call.f, Asked(call), call.want)'
  <2>1. PICK left : left = todo'
    OBVIOUS
  <2>2. Balanced(c.op, r, p, left, c.f, Asked(c), c.want)
    BY <1>16, <1>17, <1>18, <1>20, <1>22, <2>1
  <2>3. c = call' /\ r = result' /\ p = private' /\ UNCHANGED <<backend, expected>>
    BY <1>1, <1>4, <1>20
  <2>. QED  BY <2>1, <2>2, <2>3, BalancedNext
<1>24. Running'
  BY <1>1, <1>4, <1>6, <1>7 DEF Running, Loops
<1>25. Asked(call)' = data
  BY <1>1, <1>4, <1>16 DEF Asked, Term
<1>26. result' \in Values /\ private' \in [Groups -> Values] /\ todo' \subseteq DOMAIN (Asked(call)')
  BY <1>17, <1>18, <1>25
<1>27. ItemsOK'
  BY <1>23, <1>24, <1>26 DEF ItemsOK
<1>. QED  BY <1>15, <1>27 DEF IInv

(* What is known while a reduction runs.                                   *)
LEMMA WhileRunning ==
  ASSUME IInv, Running
  PROVE  /\ CallOK(call) /\ Asked(call) \in Seq(Int) /\ Data = Asked(call) /\ call.op \in BinaryOp
         /\ todo \subseteq DOMAIN Asked(call)
         /\ Balanced(call.op, result, private, todo, call.f, Asked(call), call.want)
         /\ result \in Values /\ private \in [Groups -> Values]
<1>1. CallOK(call) /\ call # NoCall /\ ~ Loops(call.f) /\ call.running
  BY DEF IInv, DeviceOK, Running
<1>2. PICK n \in Nat : Queued(dev, call, n)
  BY DEF IInv, DeviceOK
<1>3. n = 0 /\ Len(dev.queue[call.queue]) = 1
  BY <1>1, <1>2 DEF Queued
<1>4. PICK c, d : c = call /\ d = dev
  OBVIOUS
<1>5. d.mem[Buffer(c.source)] = Term(c)
  BY <1>1, <1>2, <1>3, <1>4, AtWork
<1>6. Data = Asked(call)
  BY <1>4, <1>5 DEF Data, Asked
<1>7. Asked(call) \in Seq(Int)
  <2>1. PICK v \in DOMAIN Contents : expected = <<v>>
    BY DEF IInv, DeviceOK
  <2>2. c.source \in {"a", "abs", "double"}
    BY <1>1, <1>4 DEF CallOK
  <2>3. Asked(c) \in Seq(Int)
    BY <2>1, <2>2, AskedIn
  <2>. QED  BY <1>4, <2>3
<1>8. call.op \in BinaryOp
  BY <1>1 DEF CallOK, Applicable
<1>. QED  BY <1>1, <1>6, <1>7, <1>8 DEF IInv, ItemsOK

LEMMA DeviceUnchanged ==
  ASSUME DeviceOK, UNCHANGED <<backend, dev, expected, call, correct>>
  PROVE  DeviceOK'
<1>1. PICK n \in Nat : Queued(dev, call, n)
  BY DEF DeviceOK
<1>2. PICK c, d : c = call /\ d = dev
  OBVIOUS
<1>. QED  BY <1>1, <1>2, DeviceOKNext DEF DeviceOK

LEMMA WorkItemStep ==
  ASSUME IInv, NEW g \in Groups, NEW i \in todo, WorkItem(g, i)
  PROVE  IInv'
<1>1. /\ private' = [private EXCEPT ![g] = Combine(call.op, @, Transform(call.f, Data[i]))]
      /\ todo' = todo \ {i} /\ UNCHANGED <<backend, dev, expected, call, result, correct>>
  BY DEF WorkItem
<1>2. Running
  BY DEF IInv, ItemsOK
<1>3. /\ CallOK(call) /\ Asked(call) \in Seq(Int) /\ Data = Asked(call) /\ call.op \in BinaryOp
      /\ todo \subseteq DOMAIN Asked(call)
      /\ Balanced(call.op, result, private, todo, call.f, Asked(call), call.want)
      /\ result \in Values /\ private \in [Groups -> Values]
  BY <1>2, WhileRunning
<1>4. PICK c, data, r, p, left : c = call /\ data = Asked(call) /\ r = result /\ p = private /\ left = todo
  OBVIOUS
<1>5. PICK q : q = [p EXCEPT ![g] = Combine(c.op, @, Transform(c.f, data[i]))]
  OBVIOUS
<1>6. PICK f, op, want : f = c.f /\ op = c.op /\ want = c.want
  OBVIOUS
<1>7. Balanced(op, r, [p EXCEPT ![g] = Combine(op, @, Transform(f, data[i]))], left \ {i}, f, data, want)
  BY <1>3, <1>4, <1>6, BalanceTake
<1>8. q = private'
  BY <1>1, <1>3, <1>4, <1>5
<1>9. q \in [Groups -> Values]
  <2>1. Transform(f, data[i]) \in Values
    <3>1. i \in 1..Len(data) /\ data \in Seq(Int)
      BY <1>3, <1>4
    <3>2. Transform(f, data[i]) \in Int
      BY <3>1, TransformedIn
    <3>. QED  BY <3>2 DEF Values
  <2>2. PICK x : x = Combine(op, p[g], Transform(f, data[i]))
    OBVIOUS
  <2>3. x \in Values
    BY <1>3, <1>4, <1>6, <2>1, <2>2, CombineRules
  <2>4. q = [p EXCEPT ![g] = x]
    BY <1>5, <1>6, <2>2
  <2>. QED  BY <1>3, <1>4, <2>3, <2>4
<1>10. Balanced(call.op, result, private, todo, call.f, Asked(call), call.want)'
  <2>1. PICK rest : rest = left \ {i}
    OBVIOUS
  <2>2. Balanced(c.op, r, q, rest, c.f, Asked(c), c.want)
    BY <1>4, <1>5, <1>6, <1>7, <2>1
  <2>3. c = call' /\ r = result' /\ q = private' /\ rest = todo' /\ UNCHANGED <<backend, expected>>
    BY <1>1, <1>4, <1>8, <2>1
  <2>. QED  BY <2>2, <2>3, BalancedNext
<1>11. Running' /\ Asked(call)' = Asked(call)
  BY <1>1, <1>2 DEF Running, Loops, Asked, Term
<1>12. ItemsOK'
  BY <1>1, <1>3, <1>8, <1>9, <1>10, <1>11 DEF ItemsOK
<1>13. DeviceOK'
  BY <1>1, DeviceUnchanged DEF IInv
<1>. QED  BY <1>12, <1>13 DEF IInv

LEMMA FlushStep ==
  ASSUME IInv, NEW g \in Groups, Flush(g)
  PROVE  IInv'
<1>1. /\ call # NoCall /\ ~ Loops(call.f) /\ call.running
      /\ result' = Combine(call.op, result, private[g])
      /\ private' = [private EXCEPT ![g] = None]
      /\ UNCHANGED <<backend, dev, expected, call, todo, correct>>
  BY DEF Flush
<1>2. Running
  BY <1>1 DEF Running
<1>3. /\ CallOK(call) /\ Asked(call) \in Seq(Int) /\ Data = Asked(call) /\ call.op \in BinaryOp
      /\ todo \subseteq DOMAIN Asked(call)
      /\ Balanced(call.op, result, private, todo, call.f, Asked(call), call.want)
      /\ result \in Values /\ private \in [Groups -> Values]
  BY <1>2, WhileRunning
<1>4. PICK c, data, r, p, left : c = call /\ data = Asked(call) /\ r = result /\ p = private /\ left = todo
  OBVIOUS
<1>6. PICK f, op, want : f = c.f /\ op = c.op /\ want = c.want
  OBVIOUS
<1>5. PICK q, x : q = [p EXCEPT ![g] = None] /\ x = Combine(op, r, p[g])
  OBVIOUS
<1>7. Balanced(op, Combine(op, r, p[g]), [p EXCEPT ![g] = None], left, f, data, want)
  BY <1>3, <1>4, <1>6, BalanceFlush
<1>8. q = private' /\ x = result'
  BY <1>1, <1>4, <1>5, <1>6
<1>9. q \in [Groups -> Values] /\ x \in Values
  <2>1. None \in Values
    BY DEF Values
  <2>2. x \in Values
    BY <1>3, <1>4, <1>5, <1>6, CombineRules
  <2>. QED  BY <1>3, <1>4, <1>5, <2>1, <2>2
<1>10. Balanced(call.op, result, private, todo, call.f, Asked(call), call.want)'
  <2>2. Balanced(c.op, x, q, left, c.f, Asked(c), c.want)
    BY <1>4, <1>5, <1>6, <1>7
  <2>3. c = call' /\ x = result' /\ q = private' /\ left = todo' /\ UNCHANGED <<backend, expected>>
    BY <1>1, <1>4, <1>8
  <2>. QED  BY <2>2, <2>3, BalancedNext
<1>11. Running' /\ Asked(call)' = Asked(call)
  BY <1>1, <1>2 DEF Running, Loops, Asked, Term
<1>12. ItemsOK'
  BY <1>1, <1>3, <1>8, <1>9, <1>10, <1>11 DEF ItemsOK
<1>13. DeviceOK'
  BY <1>1, DeviceUnchanged DEF IInv
<1>. QED  BY <1>12, <1>13 DEF IInv

LEMMA ReturnStep ==
  ASSUME IInv, Return
  PROVE  IInv'
<1>1. /\ call # NoCall /\ ~ Loops(call.f) /\ call.running /\ todo = {} /\ \A g \in Groups : private[g] = None
      /\ dev' = Step(dev, call.queue) /\ correct' = (result = call.want) /\ result' = None /\ call' = NoCall
      /\ UNCHANGED <<backend, expected, private, todo>>
  BY DEF Return
<1>2. Running
  BY <1>1 DEF Running
<1>3. /\ CallOK(call) /\ Asked(call) \in Seq(Int) /\ private \in [Groups -> Values]
      /\ Balanced(call.op, result, private, todo, call.f, Asked(call), call.want)
  BY <1>2, WhileRunning
<1>4. result = call.want
  <2>1. PICK f, op, data, r, p, want :
          f = call.f /\ op = call.op /\ data = Asked(call) /\ r = result /\ p = private /\ want = call.want
    OBVIOUS
  <2>2. Balanced(op, r, p, {}, f, data, want) /\ data \in Seq(Int) /\ \A g \in Groups : p[g] = None
    BY <1>1, <1>3, <2>1
  <2>3. r = want
    BY <2>2, BalanceEnds
  <2>. QED  BY <2>1, <2>3
<1>5. correct' = TRUE
  BY <1>1, <1>4
<1>6. PICK n \in Nat : Queued(dev, call, n)
  BY DEF IInv, DeviceOK
<1>7. PICK b, d, q, e, w, t : b = call /\ d = dev /\ q = call.queue /\ e = dev' /\ w = dev.queue[call.queue] /\ t = dev'.queue[call.queue]
  OBVIOUS
<1>8. n = 0 /\ Len(w) = 1 /\ d.mem["a"] = expected
  BY <1>1, <1>6, <1>7 DEF Queued, Fills
<1>9. /\ w[1] = Work(b)
      /\ q = "stream" => Len(d.queue["default"]) = 0
      /\ q = "default" => Len(d.queue["stream"]) = 0
  BY <1>1, <1>3, <1>6, <1>7, <1>8, AtWork
<1>10. Device(d) /\ q \in Queue /\ w \in Seq(Operation) /\ DOMAIN d.mem = {"a", "temp"}
  BY <1>3, <1>7 DEF IInv, DeviceOK, Device, CallOK
<1>11. w # << >>
  BY <1>8
<1>12. /\ Device(e) /\ e.mem = Executed(d.mem, Head(w)) /\ t = Tail(w)
       /\ \A p \in Queue : p # q => e.queue[p] = d.queue[p]
  BY <1>1, <1>7, <1>10, <1>11, StepIs
<1>13. Len(t) = 0 /\ Head(w) = Work(b)
  BY <1>8, <1>9, <1>10, <1>11, <1>12, Shortened
<1>14. e.mem["a"] = expected
  <2>1. PICK m, x : m = d.mem /\ x = Buffer(b.source)
    OBVIOUS
  <2>2. Head(w) = WorkOp(x)
    BY <1>13, <2>1, WorkIs
  <2>3. DOMAIN m = {"a", "temp"} /\ m["a"] = expected
    BY <1>8, <1>10, <2>1
  <2>4. Executed(m, WorkOp(x))["a"] = m["a"]
    BY <2>3, WorkExecuted
  <2>. QED  BY <1>12, <2>1, <2>2, <2>3, <2>4
<1>15. Len(e.queue["default"]) = 0 /\ Len(e.queue["stream"]) = 0
  BY <1>7, <1>9, <1>10, <1>12, <1>13 DEF Queue
<1>16. Queued(e, NoCall, 0)
  BY <1>14, <1>15 DEF Queued, Fills
<1>17. DeviceOK'
  <2>1. PICK c : c = NoCall
    OBVIOUS
  <2>2. DeviceOK /\ e = dev' /\ c = call' /\ (c # NoCall => CallOK(c)) /\ Queued(e, c, 0) /\ 0 \in Nat
    BY <1>1, <1>7, <1>16, <2>1 DEF IInv
  <2>3. UNCHANGED <<backend, expected>>
    BY <1>1
  <2>. QED  BY <1>5, <1>12, <2>2, <2>3, DeviceOKNext
<1>18. ItemsOK'
  BY <1>1, <1>3 DEF ItemsOK, Running, Values
<1>. QED  BY <1>17, <1>18 DEF IInv

LEMMA OnHostStep ==
  ASSUME IInv, OnHost
  PROVE  IInv'
<1>1. /\ call # NoCall /\ Loops(call.f) /\ correct' = (HostReduce(call.f, call.op, call.init, Data) = call.want)
      /\ call' = NoCall /\ UNCHANGED <<backend, dev, expected, private, result, todo>>
  BY DEF OnHost
<1>2. CallOK(call) /\ DeviceOK
  BY <1>1 DEF IInv, DeviceOK
<1>3. PICK n \in Nat : Queued(dev, call, n)
  BY <1>2 DEF DeviceOK
<1>4. PICK f, op, init, data : f = call.f /\ op = call.op /\ init = call.init /\ data = Asked(call)
  OBVIOUS
<1>5. Data = data
  BY <1>1, <1>3, <1>4 DEF Queued, Data, Asked
<1>6. data \in Seq(Int)
  <2>1. PICK v \in DOMAIN Contents : expected = <<v>>
    BY <1>2 DEF DeviceOK
  <2>2. PICK c : c = call
    OBVIOUS
  <2>3. c.source \in {"a", "abs", "double"}
    BY <1>2, <2>2 DEF CallOK
  <2>4. Asked(c) \in Seq(Int)
    BY <2>1, <2>3, AskedIn
  <2>. QED  BY <1>4, <2>2, <2>4
<1>7. init \in Int /\ Applicable(f, op, data) /\ call.want = Reduced(f, op, init, data)
  BY <1>2, <1>4 DEF CallOK
<1>8. HostReduce(f, op, init, data) = Reduced(f, op, init, data)
  BY <1>6, <1>7, HostIsRight
<1>9. correct' = TRUE
  BY <1>1, <1>4, <1>5, <1>7, <1>8
<1>10. Queued(dev, NoCall, n)
  BY <1>1, <1>3 DEF Queued
<1>11. DeviceOK'
  <2>1. PICK c, d : c = NoCall /\ d = dev
    OBVIOUS
  <2>2. d = dev' /\ c = call' /\ (c # NoCall => CallOK(c)) /\ Queued(d, c, n) /\ Device(d)
    BY <1>1, <1>2, <1>10, <2>1 DEF DeviceOK
  <2>3. UNCHANGED <<backend, expected>>
    BY <1>1
  <2>. QED  BY <1>2, <1>9, <2>2, <2>3, DeviceOKNext
<1>12. ItemsOK'
  <2>1. ~ Running /\ ~ Running' /\ ItemsOK
    BY <1>1 DEF Running, IInv
  <2>. QED  BY <1>1, <2>1, ItemsIdle
<1>. QED  BY <1>11, <1>12 DEF IInv

LEMMA StepOK ==
  ASSUME IInv, [Next]_vars
  PROVE  IInv'
<1>1. ASSUME UNCHANGED <<backend, dev, expected, call, private, result, todo, correct>> PROVE IInv'
  <2>1. DeviceOK'
    BY <1>1, DeviceUnchanged DEF IInv
  <2>2. ItemsOK'
    BY <1>1, ItemsUnchanged DEF IInv
  <2>. QED  BY <2>1, <2>2 DEF IInv
<1>2. ASSUME NEW v \in DOMAIN Contents, Fill(v) PROVE IInv'
  BY <1>2, FillStep
<1>3. ASSUME NEW f \in Function, NEW op \in BinaryOp, NEW init \in Inits, NEW e \in {"a", "double"}, NEW q \in Queue,
             e = "a" \/ f = "sum_squares", Call(f, op, init, e, q)
      PROVE  IInv'
  BY <1>3, CallStep
<1>4. CASE OnHost
  BY <1>4, OnHostStep
<1>5. CASE Begin
  BY <1>5, BeginStep
<1>6. CASE Return
  BY <1>6, ReturnStep
<1>7. CASE DeviceStep
  BY <1>7, DeviceStepStep
<1>8. ASSUME NEW g \in Groups, Flush(g) PROVE IInv'
  BY <1>8, FlushStep
<1>9. ASSUME NEW g \in Groups, NEW i \in todo, WorkItem(g, i) PROVE IInv'
  BY <1>9, WorkItemStep
<1>10. ASSUME NEW shape \in Shapes, NEW axis \in DOMAIN shape, LaunchAxisSum(shape, axis) PROVE IInv'
  BY <1>1, <1>10 DEF LaunchAxisSum, SameReduction
<1>11. ASSUME NEW i \in kernel.threads, AxisThread(i) PROVE IInv'
  BY <1>1, <1>11 DEF AxisThread, SameReduction
<1>12. CASE EndAxisSum
  BY <1>1, <1>12 DEF EndAxisSum, SameReduction
<1>13. CASE UNCHANGED vars
  BY <1>1, <1>13 DEF vars
<1>. QED  BY <1>2, <1>3, <1>4, <1>5, <1>6, <1>7, <1>8, <1>9, <1>10, <1>11, <1>12, <1>13 DEF Next

(* One of the two queues is empty, so their work does not conflict.        *)
LEMMA OneQueue ==
  ASSUME IInv
  PROVE  NoRace(dev)
<1>1. PICK n \in Nat : Queued(dev, call, n)
  BY DEF IInv, DeviceOK
<1>2. Len(dev.queue["default"]) = 0 \/ Len(dev.queue["stream"]) = 0
  <2>1. CASE call = NoCall \/ Loops(call.f)
    BY <1>1, <2>1 DEF Queued
  <2>2. CASE call # NoCall /\ ~ Loops(call.f)
    <3>1. OnStream(dev, call, n) => Len(dev.queue["default"]) = 0
      BY DEF OnStream
    <3>2. OnDefault(dev, call, n) => Len(dev.queue["stream"]) = 0
      BY DEF OnDefault
    <3>. QED  BY <1>1, <2>2, <3>1, <3>2 DEF Queued
  <2>. QED  BY <2>1, <2>2
<1>3. DOMAIN dev.queue = {"default", "stream"} /\ \A q \in DOMAIN dev.queue : dev.queue[q] \in Seq(Operation)
  BY DEF IInv, DeviceOK, Device, Queue
<1>4. ASSUME NEW q \in DOMAIN dev.queue, Len(dev.queue[q]) = 0 PROVE ToSet(dev.queue[q]) = {}
  <2>1. PICK w : w = dev.queue[q]
    OBVIOUS
  <2>2. w \in Seq(Operation) /\ Len(w) = 0
    BY <1>3, <1>4, <2>1
  <2>3. ToSet(w) = {}
    BY <2>2 DEF ToSet
  <2>. QED  BY <2>1, <2>3
<1>5. ASSUME NEW q1 \in DOMAIN dev.queue, NEW q2 \in DOMAIN dev.queue, q1 # q2,
             NEW op1 \in ToSet(dev.queue[q1]), NEW op2 \in ToSet(dev.queue[q2])
      PROVE  ~ Conflict(op1, op2)
  <2>1. Len(dev.queue[q1]) = 0 \/ Len(dev.queue[q2]) = 0
    BY <1>2, <1>3, <1>5
  <2>. QED  BY <1>4, <2>1
<1>. QED  BY <1>5 DEF NoRace

(* The declared ranges hold in every reachable state, for any contents,    *)
(* inits and number of work groups.                                        *)
THEOREM ReductionsTypeOK == Spec => []TypeOK
<1>1. IInv => TypeOK
  <2>. SUFFICES ASSUME IInv PROVE TypeOK
    OBVIOUS
  <2>1. backend \in Backend /\ DOMAIN dev.mem = {"a", "temp"}
    BY DEF IInv, DeviceOK, Device
  <2>2. call # NoCall => call.f \in Function /\ call.op \in BinaryOp
    BY DEF IInv, DeviceOK, CallOK, Applicable
  <2>3. call = NoCall => todo = {} /\ \A g \in Groups : private[g] = None
    BY DEF IInv, ItemsOK, Running
  <2>4. \A g \in Groups : private[g] = None \/ private[g] \in Int
    BY DEF IInv, ItemsOK, Values
  <2>. QED  BY <2>1, <2>2, <2>3, <2>4 DEF TypeOK
<1>. QED  BY <1>1, InitOK, StepOK, PTL DEF Spec

(* Whatever arrays the application writes and however many work groups     *)
(* share the items out among them, in whatever order they take them and    *)
(* hand over what they hold, every reduction returns its function of the   *)
(* elements written last, and the queues never have conflicting work.      *)
THEOREM ReductionsAreRight == Spec => []ReductionCorrect
<1>1. IInv => ReductionCorrect
  BY OneQueue DEF IInv, DeviceOK, ReductionCorrect
<1>. QED  BY <1>1, InitOK, StepOK, PTL DEF Spec

-----------------------------------------------------------------------------
(* The layouts an axis sum works on *)

(* What every layout of an array does: it keeps the shape and gives each   *)
(* element a cell of its own among those of the array.                     *)
Lays(r, shape) ==
  /\ r.shape = shape
  /\ \A idx \in Indices(shape) : Cell(r, idx) \in Cells(r)
  /\ \A idx, jdx \in Indices(shape) : Cell(r, idx) = Cell(r, jdx) => idx = jdx

LEMMA Backwards ==
  ASSUME NEW T, NEW s \in Seq(T)
  PROVE  /\ Reverse(s) \in Seq(T) /\ Len(Reverse(s)) = Len(s)
         /\ \A d \in 1..Len(s) : Len(s) - d + 1 \in 1..Len(s) /\ Reverse(s)[d] = s[Len(s) - d + 1]
<1>1. PICK n : n = Len(s)
  OBVIOUS
<1>2. n \in Nat /\ \A d \in 1..n : n - d + 1 \in 1..n /\ (n - d) + 1 = n - d + 1
  BY <1>1
<1>3. Reverse(s) = [d \in 1..n |-> s[(n - d) + 1]]
  BY <1>1 DEF Reverse
<1>4. \A d \in 1..n : s[(n - d) + 1] \in T
  BY <1>1, <1>2
<1>. QED  BY <1>1, <1>2, <1>3, <1>4

LEMMA BackAgain ==
  ASSUME NEW T, NEW s \in Seq(T)
  PROVE  Reverse(Reverse(s)) = s
<1>1. PICK n, t, u : n = Len(s) /\ t = Reverse(s) /\ u = Reverse(t)
  OBVIOUS
<1>2. n \in Nat /\ t \in Seq(T) /\ Len(t) = n /\ \A d \in 1..n : n - d + 1 \in 1..n /\ t[d] = s[n - d + 1]
  BY <1>1, Backwards
<1>3. u \in Seq(T) /\ Len(u) = n /\ \A d \in 1..n : u[d] = t[n - d + 1]
  BY <1>1, <1>2, Backwards
<1>4. ASSUME NEW d \in 1..n PROVE u[d] = s[d]
  <2>1. PICK k : k = n - d + 1
    OBVIOUS
  <2>2. k \in 1..n /\ n - k + 1 = d
    BY <1>2, <2>1
  <2>. QED  BY <1>2, <1>3, <2>1, <2>2
<1>5. u = [d \in 1..n |-> u[d]] /\ s = [d \in 1..n |-> s[d]]
  BY <1>1, <1>3
<1>. QED  BY <1>1, <1>4, <1>5

LEMMA IndexBackwards ==
  ASSUME NEW s \in Shape, NEW idx \in Indices(s)
  PROVE  Reverse(s) \in Shape /\ Reverse(idx) \in Indices(Reverse(s))
<1>1. PICK n, t, jdx : n = Len(s) /\ t = Reverse(s) /\ jdx = Reverse(idx)
  OBVIOUS
<1>2. n \in Nat /\ t \in Shape /\ Len(t) = n /\ \A d \in 1..n : n - d + 1 \in 1..n /\ t[d] = s[n - d + 1]
  BY <1>1, Backwards DEF Shape
<1>3. idx \in Seq(Nat) /\ Len(idx) = n /\ \A d \in 1..n : idx[d] < s[d]
  BY <1>1, InIndices
<1>4. jdx \in Seq(Nat) /\ Len(jdx) = n /\ \A d \in 1..n : jdx[d] = idx[n - d + 1]
  BY <1>1, <1>3, Backwards
<1>5. \A d \in 1..n : jdx[d] < t[d]
  BY <1>2, <1>3, <1>4
<1>6. jdx \in Indices(t)
  BY <1>2, <1>4, <1>5, InIndices
<1>. QED  BY <1>1, <1>2, <1>6

LEMMA SizeBackwards ==
  ASSUME NEW s \in Shape
  PROVE  CalcSize(Reverse(s)) = CalcSize(s)
<1>1. PICK t : t = Reverse(s)
  OBVIOUS
<1>2. t \in Shape /\ Reverse(t) = s
  BY <1>1, Backwards, BackAgain DEF Shape
<1>3. PICK f : f = [idx \in Indices(s) |-> Reverse(idx)]
  OBVIOUS
<1>4. \A idx \in Indices(s) : idx \in Seq(Nat)
  BY InIndices
<1>5. \A idx \in Indices(s) : f[idx] \in Indices(t) /\ Reverse(f[idx]) = idx
  BY <1>1, <1>3, <1>4, IndexBackwards, BackAgain
<1>6. \A jdx \in Indices(t) : Reverse(jdx) \in Indices(s) /\ Reverse(Reverse(jdx)) = jdx
  <2>1. \A jdx \in Indices(t) : jdx \in Seq(Nat)
    BY <1>2, InIndices
  <2>. QED  BY <1>2, <2>1, IndexBackwards, BackAgain
<1>7. f \in Bijection(Indices(s), Indices(t))
  <2>1. f \in [Indices(s) -> Indices(t)]
    BY <1>3, <1>5
  <2>2. \A idx, jdx \in Indices(s) : f[idx] = f[jdx] => idx = jdx
    BY <1>5
  <2>3. \A jdx \in Indices(t) : \E idx \in Indices(s) : f[idx] = jdx
    BY <1>3, <1>6
  <2>. QED  BY <2>1, <2>2, <2>3 DEF Bijection, Injection, Surjection, IsInjective
<1>8. ExistsBijection(Indices(s), Indices(t))
  BY <1>7 DEF ExistsBijection
<1>9. /\ IsFiniteSet(Indices(s)) /\ Cardinality(Indices(s)) = CalcSize(s)
      /\ Cardinality(Indices(t)) = CalcSize(t)
  BY <1>2, IndicesCounted
<1>. QED  BY <1>1, <1>8, <1>9, FS_Bijection

(* A container lays out its elements in order. *)
LEMMA PlainLays ==
  ASSUME NEW s \in Shape
  PROVE  Lays(Region(s, CalcStrides(s), 0), s)
<1>1. PICK r : r = Region(s, CalcStrides(s), 0)
  OBVIOUS
<1>2. r.shape = s /\ r.strides = CalcStrides(s) /\ r.offset = 0
  BY <1>1 DEF Region
<1>3. \A idx \in Indices(s) : Cell(r, idx) = 0 + Place(s, idx)
  BY <1>2, ContiguousIndex DEF Cell
<1>4. CalcSize(s) \in Nat
  BY ProductIn DEF CalcSize, Shape
<1>5. \A idx \in Indices(s) : Place(s, idx) \in 0..(CalcSize(s) - 1)
  BY PlaceBelow
<1>6. \A idx \in Indices(s) : Cell(r, idx) = Place(s, idx)
  BY <1>3, <1>5
<1>7. \A idx \in Indices(s) : Cell(r, idx) \in Cells(r)
  BY <1>2, <1>4, <1>5, <1>6 DEF Cells
<1>8. \A idx, jdx \in Indices(s) : Cell(r, idx) = Cell(r, jdx) => idx = jdx
  BY <1>6, PlaceInjective
<1>. QED  BY <1>1, <1>2, <1>7, <1>8 DEF Lays

(* A view of every second element. *)
LEMMA DoubledLays ==
  ASSUME NEW s \in Shape
  PROVE  Lays(Region(s, [d \in DOMAIN CalcStrides(s) |-> 2 * CalcStrides(s)[d]], 1), s)
<1>1. PICK strides, twice, n : /\ strides = CalcStrides(s) /\ n = Len(s)
                               /\ twice = [d \in DOMAIN strides |-> 2 * strides[d]]
  OBVIOUS
<1>2. PICK r : r = Region(s, twice, 1)
  OBVIOUS
<1>3. r.shape = s /\ r.strides = twice /\ r.offset = 1
  BY <1>2 DEF Region
<1>4. n \in Nat /\ DOMAIN strides = 1..n /\ \A d \in 1..n : strides[d] \in Nat
  BY <1>1, StridesAre DEF Shape
<1>5. DOMAIN twice = 1..n /\ \A d \in 1..n : twice[d] = 2 * strides[d]
  BY <1>1, <1>4
<1>6. ASSUME NEW idx \in Indices(s) PROVE CalcIndex(twice, idx) = 2 * Place(s, idx)
  <2>1. \A d \in 1..n : idx[d] \in Nat
    BY <1>1, InIndices
  <2>2. PICK a, b : a = [d \in 1..n |-> strides[d] * idx[d]] /\ b = [d \in 1..n |-> twice[d] * idx[d]]
    OBVIOUS
  <2>3. \A x, y \in Nat : x * y \in Int /\ (2 * x) * y = 2 * (x * y)
    OBVIOUS
  <2>4. \A d \in 1..n : strides[d] * idx[d] \in Int /\ twice[d] * idx[d] = 2 * (strides[d] * idx[d])
    BY <1>4, <1>5, <2>1, <2>3
  <2>5. a \in Seq(Int) /\ Len(a) = n /\ \A d \in 1..n : a[d] = strides[d] * idx[d]
    BY <1>4, <2>2, <2>4
  <2>6. \A d \in 1..n : b[d] = 2 * a[d] /\ b[d] \in Int
    BY <2>2, <2>4, <2>5
  <2>7. b \in Seq(Int) /\ Len(b) = n
    BY <1>4, <2>2, <2>6
  <2>8. Total(b) = 2 * Total(a)
    BY <2>5, <2>6, <2>7, TotalDoubled
  <2>9. CalcIndex(strides, idx) = Total(a) /\ CalcIndex(twice, idx) = Total(b)
    BY <1>4, <1>5, <2>2 DEF CalcIndex
  <2>. QED  BY <1>1, <2>8, <2>9, ContiguousIndex
<1>7. \A idx \in Indices(s) : Cell(r, idx) = 1 + 2 * Place(s, idx)
  BY <1>3, <1>6 DEF Cell
<1>8. CalcSize(s) \in Nat
  BY ProductIn DEF CalcSize, Shape
<1>9. \A idx \in Indices(s) : Place(s, idx) \in 0..(CalcSize(s) - 1)
  BY PlaceBelow
<1>10. \A idx \in Indices(s) : Cell(r, idx) \in Cells(r)
  BY <1>3, <1>7, <1>8, <1>9 DEF Cells
<1>11. \A idx, jdx \in Indices(s) : Cell(r, idx) = Cell(r, jdx) => idx = jdx
  <2>1. ASSUME NEW idx \in Indices(s), NEW jdx \in Indices(s), Cell(r, idx) = Cell(r, jdx) PROVE idx = jdx
    <3>1. Place(s, idx) = Place(s, jdx)
      BY <1>7, <1>9, <2>1
    <3>. QED  BY <3>1, PlaceInjective
  <2>. QED  BY <2>1
<1>. QED  BY <1>1, <1>2, <1>3, <1>10, <1>11 DEF Lays

LEMMA TotalReordered ==
  ASSUME NEW n \in Nat, NEW a \in Seq(Int), Len(a) = n, NEW p, Permuting(p, n)
  PROVE  Total([d \in 1..n |-> a[p[d]]]) = Total(a)
  BY TotalPermuted

(* A transposed view of a container: the last index runs fastest. *)
LEMMA SwappedLays ==
  ASSUME NEW s \in Shape
  PROVE  Lays(Region(s, Reverse(CalcStrides(Reverse(s))), 0), s)
<1>1. PICK n, t, strides, swapped : /\ n = Len(s) /\ t = Reverse(s) /\ strides = CalcStrides(t)
                                    /\ swapped = Reverse(strides)
  OBVIOUS
<1>2. PICK r : r = Region(s, swapped, 0)
  OBVIOUS
<1>3. r.shape = s /\ r.strides = swapped /\ r.offset = 0
  BY <1>2 DEF Region
<1>4. n \in Nat /\ t \in Shape /\ Len(t) = n /\ CalcSize(t) = CalcSize(s)
  BY <1>1, Backwards, SizeBackwards DEF Shape
<1>5. strides \in Seq(Nat) /\ Len(strides) = n
  BY <1>1, <1>4, StridesAre DEF Shape
<1>6. /\ swapped \in Seq(Nat) /\ Len(swapped) = n
      /\ \A d \in 1..n : n - d + 1 \in 1..n /\ swapped[d] = strides[n - d + 1]
  BY <1>1, <1>5, Backwards
<1>7. PICK p : p = [d \in 1..n |-> n - d + 1]
  OBVIOUS
<1>8. Permuting(p, n)
  BY <1>4, <1>7 DEF Permuting
<1>9. ASSUME NEW idx \in Indices(s)
      PROVE  CalcIndex(swapped, idx) = Place(t, Reverse(idx)) /\ Reverse(idx) \in Indices(t)
  <2>1. PICK jdx : jdx = Reverse(idx)
    OBVIOUS
  <2>2. idx \in Seq(Nat) /\ Len(idx) = n
    BY <1>1, InIndices
  <2>3. jdx \in Indices(t) /\ jdx \in Seq(Nat) /\ Len(jdx) = n /\ Reverse(jdx) = idx
    BY <1>1, <2>1, <2>2, IndexBackwards, Backwards, BackAgain
  <2>4. \A d \in 1..n : n - d + 1 \in 1..n /\ idx[d] = jdx[n - d + 1]
    BY <2>3, Backwards
  <2>5. PICK a : a = [d \in 1..n |-> strides[d] * jdx[d]]
    OBVIOUS
  <2>6. \A x, y \in Nat : x * y \in Int
    OBVIOUS
  <2>7. \A d \in 1..n : strides[d] * jdx[d] \in Int
    BY <1>5, <2>3, <2>6
  <2>8. a \in Seq(Int) /\ Len(a) = n /\ \A d \in 1..n : a[d] = strides[d] * jdx[d]
    BY <1>4, <2>5, <2>7
  <2>9. Total([d \in 1..n |-> a[p[d]]]) = Total(a)
    BY <1>4, <1>8, <2>8, TotalReordered
  <2>10. \A d \in 1..n : a[p[d]] = swapped[d] * idx[d]
    <3>1. ASSUME NEW d \in 1..n, NEW c, c = n - d + 1 PROVE a[p[d]] = swapped[d] * idx[d]
      <4>1. c \in 1..n /\ p[d] = c /\ swapped[d] = strides[c]
        BY <1>6, <1>7, <3>1
      <4>2. idx[d] = jdx[c]
        BY <2>4, <3>1
      <4>3. a[c] = strides[c] * jdx[c]
        BY <2>8, <4>1
      <4>. QED  BY <4>1, <4>2, <4>3
    <3>. QED  BY <3>1
  <2>11. CalcIndex(swapped, idx) = Total([d \in 1..n |-> a[p[d]]])
    <3>1. DOMAIN swapped = 1..n
      BY <1>6
    <3>2. CalcIndex(swapped, idx) = Total([d \in 1..n |-> swapped[d] * idx[d]])
      BY <3>1 DEF CalcIndex
    <3>3. [d \in 1..n |-> swapped[d] * idx[d]] = [d \in 1..n |-> a[p[d]]]
      BY <2>10
    <3>. QED  BY <3>2, <3>3
  <2>12. CalcIndex(strides, jdx) = Total(a)
    <3>1. DOMAIN strides = 1..n
      BY <1>5
    <3>. QED  BY <2>5, <3>1 DEF CalcIndex
  <2>13. CalcIndex(strides, jdx) = Place(t, jdx)
    BY <1>1, <1>4, <2>3, ContiguousIndex
  <2>. QED  BY <2>1, <2>3, <2>9, <2>11, <2>12, <2>13
<1>10. \A idx \in Indices(s) : Cell(r, idx) = 0 + Place(t, Reverse(idx))
  BY <1>3, <1>9 DEF Cell
<1>11. CalcSize(s) \in Nat
  BY ProductIn DEF CalcSize, Shape
<1>12. \A idx \in Indices(s) : Place(t, Reverse(idx)) \in 0..(CalcSize(s) - 1)
  BY <1>4, <1>9, PlaceBelow
<1>13. \A idx \in Indices(s) : Cell(r, idx) = Place(t, Reverse(idx))
  BY <1>10, <1>12
<1>14. \A idx \in Indices(s) : Cell(r, idx) \in Cells(r)
  BY <1>3, <1>11, <1>12, <1>13 DEF Cells
<1>15. \A idx, jdx \in Indices(s) : Cell(r, idx) = Cell(r, jdx) => idx = jdx
  <2>1. ASSUME NEW idx \in Indices(s), NEW jdx \in Indices(s), Cell(r, idx) = Cell(r, jdx) PROVE idx = jdx
    <3>1. Place(t, Reverse(idx)) = Place(t, Reverse(jdx))
      BY <1>13, <2>1
    <3>2. Reverse(idx) = Reverse(jdx)
      BY <1>4, <1>9, <3>1, PlaceInjective
    <3>3. idx \in Seq(Nat) /\ jdx \in Seq(Nat)
      BY InIndices
    <3>. QED  BY <3>2, <3>3, BackAgain
  <2>. QED  BY <2>1
<1>. QED  BY <1>1, <1>2, <1>3, <1>14, <1>15 DEF Lays

LEMMA RegionLays ==
  ASSUME NEW s \in Shape, NEW r \in Regions(s)
  PROVE  Lays(r, s)
  BY PlainLays, DoubledLays, SwappedLays DEF Regions

(* The elements of an input are their own indices. *)
LEMMA ContentIs ==
  ASSUME NEW s \in Shape, NEW r, Lays(r, s), NEW idx \in Indices(s)
  PROVE  Content(r, Cell(r, idx)) = idx
  BY DEF Content, Lays

-----------------------------------------------------------------------------
(* The invariant of axis sums *)

Launched(k, shape, axis) ==
  /\ k = [in |-> k.in, to |-> k.to, axis |-> axis, threads |-> k.threads]
  /\ k.in \in Regions(shape) /\ k.to \in Regions(RemoveAt(shape, axis))
  /\ k.threads \subseteq 0..(CalcSize(RemoveAt(shape, axis)) - 1)

(* The cell thread i writes, and what.                                     *)
Spot(to, i) == Cell(to, Unravel(i, CalcStrides(to.shape)))

Along(shape, axis, idx) == [j \in 1..shape[axis] |-> InsertAt(idx, axis, j - 1)]

Done(k) == (0..(CalcSize(k.to.shape) - 1)) \ k.threads

Written(o, k, shape, axis) ==
  /\ o = [c \in Cells(k.to) |-> o[c]]
  /\ \A i \in Done(k) : o[Spot(k.to, i)] = Along(shape, axis, Unravel(i, CalcStrides(k.to.shape)))
  /\ \A c \in Cells(k.to) : (\A i \in Done(k) : Spot(k.to, i) # c) => o[c] = None

(* What the threads that are done write is in the output, and nothing else *)
(* is.                                                                     *)
AxisOK ==
  kernel # NoKernel =>
    \E shape \in Shapes : \E axis \in DOMAIN shape :
      Launched(kernel, shape, axis) /\ Written(out, kernel, shape, axis)

LEMMA AlongIndex ==
  ASSUME NEW shape \in Shape, NEW axis \in DOMAIN shape
  PROVE  /\ RemoveAt(shape, axis) \in Shape /\ shape[axis] \in Nat
         /\ \A idx \in Indices(RemoveAt(shape, axis)) :
              \A j \in 1..shape[axis] : InsertAt(idx, axis, j - 1) \in Indices(shape)
<1>1. PICK n, s : n = Len(shape) /\ s = RemoveAt(shape, axis)
  OBVIOUS
<1>2. n \in Nat /\ axis \in 1..n /\ shape \in Seq(Nat) /\ \A d \in 1..n : shape[d] \in Nat
  BY <1>1 DEF Shape
<1>3. s \in Seq(Nat) /\ Len(s) = n - 1 /\ \A i \in 1..(n - 1) : s[i] = IF i < axis THEN shape[i] ELSE shape[i + 1]
  BY <1>1, <1>2, Removed
<1>4. ASSUME NEW idx \in Indices(s), NEW j \in 1..shape[axis] PROVE InsertAt(idx, axis, j - 1) \in Indices(shape)
  <2>1. idx \in Seq(Nat) /\ Len(idx) = n - 1 /\ \A d \in 1..(n - 1) : idx[d] < s[d] /\ idx[d] \in Nat
    <3>1. s \in Shape
      BY <1>3 DEF Shape
    <3>2. idx \in Seq(Nat) /\ Len(idx) = n - 1 /\ \A d \in 1..(n - 1) : idx[d] < s[d]
      BY <1>3, <3>1, InIndices
    <3>. QED  BY <3>2
  <2>2. PICK x, jdx : x = j - 1 /\ jdx = InsertAt(idx, axis, x)
    OBVIOUS
  <2>3. x \in Nat /\ x < shape[axis]
    BY <1>2, <2>2
  <2>4. axis \in 1..(Len(idx) + 1) /\ Len(idx) + 1 = n
    BY <1>2, <2>1
  <2>5. jdx \in Seq(Nat) /\ Len(jdx) = n
        /\ \A i \in 1..n : jdx[i] = IF i = axis THEN x ELSE IF i < axis THEN idx[i] ELSE idx[i - 1]
    <3>1. /\ InsertAt(idx, axis, x) \in Seq(Nat) /\ Len(InsertAt(idx, axis, x)) = Len(idx) + 1
          /\ \A i \in 1..(Len(idx) + 1) :
               InsertAt(idx, axis, x)[i] = IF i = axis THEN x ELSE IF i < axis THEN idx[i] ELSE idx[i - 1]
      <4>1. PICK T : T = Nat
        OBVIOUS
      <4>2. idx \in Seq(T) /\ x \in T /\ axis \in 1..(Len(idx) + 1)
        BY <2>1, <2>3, <2>4, <4>1
      <4>3. /\ InsertAt(idx, axis, x) \in Seq(T) /\ Len(InsertAt(idx, axis, x)) = Len(idx) + 1
            /\ \A i \in 1..(Len(idx) + 1) :
                 InsertAt(idx, axis, x)[i] = IF i = axis THEN x ELSE IF i < axis THEN idx[i] ELSE idx[i - 1]
        BY <4>2, Inserted
      <4>. QED  BY <4>1, <4>3
    <3>. QED  BY <2>2, <2>4, <3>1
  <2>6. ASSUME NEW i \in 1..n PROVE jdx[i] < shape[i]
    <3>1. CASE i = axis
      BY <2>3, <2>5, <3>1
    <3>2. CASE i < axis
      <4>1. i \in 1..(n - 1)
        BY <1>2, <3>2
      <4>2. idx[i] < shape[i]
        BY <1>3, <2>1, <3>2, <4>1
      <4>. QED  BY <1>2, <2>5, <3>2, <4>2
    <3>3. CASE i > axis
      <4>1. PICK k : k = i - 1
        OBVIOUS
      <4>2. k \in 1..(n - 1) /\ ~ (k < axis) /\ k + 1 = i /\ i # axis /\ ~ (i < axis)
        BY <1>2, <3>3, <4>1
      <4>3. idx[k] < shape[k + 1]
        BY <1>3, <2>1, <4>2
      <4>. QED  BY <2>5, <4>1, <4>2, <4>3
    <3>. QED  BY <1>2, <3>1, <3>2, <3>3
  <2>. QED  BY <1>1, <2>2, <2>5, <2>6, InIndices
<1>. QED  BY <1>1, <1>2, <1>3, <1>4 DEF Shape

(* What a thread writes is the sum it is to write. *)
LEMMA TermsAlong ==
  ASSUME NEW shape \in Shape, NEW axis \in DOMAIN shape, Launched(kernel, shape, axis),
         NEW idx \in Indices(RemoveAt(shape, axis))
  PROVE  [j \in 1..kernel.in.shape[kernel.axis] |-> AxisTerms(idx, j - 1)] = Along(shape, axis, idx)
<1>1. PICK k, in : k = kernel /\ in = k.in
  OBVIOUS
<1>2. k.axis = axis /\ in \in Regions(shape)
  BY <1>1 DEF Launched
<1>3. Lays(in, shape)
  BY <1>2, RegionLays
<1>4. in.shape = shape
  BY <1>3 DEF Lays
<1>5. ASSUME NEW j \in 1..shape[axis] PROVE AxisTerms(idx, j - 1) = InsertAt(idx, axis, j - 1)
  <2>1. PICK jdx : jdx = InsertAt(idx, axis, j - 1)
    OBVIOUS
  <2>2. jdx \in Indices(shape)
    BY <2>1, AlongIndex
  <2>3. Content(in, Cell(in, jdx)) = jdx
    BY <1>3, <2>2, ContentIs
  <2>4. AxisTerms(idx, j - 1) = Content(in, Cell(in, InsertAt(idx, axis, j - 1)))
    BY <1>1, <1>2 DEF AxisTerms
  <2>. QED  BY <2>1, <2>3, <2>4
<1>. HIDE DEF AxisTerms
<1>. QED  BY <1>1, <1>2, <1>4, <1>5 DEF Along

(* Threads write cells of the output, each its own.                        *)
LEMMA Spots ==
  ASSUME NEW shape \in Shape, NEW axis \in DOMAIN shape, NEW to \in Regions(RemoveAt(shape, axis)),
         NEW n, n = CalcSize(RemoveAt(shape, axis))
  PROVE  /\ n \in Nat /\ to.shape = RemoveAt(shape, axis)
         /\ \A i \in 0..(n - 1) : /\ Unravel(i, CalcStrides(to.shape)) \in Indices(to.shape)
                                  /\ Place(to.shape, Unravel(i, CalcStrides(to.shape))) = i
                                  /\ Spot(to, i) \in Cells(to)
         /\ \A i, j \in 0..(n - 1) : Spot(to, i) = Spot(to, j) => i = j
<1>1. PICK s : s = RemoveAt(shape, axis)
  OBVIOUS
<1>2. s \in Shape
  BY <1>1, AlongIndex
<1>3. Lays(to, s)
  BY <1>1, <1>2, RegionLays
<1>4. n \in Nat
  BY <1>1, <1>2, ProductIn DEF CalcSize, Shape
<1>5. to.shape = s
  BY <1>3 DEF Lays
<1>6. \A i \in 0..(n - 1) : /\ Unravel(i, CalcStrides(s)) \in Indices(s)
                            /\ Place(s, Unravel(i, CalcStrides(s))) = i
  BY <1>1, <1>2, UnravelCorrect
<1>7. \A i \in 0..(n - 1) : Spot(to, i) \in Cells(to)
  BY <1>3, <1>5, <1>6 DEF Lays, Spot
<1>8. \A i, j \in 0..(n - 1) : Spot(to, i) = Spot(to, j) => i = j
  <2>1. ASSUME NEW i \in 0..(n - 1), NEW j \in 0..(n - 1), Spot(to, i) = Spot(to, j) PROVE i = j
    <3>1. Unravel(i, CalcStrides(s)) = Unravel(j, CalcStrides(s))
      BY <1>3, <1>5, <1>6, <2>1 DEF Lays, Spot
    <3>. QED  BY <1>6, <3>1
  <2>. QED  BY <2>1
<1>. QED  BY <1>1, <1>4, <1>5, <1>6, <1>7, <1>8

LEMMA AxisThreadStep ==
  ASSUME ConstantsAssumption, AxisOK, NEW i \in kernel.threads, AxisThread(i)
  PROVE  AxisOK'
<1>1. kernel # NoKernel
  BY DEF NoKernel
<1>a. PICK shape \in Shapes :
        \E axis \in DOMAIN shape : Launched(kernel, shape, axis) /\ Written(out, kernel, shape, axis)
  BY <1>1 DEF AxisOK
<1>2. PICK axis \in DOMAIN shape : Launched(kernel, shape, axis) /\ Written(out, kernel, shape, axis)
  BY <1>a
<1>3. shape \in Shape
  BY <1>2 DEF ConstantsAssumption, Shape
<1>4. PICK k, o, to, n, T, idx, x : /\ k = kernel /\ o = out /\ to = k.to /\ n = CalcSize(RemoveAt(shape, axis))
                                 /\ T = k.threads /\ idx = Unravel(i, CalcStrides(to.shape))
                                 /\ x = Along(shape, axis, idx)
  OBVIOUS
<1>5. PICK k2, o2 : k2 = [k EXCEPT !.threads = T \ {i}] /\ o2 = [o EXCEPT ![Spot(to, i)] = x]
  OBVIOUS
<1>6. /\ k = [in |-> k.in, to |-> to, axis |-> axis, threads |-> T]
      /\ k.in \in Regions(shape) /\ to \in Regions(RemoveAt(shape, axis)) /\ T \subseteq 0..(n - 1)
  BY <1>2, <1>4 DEF Launched
<1>7. /\ n \in Nat /\ to.shape = RemoveAt(shape, axis)
      /\ \A j \in 0..(n - 1) : /\ Unravel(j, CalcStrides(to.shape)) \in Indices(to.shape)
                               /\ Place(to.shape, Unravel(j, CalcStrides(to.shape))) = j
                               /\ Spot(to, j) \in Cells(to)
      /\ \A j, m \in 0..(n - 1) : Spot(to, j) = Spot(to, m) => j = m
  BY <1>3, <1>4, <1>6, Spots
<1>8. i \in T /\ i \in 0..(n - 1)
  BY <1>4, <1>6
<1>9. kernel' = k2 /\ out' = o2
  <2>1. idx \in Indices(RemoveAt(shape, axis))
    BY <1>4, <1>7, <1>8
  <2>2. [j \in 1..kernel.in.shape[kernel.axis] |-> AxisTerms(idx, j - 1)] = x
    BY <1>2, <1>3, <1>4, <2>1, TermsAlong
  <2>3. /\ out' = [out EXCEPT ![Cell(kernel.to, Unravel(i, CalcStrides(kernel.to.shape)))] =
                     [j \in 1..kernel.in.shape[kernel.axis] |-> AxisTerms(Unravel(i, CalcStrides(kernel.to.shape)), j - 1)]]
        /\ kernel' = [kernel EXCEPT !.threads = @ \ {i}]
    BY DEF AxisThread
  <2>. QED  BY <1>4, <1>5, <2>2, <2>3 DEF Spot
<1>10. k2 = [in |-> k.in, to |-> to, axis |-> axis, threads |-> T \ {i}]
  <2>1. PICK a, b, U : a = k.in /\ b = k.axis /\ U = T \ {i}
    OBVIOUS
  <2>2. k = [in |-> a, to |-> to, axis |-> axis, threads |-> T]
    BY <1>6, <2>1
  <2>3. [k EXCEPT !.threads = U] = [in |-> a, to |-> to, axis |-> axis, threads |-> U]
    BY <2>2
  <2>. QED  BY <1>5, <2>1, <2>3
<1>11. Launched(k2, shape, axis)
  BY <1>4, <1>6, <1>10 DEF Launched
<1>12. Done(k) = (0..(n - 1)) \ T /\ Done(k2) = Done(k) \cup {i} /\ k2.to = to /\ ~ (i \in Done(k))
  BY <1>4, <1>6, <1>7, <1>8, <1>10 DEF Done
<1>13. /\ o = [c \in Cells(to) |-> o[c]]
       /\ \A j \in Done(k) : o[Spot(to, j)] = Along(shape, axis, Unravel(j, CalcStrides(to.shape)))
       /\ \A c \in Cells(to) : (\A j \in Done(k) : Spot(to, j) # c) => o[c] = None
  BY <1>2, <1>4 DEF Written
<1>14. DOMAIN o = Cells(to)
  BY <1>13
<1>15. /\ o2 = [c \in Cells(to) |-> o2[c]]
       /\ o2[Spot(to, i)] = x /\ \A c \in Cells(to) : c # Spot(to, i) => o2[c] = o[c]
  BY <1>5, <1>7, <1>8, <1>14
<1>16. \A j \in Done(k2) : o2[Spot(to, j)] = Along(shape, axis, Unravel(j, CalcStrides(to.shape)))
  <2>1. ASSUME NEW j \in Done(k2) PROVE o2[Spot(to, j)] = Along(shape, axis, Unravel(j, CalcStrides(to.shape)))
    <3>1. CASE j = i
      BY <1>4, <1>15, <3>1
    <3>2. CASE j # i
      <4>1. j \in Done(k) /\ j \in 0..(n - 1)
        BY <1>12, <3>2
      <4>2. Spot(to, j) \in Cells(to) /\ Spot(to, j) # Spot(to, i)
        BY <1>7, <1>8, <3>2, <4>1
      <4>. QED  BY <1>13, <1>15, <4>1, <4>2
    <3>. QED  BY <3>1, <3>2
  <2>. QED  BY <2>1
<1>17. \A c \in Cells(to) : (\A j \in Done(k2) : Spot(to, j) # c) => o2[c] = None
  BY <1>12, <1>13, <1>15
<1>18. Written(o2, k2, shape, axis)
  BY <1>12, <1>15, <1>16, <1>17 DEF Written
<1>. QED  BY <1>2, <1>9, <1>11, <1>18 DEF AxisOK

LEMMA LaunchStep ==
  ASSUME ConstantsAssumption, NEW shape \in Shapes, NEW axis \in DOMAIN shape, LaunchAxisSum(shape, axis)
  PROVE  AxisOK'
<1>1. PICK in \in Regions(shape), to \in Regions(RemoveAt(shape, axis)) :
        /\ kernel' = [in |-> in, to |-> to, axis |-> axis, threads |-> 0..(CalcSize(RemoveAt(shape, axis)) - 1)]
        /\ out' = [c \in Cells(to) |-> None]
  BY DEF LaunchAxisSum
<1>2. PICK k, o, n : k = kernel' /\ o = out' /\ n = CalcSize(RemoveAt(shape, axis))
  OBVIOUS
<1>3. shape \in Shape
  BY DEF ConstantsAssumption, Shape
<1>4. k = [in |-> in, to |-> to, axis |-> axis, threads |-> 0..(n - 1)] /\ o = [c \in Cells(to) |-> None]
  BY <1>1, <1>2
<1>5. k.in = in /\ k.to = to /\ k.axis = axis /\ k.threads = 0..(n - 1)
  BY <1>4
<1>6. Launched(k, shape, axis)
  BY <1>2, <1>4, <1>5 DEF Launched
<1>7. to.shape = RemoveAt(shape, axis)
  BY <1>2, <1>3, Spots
<1>8. Done(k) = {}
  BY <1>2, <1>5, <1>7 DEF Done
<1>9. o = [c \in Cells(to) |-> o[c]] /\ \A c \in Cells(to) : o[c] = None
  BY <1>4
<1>10. Written(o, k, shape, axis)
  BY <1>5, <1>8, <1>9 DEF Written
<1>. QED  BY <1>2, <1>6, <1>10 DEF AxisOK

LEMMA AxisNext ==
  ASSUME ConstantsAssumption, AxisOK, [Next]_vars
  PROVE  AxisOK'
<1>1. ASSUME UNCHANGED <<kernel, out>> PROVE AxisOK'
  BY <1>1 DEF AxisOK
<1>2. ASSUME NEW v \in DOMAIN Contents, Fill(v) PROVE AxisOK'
  BY <1>1, <1>2 DEF Fill, SameKernel
<1>3. ASSUME NEW f, NEW op, NEW init, NEW e, NEW q, Call(f, op, init, e, q) PROVE AxisOK'
  BY <1>1, <1>3 DEF Call, SameKernel
<1>4. ASSUME OnHost \/ Begin \/ Return \/ DeviceStep PROVE AxisOK'
  BY <1>1, <1>4 DEF OnHost, Begin, Return, DeviceStep, SameKernel
<1>5. ASSUME NEW g, Flush(g) \/ \E i \in todo : WorkItem(g, i) PROVE AxisOK'
  BY <1>1, <1>5 DEF Flush, WorkItem, SameKernel
<1>6. ASSUME NEW shape \in Shapes, NEW axis \in DOMAIN shape, LaunchAxisSum(shape, axis) PROVE AxisOK'
  BY <1>6, LaunchStep
<1>7. ASSUME NEW i \in kernel.threads, AxisThread(i) PROVE AxisOK'
  BY <1>7, AxisThreadStep
<1>8. CASE EndAxisSum
  BY <1>8 DEF EndAxisSum, AxisOK
<1>9. CASE UNCHANGED vars
  BY <1>1, <1>9 DEF vars
<1>. QED  BY <1>2, <1>3, <1>4, <1>5, <1>6, <1>7, <1>8, <1>9 DEF Next

LEMMA Below ==
  ASSUME NEW n \in Nat
  PROVE  IsFiniteSet(0..(n - 1)) /\ Cardinality(0..(n - 1)) = n
  BY FS_Interval

(* Every thread has written its element: the output holds the sums, and as *)
(* many cells as there are elements.                                       *)
LEMMA AxisSummed ==
  ASSUME ConstantsAssumption, AxisOK
  PROVE  AxisSumCorrect
<1>. SUFFICES ASSUME kernel # NoKernel, kernel.threads = {} PROVE AxisSumCorrect
  BY DEF AxisSumCorrect
<1>1. PICK shape \in Shapes :
        \E axis \in DOMAIN shape : Launched(kernel, shape, axis) /\ Written(out, kernel, shape, axis)
  BY DEF AxisOK
<1>2. PICK axis \in DOMAIN shape : Launched(kernel, shape, axis) /\ Written(out, kernel, shape, axis)
  BY <1>1
<1>3. shape \in Shape
  BY <1>2 DEF ConstantsAssumption, Shape
<1>4. PICK k, o, to, n, s : /\ k = kernel /\ o = out /\ to = k.to /\ s = RemoveAt(shape, axis)
                            /\ n = CalcSize(s)
  OBVIOUS
<1>5. k.axis = axis /\ k.in \in Regions(shape) /\ to \in Regions(s)
  BY <1>2, <1>4 DEF Launched
<1>6. /\ n \in Nat /\ to.shape = s
      /\ \A j \in 0..(n - 1) : /\ Unravel(j, CalcStrides(s)) \in Indices(s)
                               /\ Place(s, Unravel(j, CalcStrides(s))) = j
                               /\ Spot(to, j) \in Cells(to)
      /\ \A j, m \in 0..(n - 1) : Spot(to, j) = Spot(to, m) => j = m
  <2>1. /\ n \in Nat /\ to.shape = s
        /\ \A j \in 0..(n - 1) : /\ Unravel(j, CalcStrides(to.shape)) \in Indices(to.shape)
                                 /\ Place(to.shape, Unravel(j, CalcStrides(to.shape))) = j
                                 /\ Spot(to, j) \in Cells(to)
        /\ \A j, m \in 0..(n - 1) : Spot(to, j) = Spot(to, m) => j = m
    BY <1>3, <1>4, <1>5, Spots
  <2>. QED  BY <2>1
<1>7. Done(k) = 0..(n - 1)
  BY <1>4, <1>6 DEF Done
<1>8. /\ o = [c \in Cells(to) |-> o[c]]
      /\ \A i \in 0..(n - 1) : o[Spot(to, i)] = Along(shape, axis, Unravel(i, CalcStrides(s)))
      /\ \A c \in Cells(to) : (\A i \in 0..(n - 1) : Spot(to, i) # c) => o[c] = None
  BY <1>2, <1>4, <1>6, <1>7 DEF Written
<1>9. s \in Shape /\ k.in.shape = shape
  <2>1. s \in Shape
    BY <1>3, <1>4, AlongIndex
  <2>2. Lays(k.in, shape)
    BY <1>3, <1>5, RegionLays
  <2>. QED  BY <2>1, <2>2 DEF Lays
<1>10. ASSUME NEW idx \in Indices(s)
       PROVE  o[Cell(to, idx)] = Along(shape, axis, idx)
  <2>1. PICK i : i = Place(s, idx)
    OBVIOUS
  <2>2. i \in 0..(n - 1)
    BY <1>4, <1>9, <2>1, PlaceBelow
  <2>3. Unravel(i, CalcStrides(s)) = idx
    BY <1>6, <1>9, <2>1, <2>2, PlaceInjective
  <2>. QED  BY <1>6, <1>8, <2>2, <2>3 DEF Spot
<1>11. ASSUME NEW i \in 0..(n - 1) PROVE o[Spot(to, i)] # None
  <2>1. PICK idx : idx = Unravel(i, CalcStrides(s))
    OBVIOUS
  <2>2. idx \in Indices(s) /\ o[Spot(to, i)] = Along(shape, axis, idx)
    BY <1>6, <1>8, <2>1
  <2>3. shape[axis] \in Nat /\ \A j \in 1..shape[axis] : InsertAt(idx, axis, j - 1) \in Seq(Nat)
    <3>1. shape[axis] \in Nat /\ \A j \in 1..shape[axis] : InsertAt(idx, axis, j - 1) \in Indices(shape)
      BY <1>3, <1>4, <2>2, AlongIndex
    <3>. QED  BY <1>3, <3>1, InIndices
  <2>4. Along(shape, axis, idx) \in Seq(Seq(Nat))
    <3>1. PICK m, T : m = shape[axis] /\ T = Seq(Nat)
      OBVIOUS
    <3>2. m \in Nat /\ \A j \in 1..m : InsertAt(idx, axis, j - 1) \in T
      BY <2>3, <3>1
    <3>. DEFINE F(j) == InsertAt(idx, axis, j - 1)
    <3>3. m \in Nat /\ \A j \in 1..m : F(j) \in T
      BY <3>2
    <3>4. Along(shape, axis, idx) = [j \in 1..m |-> F(j)]
      BY <3>1 DEF Along
    <3>. HIDE DEF F
    <3>5. [j \in 1..m |-> F(j)] \in Seq(T)
      BY <3>3
    <3>. QED  BY <3>1, <3>4, <3>5
  <2>. QED  BY <2>2, <2>4 DEF ConstantsAssumption
<1>12. {c \in DOMAIN o : o[c] # None} = {Spot(to, i) : i \in 0..(n - 1)}
  <2>1. DOMAIN o = Cells(to)
    BY <1>8
  <2>2. ASSUME NEW c \in Cells(to), o[c] # None PROVE \E i \in 0..(n - 1) : Spot(to, i) = c
    BY <1>8, <2>2
  <2>3. \A i \in 0..(n - 1) : Spot(to, i) \in Cells(to) /\ o[Spot(to, i)] # None
    BY <1>6, <1>11
  <2>. HIDE DEF Spot, Cells
  <2>. QED  BY <2>1, <2>2, <2>3
<1>13. Cardinality({c \in DOMAIN o : o[c] # None}) = n
  <2>1. PICK f, S : f = [i \in 0..(n - 1) |-> Spot(to, i)] /\ S = {Spot(to, i) : i \in 0..(n - 1)}
    OBVIOUS
  <2>2. f \in [0..(n - 1) -> S] /\ \A i \in 0..(n - 1) : f[i] = Spot(to, i)
    BY <2>1
  <2>3. \A i, j \in 0..(n - 1) : f[i] = f[j] => i = j
    BY <1>6, <2>2
  <2>4. \A c \in S : \E i \in 0..(n - 1) : f[i] = c
    BY <2>1, <2>2
  <2>5. f \in Bijection(0..(n - 1), S)
    BY <2>2, <2>3, <2>4 DEF Bijection, Injection, Surjection, IsInjective
  <2>6. ExistsBijection(0..(n - 1), S)
    BY <2>5 DEF ExistsBijection
  <2>7. IsFiniteSet(0..(n - 1)) /\ Cardinality(0..(n - 1)) = n
    <3>1. n \in Nat
      BY <1>6
    <3>. QED  BY <3>1, Below
  <2>8. Cardinality(S) = n
    BY <2>6, <2>7, FS_Bijection
  <2>. QED  BY <1>12, <2>1, <2>8
<1>14. \A idx \in Indices(s) :
         out[Cell(kernel.to, idx)] = [j \in 1..kernel.in.shape[kernel.axis] |-> InsertAt(idx, kernel.axis, j - 1)]
  BY <1>4, <1>5, <1>9, <1>10 DEF Along
<1>15. kernel.to.shape = s /\ Cardinality({c \in DOMAIN out : out[c] # None}) = CalcSize(s)
  BY <1>4, <1>6, <1>13
<1>. QED  BY <1>14, <1>15 DEF AxisSumCorrect

(* Whatever the shape, the axis and the layouts of the two views, a kernel *)
(* whose threads are all done has left in every element of the output the  *)
(* sum over exactly the elements along the axis, and has written nothing   *)
(* else.                                                                   *)
THEOREM AxisSumsAreRight == Spec => []AxisSumCorrect
<1>1. Init => AxisOK
  BY DEF Init, AxisOK
<1>2. AxisOK /\ [Next]_vars => AxisOK'
  BY ConstantsAssumption, AxisNext
<1>3. AxisOK => AxisSumCorrect
  BY ConstantsAssumption, AxisSummed
<1>. QED  BY <1>1, <1>2, <1>3, PTL DEF Spec
=============================================================================
