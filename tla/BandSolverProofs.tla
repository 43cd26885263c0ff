-------------------------- MODULE BandSolverProofs --------------------------
(***************************************************************************)
(* Proofs about the banded solver, for matrices of any size and            *)
(* bandwidths, any prime and sub-groups of any size: the threads of the    *)
(* kernel do not race, and together they solve LU x = Pb.                  *)
(*                                                                         *)
(* First the mathematics.  The elements are a field, a sum does not depend *)
(* on the order of its terms, a triangular system has one solution, and    *)
(* the substitutions of one thread, the exchanges of rows and the product  *)
(* with the inverse each compute what they should.                         *)
(*                                                                         *)
(* Then the races.  The number of barriers a thread has arrived at says in *)
(* which step of which loop it is, up to the last steps of one column of   *)
(* the backward loop and the first of the next, between which there is no  *)
(* barrier.  Threads that are released are therefore in the same step;     *)
(* there the rows they work on differ by their numbers modulo BlockSize.   *)
(*                                                                         *)
(* Last the elements.  The barriers behind the slowest thread select an    *)
(* equation that relates the array to the right-hand side, element by      *)
(* element: in the forward loop, what is left of an element plus what has  *)
(* been eliminated from it is the element of Pb; in the backward loop the  *)
(* same of the solution of L y = Pb, with the rows that are divided        *)
(* already told apart by the thread that divides them.                     *)
(***************************************************************************)
EXTENDS BandSolver, FiniteSetTheorems, TLAPS

-----------------------------------------------------------------------------
(* Arithmetic modulo the prime                                             *)

LEMMA ModIs ==
  ASSUME NEW a \in Int, NEW p \in Nat, p > 0
  PROVE  a % p \in 0..(p - 1) /\ \E q \in Int : a = p * q + (a % p)
<1>1. a = p * (a \div p) + (a % p) /\ a % p \in 0..(p - 1) /\ a \div p \in Int
  OBVIOUS
<1>. QED  BY <1>1

LEMMA SmallMultiple ==
  ASSUME NEW p \in Nat, NEW q \in Int, p * q < p, p * q > - p
  PROVE  q = 0
<1>1. CASE q >= 1
  <2>1. PICK k \in Nat : q = k + 1
    <3>1. q - 1 \in Nat /\ q = (q - 1) + 1
      BY <1>1
    <3>. QED  BY <3>1
  <2>2. p * q = p * k + p /\ p * k >= 0
    BY <2>1
  <2>. QED  BY <2>2
<1>2. CASE q <= -1
  <2>1. PICK k \in Nat : q = - k - 1
    <3>1. - q - 1 \in Nat /\ q = - (- q - 1) - 1
      BY <1>2
    <3>. QED  BY <3>1
  <2>2. p * q = - (p * k) - p /\ p * k >= 0
    BY <2>1
  <2>. QED  BY <2>2
<1>. QED  BY <1>1, <1>2

LEMMA ModOf ==
  ASSUME NEW p \in Nat, p > 0, NEW q \in Int, NEW r \in 0..(p - 1), NEW a \in Int, a = p * q + r
  PROVE  a % p = r
<1>1. PICK d \in Int : a = p * d + (a % p)
  BY ModIs
<1>2. a % p \in 0..(p - 1)
  BY ModIs
<1>3. p * (d - q) = r - (a % p) /\ d - q \in Int
  BY <1>1, <1>2
<1>4. d - q = 0
  BY <1>2, <1>3, SmallMultiple
<1>5. d = q
  BY <1>4
<1>. QED  BY <1>1, <1>2, <1>5

LEMMA PrimeFacts == Prime \in Nat /\ Prime > 1 /\ Elements = 0..(Prime - 1)
  BY ArgumentsAssumption DEF Elements

LEMMA SameMod ==
  ASSUME NEW a \in Int, NEW b \in Int, NEW k \in Int, a = b + Prime * k
  PROVE  a % Prime = b % Prime
<1>0. Prime \in Nat /\ Prime > 0
  BY PrimeFacts
<1>1. PICK q \in Int : b = Prime * q + (b % Prime)
  BY <1>0, ModIs
<1>2. b % Prime \in 0..(Prime - 1)
  BY <1>0, ModIs
<1>3. PICK r \in 0..(Prime - 1), d \in Int : r = b % Prime /\ a = Prime * d + r
  <2>1. a = Prime * (q + k) + (b % Prime) /\ q + k \in Int
    BY <1>0, <1>1, <1>2
  <2>. QED  BY <1>2, <2>1
<1>4. \A e \in Int : e = Prime * d + r => e % Prime = r
  BY <1>0, ModOf
<1>. QED  BY <1>3, <1>4

LEMMA Remainder ==
  ASSUME NEW a \in Int
  PROVE  a % Prime \in Elements /\ \E q \in Int : a % Prime = a + Prime * q
<1>0. Prime \in Nat /\ Prime > 0
  BY PrimeFacts
<1>1. PICK q \in Int : a = Prime * q + (a % Prime)
  BY <1>0, ModIs
<1>2. a % Prime \in 0..(Prime - 1)
  BY <1>0, ModIs
<1>3. a % Prime = a + Prime * (- q) /\ - q \in Int
  BY <1>0, <1>1, <1>2
<1>. QED  BY <1>2, <1>3 DEF Elements

LEMMA PlusMod ==
  ASSUME NEW a \in Int, NEW b \in Int
  PROVE  ((a % Prime) + b) % Prime = (a + b) % Prime
<1>1. PICK q \in Int : a % Prime = a + Prime * q
  BY Remainder
<1>2. (a % Prime) + b = (a + b) + Prime * q /\ (a % Prime) + b \in Int /\ a + b \in Int
  BY <1>1, PrimeFacts
<1>. QED  BY <1>2, SameMod

LEMMA TimesMod ==
  ASSUME NEW a \in Int, NEW b \in Int
  PROVE  ((a % Prime) * b) % Prime = (a * b) % Prime
<1>1. PICK q \in Int : a % Prime = a + Prime * q
  BY Remainder
<1>2. /\ (a % Prime) * b = a * b + Prime * (q * b)
      /\ (a % Prime) * b \in Int /\ a * b \in Int /\ q * b \in Int
  BY <1>1, PrimeFacts
<1>. QED  BY <1>2, SameMod

LEMMA SmallMod == ASSUME NEW a \in Elements PROVE a \in Int /\ a % Prime = a
<1>1. a \in Int /\ a = Prime * 0 + a /\ a \in 0..(Prime - 1)
  BY PrimeFacts
<1>. QED  BY <1>1, ModOf, PrimeFacts

(* Elements with Plus and Times are a ring. *)
LEMMA PlusRules ==
  ASSUME NEW a \in Elements, NEW b \in Elements, NEW c \in Elements
  PROVE  /\ Plus(a, b) \in Elements
         /\ Plus(a, b) = Plus(b, a)
         /\ Plus(Plus(a, b), c) = Plus(a, Plus(b, c))
         /\ Plus(a, 0) = a /\ Plus(0, a) = a
<1>1. a \in Int /\ b \in Int /\ c \in Int /\ a % Prime = a /\ a + 0 = a /\ 0 + a = a
  BY SmallMod
<1>2. Plus(a, b) \in Elements
  BY <1>1, Remainder DEF Plus
<1>3. Plus(Plus(a, b), c) = (a + b + c) % Prime
  <2>1. a + b \in Int
    BY <1>1
  <2>. QED  BY <1>1, <2>1, PlusMod DEF Plus
<1>4. Plus(a, Plus(b, c)) = (a + b + c) % Prime
  <2>1. b + c \in Int /\ (b + c) % Prime \in Int
    BY <1>1, Remainder DEF Elements
  <2>2. a + ((b + c) % Prime) = ((b + c) % Prime) + a /\ (b + c) + a = a + b + c
    BY <1>1, <2>1
  <2>. QED  BY <1>1, <2>1, <2>2, PlusMod DEF Plus
<1>5. Plus(a, b) = Plus(b, a)
  BY <1>1 DEF Plus
<1>. QED  BY <1>1, <1>2, <1>3, <1>4, <1>5 DEF Plus

LEMMA TimesRules ==
  ASSUME NEW a \in Elements, NEW b \in Elements, NEW c \in Elements
  PROVE  /\ Times(a, b) \in Elements
         /\ Times(a, b) = Times(b, a)
         /\ Times(Times(a, b), c) = Times(a, Times(b, c))
         /\ Times(a, 0) = 0 /\ Times(0, a) = 0
         /\ Times(a, 1) = a /\ Times(1, a) = a
         /\ Times(a, Plus(b, c)) = Plus(Times(a, b), Times(a, c))
<1>1. /\ a \in Int /\ b \in Int /\ c \in Int /\ a % Prime = a
      /\ a * b \in Int /\ b * c \in Int /\ a * c \in Int /\ b + c \in Int
  <2>1. a \in Int /\ b \in Int /\ c \in Int /\ a % Prime = a
    BY SmallMod
  <2>. QED  BY <2>1
<1>2. Times(a, b) \in Elements
  BY <1>1, Remainder DEF Times
<1>3. Times(Times(a, b), c) = ((a * b) * c) % Prime
  BY <1>1, TimesMod DEF Times
<1>4. Times(a, Times(b, c)) = ((a * b) * c) % Prime
  <2>1. (b * c) % Prime \in Int
    BY <1>1, Remainder DEF Elements
  <2>2. a * ((b * c) % Prime) = ((b * c) % Prime) * a /\ (b * c) * a = (a * b) * c
    BY <1>1, <2>1
  <2>. QED  BY <1>1, <2>1, <2>2, TimesMod DEF Times
<1>5. Times(a, b) = Times(b, a)
  BY <1>1 DEF Times
<1>6. Times(a, Plus(b, c)) = (a * b + a * c) % Prime
  <2>1. (b + c) % Prime \in Int
    BY <1>1, Remainder DEF Elements
  <2>2. a * ((b + c) % Prime) = ((b + c) % Prime) * a /\ (b + c) * a = a * b + a * c
    BY <1>1, <2>1
  <2>. QED  BY <1>1, <2>1, <2>2, TimesMod DEF Times, Plus
<1>7. Plus(Times(a, b), Times(a, c)) = (a * b + a * c) % Prime
  <2>1. (a * c) % Prime \in Int
    BY <1>1, Remainder DEF Elements
  <2>2. (((a * b) % Prime) + ((a * c) % Prime)) % Prime = (a * b + ((a * c) % Prime)) % Prime
    BY <1>1, <2>1, PlusMod
  <2>3. a * b + ((a * c) % Prime) = ((a * c) % Prime) + a * b /\ a * b + a * c = a * c + a * b
    BY <1>1, <2>1
  <2>. QED  BY <1>1, <2>2, <2>3, PlusMod DEF Times, Plus
<1>8. Times(a, 0) = 0 /\ Times(0, a) = 0 /\ Times(a, 1) = a /\ Times(1, a) = a
  <2>1. a * 0 = 0 /\ 0 * a = 0 /\ a * 1 = a /\ 1 * a = a
    BY <1>1
  <2>2. 0 \in Elements
    BY PrimeFacts
  <2>3. 0 % Prime = 0
    BY <2>2, SmallMod
  <2>. QED  BY <1>1, <2>1, <2>3 DEF Times
<1>. QED  BY <1>2, <1>3, <1>4, <1>5, <1>6, <1>7, <1>8

LEMMA MinusRules ==
  ASSUME NEW a \in Elements, NEW b \in Elements
  PROVE  Minus(a, b) \in Elements /\ Plus(Minus(a, b), b) = a
<1>1. a \in Int /\ b \in Int /\ a % Prime = a /\ a - b \in Int /\ (a - b) + b = a
  BY SmallMod
<1>2. Minus(a, b) \in Elements
  BY <1>1, Remainder DEF Minus
<1>. QED  BY <1>1, <1>2, PlusMod DEF Plus, Minus

LEMMA PlusCancels ==
  ASSUME NEW a \in Elements, NEW b \in Elements, NEW c \in Elements, Plus(a, c) = Plus(b, c)
  PROVE  a = b
<1>1. 0 \in Elements
  BY PrimeFacts
<1>2. PICK d \in Elements : Plus(d, c) = 0
  BY <1>1, MinusRules
<1>3. Plus(c, d) = 0
  BY <1>2, PlusRules
<1>4. Plus(Plus(a, c), d) = a /\ Plus(Plus(b, c), d) = b
  BY <1>3, PlusRules
<1>. QED  BY <1>4

(* Facts about sums. *)
Sums == INSTANCE InductionFacts WITH Op <- Plus

LEMMA HasInverse ==
  ASSUME NEW b \in Elements, b # 0
  PROVE  \E c \in Elements : Times(c, b) = 1
<1>0. Prime \in Nat /\ Prime > 1 /\ b \in 1..(Prime - 1) /\ b % Prime = b /\ b \in Int
  BY PrimeFacts, SmallMod
<1>. DEFINE Reached(d) == \E k \in Int : (b * k) % Prime = d
            T == {d \in Nat : d > 0 /\ Reached(d)}
<1>1. b \in T
  <2>1. b * 1 = b /\ 1 \in Int
    BY <1>0
  <2>2. (b * 1) % Prime = b
    BY <1>0, <2>1
  <2>3. Reached(b)
    BY <2>1, <2>2
  <2>. HIDE DEF Reached
  <2>. QED  BY <1>0, <2>3
<1>2. PICK d \in T : \A e \in T : d <= e
  <2>1. T \subseteq Nat /\ T # {}
    BY <1>1
  <2>. QED  BY <2>1, Sums!LeastElement, Zenon
<1>3. PICK k \in Int : (b * k) % Prime = d
  OBVIOUS
<1>4. d \in Elements /\ d \in Nat /\ d > 0
  <2>1. b * k \in Int
    BY <1>0
  <2>. QED  BY <1>3, <2>1, Remainder
<1>5. CASE d = 1
  <2>1. PICK c : c = k % Prime /\ c \in Elements
    BY Remainder
  <2>2. Times(c, b) = (k * b) % Prime
    BY <1>0, <2>1, TimesMod DEF Times
  <2>3. k * b = b * k
    BY <1>0
  <2>. QED  BY <1>3, <1>5, <2>1, <2>2, <2>3
<1>6. CASE d # 1
  <2>1. d \in 2..(Prime - 1)
    BY <1>4, <1>6 DEF Elements
  <2>2. PICK r \in 0..(d - 1), e \in Int : r = Prime % d /\ Prime = d * e + r
    <3>1. Prime % d \in 0..(d - 1)
      BY <1>0, <2>1, ModIs
    <3>2. PICK e \in Int : Prime = d * e + (Prime % d)
      BY <1>0, <2>1, ModIs
    <3>. QED  BY <3>1, <3>2
  <2>3. r > 0
    <3>1. Prime % d # 0
      BY <2>1, ArgumentsAssumption
    <3>. QED  BY <2>2, <3>1
  <2>4. PICK q \in Int : b * k = Prime * q + d
    <3>1. b * k \in Int
      BY <1>0
    <3>. QED  BY <1>0, <1>3, <3>1, ModIs
  <2>5. b * (- (e * k)) = r + Prime * (- (1 + e * q))
    <3>1. b * (- (e * k)) = - (e * (b * k))
      BY <1>0, <2>2
    <3>2. e * (b * k) = e * (Prime * q) + e * d
      BY <1>0, <1>4, <2>2, <2>4
    <3>3. e * (Prime * q) = Prime * (e * q) /\ e * d = Prime - r
      BY <1>0, <1>4, <2>2
    <3>4. Prime * (- (1 + e * q)) = - Prime - Prime * (e * q)
      BY <1>0, <2>2
    <3>5. e * q \in Int /\ Prime * (e * q) \in Int
      BY <1>0, <2>2
    <3>. QED  BY <1>0, <2>2, <3>1, <3>2, <3>3, <3>4, <3>5
  <2>6. (b * (- (e * k))) % Prime = r
    <3>1. /\ b * (- (e * k)) \in Int /\ - (1 + e * q) \in Int /\ r \in Int
          /\ r \in Elements
      BY <1>0, <1>4, <2>1, <2>2 DEF Elements
    <3>2. (b * (- (e * k))) % Prime = r % Prime
      BY <2>5, <3>1, SameMod
    <3>. QED  BY <3>1, <3>2, SmallMod
  <2>7. r \in T
    <3>1. - (e * k) \in Int
      BY <2>2
    <3>2. Reached(r)
      BY <2>6, <3>1
    <3>. HIDE DEF Reached
    <3>. QED  BY <2>2, <2>3, <3>2
  <2>8. d <= r
    BY <1>2, <2>7
  <2>. QED  BY <2>1, <2>2, <2>8
<1>. QED  BY <1>5, <1>6

LEMMA OverRules ==
  ASSUME NEW a \in Elements, NEW b \in Elements, b # 0
  PROVE  Over(a, b) \in Elements /\ Times(Over(a, b), b) = a
<1>1. PICK c \in Elements : Times(c, b) = 1
  BY HasInverse
<1>2. Times(Times(a, c), b) = a /\ Times(a, c) \in Elements
  BY <1>1, TimesRules
<1>. QED  BY <1>2 DEF Over

LEMMA TimesCancels ==
  ASSUME NEW a \in Elements, NEW b \in Elements, NEW c \in Elements, c # 0,
         Times(c, a) = Times(c, b)
  PROVE  a = b
<1>1. PICK d \in Elements : Times(d, c) = 1
  BY HasInverse
<1>2. Times(d, Times(c, a)) = a /\ Times(d, Times(c, b)) = b
  BY <1>1, TimesRules
<1>. QED  BY <1>2

(* The same rules one by one. *)
LEMMA Closed ==
  ASSUME NEW a \in Elements, NEW b \in Elements
  PROVE  Plus(a, b) \in Elements /\ Times(a, b) \in Elements /\ Minus(a, b) \in Elements
  BY PlusRules, TimesRules, MinusRules

LEMMA Zeros ==
  /\ 0 \in Elements /\ 1 \in Elements
  /\ \A a \in Elements : /\ Plus(a, 0) = a /\ Plus(0, a) = a
                         /\ Times(a, 0) = 0 /\ Times(0, a) = 0
                         /\ Times(a, 1) = a /\ Times(1, a) = a
<1>1. 0 \in Elements /\ 1 \in Elements
  BY PrimeFacts
<1>. QED  BY <1>1, PlusRules, TimesRules

LEMMA PlusCommutes ==
  ASSUME NEW a \in Elements, NEW b \in Elements
  PROVE  Plus(a, b) = Plus(b, a)
  BY PlusRules

LEMMA PlusAssociates ==
  ASSUME NEW a \in Elements, NEW b \in Elements, NEW c \in Elements
  PROVE  Plus(Plus(a, b), c) = Plus(a, Plus(b, c))
  BY PlusRules

LEMMA PlusTwice ==
  ASSUME NEW a \in Elements, NEW b \in Elements, NEW c \in Elements, NEW d \in Elements
  PROVE  Plus(Plus(a, b), Plus(c, d)) = Plus(Plus(a, c), Plus(b, d))
<1>1. /\ Plus(b, c) = Plus(c, b) /\ Plus(b, c) \in Elements /\ Plus(c, d) \in Elements
      /\ Plus(b, d) \in Elements
  BY Closed, PlusCommutes
<1>2. Plus(Plus(a, b), Plus(c, d)) = Plus(a, Plus(b, Plus(c, d)))
  BY <1>1, PlusAssociates
<1>3. Plus(b, Plus(c, d)) = Plus(Plus(c, b), d) /\ Plus(Plus(c, b), d) = Plus(c, Plus(b, d))
  BY <1>1, PlusAssociates
<1>4. Plus(a, Plus(c, Plus(b, d))) = Plus(Plus(a, c), Plus(b, d))
  BY <1>1, PlusAssociates
<1>. QED  BY <1>2, <1>3, <1>4

LEMMA TimesCommutes ==
  ASSUME NEW a \in Elements, NEW b \in Elements
  PROVE  Times(a, b) = Times(b, a)
  BY TimesRules

LEMMA TimesAssociates ==
  ASSUME NEW a \in Elements, NEW b \in Elements, NEW c \in Elements
  PROVE  Times(Times(a, b), c) = Times(a, Times(b, c))
  BY TimesRules

LEMMA Distributes ==
  ASSUME NEW a \in Elements, NEW b \in Elements, NEW c \in Elements
  PROVE  Times(a, Plus(b, c)) = Plus(Times(a, b), Times(a, c))
  BY TimesRules

-----------------------------------------------------------------------------
(* Sums over the rows *)

Column == [Rows -> Elements]
Part(f, n) == Total([k \in 1..n |-> f[k - 1]])
Sigma(f) == Part(f, N)

LEMMA TotalIsFold ==
  ASSUME NEW s
  PROVE  Total(s) = Sums!FoldLeft(Plus, 0, s)
  BY Zenon DEF Total, FoldLeft, MapThenFoldSet, Max, Sums!FoldLeft,
               Sums!MapThenFoldSet, Sums!Max

LEMMA PartStart == ASSUME NEW f PROVE Part(f, 0) = 0
<1>1. [k \in 1..0 |-> f[k - 1]] = << >>
  OBVIOUS
<1>2. Total(<< >>) = 0
  BY TotalIsFold, Sums!FoldEmpty, Zenon
<1>. QED  BY <1>1, <1>2 DEF Part

LEMMA PartIn ==
  ASSUME NEW f \in Column, NEW n \in 0..N
  PROVE  Part(f, n) \in Elements
<1>1. [k \in 1..n |-> f[k - 1]] \in Seq(Elements)
  BY SizesAssumption DEF Column, Rows
<1>2. \A v \in Elements, w \in Elements : Plus(v, w) \in Elements
  BY PlusRules
<1>3. 0 \in Elements
  BY PrimeFacts
<1>. DEFINE s == [k \in 1..n |-> f[k - 1]]
<1>4. \A i \in 1..Len(s) : s[i] \in Elements
  BY <1>1
<1>. HIDE DEF s
<1>5. s \in Seq(Elements)
  BY <1>1 DEF s
<1>6. \A v \in Elements, i \in 1..Len(s) : Plus(v, s[i]) \in Elements
  BY <1>2, <1>4
<1>7. Total(s) \in Elements
  BY <1>3, <1>5, <1>6, TotalIsFold, Sums!FoldInvariant, Zenon
<1>. QED  BY <1>7 DEF Part, s

LEMMA TotalAppend ==
  ASSUME NEW s \in Seq(Elements), NEW e \in Elements
  PROVE  Total(Append(s, e)) = Plus(Total(s), e)
  BY TotalIsFold, Sums!FoldAppend, Zenon

LEMMA PartNext ==
  ASSUME NEW f \in Column, NEW n \in Rows
  PROVE  Part(f, n + 1) = Plus(Part(f, n), f[n])
<1>. DEFINE s == [k \in 1..n |-> f[k - 1]]
<1>1. s \in Seq(Elements) /\ f[n] \in Elements /\ n \in Nat /\ Len(s) = n
  BY SizesAssumption DEF Column, Rows
<1>2. [k \in 1..(n + 1) |-> f[k - 1]] = Append(s, f[n])
  <2>1. (n + 1) - 1 = n
    BY <1>1
  <2>. QED  BY <1>1, <2>1
<1>3. Total(Append(s, f[n])) = Plus(Total(s), f[n])
  BY <1>1, TotalAppend
<1>. QED  BY <1>2, <1>3 DEF Part

(* What holds of the empty sum and of one more element holds of the sum.   *)
LEMMA Counting ==
  ASSUME NEW S, 0 \in S, \A n \in Rows : n \in S => n + 1 \in S
  PROVE  0..N \subseteq S
<1>. DEFINE T == {n \in Nat : n <= N => n \in S}
<1>1. 0 \in T
  OBVIOUS
<1>2. ASSUME NEW n \in Nat, n \in T PROVE n + 1 \in T
  BY <1>2, SizesAssumption DEF Rows
<1>. HIDE DEF T
<1>3. Nat \subseteq T
  BY <1>1, <1>2, Sums!Induction
<1>. QED  BY <1>3, SizesAssumption DEF T

LEMMA PartAdd ==
  ASSUME NEW f \in Column, NEW g \in Column, NEW n \in 0..N
  PROVE  Part([k \in Rows |-> Plus(f[k], g[k])], n) = Plus(Part(f, n), Part(g, n))
<1>. DEFINE h == [k \in Rows |-> Plus(f[k], g[k])]
            S == {m \in 0..N : Part(h, m) = Plus(Part(f, m), Part(g, m))}
<1>0. h \in Column
  BY PlusRules DEF Column
<1>1. 0 \in S
  BY PartStart, Zeros, SizesAssumption
<1>2. ASSUME NEW m \in Rows, m \in S PROVE m + 1 \in S
  <2>0. /\ m \in 0..N /\ m + 1 \in 0..N /\ f[m] \in Elements /\ g[m] \in Elements
        /\ Part(f, m) \in Elements /\ Part(g, m) \in Elements
    BY PartIn, SizesAssumption DEF Rows, Column
  <2>1. /\ Part(f, m + 1) = Plus(Part(f, m), f[m]) /\ Part(g, m + 1) = Plus(Part(g, m), g[m])
        /\ Part(h, m + 1) = Plus(Part(h, m), Plus(f[m], g[m])) /\ Part(h, m) = Plus(Part(f, m), Part(g, m))
    BY <1>0, <1>2, PartNext
  <2>3. Part(h, m + 1) = Plus(Part(f, m + 1), Part(g, m + 1))
    BY <2>0, <2>1, PlusTwice
  <2>. QED  BY <2>0, <2>3
<1>. HIDE DEF S
<1>3. n \in S
  BY <1>1, <1>2, Counting
<1>. QED  BY <1>3 DEF S

LEMMA PartScale ==
  ASSUME NEW f \in Column, NEW c \in Elements, NEW n \in 0..N
  PROVE  Part([k \in Rows |-> Times(c, f[k])], n) = Times(c, Part(f, n))
<1>. DEFINE h == [k \in Rows |-> Times(c, f[k])]
            S == {m \in 0..N : Part(h, m) = Times(c, Part(f, m))}
<1>0. h \in Column
  BY TimesRules DEF Column
<1>1. 0 \in S
  BY PartStart, TimesRules, SizesAssumption
<1>2. ASSUME NEW m \in Rows, m \in S PROVE m + 1 \in S
  <2>0. m \in 0..N /\ m + 1 \in 0..N /\ f[m] \in Elements /\ Part(f, m) \in Elements
    BY PartIn, SizesAssumption DEF Rows, Column
  <2>1. /\ Part(f, m + 1) = Plus(Part(f, m), f[m])
        /\ Part(h, m + 1) = Plus(Part(h, m), Times(c, f[m])) /\ Part(h, m) = Times(c, Part(f, m))
    BY <1>0, <1>2, PartNext
  <2>2. Times(c, Plus(Part(f, m), f[m])) = Plus(Times(c, Part(f, m)), Times(c, f[m]))
    BY <2>0, Distributes
  <2>. HIDE DEF h
  <2>3. Part(h, m + 1) = Times(c, Part(f, m + 1))
    BY <2>1, <2>2
  <2>. QED  BY <2>0, <2>3 DEF h
<1>. HIDE DEF S
<1>3. n \in S
  BY <1>1, <1>2, Counting
<1>. QED  BY <1>3 DEF S

LEMMA PartZero ==
  ASSUME NEW f \in Column, NEW n \in 0..N, \A k \in Rows : k < n => f[k] = 0
  PROVE  Part(f, n) = 0
<1>. DEFINE S == {m \in 0..N : m <= n => Part(f, m) = 0}
<1>1. 0 \in S
  BY PartStart, SizesAssumption
<1>2. ASSUME NEW m \in Rows, m \in S PROVE m + 1 \in S
  <2>0. m \in 0..N /\ m + 1 \in 0..N /\ m \in Int /\ n \in Int
    BY SizesAssumption DEF Rows
  <2>1. CASE m < n
    <3>1. Part(f, m) = 0 /\ f[m] = 0
      BY <1>2, <2>0, <2>1
    <3>2. Part(f, m + 1) = 0
      BY <3>1, PartNext, Zeros
    <3>. QED  BY <2>0, <3>2
  <2>. QED  BY <2>0, <2>1
<1>. HIDE DEF S
<1>3. n \in S
  BY <1>1, <1>2, Counting
<1>. QED  BY <1>3 DEF S

(* Zeros at the end add nothing.                                           *)
LEMMA PartStays ==
  ASSUME NEW f \in Column, NEW n \in 0..N, \A k \in Rows : k >= n => f[k] = 0
  PROVE  Part(f, n) = Sigma(f)
<1>. DEFINE S == {m \in 0..N : m >= n => Part(f, m) = Part(f, n)}
<1>1. 0 \in S
  BY SizesAssumption
<1>2. ASSUME NEW m \in Rows, m \in S PROVE m + 1 \in S
  <2>0. m \in 0..N /\ m + 1 \in 0..N /\ m \in Int /\ n \in Int
    BY SizesAssumption DEF Rows
  <2>1. CASE m >= n
    <3>1. Part(f, m) = Part(f, n) /\ f[m] = 0 /\ Part(f, m) \in Elements
      BY <1>2, <2>0, <2>1, PartIn
    <3>2. Part(f, m + 1) = Part(f, n)
      BY <3>1, PartNext, PlusRules
    <3>. QED  BY <2>0, <3>2
  <2>. QED  BY <2>0, <2>1
<1>. HIDE DEF S
<1>3. N \in S
  BY <1>1, <1>2, Counting, SizesAssumption
<1>. QED  BY <1>3, SizesAssumption DEF S, Sigma

LEMMA SigmaIn == ASSUME NEW f \in Column PROVE Sigma(f) \in Elements
  BY PartIn, SizesAssumption DEF Sigma

LEMMA SigmaAdd ==
  ASSUME NEW f \in Column, NEW g \in Column
  PROVE  Sigma([k \in Rows |-> Plus(f[k], g[k])]) = Plus(Sigma(f), Sigma(g))
  BY PartAdd, SizesAssumption DEF Sigma

LEMMA SigmaScale ==
  ASSUME NEW f \in Column, NEW c \in Elements
  PROVE  Sigma([k \in Rows |-> Times(c, f[k])]) = Times(c, Sigma(f))
  BY PartScale, SizesAssumption DEF Sigma

LEMMA SigmaUnit ==
  ASSUME NEW j \in Rows, NEW e \in Elements
  PROVE  Sigma([k \in Rows |-> IF k = j THEN e ELSE 0]) = e
<1>. DEFINE g == [k \in Rows |-> IF k = j THEN e ELSE 0]
<1>1. /\ g \in Column /\ g[j] = e /\ \A k \in Rows \ {j} : g[k] = 0
      /\ j \in 0..N /\ j + 1 \in 0..N /\ Rows \subseteq Int /\ j \in Int
  BY Zeros, SizesAssumption DEF Column, Rows
<1>. HIDE DEF g
<1>2. Part(g, j) = 0
  <2>1. \A k \in Rows : k < j => g[k] = 0
    BY <1>1
  <2>. QED  BY <1>1, <2>1, PartZero
<1>3. Part(g, j + 1) = e
  BY <1>1, <1>2, PartNext, Zeros
<1>4. \A k \in Rows : k >= j + 1 => g[k] = 0
  BY <1>1
<1>5. Sigma(g) = e
  BY <1>1, <1>3, <1>4, PartStays
<1>. QED  BY <1>5 DEF g

(* The order of two sums does not matter.                                  *)
LEMMA SigmaExchange ==
  ASSUME NEW row \in [Rows -> Column], NEW col \in [Rows -> Column],
         \A i \in Rows : \A j \in Rows : row[i][j] = col[j][i]
  PROVE  Sigma([i \in Rows |-> Sigma(row[i])]) = Sigma([j \in Rows |-> Sigma(col[j])])
<1>. DEFINE rows == [i \in Rows |-> Sigma(row[i])]
            cols == [n \in 0..N |-> [j \in Rows |-> Part(col[j], n)]]
            S == {n \in 0..N : Part(rows, n) = Sigma(cols[n])}
<1>1. rows \in Column /\ \A i \in Rows : rows[i] = Sigma(row[i])
  BY SigmaIn DEF Column
<1>2. \A n \in 0..N : /\ cols[n] \in Column
                      /\ \A j \in Rows : cols[n][j] = Part(col[j], n)
  BY PartIn DEF Column
<1>3. [i \in Rows |-> Sigma(row[i])] = rows /\ cols[N] = [j \in Rows |-> Sigma(col[j])]
  BY SizesAssumption DEF Sigma
<1>. HIDE DEF rows, cols
<1>4. 0 \in S
  <2>1. Part(rows, 0) = 0
    BY PartStart
  <2>2. \A j \in Rows : cols[0][j] = 0
    BY <1>2, PartStart, SizesAssumption
  <2>3. cols[0] \in Column /\ N \in 0..N
    BY <1>2, SizesAssumption
  <2>4. Sigma(cols[0]) = 0
    BY <2>2, <2>3, PartZero DEF Sigma
  <2>. QED  BY <2>1, <2>4, SizesAssumption
<1>5. ASSUME NEW n \in Rows, n \in S PROVE n + 1 \in S
  <2>1. n \in 0..N /\ n + 1 \in 0..N
    BY SizesAssumption DEF Rows
  <2>2. cols[n + 1] = [j \in Rows |-> Plus(cols[n][j], row[n][j])]
    <3>1. ASSUME NEW j \in Rows PROVE cols[n + 1][j] = Plus(cols[n][j], row[n][j])
      BY <1>2, <2>1, PartNext
    <3>2. cols[n + 1] = [j \in Rows |-> cols[n + 1][j]]
      BY <1>2, <2>1 DEF Column
    <3>. QED  BY <3>1, <3>2
  <2>3. Sigma(cols[n + 1]) = Plus(Sigma(cols[n]), Sigma(row[n]))
    <3>1. cols[n] \in Column /\ row[n] \in Column
      BY <1>2, <2>1
    <3>2. Sigma([j \in Rows |-> Plus(cols[n][j], row[n][j])]) = Plus(Sigma(cols[n]), Sigma(row[n]))
      BY <3>1, SigmaAdd
    <3>. QED  BY <2>2, <3>2
  <2>4. Part(rows, n + 1) = Plus(Part(rows, n), Sigma(row[n]))
    BY <1>1, PartNext
  <2>. QED  BY <1>5, <2>1, <2>3, <2>4
<1>. HIDE DEF S
<1>6. 0..N \subseteq S
  BY <1>4, <1>5, Counting
<1>7. Part(rows, N) = Sigma(cols[N])
  BY <1>6, SizesAssumption DEF S
<1>. QED  BY <1>3, <1>7 DEF Sigma

(* An element of a matrix. *)
Entry(M, i, j) == M[i, j]

(* Row r of M times v, over the columns in S. *)
Dot(M, r, v, S) == Sigma([k \in Rows |-> IF k \in S THEN Times(Entry(M, r, k), v[k]) ELSE 0])

Square == [Rows \X Rows -> Elements]

LEMMA EntryIn ==
  ASSUME NEW M \in Square, NEW i \in Rows, NEW j \in Rows
  PROVE  Entry(M, i, j) \in Elements
  BY DEF Square, Entry

LEMMA DotIn ==
  ASSUME NEW M \in Square, NEW r \in Rows, NEW v \in Column, NEW S
  PROVE  /\ [k \in Rows |-> IF k \in S THEN Times(Entry(M, r, k), v[k]) ELSE 0] \in Column
         /\ Dot(M, r, v, S) \in Elements
<1>1. [k \in Rows |-> IF k \in S THEN Times(Entry(M, r, k), v[k]) ELSE 0] \in Column
  <2>1. ASSUME NEW k \in Rows PROVE Times(Entry(M, r, k), v[k]) \in Elements
    <3>1. Entry(M, r, k) \in Elements /\ v[k] \in Elements
      BY EntryIn DEF Column
    <3>. QED  BY <3>1, Closed
  <2>. QED  BY <2>1, Zeros DEF Column
<1>. QED  BY <1>1, SigmaIn DEF Dot

LEMMA DotMore ==
  ASSUME NEW M \in Square, NEW r \in Rows, NEW v \in Column, NEW S, NEW j \in Rows, j \notin S
  PROVE  Dot(M, r, v, S \cup {j}) = Plus(Dot(M, r, v, S), Times(Entry(M, r, j), v[j]))
<1>. DEFINE f == [k \in Rows |-> IF k \in S THEN Times(Entry(M, r, k), v[k]) ELSE 0]
            e == Times(Entry(M, r, j), v[j])
            g == [k \in Rows |-> IF k = j THEN e ELSE 0]
            h == [k \in Rows |-> IF k \in S \cup {j} THEN Times(Entry(M, r, k), v[k]) ELSE 0]
<1>1. f \in Column /\ h \in Column
  BY DotIn
<1>2. Entry(M, r, j) \in Elements /\ v[j] \in Elements
  BY EntryIn DEF Column
<1>3. e \in Elements
  BY <1>2, Closed
<1>4. g \in Column
  BY <1>3, Zeros DEF Column
<1>5. ASSUME NEW k \in Rows PROVE h[k] = Plus(f[k], g[k])
  <2>1. f[k] \in Elements /\ g[k] \in Elements
    BY <1>1, <1>4 DEF Column
  <2>2. CASE k = j
    <3>1. f[k] = 0 /\ g[k] = e /\ h[k] = e
      BY <2>2
    <3>. QED  BY <1>3, <3>1, Zeros
  <2>3. CASE k # j
    <3>1. g[k] = 0 /\ h[k] = f[k]
      BY <2>3
    <3>. QED  BY <2>1, <3>1, Zeros
  <2>. QED  BY <2>2, <2>3
<1>6. h = [k \in Rows |-> Plus(f[k], g[k])]
  <2>1. h = [k \in Rows |-> h[k]]
    OBVIOUS
  <2>. HIDE DEF h, f, g
  <2>. QED  BY <1>5, <2>1
<1>7. Sigma(g) = e
  BY <1>3, SigmaUnit
<1>8. Sigma(h) = Plus(Sigma(f), Sigma(g))
  <2>. HIDE DEF f, g, h
  <2>. QED  BY <1>1, <1>4, <1>6, SigmaAdd
<1>. QED  BY <1>7, <1>8 DEF Dot

(* What is not in S, or is multiplied by 0, makes no difference.           *)
LEMMA DotLike ==
  ASSUME NEW M \in Square, NEW W \in Square, NEW r \in Rows, NEW v \in Column, NEW w \in Column,
         NEW S, NEW T,
         \A k \in Rows : \/ k \in S /\ k \in T /\ v[k] = w[k] /\ Entry(M, r, k) = Entry(W, r, k)
                         \/ (k \in S => Entry(M, r, k) = 0) /\ (k \in T => Entry(W, r, k) = 0)
  PROVE  Dot(M, r, v, S) = Dot(W, r, w, T)
<1>1. ASSUME NEW k \in Rows
      PROVE  (IF k \in S THEN Times(Entry(M, r, k), v[k]) ELSE 0)
               = (IF k \in T THEN Times(Entry(W, r, k), w[k]) ELSE 0)
  <2>1. v[k] \in Elements /\ w[k] \in Elements
    BY DEF Column
  <2>2. CASE k \in S /\ k \in T /\ v[k] = w[k] /\ Entry(M, r, k) = Entry(W, r, k)
    BY <2>2
  <2>3. CASE (k \in S => Entry(M, r, k) = 0) /\ (k \in T => Entry(W, r, k) = 0)
    <3>1. (IF k \in S THEN Times(Entry(M, r, k), v[k]) ELSE 0) = 0
      BY <2>1, <2>3, Zeros
    <3>2. (IF k \in T THEN Times(Entry(W, r, k), w[k]) ELSE 0) = 0
      BY <2>1, <2>3, Zeros
    <3>. QED  BY <3>1, <3>2
  <2>. QED  BY <2>2, <2>3
<1>2. [k \in Rows |-> IF k \in S THEN Times(Entry(M, r, k), v[k]) ELSE 0]
        = [k \in Rows |-> IF k \in T THEN Times(Entry(W, r, k), w[k]) ELSE 0]
  BY <1>1
<1>. QED  BY <1>2 DEF Dot

LEMMA DotSame ==
  ASSUME NEW M \in Square, NEW r \in Rows, NEW v \in Column, NEW w \in Column, NEW S, NEW T,
         \A k \in Rows : \/ k \in S /\ k \in T /\ v[k] = w[k]
                         \/ k \notin S /\ k \notin T
                         \/ Entry(M, r, k) = 0
  PROVE  Dot(M, r, v, S) = Dot(M, r, w, T)
  BY DotLike

LEMMA DotAgree ==
  ASSUME NEW M \in Square, NEW r \in Rows, NEW v \in Column, NEW w \in Column, NEW S,
         \A k \in Rows : k \in S => v[k] = w[k]
  PROVE  Dot(M, r, v, S) = Dot(M, r, w, S)
  BY DotSame

LEMMA DotEmpty ==
  ASSUME NEW M \in Square, NEW r \in Rows, NEW v \in Column
  PROVE  Dot(M, r, v, {}) = 0
<1>. DEFINE f == [k \in Rows |-> IF k \in {} THEN Times(Entry(M, r, k), v[k]) ELSE 0]
<1>1. f \in Column /\ \A k \in Rows : f[k] = 0
  BY Zeros DEF Column
<1>. HIDE DEF f
<1>2. Sigma(f) = 0
  BY <1>1, PartZero, SizesAssumption DEF Sigma
<1>. QED  BY <1>2 DEF Dot, f

(* A sum over some columns, the elements counted from the first.           *)
LEMMA DotRange ==
  ASSUME NEW M \in Square, NEW r \in Rows, NEW v \in Column,
         NEW first \in 0..N, NEW last \in -1..(N - 1)
  PROVE  Total([k \in 1..(last - first + 1) |-> Times(Entry(M, r, first + k - 1), v[first + k - 1])])
           = Dot(M, r, v, first..last)
<1>. DEFINE f == [k \in Rows |-> IF k \in first..last THEN Times(Entry(M, r, k), v[k]) ELSE 0]
            g(n) == [k \in 1..n |-> f[first + k - 1]]
            S == {n \in Nat : n <= last - first + 1 => Total(g(n)) = Part(f, first + n)}
<1>1. f \in Column /\ Dot(M, r, v, first..last) = Sigma(f)
  BY DotIn DEF Dot
<1>0. /\ N \in Nat /\ first \in Int /\ last \in Int /\ first >= 0 /\ last <= N - 1 /\ last >= -1
      /\ first <= N /\ \A k \in Rows : k \in Int
  BY SizesAssumption DEF Rows
<1>2. g(last - first + 1)
        = [k \in 1..(last - first + 1) |-> Times(Entry(M, r, first + k - 1), v[first + k - 1])]
  <2>1. ASSUME NEW k \in 1..(last - first + 1)
        PROVE  f[first + k - 1] = Times(Entry(M, r, first + k - 1), v[first + k - 1])
    <3>1. first + k - 1 \in Rows /\ first + k - 1 \in first..last
      BY <1>0 DEF Rows
    <3>. QED  BY <3>1
  <2>. HIDE DEF f
  <2>. QED  BY <2>1
<1>3. \A k \in Rows : k < first \/ k > last => f[k] = 0
  <2>1. ASSUME NEW k \in Rows, k < first \/ k > last PROVE k \notin first..last
    BY <1>0, <2>1
  <2>. QED  BY <2>1
<1>. HIDE DEF f
<1>4. 0 \in S
  <2>1. g(0) = [k \in 1..0 |-> f[k - 1]]
    OBVIOUS
  <2>2. Total(g(0)) = 0
    BY <2>1, PartStart DEF Part
  <2>3. Part(f, first) = 0
    BY <1>1, <1>3, PartZero, SizesAssumption DEF Rows
  <2>. QED  BY <2>2, <2>3, SizesAssumption
<1>5. ASSUME NEW n \in Nat, n \in S PROVE n + 1 \in S
  <2>. SUFFICES ASSUME n + 1 <= last - first + 1 PROVE Total(g(n + 1)) = Part(f, first + (n + 1))
    OBVIOUS
  <2>1. first + n \in Rows /\ f[first + n] \in Elements
    BY <1>1, SizesAssumption DEF Rows, Column
  <2>2. \A k \in 1..n : first + k - 1 \in Rows
    BY SizesAssumption DEF Rows
  <2>3. g(n) \in Seq(Elements) /\ Len(g(n)) = n
    <3>1. \A k \in 1..n : f[first + k - 1] \in Elements
      BY <1>1, <2>2 DEF Column
    <3>. QED  BY <3>1
  <2>4. g(n + 1) = Append(g(n), f[first + n])
    <3>1. first + (n + 1) - 1 = first + n
      BY SizesAssumption
    <3>. QED  BY <2>3, <3>1
  <2>5. Total(g(n)) = Part(f, first + n)
    BY <1>5, SizesAssumption
  <2>. HIDE DEF g
  <2>6. Total(g(n + 1)) = Plus(Total(g(n)), f[first + n])
    BY <2>1, <2>3, <2>4, TotalAppend
  <2>7. Part(f, (first + n) + 1) = Plus(Part(f, first + n), f[first + n])
    BY <1>1, <2>1, PartNext
  <2>8. (first + n) + 1 = first + (n + 1)
    BY SizesAssumption
  <2>. QED  BY <2>5, <2>6, <2>7, <2>8
<1>. HIDE DEF S
<1>6. Nat \subseteq S
  BY <1>4, <1>5, Sums!Induction
<1>7. CASE last >= first
  <2>1. last - first + 1 \in Nat /\ first + (last - first + 1) = last + 1 /\ last + 1 \in 0..N
    BY <1>7, SizesAssumption
  <2>2. Total(g(last - first + 1)) = Part(f, last + 1)
    BY <1>6, <2>1 DEF S
  <2>3. Part(f, last + 1) = Sigma(f)
    BY <1>1, <1>3, <2>1, PartStays, SizesAssumption DEF Rows
  <2>. QED  BY <1>1, <1>2, <2>2, <2>3
<1>8. CASE last < first
  <2>1. g(last - first + 1) = [k \in 1..0 |-> f[k - 1]]
    BY <1>8, SizesAssumption
  <2>2. Total(g(last - first + 1)) = 0
    BY <2>1, PartStart DEF Part
  <2>3. Sigma(f) = 0
    BY <1>1, <1>3, <1>8, PartZero, SizesAssumption DEF Rows, Sigma
  <2>. QED  BY <1>1, <1>2, <2>2, <2>3
<1>9. last >= first \/ last < first
  BY <1>0
<1>. QED  BY <1>7, <1>8, <1>9, Zenon

-----------------------------------------------------------------------------
(* Triangular systems *)

Regular(M) == \A i \in Rows : Entry(M, i, i) # 0

LEMMA AppliedDot ==
  ASSUME NEW M \in Square, NEW v \in Column
  PROVE  Applied(M, v) \in Column /\ \A i \in Rows : Applied(M, v)[i] = Dot(M, i, v, Rows)
<1>1. ASSUME NEW i \in Rows PROVE Applied(M, v)[i] = Dot(M, i, v, Rows)
  <2>. DEFINE f == [k \in Rows |-> IF k \in Rows THEN Times(Entry(M, i, k), v[k]) ELSE 0]
  <2>1. ASSUME NEW k \in 1..N PROVE Times(Entry(M, i, k - 1), v[k - 1]) = f[k - 1]
    <3>1. k - 1 \in Rows
      BY SizesAssumption DEF Rows
    <3>. QED  BY <3>1
  <2>2. [k \in 1..N |-> Times(Entry(M, i, k - 1), v[k - 1])] = [k \in 1..N |-> f[k - 1]]
    <3>. HIDE DEF f
    <3>. QED  BY <2>1
  <2>3. [k \in 1..N |-> Times(M[i, k - 1], v[k - 1])]
          = [k \in 1..N |-> Times(Entry(M, i, k - 1), v[k - 1])]
    BY DEF Entry
  <2>. QED  BY <2>2, <2>3 DEF Applied, Dot, Sigma, Part
<1>2. \A i \in Rows : Dot(M, i, v, Rows) \in Elements
  BY DotIn
<1>3. Applied(M, v) = [i \in Rows |-> Applied(M, v)[i]]
  BY DEF Applied
<1>. QED  BY <1>1, <1>2, <1>3 DEF Column

LEMMA Factors ==
  ASSUME NEW M \in Square
  PROVE  /\ L(M) \in Square /\ U(M) \in Square
         /\ \A i \in Rows : \A j \in Rows :
              /\ i = j => Entry(L(M), i, j) = 1
              /\ i > j => Entry(L(M), i, j) = Entry(M, i, j)
              /\ i < j => Entry(L(M), i, j) = 0
              /\ i <= j => Entry(U(M), i, j) = Entry(M, i, j)
              /\ i > j => Entry(U(M), i, j) = 0
<1>0. \A i \in Rows : i \in Int
  BY DEF Rows
<1>1. ASSUME NEW i \in Rows, NEW j \in Rows
      PROVE  /\ i = j => Entry(L(M), i, j) = 1
             /\ i > j => Entry(L(M), i, j) = Entry(M, i, j)
             /\ i < j => Entry(L(M), i, j) = 0
             /\ i <= j => Entry(U(M), i, j) = Entry(M, i, j)
             /\ i > j => Entry(U(M), i, j) = 0
  <2>0. <<i, j>> \in Rows \X Rows /\ <<i, j>>[1] = i /\ <<i, j>>[2] = j
    OBVIOUS
  <2>1. PICK ij : ij = <<i, j>> /\ ij \in Rows \X Rows /\ ij[1] = i /\ ij[2] = j
    BY <2>0, Zenon
  <2>2. /\ L(M)[ij] = IF i = j THEN 1 ELSE IF i > j THEN M[ij] ELSE 0
        /\ U(M)[ij] = IF i <= j THEN M[ij] ELSE 0
    BY <2>1 DEF L, U
  <2>3. Entry(L(M), i, j) = L(M)[ij] /\ Entry(U(M), i, j) = U(M)[ij] /\ Entry(M, i, j) = M[ij]
    BY <2>1 DEF Entry
  <2>. QED  BY <1>0, <2>2, <2>3
<1>2. ASSUME NEW i \in Rows, NEW j \in Rows
      PROVE  Entry(L(M), i, j) \in Elements /\ Entry(U(M), i, j) \in Elements
  BY <1>0, <1>1, EntryIn, Zeros
<1>3. /\ L(M) = [ij \in Rows \X Rows |-> L(M)[ij]]
      /\ U(M) = [ij \in Rows \X Rows |-> U(M)[ij]]
  BY DEF L, U
<1>4. \A ij \in Rows \X Rows : L(M)[ij] \in Elements /\ U(M)[ij] \in Elements
  <2>1. ASSUME NEW ij \in Rows \X Rows
        PROVE  L(M)[ij] \in Elements /\ U(M)[ij] \in Elements
    <3>1. PICK i \in Rows, j \in Rows : ij = <<i, j>>
      OBVIOUS
    <3>2. Entry(L(M), i, j) = L(M)[ij] /\ Entry(U(M), i, j) = U(M)[ij]
      BY <3>1 DEF Entry
    <3>. QED  BY <1>2, <3>2
  <2>. QED  BY <2>1
<1>. QED  BY <1>1, <1>3, <1>4 DEF Square

LEMMA LowerRow ==
  ASSUME NEW M \in Square, NEW y \in Column, NEW i \in Rows
  PROVE  Applied(L(M), y)[i] = Plus(y[i], Dot(M, i, y, 0..(i - 1)))
<1>0. /\ L(M) \in Square /\ y[i] \in Elements /\ \A k \in Rows : k \in Nat
      /\ Dot(M, i, y, 0..(i - 1)) \in Elements
  BY Factors, DotIn DEF Column, Rows
<1>1. Applied(L(M), y)[i] = Dot(L(M), i, y, Rows)
  BY <1>0, AppliedDot
<1>2. Dot(L(M), i, y, Rows) = Dot(L(M), i, y, (0..(i - 1)) \cup {i})
  <2>1. \A k \in Rows : k \in (0..(i - 1)) \cup {i} \/ Entry(L(M), i, k) = 0
    BY <1>0, Factors
  <2>. QED  BY <1>0, <2>1, DotSame
<1>3. i \notin 0..(i - 1) /\ Entry(L(M), i, i) = 1
  BY <1>0, Factors
<1>4. Dot(L(M), i, y, (0..(i - 1)) \cup {i})
        = Plus(Dot(L(M), i, y, 0..(i - 1)), Times(Entry(L(M), i, i), y[i]))
  <2>1. \A T : i \notin T => Dot(L(M), i, y, T \cup {i})
                              = Plus(Dot(L(M), i, y, T), Times(Entry(L(M), i, i), y[i]))
    BY <1>0, DotMore
  <2>. QED  BY <1>3, <2>1, Zenon
<1>5. Dot(L(M), i, y, 0..(i - 1)) = Dot(M, i, y, 0..(i - 1))
  <2>1. \A k \in Rows : k \in 0..(i - 1) => Entry(L(M), i, k) = Entry(M, i, k)
    BY <1>0, Factors
  <2>. QED  BY <1>0, <2>1, DotLike
<1>6. Times(Entry(L(M), i, i), y[i]) = y[i]
  BY <1>0, <1>3, Zeros
<1>. QED  BY <1>0, <1>1, <1>2, <1>4, <1>5, <1>6, PlusCommutes

LEMMA UpperRow ==
  ASSUME NEW M \in Square, NEW x \in Column, NEW i \in Rows
  PROVE  Applied(U(M), x)[i] = Plus(Times(Entry(M, i, i), x[i]), Dot(M, i, x, (i + 1)..(N - 1)))
<1>0. /\ U(M) \in Square /\ x[i] \in Elements /\ Entry(M, i, i) \in Elements
      /\ \A k \in Rows : k \in Int /\ k <= N - 1 /\ N \in Int
      /\ Dot(M, i, x, (i + 1)..(N - 1)) \in Elements
  BY Factors, DotIn, EntryIn, SizesAssumption DEF Column, Rows
<1>1. Applied(U(M), x)[i] = Dot(U(M), i, x, Rows)
  BY <1>0, AppliedDot
<1>2. Dot(U(M), i, x, Rows) = Dot(U(M), i, x, ((i + 1)..(N - 1)) \cup {i})
  <2>1. \A k \in Rows : k \in ((i + 1)..(N - 1)) \cup {i} \/ Entry(U(M), i, k) = 0
    BY <1>0, Factors
  <2>. QED  BY <1>0, <2>1, DotSame
<1>3. i \notin (i + 1)..(N - 1) /\ Entry(U(M), i, i) = Entry(M, i, i)
  BY <1>0, Factors
<1>4. Dot(U(M), i, x, ((i + 1)..(N - 1)) \cup {i})
        = Plus(Dot(U(M), i, x, (i + 1)..(N - 1)), Times(Entry(U(M), i, i), x[i]))
  <2>1. \A T : i \notin T => Dot(U(M), i, x, T \cup {i})
                              = Plus(Dot(U(M), i, x, T), Times(Entry(U(M), i, i), x[i]))
    BY <1>0, DotMore
  <2>. QED  BY <1>3, <2>1, Zenon
<1>5. Dot(U(M), i, x, (i + 1)..(N - 1)) = Dot(M, i, x, (i + 1)..(N - 1))
  <2>1. \A k \in Rows : k \in (i + 1)..(N - 1) => Entry(U(M), i, k) = Entry(M, i, k)
    BY <1>0, Factors
  <2>. QED  BY <1>0, <2>1, DotLike
<1>6. Times(Entry(M, i, i), x[i]) \in Elements
  BY <1>0, Closed
<1>. QED  BY <1>0, <1>1, <1>2, <1>3, <1>4, <1>5, <1>6, PlusCommutes

(* y solves L y = c, x solves U x = y, row by row. *)
SolvesLower(M, y, c) ==
  \A i \in Rows : Plus(y[i], Dot(M, i, y, 0..(i - 1))) = c[i]
SolvesUpper(M, x, y) ==
  \A i \in Rows : Plus(Times(Entry(M, i, i), x[i]), Dot(M, i, x, (i + 1)..(N - 1))) = y[i]

LEMMA Substituting ==
  ASSUME NEW M \in Square, NEW x \in Column, NEW y \in Column, NEW c \in Column,
         SolvesUpper(M, x, y), SolvesLower(M, y, c)
  PROVE  Applied(L(M), Applied(U(M), x)) = c
<1>0. L(M) \in Square /\ U(M) \in Square
  BY Factors
<1>1. Applied(U(M), x) = y
  <2>1. Applied(U(M), x) \in Column
    BY <1>0, AppliedDot
  <2>2. \A i \in Rows : Applied(U(M), x)[i] = y[i]
    BY UpperRow DEF SolvesUpper
  <2>. QED  BY <2>1, <2>2 DEF Column
<1>2. Applied(L(M), y) = c
  <2>1. Applied(L(M), y) \in Column
    BY <1>0, AppliedDot
  <2>2. \A i \in Rows : Applied(L(M), y)[i] = c[i]
    BY LowerRow DEF SolvesLower
  <2>. QED  BY <2>1, <2>2 DEF Column
<1>. QED  BY <1>1, <1>2

(* A factored system has one solution. *)
LEMMA LowerUnique ==
  ASSUME NEW M \in Square, NEW y \in Column, NEW z \in Column, NEW c,
         SolvesLower(M, y, c), SolvesLower(M, z, c)
  PROVE  y = z
<1>. DEFINE S == {n \in 0..N : \A k \in Rows : k < n => y[k] = z[k]}
<1>0. N \in Nat /\ \A k \in Rows : k \in Nat /\ k < N /\ k \in 0..N /\ k + 1 \in 0..N
  BY SizesAssumption DEF Rows
<1>1. 0 \in S
  BY <1>0
<1>2. ASSUME NEW n \in Rows, n \in S PROVE n + 1 \in S
  <2>1. \A k \in Rows : k < n => y[k] = z[k]
    BY <1>2
  <2>2. Dot(M, n, y, 0..(n - 1)) = Dot(M, n, z, 0..(n - 1))
    <3>1. PICK T : T = 0..(n - 1)
      OBVIOUS
    <3>2. \A k \in Rows : k \in T => y[k] = z[k]
      BY <1>0, <2>1, <3>1
    <3>3. Dot(M, n, y, T) = Dot(M, n, z, T)
      BY <3>2, DotAgree
    <3>. QED  BY <3>1, <3>3
  <2>3. /\ y[n] \in Elements /\ z[n] \in Elements
        /\ Dot(M, n, y, 0..(n - 1)) \in Elements
    BY DotIn DEF Column
  <2>4. Plus(y[n], Dot(M, n, y, 0..(n - 1))) = Plus(z[n], Dot(M, n, y, 0..(n - 1)))
    BY <2>2 DEF SolvesLower
  <2>5. y[n] = z[n]
    BY <2>3, <2>4, PlusCancels
  <2>6. \A k \in Rows : k < n + 1 => k < n \/ k = n
    BY <1>0
  <2>. QED  BY <1>0, <2>1, <2>5, <2>6
<1>. HIDE DEF S
<1>3. N \in S
  BY <1>0, <1>1, <1>2, Counting
<1>4. \A k \in Rows : y[k] = z[k]
  BY <1>0, <1>3 DEF S
<1>. QED  BY <1>4 DEF Column

LEMMA UpperUnique ==
  ASSUME NEW M \in Square, Regular(M),
         NEW x \in Column, NEW z \in Column, NEW y,
         SolvesUpper(M, x, y), SolvesUpper(M, z, y)
  PROVE  x = z
<1>. DEFINE S == {n \in 0..N : \A k \in Rows : k >= N - n => x[k] = z[k]}
<1>0. N \in Nat /\ \A k \in Rows : k \in Nat /\ k < N /\ k \in 0..N /\ k + 1 \in 0..N
  BY SizesAssumption DEF Rows
<1>1. 0 \in S
  BY <1>0
<1>2. ASSUME NEW n \in Rows, n \in S PROVE n + 1 \in S
  <2>1. \A k \in Rows : k >= N - n => x[k] = z[k]
    BY <1>2
  <2>2. PICK i \in Rows : i = N - n - 1
    BY <1>0 DEF Rows
  <2>3. Dot(M, i, x, (i + 1)..(N - 1)) = Dot(M, i, z, (i + 1)..(N - 1))
    <3>1. PICK T : T = (i + 1)..(N - 1)
      OBVIOUS
    <3>2. \A k \in Rows : k \in T => x[k] = z[k]
      BY <1>0, <2>1, <2>2, <3>1
    <3>3. Dot(M, i, x, T) = Dot(M, i, z, T)
      BY <3>2, DotAgree
    <3>. QED  BY <3>1, <3>3
  <2>4. /\ x[i] \in Elements /\ z[i] \in Elements /\ Entry(M, i, i) \in Elements /\ Entry(M, i, i) # 0
        /\ Dot(M, i, x, (i + 1)..(N - 1)) \in Elements
    BY DotIn, EntryIn DEF Column, Regular
  <2>5. Plus(Times(Entry(M, i, i), x[i]), Dot(M, i, x, (i + 1)..(N - 1)))
          = Plus(Times(Entry(M, i, i), z[i]), Dot(M, i, x, (i + 1)..(N - 1)))
    BY <2>3 DEF SolvesUpper
  <2>6. Times(Entry(M, i, i), x[i]) = Times(Entry(M, i, i), z[i])
    BY <2>4, <2>5, PlusCancels, Closed
  <2>7. x[i] = z[i]
    BY <2>4, <2>6, TimesCancels
  <2>8. \A k \in Rows : k >= N - (n + 1) => k >= N - n \/ k = i
    BY <1>0, <2>2
  <2>. QED  BY <1>0, <2>1, <2>7, <2>8
<1>. HIDE DEF S
<1>3. N \in S
  BY <1>0, <1>1, <1>2, Counting
<1>4. \A k \in Rows : x[k] = z[k]
  BY <1>0, <1>3 DEF S
<1>. QED  BY <1>4 DEF Column

LEMMA SolutionUnique ==
  ASSUME NEW M \in Square, Regular(M), NEW x \in Column, NEW z \in Column,
         Applied(L(M), Applied(U(M), x)) = Applied(L(M), Applied(U(M), z))
  PROVE  x = z
<1>. DEFINE y == Applied(U(M), x)
            w == Applied(U(M), z)
<1>1. L(M) \in Square /\ U(M) \in Square
  BY Factors
<1>2. y \in Column /\ w \in Column
  BY <1>1, AppliedDot
<1>3. SolvesUpper(M, x, y) /\ SolvesUpper(M, z, w)
  BY UpperRow DEF SolvesUpper
<1>. HIDE DEF y, w
<1>4. SolvesLower(M, y, Applied(L(M), y)) /\ SolvesLower(M, w, Applied(L(M), w))
  BY <1>2, LowerRow DEF SolvesLower
<1>5. Applied(L(M), y) = Applied(L(M), w)
  BY DEF y, w
<1>6. y = w
  BY <1>2, <1>4, <1>5, LowerUnique
<1>. QED  BY <1>3, <1>6, UpperUnique

-----------------------------------------------------------------------------
(* Bandwidths *)

(* A set of diagonals that has with each one all that are further out.     *)
LEMMA Outermost ==
  ASSUME NEW Z, Z \subseteq 1..(N - 1), \A d \in Z : \A e \in d..(N - 1) : e \in Z
  PROVE  /\ Cardinality(Z) \in 0..(N - 1)
         /\ \A e \in 1..(N - 1) : e > N - 1 - Cardinality(Z) => e \in Z
<1>0. N \in Nat /\ N > 0
  BY SizesAssumption
<1>1. IsFiniteSet(1..(N - 1)) /\ Cardinality(1..(N - 1)) = N - 1
  <2>1. 1 \in Int /\ N - 1 \in Int
    BY <1>0
  <2>2. IsFiniteSet(1..(N - 1)) /\ Cardinality(1..(N - 1)) = IF 1 > N - 1 THEN 0 ELSE (N - 1) - 1 + 1
    BY <2>1, FS_Interval
  <2>. QED  BY <1>0, <2>2
<1>2. IsFiniteSet(Z) /\ Cardinality(Z) <= N - 1
  BY <1>1, FS_Subset
<1>3. Cardinality(Z) \in Nat
  BY <1>2, FS_CardinalityType
<1>4. ASSUME NEW e \in 1..(N - 1), e \notin Z PROVE Cardinality(Z) <= N - 1 - e
  <2>1. e + 1 \in Int /\ N - 1 \in Int
    BY <1>0
  <2>2. /\ IsFiniteSet((e + 1)..(N - 1))
        /\ Cardinality((e + 1)..(N - 1)) = IF e + 1 > N - 1 THEN 0 ELSE (N - 1) - (e + 1) + 1
    BY <2>1, FS_Interval
  <2>3. Z \subseteq (e + 1)..(N - 1)
    <3>1. ASSUME NEW d \in Z PROVE d \in (e + 1)..(N - 1)
      <4>1. d \in 1..(N - 1)
        OBVIOUS
      <4>2. ~ (d <= e)
        BY <1>0, <1>4, <4>1
      <4>. QED  BY <1>0, <4>1, <4>2
    <3>. QED  BY <3>1
  <2>4. Cardinality(Z) <= Cardinality((e + 1)..(N - 1))
    BY <2>2, <2>3, FS_Subset
  <2>. QED  BY <1>0, <1>3, <2>2, <2>4
<1>5. ASSUME NEW e \in 1..(N - 1), e > N - 1 - Cardinality(Z) PROVE e \in Z
  BY <1>0, <1>3, <1>4, <1>5
<1>. QED  BY <1>0, <1>2, <1>3, <1>5

LEMMA OnDiagonal ==
  ASSUME NEW M, NEW i \in Rows, NEW j \in Rows, NEW d, d = i - j
  PROVE  Entry(M, i, j) \in Diagonal(M, d)
<1>1. <<i, j>> \in Rows \X Rows /\ <<i, j>>[1] = i /\ <<i, j>>[2] = j
  OBVIOUS
<1>2. PICK q \in Rows \X Rows : q[1] = i /\ q[2] = j
  BY <1>1, Zenon
<1>3. M[q[1], q[2]] = Entry(M, i, j)
  BY <1>2 DEF Entry
<1>4. M[q[1], q[2]] \in Diagonal(M, d)
  BY <1>2, Zenon DEF Diagonal
<1>. QED  BY <1>3, <1>4

(* Outside the bands a matrix is 0. *)
InLowerBand(M, lbw) == \A i \in Rows : \A j \in Rows : i - j > lbw => Entry(M, i, j) = 0
InUpperBand(M, ubw) == \A i \in Rows : \A j \in Rows : j - i > ubw => Entry(M, i, j) = 0

LEMMA LowerBand ==
  ASSUME NEW M, NEW lbw \in LowerBandwidth(M)..(N - 1)
  PROVE  lbw \in 0..(N - 1) /\ InLowerBand(M, lbw)
<1>0. N \in Nat /\ N > 0 /\ \A i \in Rows : i \in 0..(N - 1)
  BY SizesAssumption DEF Rows
<1>. DEFINE Z == {d \in 1..(N - 1) : \A e \in d..(N - 1) : Diagonal(M, e) \subseteq {0}}
<1>1. Z \subseteq 1..(N - 1) /\ \A d \in Z : \A e \in d..(N - 1) : e \in Z
  <2>1. ASSUME NEW d \in Z, NEW e \in d..(N - 1) PROVE e \in Z
    <3>1. e \in 1..(N - 1) /\ \A f \in e..(N - 1) : f \in d..(N - 1)
      BY <1>0
    <3>. QED  BY <3>1
  <2>. QED  BY <2>1
<1>2. LowerBandwidth(M) = N - 1 - Cardinality(Z)
  BY Zenon DEF LowerBandwidth
<1>3. \A d \in Z : d \in d..(N - 1) /\ Diagonal(M, d) \subseteq {0}
  BY <1>0
<1>. HIDE DEF Z
<1>4. /\ Cardinality(Z) \in 0..(N - 1)
      /\ \A e \in 1..(N - 1) : e > N - 1 - Cardinality(Z) => e \in Z
  BY <1>1, Outermost
<1>5. lbw \in 0..(N - 1) /\ lbw >= N - 1 - Cardinality(Z)
  BY <1>0, <1>2, <1>4
<1>6. ASSUME NEW i \in Rows, NEW j \in Rows, i - j > lbw PROVE Entry(M, i, j) = 0
  <2>1. PICK d : d = i - j
    OBVIOUS
  <2>2. d \in 1..(N - 1) /\ d > N - 1 - Cardinality(Z)
    BY <1>0, <1>4, <1>5, <1>6, <2>1
  <2>3. d \in Z
    BY <1>4, <2>2
  <2>. QED  BY <1>3, <2>1, <2>3, OnDiagonal
<1>. QED  BY <1>5, <1>6 DEF InLowerBand

LEMMA UpperBand ==
  ASSUME NEW M, NEW ubw \in UpperBandwidth(M)..(N - 1)
  PROVE  ubw \in 0..(N - 1) /\ InUpperBand(M, ubw)
<1>0. N \in Nat /\ N > 0 /\ \A i \in Rows : i \in 0..(N - 1)
  BY SizesAssumption DEF Rows
<1>. DEFINE Z == {d \in 1..(N - 1) : \A e \in d..(N - 1) : Diagonal(M, -e) \subseteq {0}}
<1>1. Z \subseteq 1..(N - 1) /\ \A d \in Z : \A e \in d..(N - 1) : e \in Z
  <2>1. ASSUME NEW d \in Z, NEW e \in d..(N - 1) PROVE e \in Z
    <3>1. e \in 1..(N - 1) /\ \A f \in e..(N - 1) : f \in d..(N - 1)
      BY <1>0
    <3>. QED  BY <3>1
  <2>. QED  BY <2>1
<1>2. UpperBandwidth(M) = N - 1 - Cardinality(Z)
  BY Zenon DEF UpperBandwidth
<1>3. \A d \in Z : d \in d..(N - 1) /\ Diagonal(M, -d) \subseteq {0}
  BY <1>0
<1>. HIDE DEF Z
<1>4. /\ Cardinality(Z) \in 0..(N - 1)
      /\ \A e \in 1..(N - 1) : e > N - 1 - Cardinality(Z) => e \in Z
  BY <1>1, Outermost
<1>5. ubw \in 0..(N - 1) /\ ubw >= N - 1 - Cardinality(Z)
  BY <1>0, <1>2, <1>4
<1>6. ASSUME NEW i \in Rows, NEW j \in Rows, j - i > ubw PROVE Entry(M, i, j) = 0
  <2>1. PICK d : d = j - i
    OBVIOUS
  <2>2. d \in 1..(N - 1) /\ d > N - 1 - Cardinality(Z) /\ -d = i - j
    BY <1>0, <1>4, <1>5, <1>6, <2>1
  <2>3. d \in Z
    BY <1>4, <2>2
  <2>. QED  BY <1>3, <2>2, <2>3, OnDiagonal
<1>. QED  BY <1>5, <1>6 DEF InUpperBand

-----------------------------------------------------------------------------
(* Pivoting *)

Swaps == INSTANCE InductionFacts WITH Op <- Exchanged

LEMMA PivotedIsFold ==
  ASSUME NEW piv, NEW v
  PROVE  Pivoted(piv, v) = Swaps!FoldLeft(Exchanged, v, [k \in 1..N |-> <<k - 1, piv[k - 1] - 1>>])
  BY Zenon DEF Pivoted, FoldLeft, MapThenFoldSet, Max, Swaps!FoldLeft,
               Swaps!MapThenFoldSet, Swaps!Max

LEMMA PivotSteps ==
  ASSUME NEW piv \in Pivots
  PROVE  /\ [k \in 1..N |-> <<k - 1, piv[k - 1] - 1>>] \in Seq(Rows \X Rows)
         /\ Len([k \in 1..N |-> <<k - 1, piv[k - 1] - 1>>]) = N
<1>1. ASSUME NEW k \in 1..N PROVE <<k - 1, piv[k - 1] - 1>> \in Rows \X Rows
  <2>1. k - 1 \in Rows
    BY SizesAssumption DEF Rows
  <2>2. piv \in [Rows -> 1..N]
    BY ArgumentsAssumption
  <2>3. piv[k - 1] \in 1..N
    BY <2>1, <2>2
  <2>4. piv[k - 1] - 1 \in Rows
    BY <2>3, SizesAssumption DEF Rows
  <2>. QED  BY <2>1, <2>4
<1>2. N \in Nat
  BY SizesAssumption
<1>. QED  BY <1>1, <1>2

(* Pivoting moves the elements in a way that does not depend on them.      *)
LEMMA PivotedMoves ==
  ASSUME NEW piv \in Pivots
  PROVE  \E perm \in [Rows -> Rows] : \A v \in Column :
           Pivoted(piv, v) \in Column /\ \A i \in Rows : Pivoted(piv, v)[i] = v[perm[i]]
<1>. DEFINE s == [k \in 1..N |-> <<k - 1, piv[k - 1] - 1>>]
            id == [i \in Rows |-> i]
            perm == Swaps!FoldLeft(Exchanged, id, s)
<1>1. s \in Seq(Rows \X Rows) /\ Len(s) = N
  BY PivotSteps
<1>2. \A v : Pivoted(piv, v) = Swaps!FoldLeft(Exchanged, v, s)
  BY PivotedIsFold
<1>. HIDE DEF s
<1>3. \A k \in 1..Len(s) : s[k] \in Rows \X Rows
  BY <1>1
<1>4. id \in [Rows -> Rows]
  OBVIOUS
<1>5. ASSUME NEW v \in Column
      PROVE  /\ perm \in [Rows -> Rows] /\ Pivoted(piv, v) \in Column
             /\ \A i \in Rows : Pivoted(piv, v)[i] = v[perm[i]]
  <2>. DEFINE R == {p \in Column \X [Rows -> Rows] : \A i \in Rows : p[1][i] = v[p[2][i]]}
  <2>1. <<v, id>> \in R
    BY <1>4
  <2>2. ASSUME NEW u, NEW w, NEW k \in 1..Len(s), <<u, w>> \in R
        PROVE  <<Exchanged(u, s[k]), Exchanged(w, s[k])>> \in R
    <3>1. /\ u \in Column /\ w \in [Rows -> Rows] /\ \A i \in Rows : u[i] = v[w[i]]
      BY <2>2
    <3>2. PICK a \in Rows, b \in Rows : a = s[k][1] /\ b = s[k][2]
      BY <1>3
    <3>3. PICK u2, w2 : /\ u2 = [u EXCEPT ![a] = u[b], ![b] = u[a]]
                        /\ w2 = [w EXCEPT ![a] = w[b], ![b] = w[a]]
      OBVIOUS
    <3>4. u2 = Exchanged(u, s[k]) /\ w2 = Exchanged(w, s[k])
      BY <3>2, <3>3 DEF Exchanged
    <3>5. u2 \in Column /\ w2 \in [Rows -> Rows]
      BY <3>1, <3>3 DEF Column
    <3>6. \A i \in Rows : u2[i] = v[w2[i]]
      BY <3>1, <3>3 DEF Column
    <3>. QED  BY <3>4, <3>5, <3>6
  <2>. HIDE DEF R
  <2>3. \A u, w : \A k \in 1..Len(s) :
          <<u, w>> \in R => <<Exchanged(u, s[k]), Exchanged(w, s[k])>> \in R
    BY <2>2
  <2>4. <<Swaps!FoldLeft(Exchanged, v, s), perm>> \in R
    <3>. HIDE DEF id
    <3>. QED  BY <1>1, <2>1, <2>3, Swaps!FoldRelated, Zenon
  <2>5. PICK z : z = perm
    OBVIOUS
  <2>6. <<Pivoted(piv, v), z>> \in R
    BY <1>2, <2>4, <2>5
  <2>7. z \in [Rows -> Rows] /\ Pivoted(piv, v) \in Column /\ \A i \in Rows : Pivoted(piv, v)[i] = v[z[i]]
    BY <2>6 DEF R
  <2>. QED  BY <2>5, <2>7, Zenon
<1>6. perm \in [Rows -> Rows]
  <2>1. PICK v : v \in Column
    <3>1. [i \in Rows |-> 0] \in Column
      BY Zeros DEF Column
    <3>. QED  BY <3>1
  <2>. QED  BY <1>5, <2>1
<1>. HIDE DEF perm
<1>. QED  BY <1>5, <1>6

-----------------------------------------------------------------------------
(* The kernel of one thread *)

Downs == INSTANCE InductionFacts WITH Op <- ForwardRow
Ups == INSTANCE InductionFacts WITH Op <- BackwardRow

LEMMA ForwardIsFold ==
  ASSUME NEW M, NEW lbw, NEW b
  PROVE  Forward(M, lbw, b)
           = Downs!FoldLeft(ForwardRow, b, [k \in 1..N |-> ForwardPass(M, lbw, k - 1)])
  BY Zenon DEF Forward, FoldLeft, MapThenFoldSet, Max, Downs!FoldLeft,
               Downs!MapThenFoldSet, Downs!Max

LEMMA BackwardIsFold ==
  ASSUME NEW M, NEW ubw, NEW b
  PROVE  Backward(M, ubw, b)
           = Ups!FoldLeft(BackwardRow, b, [k \in 1..N |-> BackwardPass(M, ubw, N - k)])
  BY Zenon DEF Backward, FoldLeft, MapThenFoldSet, Max, Ups!FoldLeft,
               Ups!MapThenFoldSet, Ups!Max

LEMMA ReducedDot ==
  ASSUME NEW M \in Square, NEW i \in Rows, NEW v \in Column,
         NEW first \in 0..N, NEW last \in -1..(N - 1)
  PROVE  /\ Reduced(v, Pass(M, i, first, last)) = Minus(v[i], Dot(M, i, v, first..last))
         /\ Reduced(v, Pass(M, i, first, last)) \in Elements
<1>. DEFINE p == Pass(M, i, first, last)
<1>1. p.A = M /\ p.row = i /\ p.first = first /\ p.last = last
  BY DEF Pass
<1>2. Total([k \in 1..(last - first + 1) |-> Times(Entry(M, i, first + k - 1), v[first + k - 1])])
        = Dot(M, i, v, first..last)
  BY DotRange
<1>3. Reduced(v, p) = Minus(v[i], Dot(M, i, v, first..last))
  <2>. HIDE DEF p
  <2>1. Reduced(v, p) = Minus(v[i], Total([k \in 1..(last - first + 1) |->
                                            Times(Entry(M, i, first + k - 1), v[first + k - 1])]))
    BY <1>1, Zenon DEF Reduced, Entry
  <2>. QED  BY <1>2, <2>1
<1>4. v[i] \in Elements
  BY DEF Column
<1>5. \A S : Dot(M, i, v, S) \in Elements
  BY DotIn
<1>6. Dot(M, i, v, first..last) \in Elements
  BY <1>5
<1>. QED  BY <1>3, <1>4, <1>6, Closed

(* Row i has its value in the end when the pass before has reached it.     *)
LEMMA ForwardStep ==
  ASSUME NEW M \in Square, NEW lbw \in 0..(N - 1), InLowerBand(M, lbw),
         NEW i \in Rows, NEW v \in Column, NEW c \in Column, v[i] = c[i],
         NEW w, w = ForwardRow(v, ForwardPass(M, lbw, i))
  PROVE  /\ w \in Column /\ \A k \in Rows \ {i} : w[k] = v[k]
         /\ Plus(w[i], Dot(M, i, w, 0..(i - 1))) = c[i]
<1>0. /\ N \in Nat /\ N > 0 /\ i \in 0..(N - 1) /\ lbw \in Nat
      /\ v[i] \in Elements /\ \A k \in Rows : k \in 0..(N - 1)
  BY SizesAssumption DEF Rows, Column
<1>1. PICK first : first = IF i < lbw THEN 0 ELSE i - lbw
  OBVIOUS
<1>2. first \in 0..N /\ i - 1 \in -1..(N - 1)
  BY <1>0, <1>1
<1>3. ForwardPass(M, lbw, i) = Pass(M, i, first, i - 1)
  BY <1>1 DEF ForwardPass
<1>4. PICK e : e = Minus(v[i], Dot(M, i, v, first..(i - 1)))
  OBVIOUS
<1>5. Reduced(v, ForwardPass(M, lbw, i)) = e /\ e \in Elements
  BY <1>2, <1>3, <1>4, ReducedDot
<1>6. ForwardPass(M, lbw, i).row = i
  BY DEF ForwardPass, Pass
<1>7. w = [v EXCEPT ![i] = e]
  BY <1>5, <1>6 DEF ForwardRow
<1>8. w \in Column /\ w[i] = e /\ \A k \in Rows \ {i} : w[k] = v[k]
  BY <1>5, <1>7 DEF Column
<1>9. PICK S, T : S = first..(i - 1) /\ T = 0..(i - 1)
  OBVIOUS
<1>10. Dot(M, i, v, S) = Dot(M, i, w, T)
  <2>1. ASSUME NEW k \in Rows
        PROVE  \/ k \in S /\ k \in T /\ v[k] = w[k]
               \/ k \notin S /\ k \notin T
               \/ Entry(M, i, k) = 0
    <3>1. CASE k \in S
      BY <1>0, <1>2, <1>8, <1>9, <3>1
    <3>2. CASE k \notin T
      BY <1>0, <1>2, <1>9, <3>2
    <3>3. CASE k \notin S /\ k \in T
      <4>1. i - k > lbw
        BY <1>0, <1>1, <1>9, <3>3
      <4>. QED  BY <4>1 DEF InLowerBand
    <3>. QED  BY <3>1, <3>2, <3>3
  <2>. QED  BY <1>8, <2>1, DotSame
<1>11. Plus(w[i], Dot(M, i, w, T)) = v[i]
  <2>1. Dot(M, i, v, S) \in Elements
    BY DotIn
  <2>2. e = Minus(v[i], Dot(M, i, v, S))
    BY <1>4, <1>9
  <2>. QED  BY <1>0, <1>8, <1>10, <2>1, <2>2, MinusRules
<1>. QED  BY <1>8, <1>9, <1>11

LEMMA ForwardSolves ==
  ASSUME NEW M \in Square, NEW lbw \in 0..(N - 1), InLowerBand(M, lbw), NEW c \in Column
  PROVE  Forward(M, lbw, c) \in Column /\ SolvesLower(M, Forward(M, lbw, c), c)
<1>. DEFINE s == [k \in 1..N |-> ForwardPass(M, lbw, k - 1)]
<1>0. N \in Nat /\ N > 0 /\ \A k \in Rows : k \in 0..(N - 1)
  BY SizesAssumption DEF Rows
<1>1. PICK T : \A k \in 1..N : ForwardPass(M, lbw, k - 1) \in T
  <2>1. \A k \in 1..N : ForwardPass(M, lbw, k - 1) \in {ForwardPass(M, lbw, j - 1) : j \in 1..N}
    OBVIOUS
  <2>. QED  BY <2>1
<1>2. s \in Seq(T) /\ Len(s) = N /\ \A k \in 1..N : s[k] = ForwardPass(M, lbw, k - 1)
  BY <1>0, <1>1
<1>3. Forward(M, lbw, c) = Downs!FoldLeft(ForwardRow, c, s)
  BY ForwardIsFold
<1>. HIDE DEF s
<1>4. PICK h : Downs!Chain(h, c, s) /\ Downs!FoldLeft(ForwardRow, c, s) = h[Len(s)]
  BY <1>2, Downs!FoldIsChain, Zenon
<1>5. h[0] = c /\ \A n \in Rows : h[n + 1] = ForwardRow(h[n], ForwardPass(M, lbw, n))
  <2>1. h[0] = c /\ \A k \in 1..N : h[k] = ForwardRow(h[k - 1], s[k])
    BY <1>2, <1>4 DEF Downs!Chain
  <2>2. ASSUME NEW n \in Rows PROVE h[n + 1] = ForwardRow(h[n], ForwardPass(M, lbw, n))
    <3>1. n + 1 \in 1..N /\ (n + 1) - 1 = n
      BY <1>0
    <3>2. h[n + 1] = ForwardRow(h[n], s[n + 1]) /\ s[n + 1] = ForwardPass(M, lbw, n)
      BY <1>2, <2>1, <3>1
    <3>. QED  BY <3>2
  <2>. QED  BY <2>1, <2>2
<1>. DEFINE S == {n \in 0..N : /\ h[n] \in Column
                               /\ \A k \in Rows : k >= n => h[n][k] = c[k]
                               /\ \A k \in Rows : k < n =>
                                    Plus(h[n][k], Dot(M, k, h[n], 0..(k - 1))) = c[k]}
<1>6. 0 \in S
  BY <1>0, <1>5
<1>7. ASSUME NEW n \in Rows, n \in S PROVE n + 1 \in S
  <2>1. /\ h[n] \in Column /\ \A k \in Rows : k >= n => h[n][k] = c[k]
        /\ \A k \in Rows : k < n => Plus(h[n][k], Dot(M, k, h[n], 0..(k - 1))) = c[k]
    BY <1>7
  <2>2. h[n][n] = c[n]
    BY <1>0, <2>1
  <2>3. PICK v, w : v = h[n] /\ w = h[n + 1]
    OBVIOUS
  <2>4. /\ w \in Column /\ \A k \in Rows \ {n} : w[k] = v[k]
        /\ Plus(w[n], Dot(M, n, w, 0..(n - 1))) = c[n]
    BY <1>5, <2>1, <2>2, <2>3, ForwardStep
  <2>5. ASSUME NEW k \in Rows, k < n PROVE Plus(w[k], Dot(M, k, w, 0..(k - 1))) = c[k]
    <3>1. PICK D : D = 0..(k - 1)
      OBVIOUS
    <3>2. \A j \in Rows : j \in D => w[j] = v[j]
      BY <1>0, <2>4, <2>5, <3>1
    <3>3. Dot(M, k, w, D) = Dot(M, k, v, D)
      BY <2>1, <2>3, <2>4, <3>2, DotAgree
    <3>4. w[k] = v[k]
      BY <1>0, <2>4, <2>5
    <3>5. Plus(v[k], Dot(M, k, v, D)) = c[k]
      BY <2>1, <2>3, <2>5, <3>1
    <3>. QED  BY <3>1, <3>3, <3>4, <3>5
  <2>6. \A k \in Rows : k < n + 1 => k < n \/ k = n
    BY <1>0
  <2>7. \A k \in Rows : k >= n + 1 => k # n /\ k >= n
    BY <1>0
  <2>8. n + 1 \in 0..N
    BY <1>0
  <2>9. \A k \in Rows : k >= n + 1 => w[k] = c[k]
    BY <2>1, <2>3, <2>4, <2>7
  <2>10. \A k \in Rows : k < n + 1 => Plus(w[k], Dot(M, k, w, 0..(k - 1))) = c[k]
    BY <2>4, <2>5, <2>6
  <2>. QED  BY <2>3, <2>4, <2>8, <2>9, <2>10
<1>. HIDE DEF S
<1>8. N \in S
  BY <1>0, <1>6, <1>7, Counting
<1>9. /\ h[N] \in Column
      /\ \A k \in Rows : Plus(h[N][k], Dot(M, k, h[N], 0..(k - 1))) = c[k]
  <2>1. \A k \in Rows : k < N
    BY <1>0
  <2>. QED  BY <1>8, <2>1 DEF S
<1>. QED  BY <1>2, <1>3, <1>4, <1>9 DEF SolvesLower

LEMMA BackwardStep ==
  ASSUME NEW M \in Square, Regular(M), NEW ubw \in 0..(N - 1), InUpperBand(M, ubw),
         NEW i \in Rows, NEW v \in Column, NEW c \in Column, v[i] = c[i],
         NEW w, w = BackwardRow(v, BackwardPass(M, ubw, i))
  PROVE  /\ w \in Column /\ \A k \in Rows \ {i} : w[k] = v[k]
         /\ Plus(Times(Entry(M, i, i), w[i]), Dot(M, i, w, (i + 1)..(N - 1))) = c[i]
<1>0. /\ N \in Nat /\ N > 0 /\ i \in 0..(N - 1) /\ ubw \in Nat
      /\ v[i] \in Elements /\ \A k \in Rows : k \in 0..(N - 1)
      /\ Entry(M, i, i) \in Elements /\ Entry(M, i, i) # 0
  BY EntryIn, SizesAssumption DEF Rows, Column, Regular
<1>1. PICK last : last = IF i > N - ubw - 1 THEN N - 1 ELSE i + ubw
  OBVIOUS
<1>2. i + 1 \in 0..N /\ last \in -1..(N - 1)
  BY <1>0, <1>1
<1>3. BackwardPass(M, ubw, i) = Pass(M, i, i + 1, last)
  BY <1>1 DEF BackwardPass
<1>4. PICK d, e : d = Minus(v[i], Dot(M, i, v, (i + 1)..last)) /\ e = Over(d, Entry(M, i, i))
  OBVIOUS
<1>5. Reduced(v, BackwardPass(M, ubw, i)) = d /\ d \in Elements
  BY <1>2, <1>3, <1>4, ReducedDot
<1>6. e \in Elements /\ Times(Entry(M, i, i), e) = d
  <2>1. e \in Elements /\ Times(e, Entry(M, i, i)) = d
    BY <1>0, <1>4, <1>5, OverRules
  <2>. QED  BY <1>0, <2>1, TimesCommutes
<1>7. w = [v EXCEPT ![i] = e]
  <2>1. PICK p : p = BackwardPass(M, ubw, i)
    OBVIOUS
  <2>2. p.row = i /\ p.A = M
    BY <2>1 DEF BackwardPass, Pass
  <2>3. p.A[p.row, p.row] = Entry(M, i, i)
    BY <2>2 DEF Entry
  <2>. QED  BY <1>4, <1>5, <2>1, <2>2, <2>3 DEF BackwardRow
<1>8. w \in Column /\ w[i] = e /\ \A k \in Rows \ {i} : w[k] = v[k]
  BY <1>6, <1>7 DEF Column
<1>9. PICK S, T : S = (i + 1)..last /\ T = (i + 1)..(N - 1)
  OBVIOUS
<1>10. Dot(M, i, v, S) = Dot(M, i, w, T)
  <2>1. ASSUME NEW k \in Rows
        PROVE  \/ k \in S /\ k \in T /\ v[k] = w[k]
               \/ k \notin S /\ k \notin T
               \/ Entry(M, i, k) = 0
    <3>1. CASE k \in S
      BY <1>0, <1>2, <1>8, <1>9, <3>1
    <3>2. CASE k \notin T
      BY <1>0, <1>2, <1>9, <3>2
    <3>3. CASE k \notin S /\ k \in T
      <4>1. k - i > ubw
        BY <1>0, <1>1, <1>9, <3>3
      <4>. QED  BY <4>1 DEF InUpperBand
    <3>. QED  BY <3>1, <3>2, <3>3
  <2>. QED  BY <1>8, <2>1, DotSame
<1>11. Plus(d, Dot(M, i, w, T)) = v[i]
  <2>1. Dot(M, i, v, S) \in Elements
    BY DotIn
  <2>2. d = Minus(v[i], Dot(M, i, v, S))
    BY <1>4, <1>9
  <2>. QED  BY <1>0, <1>10, <2>1, <2>2, MinusRules
<1>. QED  BY <1>6, <1>8, <1>9, <1>11

LEMMA BackwardSolves ==
  ASSUME NEW M \in Square, Regular(M), NEW ubw \in 0..(N - 1), InUpperBand(M, ubw), NEW c \in Column
  PROVE  Backward(M, ubw, c) \in Column /\ SolvesUpper(M, Backward(M, ubw, c), c)
<1>. DEFINE s == [k \in 1..N |-> BackwardPass(M, ubw, N - k)]
<1>0. N \in Nat /\ N > 0 /\ \A k \in Rows : k \in 0..(N - 1)
  BY SizesAssumption DEF Rows
<1>1. PICK T : \A k \in 1..N : BackwardPass(M, ubw, N - k) \in T
  <2>1. \A k \in 1..N : BackwardPass(M, ubw, N - k) \in {BackwardPass(M, ubw, N - j) : j \in 1..N}
    OBVIOUS
  <2>. QED  BY <2>1
<1>2. s \in Seq(T) /\ Len(s) = N /\ \A k \in 1..N : s[k] = BackwardPass(M, ubw, N - k)
  BY <1>0, <1>1
<1>3. Backward(M, ubw, c) = Ups!FoldLeft(BackwardRow, c, s)
  BY BackwardIsFold
<1>. HIDE DEF s
<1>4. PICK h : Ups!Chain(h, c, s) /\ Ups!FoldLeft(BackwardRow, c, s) = h[Len(s)]
  BY <1>2, Ups!FoldIsChain, Zenon
<1>5. h[0] = c /\ \A n \in Rows : h[n + 1] = BackwardRow(h[n], BackwardPass(M, ubw, N - 1 - n))
  <2>1. h[0] = c /\ \A k \in 1..N : h[k] = BackwardRow(h[k - 1], s[k])
    BY <1>2, <1>4 DEF Ups!Chain
  <2>2. ASSUME NEW n \in Rows PROVE h[n + 1] = BackwardRow(h[n], BackwardPass(M, ubw, N - 1 - n))
    <3>1. n + 1 \in 1..N /\ (n + 1) - 1 = n /\ N - (n + 1) = N - 1 - n
      BY <1>0
    <3>2. h[n + 1] = BackwardRow(h[n], s[n + 1]) /\ s[n + 1] = BackwardPass(M, ubw, N - 1 - n)
      BY <1>2, <2>1, <3>1
    <3>. QED  BY <3>2
  <2>. QED  BY <2>1, <2>2
<1>. DEFINE S == {n \in 0..N :
                    /\ h[n] \in Column
                    /\ \A k \in Rows : k < N - n => h[n][k] = c[k]
                    /\ \A k \in Rows : k >= N - n =>
                         Plus(Times(Entry(M, k, k), h[n][k]), Dot(M, k, h[n], (k + 1)..(N - 1))) = c[k]}
<1>6. 0 \in S
  BY <1>0, <1>5
<1>7. ASSUME NEW n \in Rows, n \in S PROVE n + 1 \in S
  <2>1. /\ h[n] \in Column /\ \A k \in Rows : k < N - n => h[n][k] = c[k]
        /\ \A k \in Rows : k >= N - n =>
             Plus(Times(Entry(M, k, k), h[n][k]), Dot(M, k, h[n], (k + 1)..(N - 1))) = c[k]
    BY <1>7
  <2>2. PICK i \in Rows : i = N - 1 - n
    BY <1>0 DEF Rows
  <2>3. h[n][i] = c[i]
    BY <1>0, <2>1, <2>2
  <2>4. PICK v, w : v = h[n] /\ w = h[n + 1]
    OBVIOUS
  <2>5. /\ w \in Column /\ \A k \in Rows \ {i} : w[k] = v[k]
        /\ Plus(Times(Entry(M, i, i), w[i]), Dot(M, i, w, (i + 1)..(N - 1))) = c[i]
    BY <1>5, <2>1, <2>2, <2>3, <2>4, BackwardStep
  <2>6. ASSUME NEW k \in Rows, k > i
        PROVE  Plus(Times(Entry(M, k, k), w[k]), Dot(M, k, w, (k + 1)..(N - 1))) = c[k]
    <3>1. PICK D : D = (k + 1)..(N - 1)
      OBVIOUS
    <3>2. \A j \in Rows : j \in D => w[j] = v[j]
      BY <1>0, <2>5, <2>6, <3>1
    <3>3. Dot(M, k, w, D) = Dot(M, k, v, D)
      BY <2>1, <2>4, <2>5, <3>2, DotAgree
    <3>4. w[k] = v[k] /\ k >= N - n
      BY <1>0, <2>2, <2>5, <2>6
    <3>5. Plus(Times(Entry(M, k, k), v[k]), Dot(M, k, v, D)) = c[k]
      BY <2>1, <2>4, <3>1, <3>4
    <3>. QED  BY <3>1, <3>3, <3>4, <3>5
  <2>7. \A k \in Rows : k >= N - (n + 1) => k > i \/ k = i
    BY <1>0, <2>2
  <2>8. \A k \in Rows : k < N - (n + 1) => k # i /\ k < N - n
    BY <1>0, <2>2
  <2>9. n + 1 \in 0..N
    BY <1>0
  <2>10. \A k \in Rows : k < N - (n + 1) => w[k] = c[k]
    BY <2>1, <2>4, <2>5, <2>8
  <2>11. \A k \in Rows : k >= N - (n + 1) =>
           Plus(Times(Entry(M, k, k), w[k]), Dot(M, k, w, (k + 1)..(N - 1))) = c[k]
    BY <2>5, <2>6, <2>7
  <2>. QED  BY <2>4, <2>5, <2>9, <2>10, <2>11
<1>. HIDE DEF S
<1>8. N \in S
  BY <1>0, <1>6, <1>7, Counting
<1>9. /\ h[N] \in Column
      /\ \A k \in Rows : Plus(Times(Entry(M, k, k), h[N][k]), Dot(M, k, h[N], (k + 1)..(N - 1))) = c[k]
  <2>1. \A k \in Rows : k >= N - N
    BY <1>0
  <2>. QED  BY <1>8, <2>1 DEF S
<1>. QED  BY <1>2, <1>3, <1>4, <1>9 DEF SolvesUpper

-----------------------------------------------------------------------------
(* The product with the inverse *)

(* The columns of X, each times an element of b, added up. *)
Comb(X, b) == [i \in Rows |-> Sigma([k \in Rows |-> Times(b[k], X[k][i])])]

LEMMA CombIn ==
  ASSUME NEW X \in [Rows -> Column], NEW b \in Column
  PROVE  /\ Comb(X, b) \in Column
         /\ \A i \in Rows : /\ [k \in Rows |-> Times(b[k], X[k][i])] \in Column
                            /\ Comb(X, b)[i] = Sigma([k \in Rows |-> Times(b[k], X[k][i])])
<1>1. ASSUME NEW i \in Rows PROVE [k \in Rows |-> Times(b[k], X[k][i])] \in Column
  <2>1. \A k \in Rows : b[k] \in Elements /\ X[k][i] \in Elements
    BY DEF Column
  <2>. QED  BY <2>1, Closed DEF Column
<1>2. \A i \in Rows : Sigma([k \in Rows |-> Times(b[k], X[k][i])]) \in Elements
  BY <1>1, SigmaIn
<1>. QED  BY <1>1, <1>2 DEF Comb, Column

(* A matrix times a sum of columns is the sum of the matrix times each.    *)
LEMMA AppliedComb ==
  ASSUME NEW M \in Square, NEW X \in [Rows -> Column], NEW b \in Column
  PROVE  Applied(M, Comb(X, b)) = Comb([k \in Rows |-> Applied(M, X[k])], b)
<1>. DEFINE z == Comb(X, b)
            W == [k \in Rows |-> Applied(M, X[k])]
<1>1. z \in Column /\ \A j \in Rows : /\ [k \in Rows |-> Times(b[k], X[k][j])] \in Column
                                      /\ z[j] = Sigma([k \in Rows |-> Times(b[k], X[k][j])])
  BY CombIn
<1>2. W \in [Rows -> Column] /\ \A k \in Rows : W[k] = Applied(M, X[k])
  BY AppliedDot
<1>. HIDE DEF z, W
<1>3. Comb(W, b) \in Column /\ \A i \in Rows : Comb(W, b)[i] = Sigma([k \in Rows |-> Times(b[k], W[k][i])])
  BY <1>2, CombIn
<1>4. Applied(M, z) \in Column /\ \A i \in Rows : Applied(M, z)[i] = Dot(M, i, z, Rows)
  BY <1>1, AppliedDot
<1>5. ASSUME NEW i \in Rows PROVE Applied(M, z)[i] = Comb(W, b)[i]
  <2>. DEFINE row == [j \in Rows |-> [k \in Rows |-> Times(Entry(M, i, j), Times(b[k], X[k][j]))]]
              col == [k \in Rows |-> [j \in Rows |-> Times(Entry(M, i, j), Times(b[k], X[k][j]))]]
  <2>1. \A j \in Rows : \A k \in Rows :
          /\ Entry(M, i, j) \in Elements /\ b[k] \in Elements /\ X[k][j] \in Elements
          /\ Times(b[k], X[k][j]) \in Elements
          /\ Times(Entry(M, i, j), X[k][j]) \in Elements
          /\ Times(Entry(M, i, j), Times(b[k], X[k][j])) \in Elements
    <3>1. \A j \in Rows : \A k \in Rows :
            Entry(M, i, j) \in Elements /\ b[k] \in Elements /\ X[k][j] \in Elements
      BY EntryIn DEF Column
    <3>. QED  BY <3>1, Closed
  <2>2. row \in [Rows -> Column] /\ col \in [Rows -> Column]
    BY <2>1 DEF Column
  <2>3. \A j \in Rows : \A k \in Rows : row[j][k] = col[k][j]
    OBVIOUS
  <2>4. Dot(M, i, z, Rows) = Sigma([j \in Rows |-> Sigma(row[j])])
    <3>1. ASSUME NEW j \in Rows PROVE Times(Entry(M, i, j), z[j]) = Sigma(row[j])
      <4>. DEFINE f == [k \in Rows |-> Times(b[k], X[k][j])]
      <4>1. f \in Column /\ z[j] = Sigma(f)
        BY <1>1
      <4>2. row[j] = [k \in Rows |-> Times(Entry(M, i, j), f[k])]
        OBVIOUS
      <4>3. Entry(M, i, j) \in Elements
        BY <2>1
      <4>. HIDE DEF f, row
      <4>4. Sigma([k \in Rows |-> Times(Entry(M, i, j), f[k])]) = Times(Entry(M, i, j), Sigma(f))
        BY <4>1, <4>3, SigmaScale
      <4>. QED  BY <4>1, <4>2, <4>4
    <3>2. [j \in Rows |-> IF j \in Rows THEN Times(Entry(M, i, j), z[j]) ELSE 0]
            = [j \in Rows |-> Sigma(row[j])]
      <4>. HIDE DEF row
      <4>. QED  BY <3>1
    <3>. QED  BY <3>2 DEF Dot
  <2>5. ASSUME NEW k \in Rows PROVE Sigma(col[k]) = Times(b[k], W[k][i])
    <3>. DEFINE f == [j \in Rows |-> Times(Entry(M, i, j), X[k][j])]
    <3>1. f \in Column /\ b[k] \in Elements
      BY <2>1 DEF Column
    <3>2. col[k] = [j \in Rows |-> Times(b[k], f[j])]
      <4>1. ASSUME NEW j \in Rows
            PROVE  Times(Entry(M, i, j), Times(b[k], X[k][j])) = Times(b[k], Times(Entry(M, i, j), X[k][j]))
        <5>1. /\ Entry(M, i, j) \in Elements /\ b[k] \in Elements /\ X[k][j] \in Elements
              /\ Times(Entry(M, i, j), b[k]) = Times(b[k], Entry(M, i, j))
          BY <2>1, TimesCommutes
        <5>. QED  BY <5>1, TimesAssociates
      <4>. QED  BY <4>1
    <3>3. Sigma(f) = W[k][i]
      <4>1. X[k] \in Column
        OBVIOUS
      <4>2. W[k][i] = Dot(M, i, X[k], Rows)
        BY <1>2, <4>1, AppliedDot
      <4>3. f = [j \in Rows |-> IF j \in Rows THEN Times(Entry(M, i, j), X[k][j]) ELSE 0]
        OBVIOUS
      <4>. QED  BY <4>2, <4>3 DEF Dot
    <3>. HIDE DEF f, col
    <3>. QED  BY <3>1, <3>2, <3>3, SigmaScale
  <2>6. [k \in Rows |-> Times(b[k], W[k][i])] = [k \in Rows |-> Sigma(col[k])]
    <3>. HIDE DEF col
    <3>. QED  BY <2>5
  <2>. HIDE DEF row, col
  <2>7. Sigma([j \in Rows |-> Sigma(row[j])]) = Sigma([k \in Rows |-> Sigma(col[k])])
    BY <2>2, <2>3, SigmaExchange
  <2>. QED  BY <1>3, <1>4, <2>4, <2>6, <2>7
<1>6. Applied(M, z) = Comb(W, b)
  BY <1>3, <1>4, <1>5 DEF Column
<1>. QED  BY <1>6 DEF z, W

(* The arguments of a kernel: a regular matrix with its pivots, and bands  *)
(* outside which it is 0.                                                  *)
Factored(p) ==
  /\ p.A \in Square /\ Regular(p.A) /\ p.piv \in Pivots
  /\ p.lbw \in 0..(N - 1) /\ InLowerBand(p.A, p.lbw)
  /\ p.ubw \in 0..(N - 1) /\ InUpperBand(p.A, p.ubw)

LEMMA OneThreadSolves ==
  ASSUME NEW p, Factored(p), NEW b \in Column
  PROVE  /\ GetrsBanded(p, b) \in Column
         /\ Applied(L(p.A), Applied(U(p.A), GetrsBanded(p, b))) = Pivoted(p.piv, b)
<1>1. PICK M, c, y, x : /\ M = p.A /\ c = Pivoted(p.piv, b) /\ y = Forward(p.A, p.lbw, c)
                        /\ x = Backward(p.A, p.ubw, y)
  OBVIOUS
<1>2. c \in Column
  BY <1>1, PivotedMoves DEF Factored
<1>3. y \in Column /\ SolvesLower(M, y, c)
  BY <1>1, <1>2, ForwardSolves DEF Factored
<1>4. x \in Column /\ SolvesUpper(M, x, y)
  BY <1>1, <1>3, BackwardSolves DEF Factored
<1>5. Applied(L(M), Applied(U(M), x)) = c
  BY <1>1, <1>2, <1>3, <1>4, Substituting DEF Factored
<1>6. x = GetrsBanded(p, b)
  BY <1>1 DEF GetrsBanded
<1>. QED  BY <1>1, <1>4, <1>5, <1>6

LEMMA InverseSolves ==
  ASSUME NEW p, Factored(p), NEW b \in Column
  PROVE  /\ SolveInverted(p, b) \in Column
         /\ Applied(L(p.A), Applied(U(p.A), SolveInverted(p, b))) = Pivoted(p.piv, b)
<1>. DEFINE unit(k) == [i \in Rows |-> IF i = k THEN 1 ELSE 0]
            X == [k \in Rows |-> InvertBanded(p, k)]
            V == [k \in Rows |-> Applied(U(p.A), X[k])]
            P == [k \in Rows |-> Applied(L(p.A), V[k])]
<1>1. ASSUME NEW k \in Rows
      PROVE  /\ unit(k) \in Column /\ X[k] \in Column /\ X[k] = InvertBanded(p, k)
             /\ Applied(L(p.A), Applied(U(p.A), X[k])) = Pivoted(p.piv, unit(k))
  <2>1. unit(k) \in Column
    BY Zeros DEF Column
  <2>2. X[k] = GetrsBanded(p, unit(k))
    BY DEF InvertBanded
  <2>. HIDE DEF unit, X
  <2>3. /\ X[k] \in Column
        /\ Applied(L(p.A), Applied(U(p.A), X[k])) = Pivoted(p.piv, unit(k))
    BY <2>1, <2>2, OneThreadSolves
  <2>. QED  BY <2>1, <2>3 DEF X
<1>2. X \in [Rows -> Column]
  BY <1>1
<1>3. p.A \in Square /\ L(p.A) \in Square /\ U(p.A) \in Square
  BY Factors DEF Factored
<1>. HIDE DEF X
<1>4. SolveInverted(p, b) = Comb(X, b) /\ SolveInverted(p, b) \in Column
  <2>1. ASSUME NEW i \in Rows
        PROVE  Total([k \in 1..N |-> Times(InvertBanded(p, k - 1)[i], b[k - 1])])
                 = Sigma([k \in Rows |-> Times(b[k], X[k][i])])
    <3>. DEFINE f == [k \in Rows |-> Times(b[k], X[k][i])]
    <3>1. ASSUME NEW k \in 1..N PROVE Times(InvertBanded(p, k - 1)[i], b[k - 1]) = f[k - 1]
      <4>1. PICK j \in Rows : j = k - 1
        BY SizesAssumption DEF Rows
      <4>2. X[j][i] \in Elements /\ b[j] \in Elements /\ InvertBanded(p, j) = X[j]
        BY <1>1 DEF Column
      <4>3. Times(InvertBanded(p, j)[i], b[j]) = Times(b[j], X[j][i])
        BY <4>2, TimesCommutes
      <4>. QED  BY <4>1, <4>3
    <3>2. [k \in 1..N |-> Times(InvertBanded(p, k - 1)[i], b[k - 1])] = [k \in 1..N |-> f[k - 1]]
      <4>. HIDE DEF f
      <4>. QED  BY <3>1
    <3>. QED  BY <3>2 DEF Sigma, Part
  <2>2. SolveInverted(p, b) = Comb(X, b)
    BY <2>1 DEF SolveInverted, Comb
  <2>. QED  BY <1>2, <2>2, CombIn
<1>5. V \in [Rows -> Column] /\ \A k \in Rows : V[k] = Applied(U(p.A), X[k])
  BY <1>2, <1>3, AppliedDot
<1>6. Applied(U(p.A), Comb(X, b)) = Comb(V, b)
  BY <1>2, <1>3, AppliedComb
<1>. HIDE DEF V
<1>7. Applied(L(p.A), Comb(V, b)) = Comb(P, b)
  BY <1>3, <1>5, AppliedComb
<1>8. PICK perm \in [Rows -> Rows] : \A v \in Column :
        Pivoted(p.piv, v) \in Column /\ \A i \in Rows : Pivoted(p.piv, v)[i] = v[perm[i]]
  BY PivotedMoves DEF Factored
<1>9. ASSUME NEW i \in Rows
      PROVE  Sigma([k \in Rows |-> Times(b[k], P[k][i])]) = Pivoted(p.piv, b)[i]
  <2>1. PICK j \in Rows : j = perm[i]
    OBVIOUS
  <2>2. ASSUME NEW k \in Rows PROVE Times(b[k], P[k][i]) = IF k = j THEN b[j] ELSE 0
    <3>1. P[k] = Pivoted(p.piv, unit(k))
      BY <1>1, <1>5
    <3>2. P[k][i] = unit(k)[j]
      <4>. HIDE DEF unit, P
      <4>. QED  BY <1>1, <1>8, <2>1, <3>1
    <3>3. unit(k)[j] = IF k = j THEN 1 ELSE 0
      OBVIOUS
    <3>4. b[k] \in Elements
      BY DEF Column
    <3>. HIDE DEF P, unit
    <3>. QED  BY <3>2, <3>3, <3>4, Zeros
  <2>. HIDE DEF P
  <2>3. [k \in Rows |-> Times(b[k], P[k][i])] = [k \in Rows |-> IF k = j THEN b[j] ELSE 0]
    BY <2>2
  <2>4. b[j] \in Elements
    BY DEF Column
  <2>5. Sigma([k \in Rows |-> IF k = j THEN b[j] ELSE 0]) = b[j]
    BY <2>4, SigmaUnit
  <2>. QED  BY <1>8, <2>1, <2>3, <2>5
<1>10. Comb(P, b) = Pivoted(p.piv, b)
  <2>1. Pivoted(p.piv, b) = [i \in Rows |-> Pivoted(p.piv, b)[i]]
    BY <1>8 DEF Column
  <2>. HIDE DEF P
  <2>. QED  BY <1>9, <2>1 DEF Comb
<1>. QED  BY <1>4, <1>6, <1>7, <1>10

(* All three agree with any solution. *)
LEMMA TheSolution ==
  ASSUME NEW p, Factored(p), NEW b \in Column, NEW x \in Column,
         Applied(L(p.A), Applied(U(p.A), x)) = Pivoted(p.piv, b)
  PROVE  x = GetrsBanded(p, b) /\ x = SolveInverted(p, b)
<1>1. p.A \in Square /\ Regular(p.A)
  BY DEF Factored
<1>. QED  BY <1>1, OneThreadSolves, InverseSolves, SolutionUnique

-----------------------------------------------------------------------------
(* The threads and their barriers                                          *)

Loads(p) == IF p.local THEN 1 ELSE 0

(* Row b is one of those thread o gets when the rows from first on are     *)
(* dealt out.                                                              *)
Dealt(o, b, first) == \E k \in Nat : b = first + o + k * BlockSize

(* Thread o in state t: the barriers behind it, and its rows.              *)
ThreadOK(o, t, p) ==
  /\ t = [pc |-> t.pc, i |-> t.i, b |-> t.b, x |-> t.x, barriers |-> t.barriers]
  /\ t.i \in Rows /\ t.b \in Int /\ t.barriers \in Nat
  /\ t.pc \in {"load", "pivot", "forward", "eliminate", "backward", "substitute",
               "result", "store", "done"}
  /\ t.pc = "load" => p.local /\ t.i = 0 /\ t.barriers = 0 /\ Dealt(o, t.b, 0)
  /\ t.pc = "pivot" => t.i = 0 /\ t.barriers = Loads(p)
  /\ t.pc = "forward" => t.barriers = Loads(p) + 1 + t.i
  /\ t.pc = "eliminate" => t.barriers = Loads(p) + 1 + t.i /\ Dealt(o, t.b, t.i + 1)
  /\ t.pc = "backward" => t.barriers = Loads(p) + 2 * N - t.i
  /\ t.pc = "substitute" => t.barriers = Loads(p) + 2 * N - t.i /\ Dealt(o, t.b, t.i - p.ubw)
  /\ t.pc = "result" => t.barriers = Loads(p) + 2 * N + 1 - t.i
  /\ t.pc = "store" => p.local /\ t.barriers = Loads(p) + 2 * N + 2 /\ Dealt(o, t.b, 0)
  /\ t.pc = "done" => t.barriers = Loads(p) + 2 * N + (IF p.local THEN 3 ELSE 1)

ProblemOK(p) == p.local \in BOOLEAN /\ p.lbw \in Int /\ p.ubw \in Int

IInv ==
  /\ ProblemOK(problem)
  /\ thread = [o \in Thread |-> thread[o]]
  /\ \A o \in Thread : ThreadOK(o, thread[o], problem)

USE SizesAssumption DEF SizesAssumption

-----------------------------------------------------------------------------
(* Rows dealt out *)

LEMMA Multiple ==
  ASSUME NEW k \in Nat
  PROVE  k * BlockSize \in Nat /\ (k > 0 => k * BlockSize >= BlockSize)
  OBVIOUS

LEMMA DealtFirst ==
  ASSUME NEW o \in Thread, NEW first \in Int
  PROVE  Dealt(o, first + o, first)
<1>1. first + o = first + o + 0 * BlockSize
  BY DEF Thread
<1>. QED  BY <1>1 DEF Dealt

LEMMA DealtNext ==
  ASSUME NEW o \in Thread, NEW first \in Int, NEW b \in Int, Dealt(o, b, first)
  PROVE  Dealt(o, b + BlockSize, first)
<1>1. PICK k \in Nat : b = first + o + k * BlockSize
  BY DEF Dealt
<1>2. PICK m \in Nat : m = k + 1
  OBVIOUS
<1>3. m * BlockSize = k * BlockSize + BlockSize
  BY <1>2
<1>4. b + BlockSize = first + o + m * BlockSize
  BY <1>1, <1>3, Multiple DEF Thread
<1>. QED  BY <1>4 DEF Dealt

LEMMA DealtFrom ==
  ASSUME NEW o \in Thread, NEW first \in Int, NEW b \in Int, Dealt(o, b, first)
  PROVE  b >= first
<1>1. PICK k \in Nat : b = first + o + k * BlockSize
  BY DEF Dealt
<1>. QED  BY <1>1, Multiple DEF Thread

(* No row is dealt to two threads.                                         *)
LEMMA DealtOnce ==
  ASSUME NEW o \in Thread, NEW t \in Thread, o # t, NEW first \in Int,
         NEW b \in Int, Dealt(o, b, first), NEW c \in Int, Dealt(t, c, first)
  PROVE  b # c
<1>1. PICK k \in Nat : b = first + o + k * BlockSize
  BY DEF Dealt
<1>2. PICK m \in Nat : c = first + t + m * BlockSize
  BY DEF Dealt
<1>3. CASE k = m
  BY <1>1, <1>2, <1>3, Multiple DEF Thread
<1>4. CASE k < m
  <2>1. PICK d \in Nat : d > 0 /\ m = k + d
    <3>1. m - k \in Nat /\ m - k > 0 /\ m = k + (m - k)
      BY <1>4
    <3>. QED  BY <3>1
  <2>2. m * BlockSize = k * BlockSize + d * BlockSize
    BY <2>1
  <2>. QED  BY <1>1, <1>2, <2>1, <2>2, Multiple DEF Thread
<1>5. CASE m < k
  <2>1. PICK d \in Nat : d > 0 /\ k = m + d
    <3>1. k - m \in Nat /\ k - m > 0 /\ k = m + (k - m)
      BY <1>5
    <3>. QED  BY <3>1
  <2>2. k * BlockSize = m * BlockSize + d * BlockSize
    BY <2>1
  <2>. QED  BY <1>1, <1>2, <2>1, <2>2, Multiple DEF Thread
<1>. QED  BY <1>3, <1>4, <1>5

-----------------------------------------------------------------------------
(* Steps of a thread *)

(* A step changes the state of one thread only.                            *)
LEMMA GoStep ==
  ASSUME IInv, NEW o \in Thread, NEW t, Go(o, t), problem' = problem, ThreadOK(o, t, problem)
  PROVE  IInv'
<1>1. /\ thread' = [u \in Thread |-> thread'[u]]
      /\ thread'[o] = t
      /\ \A u \in Thread \ {o} : thread'[u] = thread[u]
  BY DEF Go, IInv
<1>. QED  BY <1>1 DEF IInv

LEMMA InitIInv == Init => IInv
<1> SUFFICES ASSUME Init PROVE IInv
  OBVIOUS
<1>1. PICK M \in Matrices, piv \in Pivots, v \in Rhs, local \in BOOLEAN :
      \E lbw \in LowerBandwidth(M)..(N - 1), ubw \in UpperBandwidth(M)..(N - 1) :
        /\ problem = [A |-> M, piv |-> piv, b |-> v, lbw |-> lbw, ubw |-> ubw, local |-> local]
        /\ thread = [o \in Thread |-> [pc |-> IF local THEN "load" ELSE "pivot",
                                       i |-> 0, b |-> o, x |-> 0, barriers |-> 0]]
  BY DEF Init
<1>2. ProblemOK(problem) /\ problem.local = local
  BY <1>1 DEF ProblemOK
<1>3. ASSUME NEW o \in Thread PROVE ThreadOK(o, thread[o], problem)
  <2>1. thread[o] = [pc |-> IF local THEN "load" ELSE "pivot",
                     i |-> 0, b |-> o, x |-> 0, barriers |-> 0]
    BY <1>1
  <2>2. Dealt(o, 0 + o, 0) /\ 0 + o = o /\ o \in Int
    BY DealtFirst DEF Thread
  <2>. QED  BY <1>2, <2>1, <2>2 DEF ThreadOK, Rows, Loads
<1>. QED  BY <1>1, <1>2, <1>3 DEF IInv

LEMMA ForwardSteps ==
  ASSUME IInv, NEW o \in Thread,
         Load(o) \/ Pivot(o) \/ ReadForward(o) \/ Eliminate(o) \/ NextColumn(o)
  PROVE  IInv'
<1> DEFINE t == thread[o]
<1>0. /\ ThreadOK(o, t, problem) /\ ProblemOK(problem)
      /\ t = [pc |-> t.pc, i |-> t.i, b |-> t.b, x |-> t.x, barriers |-> t.barriers]
  BY DEF IInv, ThreadOK
<1> HIDE DEF t
<1>1. CASE Load(o)
  <2>1. t.pc = "load" /\ problem' = problem
    BY <1>1 DEF Load, At, t
  <2>2. CASE t.b < N
    <3>1. Go(o, [t EXCEPT !.b = @ + BlockSize])
      BY <1>1, <2>2 DEF Load, t
    <3>2. ThreadOK(o, [t EXCEPT !.b = @ + BlockSize], problem)
      BY <1>0, <2>1, DealtNext DEF ThreadOK
    <3>. QED  BY <2>1, <3>1, <3>2, GoStep
  <2>3. CASE ~ (t.b < N)
    <3>1. PICK u : Go(o, u) /\ u = [t EXCEPT !.pc = "pivot", !.barriers = @ + 1]
      BY <1>1, <2>3 DEF Load, Arrived, t
    <3>2. u = [pc |-> "pivot", i |-> t.i, b |-> t.b, x |-> t.x, barriers |-> t.barriers + 1]
      BY <1>0, <3>1
    <3>3. ThreadOK(o, u, problem)
      BY <1>0, <2>1, <3>2 DEF ThreadOK, Loads
    <3>. QED  BY <2>1, <3>1, <3>3, GoStep
  <2>. QED  BY <2>2, <2>3
<1>2. CASE Pivot(o)
  <2>1. PICK u : /\ t.pc = "pivot" /\ problem' = problem
                 /\ Go(o, u) /\ u = [t EXCEPT !.pc = "forward", !.barriers = @ + 1]
    BY <1>2 DEF Pivot, At, Arrived, t
  <2>2. u = [pc |-> "forward", i |-> t.i, b |-> t.b, x |-> t.x, barriers |-> t.barriers + 1]
    BY <1>0, <2>1
  <2>3. ThreadOK(o, u, problem)
    <3>1. t.i = 0 /\ t.barriers = Loads(problem) /\ Loads(problem) \in 0..1
      BY <1>0, <2>1 DEF ThreadOK, Loads
    <3>2. u.barriers = Loads(problem) + 1 + u.i /\ u.i = 0 /\ u.pc = "forward"
      BY <2>2, <3>1
    <3>. QED  BY <1>0, <2>2, <3>1, <3>2 DEF ThreadOK
  <2>. QED  BY <2>1, <2>3, GoStep
<1>3. CASE ReadForward(o)
  <2>1. PICK y, u : /\ t.pc = "forward" /\ problem' = problem /\ Go(o, u)
                    /\ u = [t EXCEPT !.pc = "eliminate", !.x = y, !.b = t.i + o + 1]
    BY <1>3 DEF ReadForward, At, t
  <2>2. u = [pc |-> "eliminate", i |-> t.i, b |-> t.i + o + 1, x |-> y, barriers |-> t.barriers]
    BY <1>0, <2>1
  <2>3. Dealt(o, t.i + 1 + o, t.i + 1) /\ t.i + o + 1 = t.i + 1 + o /\ t.i + o + 1 \in Int
    BY <1>0, DealtFirst DEF ThreadOK, Rows, Thread
  <2>4. ThreadOK(o, u, problem)
    BY <1>0, <2>1, <2>2, <2>3 DEF ThreadOK
  <2>. QED  BY <2>1, <2>4, GoStep
<1>4. CASE Eliminate(o)
  <2>1. /\ t.pc = "eliminate" /\ problem' = problem
        /\ Go(o, [t EXCEPT !.b = @ + BlockSize])
    BY <1>4 DEF Eliminate, At, t
  <2>2. Dealt(o, t.b + BlockSize, t.i + 1)
    BY <1>0, <2>1, DealtNext DEF ThreadOK, Rows
  <2>3. ThreadOK(o, [t EXCEPT !.b = @ + BlockSize], problem)
    BY <1>0, <2>1, <2>2 DEF ThreadOK
  <2>. QED  BY <2>1, <2>3, GoStep
<1>5. CASE NextColumn(o)
  <2>1. t.pc = "eliminate" /\ problem' = problem
    BY <1>5 DEF NextColumn, At, t
  <2>2. CASE t.i < N - 1
    <3>1. PICK a, u : /\ Go(o, u) /\ u = [a EXCEPT !.i = @ + 1]
                      /\ a = [t EXCEPT !.pc = "forward", !.barriers = @ + 1]
      BY <1>5, <2>2 DEF NextColumn, Arrived, t
    <3>2. a = [pc |-> "forward", i |-> t.i, b |-> t.b, x |-> t.x, barriers |-> t.barriers + 1]
      BY <1>0, <3>1
    <3>3. u = [pc |-> "forward", i |-> t.i + 1, b |-> t.b, x |-> t.x,
               barriers |-> t.barriers + 1]
      BY <3>1, <3>2
    <3>4. ThreadOK(o, u, problem)
      BY <1>0, <2>1, <2>2, <3>3 DEF ThreadOK, Rows, Loads
    <3>. QED  BY <2>1, <3>1, <3>4, GoStep
  <2>3. CASE ~ (t.i < N - 1)
    <3>1. PICK u : Go(o, u) /\ u = [t EXCEPT !.pc = "backward", !.barriers = @ + 1]
      BY <1>5, <2>3 DEF NextColumn, Arrived, t
    <3>2. u = [pc |-> "backward", i |-> t.i, b |-> t.b, x |-> t.x, barriers |-> t.barriers + 1]
      BY <1>0, <3>1
    <3>3. ThreadOK(o, u, problem)
      BY <1>0, <2>1, <2>3, <3>2 DEF ThreadOK, Rows, Loads
    <3>. QED  BY <2>1, <3>1, <3>3, GoStep
  <2>. QED  BY <2>2, <2>3
<1>. QED  BY <1>1, <1>2, <1>3, <1>4, <1>5

LEMMA BackwardSteps ==
  ASSUME IInv, NEW o \in Thread,
         ReadBackward(o) \/ Substitute(o) \/ Substituted(o) \/ Result(o) \/ Store(o)
  PROVE  IInv'
<1> DEFINE t == thread[o]
<1>0. /\ ThreadOK(o, t, problem) /\ ProblemOK(problem)
      /\ t = [pc |-> t.pc, i |-> t.i, b |-> t.b, x |-> t.x, barriers |-> t.barriers]
      /\ Loads(problem) \in 0..1
  BY DEF IInv, ThreadOK, Loads
<1> HIDE DEF t
<1>1. CASE ReadBackward(o)
  <2>1. PICK y, u : /\ t.pc = "backward" /\ problem' = problem /\ Go(o, u)
                    /\ u = [t EXCEPT !.pc = "substitute", !.x = y, !.b = t.i + o - problem.ubw]
    BY <1>1, Zenon DEF ReadBackward, At, t
  <2>2. u = [pc |-> "substitute", i |-> t.i, b |-> t.i + o - problem.ubw, x |-> y,
             barriers |-> t.barriers]
    BY <1>0, <2>1
  <2>3. /\ t.i - problem.ubw \in Int
        /\ t.i + o - problem.ubw = (t.i - problem.ubw) + o /\ t.i + o - problem.ubw \in Int
    BY <1>0 DEF ThreadOK, ProblemOK, Rows, Thread
  <2>4. Dealt(o, t.i + o - problem.ubw, t.i - problem.ubw)
    BY <2>3, DealtFirst
  <2>5. ThreadOK(o, u, problem)
    BY <1>0, <2>1, <2>2, <2>3, <2>4 DEF ThreadOK
  <2>. QED  BY <2>1, <2>5, GoStep
<1>2. CASE Substitute(o)
  <2>1. /\ t.pc = "substitute" /\ problem' = problem
        /\ Go(o, [t EXCEPT !.b = @ + BlockSize])
    BY <1>2 DEF Substitute, At, t
  <2>2. Dealt(o, t.b + BlockSize, t.i - problem.ubw)
    BY <1>0, <2>1, DealtNext DEF ThreadOK, ProblemOK, Rows
  <2>3. ThreadOK(o, [t EXCEPT !.b = @ + BlockSize], problem)
    BY <1>0, <2>1, <2>2 DEF ThreadOK
  <2>. QED  BY <2>1, <2>3, GoStep
<1>3. CASE Substituted(o)
  <2>1. PICK u : /\ t.pc = "substitute" /\ problem' = problem
                 /\ Go(o, u) /\ u = [t EXCEPT !.pc = "result", !.barriers = @ + 1]
    BY <1>3 DEF Substituted, At, Arrived, t
  <2>2. u = [pc |-> "result", i |-> t.i, b |-> t.b, x |-> t.x, barriers |-> t.barriers + 1]
    BY <1>0, <2>1
  <2>3. ThreadOK(o, u, problem)
    <3>1. /\ t.i \in Rows /\ t.i \in Int /\ t.b \in Int /\ t.barriers \in Nat
          /\ t.barriers = Loads(problem) + 2 * N - t.i
      BY <1>0, <2>1 DEF ThreadOK, Rows
    <3>2. t.barriers + 1 = Loads(problem) + 2 * N + 1 - t.i /\ t.barriers + 1 \in Nat
      BY <1>0, <3>1
    <3>3. /\ u.pc = "result" /\ u.i = t.i /\ u.b = t.b
          /\ u.barriers = t.barriers + 1
          /\ u = [pc |-> u.pc, i |-> u.i, b |-> u.b, x |-> u.x, barriers |-> u.barriers]
      BY <2>2
    <3>. QED  BY <3>1, <3>2, <3>3 DEF ThreadOK
  <2>. QED  BY <2>1, <2>3, GoStep
<1>4. CASE Result(o)
  <2>1. t.pc = "result" /\ problem' = problem
    BY <1>4 DEF Result, At, t
  <2>2. CASE t.i > 0
    <3>1. PICK u : Go(o, u) /\ u = [t EXCEPT !.pc = "backward", !.i = @ - 1]
      BY <1>4, <2>2 DEF Result, t
    <3>2. u = [pc |-> "backward", i |-> t.i - 1, b |-> t.b, x |-> t.x, barriers |-> t.barriers]
      BY <1>0, <3>1
    <3>3. ThreadOK(o, u, problem)
      BY <1>0, <2>1, <2>2, <3>2 DEF ThreadOK, Rows
    <3>. QED  BY <2>1, <3>1, <3>3, GoStep
  <2>3. CASE ~ (t.i > 0) /\ problem.local
    <3>1. PICK a, u : /\ Go(o, u) /\ u = [a EXCEPT !.b = o]
                      /\ a = [t EXCEPT !.pc = "store", !.barriers = @ + 1]
      BY <1>4, <2>3 DEF Result, Arrived, t
    <3>2. a = [pc |-> "store", i |-> t.i, b |-> t.b, x |-> t.x, barriers |-> t.barriers + 1]
      BY <1>0, <3>1
    <3>3. u = [pc |-> "store", i |-> t.i, b |-> o, x |-> t.x, barriers |-> t.barriers + 1]
      BY <3>1, <3>2
    <3>4. o \in Int /\ 0 + o = o /\ Dealt(o, 0 + o, 0)
      BY DealtFirst DEF Thread
    <3>5. ThreadOK(o, u, problem)
      BY <1>0, <2>1, <2>3, <3>3, <3>4 DEF ThreadOK, Rows
    <3>. QED  BY <2>1, <3>1, <3>5, GoStep
  <2>4. CASE ~ (t.i > 0) /\ ~ problem.local
    <3>1. Go(o, [t EXCEPT !.pc = "done"])
      BY <1>4, <2>4 DEF Result, t
    <3>2. ThreadOK(o, [t EXCEPT !.pc = "done"], problem)
      BY <1>0, <2>1, <2>4 DEF ThreadOK, Rows
    <3>. QED  BY <2>1, <3>1, <3>2, GoStep
  <2>. QED  BY <2>2, <2>3, <2>4
<1>5. CASE Store(o)
  <2>1. t.pc = "store" /\ problem' = problem
    BY <1>5 DEF Store, At, t
  <2>2. CASE t.b < N
    <3>1. Go(o, [t EXCEPT !.b = @ + BlockSize])
      BY <1>5, <2>2 DEF Store, t
    <3>2. ThreadOK(o, [t EXCEPT !.b = @ + BlockSize], problem)
      BY <1>0, <2>1, DealtNext DEF ThreadOK
    <3>. QED  BY <2>1, <3>1, <3>2, GoStep
  <2>3. CASE ~ (t.b < N)
    <3>1. PICK u : Go(o, u) /\ u = [t EXCEPT !.pc = "done", !.barriers = @ + 1]
      BY <1>5, <2>3 DEF Store, Arrived, t
    <3>2. u = [pc |-> "done", i |-> t.i, b |-> t.b, x |-> t.x, barriers |-> t.barriers + 1]
      BY <1>0, <3>1
    <3>3. ThreadOK(o, u, problem)
      BY <1>0, <2>1, <3>2 DEF ThreadOK
    <3>. QED  BY <2>1, <3>1, <3>3, GoStep
  <2>. QED  BY <2>2, <2>3
<1>. QED  BY <1>1, <1>2, <1>3, <1>4, <1>5

LEMMA NextIInv == IInv /\ [Next]_vars => IInv'
<1>1. ASSUME IInv, NEW o \in Thread, ThreadStep(o) PROVE IInv'
  BY <1>1, ForwardSteps, BackwardSteps DEF ThreadStep
<1>2. ASSUME IInv, UNCHANGED vars PROVE IInv'
  BY <1>2 DEF vars, IInv
<1>. QED  BY <1>1, <1>2 DEF Next

-----------------------------------------------------------------------------
(* What the next statement of a thread touches *)

LEMMA ReadsOf ==
  ASSUME NEW o \in Thread, NEW e \in Reads(o)
  PROVE  \/ thread[o].pc = "load" /\ e = <<"B", thread[o].b>>
         \/ thread[o].pc = "store" /\ e = <<"sol", thread[o].b>>
         \/ thread[o].pc = "pivot" /\ o = 0
         \/ thread[o].pc \in {"forward", "backward"} /\ e = <<Work, thread[o].i>>
         \/ thread[o].pc = "eliminate" /\ e = <<Work, thread[o].b>>
         \/ /\ thread[o].pc = "substitute" /\ e = <<Work, thread[o].b>>
            /\ thread[o].b \in 0..(thread[o].i - 1)
  BY DEF Reads

LEMMA WritesOf ==
  ASSUME NEW o \in Thread, NEW e \in Writes(o)
  PROVE  \/ thread[o].pc = "load" /\ e = <<"sol", thread[o].b>>
         \/ thread[o].pc = "store" /\ e = <<"B", thread[o].b>>
         \/ thread[o].pc = "pivot" /\ o = 0
         \/ thread[o].pc = "eliminate" /\ e = <<Work, thread[o].b>>
         \/ /\ thread[o].pc = "substitute" /\ e = <<Work, thread[o].b>>
            /\ thread[o].b \in 0..(thread[o].i - 1)
         \/ thread[o].pc = "result" /\ o = 0 /\ e = <<Work, thread[o].i>>
<1>1. CASE thread[o].pc \in {"pivot", "eliminate", "substitute"}
  <2>1. Writes(o) = Reads(o)
    BY <1>1 DEF Writes
  <2>2. e \in Reads(o)
    BY <2>1
  <2>. QED  BY <1>1, <2>2, ReadsOf
<1>2. CASE thread[o].pc \notin {"pivot", "eliminate", "substitute"}
  BY <1>2 DEF Writes
<1>. QED  BY <1>1, <1>2

LEMMA NoRace ==
  ASSUME IInv, NEW o \in Thread, NEW t \in Thread, o # t, Released(o), Released(t)
  PROVE  Writes(o) \cap (Reads(t) \cup Writes(t)) = {}
<1> SUFFICES ASSUME NEW e \in Writes(o), e \in Reads(t) \/ e \in Writes(t)
             PROVE  FALSE
  OBVIOUS
<1>1. /\ ThreadOK(o, thread[o], problem) /\ ThreadOK(t, thread[t], problem)
      /\ ProblemOK(problem) /\ Loads(problem) \in 0..1
      /\ problem.local => Loads(problem) = 1
  BY DEF IInv, Loads
<1>2. /\ thread[o].i \in 0..(N - 1) /\ thread[o].b \in Int /\ thread[o].barriers \in Nat
      /\ thread[t].i \in 0..(N - 1) /\ thread[t].b \in Int /\ thread[t].barriers \in Nat
  BY <1>1 DEF ThreadOK, Rows
<1>3. thread[o].barriers = thread[t].barriers
  BY <1>2 DEF Released
<1>4. \/ thread[t].pc = "load" /\ e \in {<<"B", thread[t].b>>, <<"sol", thread[t].b>>}
      \/ thread[t].pc = "store" /\ e \in {<<"B", thread[t].b>>, <<"sol", thread[t].b>>}
      \/ thread[t].pc = "pivot" /\ t = 0
      \/ thread[t].pc \in {"forward", "backward"} /\ e = <<Work, thread[t].i>>
      \/ thread[t].pc = "eliminate" /\ e = <<Work, thread[t].b>>
      \/ /\ thread[t].pc = "substitute" /\ e = <<Work, thread[t].b>>
         /\ thread[t].b \in 0..(thread[t].i - 1)
      \/ thread[t].pc = "result" /\ t = 0 /\ e = <<Work, thread[t].i>>
  BY ReadsOf, WritesOf
(* What the other thread can be doing, by the number of barriers. *)
<1>5. CASE thread[o].pc = "load" /\ e = <<"sol", thread[o].b>>
  <2>1. thread[o].barriers = 0 /\ problem.local /\ Dealt(o, thread[o].b, 0)
    BY <1>1, <1>5 DEF ThreadOK
  <2>2. thread[t].pc = "load" /\ Dealt(t, thread[t].b, 0)
    BY <1>1, <1>2, <1>3, <2>1 DEF ThreadOK
  <2>3. thread[o].b # thread[t].b
    BY <1>2, <2>1, <2>2, DealtOnce
  <2>. QED  BY <1>4, <1>5, <2>2, <2>3
<1>6. CASE thread[o].pc = "store" /\ e = <<"B", thread[o].b>>
  <2>1. /\ thread[o].barriers = Loads(problem) + 2 * N + 2
        /\ problem.local /\ Dealt(o, thread[o].b, 0)
    BY <1>1, <1>6 DEF ThreadOK
  <2>2. /\ thread[t].pc \in {"store", "done"}
        /\ thread[t].pc = "store" => Dealt(t, thread[t].b, 0)
    BY <1>1, <1>2, <1>3, <2>1 DEF ThreadOK
  <2>3. thread[t].pc = "store" => thread[o].b # thread[t].b
    BY <1>2, <2>1, <2>2, DealtOnce
  <2>. QED  BY <1>4, <1>6, <2>2, <2>3
<1>7. CASE thread[o].pc = "pivot" /\ o = 0
  <2>1. thread[o].barriers = Loads(problem)
    BY <1>1, <1>7 DEF ThreadOK
  <2>2. \/ thread[t].pc = "pivot"
        \/ thread[t].pc = "load" /\ problem.local /\ thread[t].barriers = 0
    BY <1>1, <1>2, <1>3, <2>1 DEF ThreadOK
  <2>3. thread[t].pc = "pivot"
    BY <1>1, <1>3, <2>1, <2>2
  <2>. QED  BY <1>4, <1>7, <2>3
<1>8. CASE thread[o].pc = "eliminate" /\ e = <<Work, thread[o].b>>
  <2>1. /\ thread[o].barriers = Loads(problem) + 1 + thread[o].i
        /\ Dealt(o, thread[o].b, thread[o].i + 1)
    BY <1>1, <1>8 DEF ThreadOK
  <2>2. /\ thread[t].pc \in {"forward", "eliminate"} /\ thread[t].i = thread[o].i
        /\ thread[t].pc = "eliminate" => Dealt(t, thread[t].b, thread[o].i + 1)
    BY <1>1, <1>2, <1>3, <2>1 DEF ThreadOK
  <2>3. thread[o].b > thread[o].i
    BY <1>2, <2>1, DealtFrom
  <2>4. thread[t].pc = "eliminate" => thread[o].b # thread[t].b
    BY <1>2, <2>1, <2>2, DealtOnce
  <2>5. CASE thread[t].pc = "forward"
    BY <1>2, <1>4, <1>8, <2>2, <2>3, <2>5
  <2>6. CASE thread[t].pc = "eliminate"
    BY <1>4, <1>8, <2>4, <2>6
  <2>. QED  BY <2>2, <2>5, <2>6
<1>9. CASE /\ thread[o].pc = "substitute" /\ e = <<Work, thread[o].b>>
           /\ thread[o].b \in 0..(thread[o].i - 1)
  <2>1. /\ thread[o].barriers = Loads(problem) + 2 * N - thread[o].i
        /\ Dealt(o, thread[o].b, thread[o].i - problem.ubw)
    BY <1>1, <1>9 DEF ThreadOK
  <2>2. \/ thread[t].pc \in {"backward", "substitute"} /\ thread[t].i = thread[o].i
        \/ thread[t].pc = "result" /\ thread[t].i = thread[o].i + 1
    BY <1>1, <1>2, <1>3, <2>1 DEF ThreadOK
  <2>3. CASE thread[t].pc = "substitute"
    <3>1. Dealt(t, thread[t].b, thread[o].i - problem.ubw)
      BY <1>1, <2>2, <2>3 DEF ThreadOK
    <3>2. thread[o].i - problem.ubw \in Int
      BY <1>1, <1>2 DEF ProblemOK
    <3>3. thread[o].b # thread[t].b
      BY <1>2, <2>1, <3>1, <3>2, DealtOnce
    <3>. QED  BY <1>4, <1>9, <2>3, <3>3
  <2>4. CASE thread[t].pc # "substitute"
    BY <1>2, <1>4, <1>9, <2>2, <2>4
  <2>. QED  BY <2>3, <2>4
<1>10. CASE thread[o].pc = "result" /\ o = 0 /\ e = <<Work, thread[o].i>>
  <2>1. thread[o].barriers = Loads(problem) + 2 * N + 1 - thread[o].i
    BY <1>1, <1>10 DEF ThreadOK
  <2>2. \/ thread[t].pc \in {"backward", "substitute"} /\ thread[t].i = thread[o].i - 1
        \/ thread[t].pc = "result"
        \/ thread[t].pc = "done"
    BY <1>1, <1>2, <1>3, <2>1 DEF ThreadOK
  <2>. QED  BY <1>2, <1>4, <1>10, <2>2
<1>. QED  BY <1>5, <1>6, <1>7, <1>8, <1>9, <1>10, WritesOf

(* No element is written by one thread of the sub-group while another      *)
(* could read or write it: the barriers the kernel has are enough, for any *)
(* size, bandwidth and number of threads, and in both variants.            *)
THEOREM NeverRaces == Spec => []RaceFree
<1>1. IInv => RaceFree
  BY NoRace DEF RaceFree
<1>. QED  BY <1>1, InitIInv, NextIInv, PTL DEF Spec

HIDE SizesAssumption

-----------------------------------------------------------------------------
(* More about rows dealt out *)

LEMMA DealtAbove ==
  ASSUME NEW o \in Thread, NEW first \in Int, NEW b \in Int, Dealt(o, b, first)
  PROVE  b >= first + o
<1>1. PICK k \in Nat : b = first + o + k * BlockSize
  BY DEF Dealt
<1>. QED  BY <1>1, Multiple DEF Thread

(* The rows of a thread are BlockSize apart.                               *)
LEMMA DealtApart ==
  ASSUME NEW o \in Thread, NEW first \in Int,
         NEW b \in Int, Dealt(o, b, first), NEW c \in Int, Dealt(o, c, first), b < c
  PROVE  b + BlockSize <= c
<1>1. PICK k \in Nat : b = first + o + k * BlockSize
  BY DEF Dealt
<1>2. PICK m \in Nat : c = first + o + m * BlockSize
  BY DEF Dealt
<1>3. CASE k < m
  <2>1. PICK d \in Nat : d > 0 /\ m = k + d
    <3>1. m - k \in Nat /\ m - k > 0 /\ m = k + (m - k)
      BY <1>3
    <3>. QED  BY <3>1
  <2>2. m * BlockSize = k * BlockSize + d * BlockSize
    BY <2>1, SizesAssumption
  <2>. QED  BY <1>1, <1>2, <2>1, <2>2, Multiple, SizesAssumption DEF Thread
<1>4. CASE m <= k
  <2>1. PICK d \in Nat : k = m + d
    <3>1. k - m \in Nat /\ k = m + (k - m)
      BY <1>4
    <3>. QED  BY <3>1
  <2>2. k * BlockSize = m * BlockSize + d * BlockSize
    BY <2>1, SizesAssumption
  <2>3. k * BlockSize \in Int /\ m * BlockSize \in Int /\ d * BlockSize \in Nat
    BY <2>1, Multiple
  <2>. QED  BY <1>1, <1>2, <2>1, <2>2, <2>3, SizesAssumption DEF Thread
<1>. QED  BY <1>3, <1>4

(* Every row is dealt to a thread. *)
LEMMA DealtToSome ==
  ASSUME NEW first \in Int, NEW b \in Int, b >= first
  PROVE  \E o \in Thread : Dealt(o, b, first)
<1>1. PICK d \in Nat : b = first + d
  <2>1. b - first \in Nat /\ b = first + (b - first)
    OBVIOUS
  <2>. QED  BY <2>1
<1>2. BlockSize \in Nat /\ BlockSize > 0
  BY SizesAssumption
<1>3. PICK o, k : o = d % BlockSize /\ k = d \div BlockSize
  OBVIOUS
<1>4. d = BlockSize * k + o /\ o \in 0..(BlockSize - 1) /\ k \in Nat
  BY <1>2, <1>3, Sums!DivMod
<1>5. BlockSize * k = k * BlockSize
  BY <1>2, <1>4
<1>6. o \in Thread /\ b = first + o + k * BlockSize
  BY <1>1, <1>2, <1>4, <1>5 DEF Thread
<1>. QED  BY <1>4, <1>6 DEF Dealt

-----------------------------------------------------------------------------
(* What the elements are while the threads work                            *)

(* Where a thread is that has just passed a barrier.                       *)
Fresh(p, o, t) ==
  \/ t.pc \in {"pivot", "forward", "result"}
  \/ t.pc = "backward" /\ t.i = N - 1
  \/ t.pc = "store" /\ t.b = o
  \/ t.pc = "done" /\ p.local

(* A thread is at most one barrier ahead of another, and then waits there. *)
Close(p, th) ==
  \A o \in Thread : \A u \in Thread :
    th[u].barriers < th[o].barriers =>
      th[o].barriers = th[u].barriers + 1 /\ Fresh(p, o, th[o])

Past(th, n) == \A o \in Thread : th[o].barriers >= n

(* The columns that have been eliminated from row r, by the thread that    *)
(* got the row, and the columns that have been substituted into it.        *)
Gone(p, o, t, r, j) ==
  /\ Dealt(o, r, j + 1)
  /\ \/ t.barriers > Loads(p) + 1 + j
     \/ t.pc = "eliminate" /\ t.i = j /\ t.b > r

Back(p, o, t, r, j) ==
  /\ Dealt(o, r, j - p.ubw)
  /\ \/ t.barriers > Loads(p) + 2 * N - j
     \/ t.pc = "substitute" /\ t.i = j /\ t.b > r

Eliminated(p, th, r) == {j \in 0..(r - 1) : \E o \in Thread : Gone(p, o, th[o], r, j)}
Backed(p, th, r) == {j \in (r + 1)..(N - 1) : \E o \in Thread : Back(p, o, th[o], r, j)}

(* The rows whose result thread 0 has written, going by its state t.       *)
Written(p, t) ==
  {j \in Rows : \/ t.barriers > Loads(p) + 2 * N + 1 - j
                \/ t.barriers = Loads(p) + 2 * N + 1 - j /\ t.pc # "result"}

(* The elements, as if each were divided by its diagonal element at once.  *)
Divided(p, t, m) ==
  [j \in Rows |-> IF j \in Written(p, t) THEN m[j] ELSE Over(m[j], Entry(p.A, j, j))]

Target(p) == Pivoted(p.piv, p.b)

ForwardRows(p, th, m) ==
  \A r \in Rows : Plus(m[r], Dot(p.A, r, m, Eliminated(p, th, r))) = Target(p)[r]

BackwardRows(p, th, z, y) ==
  \A r \in Rows : Plus(Times(Entry(p.A, r, r), z[r]), Dot(p.A, r, z, Backed(p, th, r))) = y[r]

(* What the threads hold in their registers. *)
Registers(p, th, m) ==
  \A o \in Thread :
    /\ th[o].pc = "eliminate" => th[o].x = m[th[o].i]
    /\ th[o].pc \in {"substitute", "result"} => th[o].x = Divided(p, th[0], m)[th[o].i]

InRange(t) == t.x \in Elements /\ t.b \in (-N)..(N + BlockSize)

Area(p) == IF p.local THEN "sol" ELSE "B"

Loading(p, th, mm) ==
  ~ Past(th, 1) /\ p.local =>
    /\ mm["B"] = p.b
    /\ \A o \in Thread : \A r \in Rows :
         Dealt(o, r, 0) /\ (th[o].pc # "load" \/ th[o].b > r) => mm["sol"][r] = p.b[r]

Pivoting(p, th, m) ==
  Past(th, Loads(p)) /\ ~ Past(th, Loads(p) + 1) =>
    m = IF th[0].barriers = Loads(p) THEN p.b ELSE Target(p)

ForwardPhase(p, th, m) ==
  Past(th, Loads(p) + 1) /\ ~ Past(th, Loads(p) + N + 1) => ForwardRows(p, th, m)

BackwardPhase(p, th, m) ==
  Past(th, Loads(p) + N + 1) /\ ~ Past(th, Loads(p) + 2 * N + 2) =>
    \E y \in Column : SolvesLower(p.A, y, Target(p)) /\ BackwardRows(p, th, Divided(p, th[0], m), y)

Storing(p, th, mm) ==
  Past(th, Loads(p) + 2 * N + 2) =>
    /\ \E y \in Column : SolvesLower(p.A, y, Target(p)) /\ SolvesUpper(p.A, mm[Area(p)], y)
    /\ \A o \in Thread : \A r \in Rows :
         Dealt(o, r, 0) /\ (th[o].pc = "done" \/ th[o].b > r) => mm["B"][r] = mm["sol"][r]

DataOK(p, th, mm) ==
  /\ Factored(p) /\ p.b \in Column
  /\ mm \in [{"B", "sol"} -> Column]
  /\ \A o \in Thread : InRange(th[o])
  /\ Close(p, th)
  /\ Registers(p, th, mm[Area(p)])
  /\ Loading(p, th, mm)
  /\ Pivoting(p, th, mm[Area(p)])
  /\ ForwardPhase(p, th, mm[Area(p)])
  /\ BackwardPhase(p, th, mm[Area(p)])
  /\ Storing(p, th, mm)

Data == DataOK(problem, thread, mem)

Threads(p, th) ==
  ProblemOK(p) /\ th = [o \in Thread |-> th[o]] /\ \A o \in Thread : ThreadOK(o, th[o], p)

(* Thread o, which no barrier holds back, goes from th to state t.         *)
Stepping(p, th, o, t, th2) ==
  /\ Threads(p, th) /\ Threads(p, th2) /\ Close(p, th)
  /\ th2 = [th EXCEPT ![o] = t]
  /\ \A u \in Thread : th[u].barriers >= th[o].barriers

(* The state of a thread, and memory with one element changed. *)
State(t, i, b, x, n) == t.i = i /\ t.b = b /\ t.x = x /\ t.barriers = n

Put(mm, area, r, e) == [mm EXCEPT ![area] = [mm[area] EXCEPT ![r] = e]]
Brought(mm, b) == Put(mm, "sol", b, mm["B"][b])
Returned(mm, b) == Put(mm, "B", b, mm["sol"][b])

(* Where the slowest thread is; and that the slowest are at n, or all have *)
(* just passed the barrier behind it.                                      *)
Slowest(th, n) == \A m \in Int : Past(th, m) <=> m <= n

Arriving(p, th, n) ==
  /\ \A m \in Int : (m <= n => Past(th, m)) /\ (m > n + 1 => ~ Past(th, m))
  /\ Past(th, n + 1) => \A u \in Thread : th[u].barriers = n + 1 /\ Fresh(p, u, th[u])

LEMMA Counts ==
  ASSUME NEW p, NEW th, Threads(p, th)
  PROVE  /\ Loads(p) \in {0, 1} /\ Loads(p) \in Int /\ (p.local => Loads(p) = 1)
         /\ (~ p.local => Loads(p) = 0)
         /\ \A u \in Thread : th[u].barriers \in Nat /\ th[u].i \in Rows /\ th[u].b \in Int
         /\ 0 \in Thread /\ N \in Nat /\ N > 0 /\ \A r \in Rows : r \in 0..(N - 1)
         /\ \A u \in Thread : u \in Nat /\ u < BlockSize
         /\ BlockSize \in Nat
<1>1. 0 \in Thread /\ N \in Nat /\ N > 0 /\ \A r \in Rows : r \in 0..(N - 1)
  BY SizesAssumption DEF Thread, Rows
<1>2. \A u \in Thread : u \in Nat /\ u < BlockSize
  BY SizesAssumption DEF Thread
<1>3. BlockSize \in Nat
  BY SizesAssumption
<1>. QED  BY <1>1, <1>2, <1>3 DEF Threads, ThreadOK, Loads

LEMMA StepTo ==
  ASSUME NEW p, NEW th, NEW o \in Thread, NEW t, NEW th2, Stepping(p, th, o, t, th2)
  PROVE  th2[o] = t /\ \A u \in Thread \ {o} : th2[u] = th[u]
<1>1. th = [u \in Thread |-> th[u]] /\ th2 = [th EXCEPT ![o] = t]
  BY DEF Stepping, Threads
<1>. QED  BY <1>1

LEMMA StepOf ==
  ASSUME NEW p, NEW th, NEW o \in Thread, NEW t, NEW th2, Stepping(p, th, o, t, th2)
  PROVE  /\ \A u \in Thread : ThreadOK(u, th[u], p) /\ ThreadOK(u, th2[u], p)
         /\ ThreadOK(o, t, p)
         /\ t.barriers \in Nat /\ t.i \in Rows /\ t.b \in Int
<1>1. th2[o] = t
  BY StepTo
<1>2. \A u \in Thread : ThreadOK(u, th[u], p) /\ ThreadOK(u, th2[u], p)
  BY DEF Stepping, Threads
<1>. QED  BY <1>1, <1>2 DEF ThreadOK

(* The others are as far, or wait behind the next barrier. *)
LEMMA Ahead ==
  ASSUME NEW p, NEW th, NEW o \in Thread, NEW t, NEW th2, Stepping(p, th, o, t, th2)
  PROVE  /\ \A u \in Thread : \/ th[u].barriers = th[o].barriers
                              \/ th[u].barriers = th[o].barriers + 1 /\ Fresh(p, u, th[u])
         /\ \A m \in Int : Past(th, m) <=> m <= th[o].barriers
<1>1. \A u \in Thread : th[u].barriers \in Nat
  BY Counts DEF Stepping
<1>. QED  BY <1>1 DEF Stepping, Close, Past

LEMMA StaysClose ==
  ASSUME NEW p, NEW th, NEW o \in Thread, NEW t, NEW th2, Stepping(p, th, o, t, th2),
         \/ t.barriers = th[o].barriers
         \/ t.barriers = th[o].barriers + 1 /\ Fresh(p, o, t)
  PROVE  Close(p, th2)
<1>1. \A u \in Thread : th[u].barriers \in Nat
  BY Counts DEF Stepping
<1>2. th2[o] = t /\ \A u \in Thread \ {o} : th2[u] = th[u]
  BY StepTo
<1>3. \A u \in Thread : \/ th[u].barriers = th[o].barriers
                        \/ th[u].barriers = th[o].barriers + 1 /\ Fresh(p, u, th[u])
  BY Ahead
<1>4. ASSUME NEW a \in Thread, NEW c \in Thread, th2[c].barriers < th2[a].barriers
      PROVE  th2[a].barriers = th2[c].barriers + 1 /\ Fresh(p, a, th2[a])
  <2>1. CASE t.barriers = th[o].barriers
    BY <1>1, <1>2, <1>3, <1>4, <2>1
  <2>2. CASE t.barriers = th[o].barriers + 1 /\ Fresh(p, o, t)
    BY <1>1, <1>2, <1>3, <1>4, <2>2
  <2>. QED  BY <2>1, <2>2
<1>. QED  BY <1>4 DEF Close

(* Where all are after a step without a barrier, and after one with.       *)
LEMMA PastSame ==
  ASSUME NEW p, NEW th, NEW o \in Thread, NEW t, NEW th2, Stepping(p, th, o, t, th2),
         t.barriers = th[o].barriers
  PROVE  \A m \in Int : Past(th2, m) <=> m <= th[o].barriers
<1>1. \A u \in Thread : th[u].barriers \in Nat
  BY Counts DEF Stepping
<1>2. th2[o] = t /\ \A u \in Thread \ {o} : th2[u] = th[u]
  BY StepTo
<1>3. \A u \in Thread : th2[u].barriers = th[u].barriers
  BY <1>2
<1>4. \A m \in Int : Past(th, m) <=> m <= th[o].barriers
  BY Ahead
<1>. QED  BY <1>3, <1>4 DEF Past

LEMMA PastNext ==
  ASSUME NEW p, NEW th, NEW o \in Thread, NEW t, NEW th2, Stepping(p, th, o, t, th2),
         t.barriers = th[o].barriers + 1, Fresh(p, o, t)
  PROVE  /\ \A m \in Int : /\ m <= th[o].barriers => Past(th2, m)
                           /\ m > th[o].barriers + 1 => ~ Past(th2, m)
         /\ Past(th2, th[o].barriers + 1) =>
              \A u \in Thread : th2[u].barriers = th[o].barriers + 1 /\ Fresh(p, u, th2[u])
<1>1. \A u \in Thread : th[u].barriers \in Nat
  BY Counts DEF Stepping
<1>2. th2[o] = t /\ \A u \in Thread \ {o} : th2[u] = th[u]
  BY StepTo
<1>3. \A u \in Thread : \/ th[u].barriers = th[o].barriers
                        \/ th[u].barriers = th[o].barriers + 1 /\ Fresh(p, u, th[u])
  BY Ahead
<1>4. \A u \in Thread : \/ th2[u].barriers = th[o].barriers
                        \/ th2[u].barriers = th[o].barriers + 1 /\ Fresh(p, u, th2[u])
  BY <1>2, <1>3
<1>5. ASSUME NEW m \in Int, m <= th[o].barriers PROVE Past(th2, m)
  BY <1>1, <1>4, <1>5 DEF Past
<1>6. ASSUME NEW m \in Int, m > th[o].barriers + 1 PROVE ~ Past(th2, m)
  BY <1>1, <1>2, <1>6 DEF Past
<1>7. ASSUME Past(th2, th[o].barriers + 1), NEW u \in Thread
      PROVE  th2[u].barriers = th[o].barriers + 1 /\ Fresh(p, u, th2[u])
  <2>1. th2[u].barriers >= th[o].barriers + 1
    BY <1>7 DEF Past
  <2>. QED  BY <1>1, <1>4, <2>1
<1>. QED  BY <1>5, <1>6, <1>7

LEMMA SlowestBefore ==
  ASSUME NEW p, NEW th, NEW o \in Thread, NEW t, NEW th2, Stepping(p, th, o, t, th2)
  PROVE  Slowest(th, th[o].barriers)
  BY Ahead DEF Slowest

LEMMA SlowestAfter ==
  ASSUME NEW p, NEW th, NEW o \in Thread, NEW t, NEW th2, Stepping(p, th, o, t, th2),
         t.barriers = th[o].barriers
  PROVE  Slowest(th2, th[o].barriers)
  BY PastSame DEF Slowest

LEMMA ArrivingAfter ==
  ASSUME NEW p, NEW th, NEW o \in Thread, NEW t, NEW th2, Stepping(p, th, o, t, th2),
         t.barriers = th[o].barriers + 1, Fresh(p, o, t)
  PROVE  Arriving(p, th2, th[o].barriers)
  BY PastNext DEF Arriving

LEMMA OthersAfter ==
  ASSUME NEW p, NEW th, NEW o \in Thread, NEW t, NEW th2, Stepping(p, th, o, t, th2)
  PROVE  \A u \in Thread \ {o} :
           /\ th2[u] = th[u] /\ th2[u].barriers >= th[o].barriers
           /\ \/ th2[u].barriers = th[o].barriers
              \/ th2[u].barriers = th[o].barriers + 1 /\ Fresh(p, u, th2[u])
<1>1. \A u \in Thread \ {o} : th2[u] = th[u]
  BY StepTo
<1>2. \A u \in Thread : \/ th[u].barriers = th[o].barriers
                        \/ th[u].barriers = th[o].barriers + 1 /\ Fresh(p, u, th[u])
  BY Ahead
<1>3. \A u \in Thread : th[u].barriers >= th[o].barriers
  BY DEF Stepping
<1>. QED  BY <1>1, <1>2, <1>3

LEMMA RangesKept ==
  ASSUME NEW p, NEW th, NEW o \in Thread, NEW t, NEW th2, Stepping(p, th, o, t, th2),
         \A u \in Thread : InRange(th[u]), InRange(t)
  PROVE  \A u \in Thread : InRange(th2[u])
<1>1. th2[o] = t /\ \A u \in Thread \ {o} : th2[u] = th[u]
  BY StepTo
<1>. QED  BY <1>1

LEMMA StateOf ==
  ASSUME NEW t, NEW i, NEW b, NEW x, NEW n, State(t, i, b, x, n)
  PROVE  t.i = i /\ t.b = b /\ t.x = x /\ t.barriers = n
  BY DEF State

(* What is known of a thread, from its state.                              *)
LEMMA ThreadAt ==
  ASSUME NEW p, NEW th, Threads(p, th), NEW o \in Thread
  PROVE  /\ th[o].i \in 0..(N - 1) /\ th[o].i \in Rows /\ th[o].b \in Int /\ th[o].barriers \in Nat
         /\ th[o].pc = "load" => Dealt(o, th[o].b, 0) /\ th[o].i = 0
         /\ th[o].pc = "eliminate" => Dealt(o, th[o].b, th[o].i + 1)
         /\ th[o].pc = "substitute" => Dealt(o, th[o].b, th[o].i - p.ubw)
         /\ th[o].pc = "store" => Dealt(o, th[o].b, 0)
<1>1. ThreadOK(o, th[o], p)
  BY DEF Threads
<1>. QED  BY <1>1 DEF ThreadOK, Rows

LEMMA PutRules ==
  ASSUME NEW mm \in [{"B", "sol"} -> Column], NEW area \in {"B", "sol"}, NEW r \in Rows,
         NEW e \in Elements
  PROVE  /\ Put(mm, area, r, e) \in [{"B", "sol"} -> Column]
         /\ Put(mm, area, r, e)[area] \in Column /\ Put(mm, area, r, e)[area][r] = e
         /\ \A k \in Rows \ {r} : Put(mm, area, r, e)[area][k] = mm[area][k]
         /\ \A other \in {"B", "sol"} \ {area} : Put(mm, area, r, e)[other] = mm[other]
<1>1. PICK v : v = [mm[area] EXCEPT ![r] = e]
  OBVIOUS
<1>2. v \in Column /\ v[r] = e /\ \A k \in Rows \ {r} : v[k] = mm[area][k]
  BY <1>1 DEF Column
<1>3. Put(mm, area, r, e) = [mm EXCEPT ![area] = v]
  BY <1>1 DEF Put
<1>. QED  BY <1>2, <1>3

LEMMA EliminatedKept ==
  ASSUME NEW p, NEW th, NEW o \in Thread, NEW t, NEW th2, Stepping(p, th, o, t, th2),
         NEW r \in Rows, \A j \in 0..(r - 1) : Gone(p, o, t, r, j) <=> Gone(p, o, th[o], r, j)
  PROVE  Eliminated(p, th2, r) = Eliminated(p, th, r)
<1>1. th2[o] = t /\ \A u \in Thread \ {o} : th2[u] = th[u]
  BY StepTo
<1>2. \A j \in 0..(r - 1) : \A u \in Thread : Gone(p, u, th2[u], r, j) <=> Gone(p, u, th[u], r, j)
  BY <1>1
<1>. QED  BY <1>2, Zenon DEF Eliminated

LEMMA BackedKept ==
  ASSUME NEW p, NEW th, NEW o \in Thread, NEW t, NEW th2, Stepping(p, th, o, t, th2),
         NEW r \in Rows, \A j \in (r + 1)..(N - 1) : Back(p, o, t, r, j) <=> Back(p, o, th[o], r, j)
  PROVE  Backed(p, th2, r) = Backed(p, th, r)
<1>1. th2[o] = t /\ \A u \in Thread \ {o} : th2[u] = th[u]
  BY StepTo
<1>2. \A j \in (r + 1)..(N - 1) : \A u \in Thread : Back(p, u, th2[u], r, j) <=> Back(p, u, th[u], r, j)
  BY <1>1
<1>. QED  BY <1>2, Zenon DEF Backed

(* A result is written, or not, as long as the state of thread 0 shows the same. *)
LEMMA DividedKept ==
  ASSUME NEW p, NEW t, NEW u, Written(p, u) = Written(p, t), NEW m
  PROVE  Divided(p, u, m) = Divided(p, t, m)
  BY DEF Divided

LEMMA DividedIn ==
  ASSUME NEW p, Factored(p), NEW t, NEW m \in Column
  PROVE  Divided(p, t, m) \in Column
<1>1. ASSUME NEW j \in Rows PROVE m[j] \in Elements /\ Over(m[j], Entry(p.A, j, j)) \in Elements
  <2>1. m[j] \in Elements /\ Entry(p.A, j, j) \in Elements /\ Entry(p.A, j, j) # 0
    BY EntryIn DEF Column, Factored, Regular
  <2>. QED  BY <2>1, OverRules
<1>. QED  BY <1>1 DEF Divided, Column

-----------------------------------------------------------------------------
(* What each step does to the elements                                     *)

(* Where a thread is, by the barriers behind it. *)
LEMMA Position ==
  ASSUME NEW p, NEW th, Threads(p, th), NEW u \in Thread
  PROVE  /\ th[u].pc \in {"load", "pivot", "forward", "eliminate", "backward", "substitute",
                          "result", "store", "done"}
         /\ th[u].pc = "load" => th[u].barriers = 0 /\ p.local
         /\ th[u].pc = "pivot" => th[u].barriers = Loads(p) /\ th[u].i = 0
         /\ th[u].pc \in {"forward", "eliminate"} => th[u].barriers = Loads(p) + 1 + th[u].i
         /\ th[u].pc \in {"backward", "substitute"} => th[u].barriers = Loads(p) + 2 * N - th[u].i
         /\ th[u].pc = "result" => th[u].barriers = Loads(p) + 2 * N + 1 - th[u].i
         /\ th[u].pc = "store" => th[u].barriers = Loads(p) + 2 * N + 2 /\ p.local
         /\ th[u].pc = "done" => th[u].barriers = Loads(p) + 2 * N + (IF p.local THEN 3 ELSE 1)
  BY DEF Threads, ThreadOK

(* The threads are in the forward loop or before, or have just come out.   *)
LEMMA NotBackward ==
  ASSUME NEW p, NEW th, Threads(p, th), NEW u \in Thread,
         \/ th[u].barriers <= Loads(p) + N
         \/ th[u].barriers <= Loads(p) + N + 1 /\ Fresh(p, u, th[u])
  PROVE  th[u].pc \notin {"substitute", "result"}
  BY Position, Counts DEF Fresh

(* The threads have not reached the forward loop, or only just.            *)
LEMMA NotForward ==
  ASSUME NEW p, NEW th, Threads(p, th), NEW u \in Thread,
         \/ th[u].barriers <= Loads(p)
         \/ th[u].barriers <= Loads(p) + 1 /\ Fresh(p, u, th[u])
  PROVE  th[u].pc \notin {"eliminate", "substitute", "result"}
  BY Position, Counts DEF Fresh

LEMMA NoRegisters ==
  ASSUME NEW p, NEW th, NEW o \in Thread, NEW t, NEW th2, Stepping(p, th, o, t, th2),
         \/ th[o].barriers <= Loads(p) \/ th[o].barriers >= Loads(p) + 2 * N + 2,
         t.pc \notin {"eliminate", "substitute", "result"}, NEW m
  PROVE  Registers(p, th2, m)
<1>0. Threads(p, th2)
  BY DEF Stepping
<1>1. /\ Loads(p) \in Int /\ N \in Nat /\ \A u \in Thread : th2[u].barriers \in Nat /\ th[u].barriers \in Nat
  BY Counts DEF Stepping
<1>2. ASSUME NEW u \in Thread PROVE th2[u].pc \notin {"eliminate", "substitute", "result"}
  <2>1. CASE u = o
    BY <2>1, StepTo
  <2>2. CASE u # o /\ th[o].barriers <= Loads(p)
    <3>1. \/ th2[u].barriers = th[o].barriers
          \/ th2[u].barriers = th[o].barriers + 1 /\ Fresh(p, u, th2[u])
      BY <2>2, OthersAfter
    <3>2. \/ th2[u].barriers <= Loads(p)
          \/ th2[u].barriers <= Loads(p) + 1 /\ Fresh(p, u, th2[u])
      BY <1>1, <2>2, <3>1
    <3>. QED  BY <1>0, <3>2, NotForward
  <2>3. CASE u # o /\ th[o].barriers >= Loads(p) + 2 * N + 2
    <3>0. th2[u].barriers >= th[o].barriers
      BY <2>3, OthersAfter
    <3>1. th2[u].barriers >= Loads(p) + 2 * N + 2
      BY <1>1, <2>3, <3>0
    <3>2. th2[u].i \in 0..(N - 1)
      BY <1>0, ThreadAt
    <3>. QED  BY <1>0, <1>1, <3>1, <3>2, Position
  <2>. QED  BY <2>1, <2>2, <2>3
<1>. QED  BY <1>2 DEF Registers

(* sol[b] = B[b] *)
LEMMA LoadRow ==
  ASSUME NEW p, NEW th, NEW mm, NEW o \in Thread, NEW t, NEW th2, NEW mm2,
         Stepping(p, th, o, t, th2), DataOK(p, th, mm),
         NEW i, NEW b, NEW x, NEW n, State(th[o], i, b, x, n), th[o].pc = "load", b < N,
         State(t, i, b + BlockSize, x, n), t.pc = "load", mm2 = Brought(mm, b)
  PROVE  DataOK(p, th2, mm2)
<1>0. /\ Threads(p, th) /\ Threads(p, th2) /\ Factored(p) /\ p.b \in Column
      /\ mm \in [{"B", "sol"} -> Column] /\ \A u \in Thread : InRange(th[u])
  BY DEF Stepping, DataOK
<1>1. /\ Loads(p) \in Int /\ (p.local => Loads(p) = 1) /\ N \in Nat /\ N > 0
      /\ BlockSize \in Nat /\ o \in Nat /\ \A r \in Rows : r \in 0..(N - 1)
  BY <1>0, Counts
<1>2. p.local /\ n = 0 /\ b \in Int /\ Dealt(o, b, 0)
  BY <1>0, StateOf, ThreadAt, Position
<1>3. b \in Rows
  <2>1. b >= 0
    BY <1>2, DealtFrom
  <2>. QED  BY <1>1, <1>2, <2>1 DEF Rows
<1>4. th2[o] = t /\ \A u \in Thread \ {o} : th2[u] = th[u]
  BY StepTo
<1>5. /\ th[o].pc = "load" /\ th[o].b = b /\ th[o].barriers = 0 /\ th[o].x = x
      /\ t.pc = "load" /\ t.b = b + BlockSize /\ t.barriers = 0 /\ t.x = x
  BY <1>2, StateOf
<1>6. /\ mm["B"] = p.b
      /\ \A u \in Thread : \A r \in Rows :
           Dealt(u, r, 0) /\ (th[u].pc # "load" \/ th[u].b > r) => mm["sol"][r] = p.b[r]
  <2>0. Slowest(th, 0)
    BY <1>5, SlowestBefore
  <2>1. ~ Past(th, 1)
    BY <2>0 DEF Slowest
  <2>. QED  BY <1>2, <2>1 DEF DataOK, Loading
<1>7. /\ mm2 \in [{"B", "sol"} -> Column] /\ mm2["B"] = p.b
      /\ mm2["sol"][b] = p.b[b] /\ \A r \in Rows \ {b} : mm2["sol"][r] = mm["sol"][r]
  <2>1. p.b[b] \in Elements
    BY <1>0, <1>3 DEF Column
  <2>2. mm2 = Put(mm, "sol", b, p.b[b])
    BY <1>6 DEF Brought
  <2>3. "sol" \in {"B", "sol"} /\ "B" \in {"B", "sol"} \ {"sol"}
    OBVIOUS
  <2>. QED  BY <1>0, <1>3, <1>6, <2>1, <2>2, <2>3, PutRules
<1>8. ASSUME NEW u \in Thread, NEW r \in Rows, Dealt(u, r, 0), th2[u].pc # "load" \/ th2[u].b > r
      PROVE  mm2["sol"][r] = p.b[r]
  <2>1. CASE r = b
    BY <1>7, <2>1
  <2>2. CASE r # b /\ u # o
    BY <1>4, <1>6, <1>7, <1>8, <2>2
  <2>3. CASE r # b /\ u = o
    <3>1. r \in Int /\ b + BlockSize > r
      BY <1>1, <1>4, <1>5, <1>8, <2>3
    <3>2. ~ (b < r)
      <4>1. o \in Thread /\ 0 \in Int /\ b \in Int /\ r \in Int /\ Dealt(o, b, 0) /\ Dealt(o, r, 0)
        BY <1>2, <1>8, <2>3, <3>1
      <4>2. b < r => b + BlockSize <= r
        BY <4>1, DealtApart
      <4>. QED  BY <1>1, <3>1, <4>1, <4>2
    <3>3. th[o].b > r
      BY <1>2, <1>5, <2>3, <3>1, <3>2
    <3>. QED  BY <1>6, <1>7, <1>8, <2>3, <3>3
  <2>. QED  BY <2>1, <2>2, <2>3
<1>9. Slowest(th2, 0)
  BY <1>5, SlowestAfter
<1>10. \A u \in Thread : InRange(th2[u])
  <2>1. InRange(t)
    BY <1>0, <1>1, <1>2, <1>5 DEF InRange
  <2>. QED  BY <1>0, <2>1, RangesKept
<1>11. Close(p, th2)
  BY <1>5, StaysClose
<1>12. Registers(p, th2, mm2[Area(p)])
  <2>1. th[o].barriers <= Loads(p) /\ t.pc \notin {"eliminate", "substitute", "result"}
    BY <1>1, <1>2, <1>5
  <2>. QED  BY <2>1, NoRegisters
<1>13. Loading(p, th2, mm2)
  BY <1>7, <1>8 DEF Loading
<1>14. ~ Past(th2, Loads(p)) /\ ~ Past(th2, Loads(p) + 1) /\ ~ Past(th2, Loads(p) + N + 1)
       /\ ~ Past(th2, Loads(p) + 2 * N + 2)
  BY <1>1, <1>2, <1>9 DEF Slowest
<1>. QED  BY <1>0, <1>7, <1>10, <1>11, <1>12, <1>13, <1>14
          DEF DataOK, Pivoting, ForwardPhase, BackwardPhase, Storing

(* The barrier after the loads *)
LEMMA Loaded ==
  ASSUME NEW p, NEW th, NEW mm, NEW o \in Thread, NEW t, NEW th2,
         Stepping(p, th, o, t, th2), DataOK(p, th, mm),
         NEW i, NEW b, NEW x, NEW n, State(th[o], i, b, x, n), th[o].pc = "load", ~ (b < N),
         State(t, i, b, x, n + 1), t.pc = "pivot"
  PROVE  DataOK(p, th2, mm)
<1>0. /\ Threads(p, th) /\ Threads(p, th2) /\ Factored(p) /\ p.b \in Column
      /\ mm \in [{"B", "sol"} -> Column] /\ \A u \in Thread : InRange(th[u])
  BY DEF Stepping, DataOK
<1>1. /\ Loads(p) \in Int /\ (p.local => Loads(p) = 1) /\ N \in Nat /\ N > 0 /\ 0 \in Thread
      /\ \A r \in Rows : r \in 0..(N - 1)
  BY <1>0, Counts
<1>2. p.local /\ n = 0 /\ b \in Int
  BY <1>0, StateOf, ThreadAt, Position
<1>3. th2[o] = t /\ \A u \in Thread \ {o} : th2[u] = th[u]
  BY StepTo
<1>4. /\ th[o].pc = "load" /\ th[o].b = b /\ th[o].barriers = 0 /\ th[o].x = x
      /\ t.pc = "pivot" /\ t.b = b /\ t.barriers = 1 /\ t.x = x
  BY <1>2, StateOf
<1>5. t.barriers = th[o].barriers + 1 /\ Fresh(p, o, t)
  BY <1>4 DEF Fresh
<1>6. /\ mm["B"] = p.b
      /\ \A u \in Thread : \A r \in Rows :
           Dealt(u, r, 0) /\ (th[u].pc # "load" \/ th[u].b > r) => mm["sol"][r] = p.b[r]
  <2>0. Slowest(th, 0)
    BY <1>4, SlowestBefore
  <2>1. ~ Past(th, 1)
    BY <2>0 DEF Slowest
  <2>. QED  BY <1>2, <2>1 DEF DataOK, Loading
<1>7. ASSUME NEW u \in Thread, NEW r \in Rows, Dealt(u, r, 0), th2[u].pc # "load" \/ th2[u].b > r
      PROVE  mm["sol"][r] = p.b[r]
  <2>1. CASE u # o
    BY <1>3, <1>6, <1>7, <2>1
  <2>2. CASE u = o
    <3>1. th[o].b > r
      BY <1>1, <1>2, <1>4
    <3>. QED  BY <1>6, <1>7, <2>2, <3>1
  <2>. QED  BY <2>1, <2>2
<1>8. /\ \A m \in Int : m > 1 => ~ Past(th2, m)
      /\ Past(th2, 1) => \A u \in Thread : th2[u].barriers = 1 /\ Fresh(p, u, th2[u])
  <2>1. Arriving(p, th2, 0)
    BY <1>4, <1>5, ArrivingAfter
  <2>. QED  BY <2>1 DEF Arriving
<1>9. \A u \in Thread : InRange(th2[u])
  <2>1. InRange(th[o])
    BY <1>0
  <2>2. InRange(t)
    BY <1>4, <2>1 DEF InRange
  <2>. QED  BY <1>0, <2>2, RangesKept
<1>10. Close(p, th2)
  BY <1>5, StaysClose
<1>11. Registers(p, th2, mm[Area(p)])
  <2>1. th[o].barriers <= Loads(p) /\ t.pc \notin {"eliminate", "substitute", "result"}
    BY <1>1, <1>2, <1>4
  <2>. QED  BY <2>1, NoRegisters
<1>12. Loading(p, th2, mm)
  BY <1>6, <1>7 DEF Loading
<1>13. Pivoting(p, th2, mm[Area(p)])
  <2>. SUFFICES ASSUME Past(th2, 1) PROVE mm["sol"] = p.b /\ th2[0].barriers = Loads(p)
    BY <1>1, <1>2 DEF Pivoting, Area
  <2>1. th2[0].barriers = 1
    BY <1>1, <1>8
  <2>2. ASSUME NEW r \in Rows PROVE mm["sol"][r] = p.b[r]
    <3>1. PICK u \in Thread : Dealt(u, r, 0)
      BY <1>1, DealtToSome
    <3>2. th2[u].pc # "load"
      BY <1>8 DEF Fresh
    <3>. QED  BY <1>7, <3>1, <3>2
  <2>3. mm["sol"] \in Column
    BY <1>0
  <2>4. mm["sol"] = p.b
    BY <1>0, <2>2, <2>3 DEF Column
  <2>. QED  BY <1>1, <1>2, <2>1, <2>4
<1>14. ~ Past(th2, Loads(p) + 1) /\ ~ Past(th2, Loads(p) + N + 1) /\ ~ Past(th2, Loads(p) + 2 * N + 2)
  BY <1>1, <1>2, <1>8
<1>. QED  BY <1>0, <1>9, <1>10, <1>11, <1>12, <1>13, <1>14
          DEF DataOK, ForwardPhase, BackwardPhase, Storing

(* Thread 0 exchanges rows, and the barrier after it. *)
LEMMA Pivots0 ==
  ASSUME NEW p, NEW th, NEW mm, NEW o \in Thread, NEW t, NEW th2, NEW mm2,
         Stepping(p, th, o, t, th2), DataOK(p, th, mm),
         NEW i, NEW b, NEW x, NEW n, State(th[o], i, b, x, n), th[o].pc = "pivot",
         State(t, i, b, x, n + 1), t.pc = "forward",
         mm2 = IF o = 0 THEN [mm EXCEPT ![Area(p)] = Pivoted(p.piv, @)] ELSE mm
  PROVE  DataOK(p, th2, mm2)
<1>0. /\ Threads(p, th) /\ Threads(p, th2) /\ Factored(p) /\ p.b \in Column
      /\ mm \in [{"B", "sol"} -> Column] /\ \A u \in Thread : InRange(th[u])
  BY DEF Stepping, DataOK
<1>1. /\ Loads(p) \in Int /\ (p.local => Loads(p) = 1) /\ N \in Nat /\ N > 0 /\ 0 \in Thread
      /\ \A r \in Rows : r \in 0..(N - 1)
  BY <1>0, Counts
<1>2. n = Loads(p) /\ b \in Int
  BY <1>0, StateOf, ThreadAt, Position
<1>3. th2[o] = t /\ \A u \in Thread \ {o} : th2[u] = th[u]
  BY StepTo
<1>4. /\ th[o].b = b /\ th[o].barriers = Loads(p) /\ th[o].x = x
      /\ t.pc = "forward" /\ t.b = b /\ t.barriers = Loads(p) + 1 /\ t.x = x
  BY <1>2, StateOf
<1>5. t.barriers = th[o].barriers + 1 /\ Fresh(p, o, t)
  BY <1>4 DEF Fresh
<1>6. PICK area \in {"B", "sol"} : area = Area(p)
  BY DEF Area
<1>7. mm[area] = IF th[0].barriers = Loads(p) THEN p.b ELSE Target(p)
  <2>1. Slowest(th, Loads(p))
    BY <1>4, SlowestBefore
  <2>2. Past(th, Loads(p)) /\ ~ Past(th, Loads(p) + 1)
    BY <1>1, <2>1 DEF Slowest
  <2>. QED  BY <1>6, <2>2 DEF DataOK, Pivoting
<1>8. Target(p) \in Column
  BY <1>0, PivotedMoves DEF Target, Factored
<1>9. /\ mm2 \in [{"B", "sol"} -> Column]
      /\ mm2[area] = IF th2[0].barriers = Loads(p) THEN p.b ELSE Target(p)
  <2>1. CASE o = 0
    <3>1. mm[area] = p.b
      BY <1>4, <1>7, <2>1
    <3>2. mm2 = [mm EXCEPT ![area] = Target(p)]
      BY <1>6, <2>1, <3>1 DEF Target
    <3>3. mm2 \in [{"B", "sol"} -> Column] /\ mm2[area] = Target(p)
      BY <1>0, <1>8, <3>2
    <3>4. th2[0].barriers # Loads(p)
      BY <1>1, <1>3, <1>4, <2>1
    <3>. QED  BY <3>3, <3>4
  <2>2. CASE o # 0
    <3>1. mm2 = mm /\ th2[0] = th[0]
      BY <1>1, <1>3, <2>2
    <3>. QED  BY <1>0, <1>7, <3>1
  <2>. QED  BY <2>1, <2>2
<1>10. /\ \A m \in Int : /\ m <= Loads(p) => Past(th2, m)
                         /\ m > Loads(p) + 1 => ~ Past(th2, m)
       /\ Past(th2, Loads(p) + 1) =>
            \A u \in Thread : th2[u].barriers = Loads(p) + 1 /\ Fresh(p, u, th2[u])
  <2>1. Arriving(p, th2, Loads(p))
    BY <1>4, <1>5, ArrivingAfter
  <2>. QED  BY <2>1 DEF Arriving
<1>11. \A u \in Thread : InRange(th2[u])
  <2>1. InRange(th[o])
    BY <1>0
  <2>2. InRange(t)
    BY <1>4, <2>1 DEF InRange
  <2>. QED  BY <1>0, <2>2, RangesKept
<1>12. Close(p, th2)
  BY <1>5, StaysClose
<1>13. Registers(p, th2, mm2[Area(p)])
  <2>1. th[o].barriers <= Loads(p) /\ t.pc \notin {"eliminate", "substitute", "result"}
    BY <1>1, <1>4
  <2>. QED  BY <2>1, NoRegisters
<1>14. Loading(p, th2, mm2)
  <2>1. p.local => Past(th2, 1)
    BY <1>1, <1>10
  <2>. QED  BY <2>1 DEF Loading
<1>15. Pivoting(p, th2, mm2[Area(p)])
  BY <1>6, <1>9 DEF Pivoting
<1>16. ForwardPhase(p, th2, mm2[Area(p)])
  <2>. SUFFICES ASSUME Past(th2, Loads(p) + 1), NEW r \in Rows
                PROVE  Plus(mm2[area][r], Dot(p.A, r, mm2[area], Eliminated(p, th2, r))) = Target(p)[r]
    BY <1>6 DEF ForwardPhase, ForwardRows
  <2>1. mm2[area] = Target(p)
    BY <1>1, <1>9, <1>10
  <2>2. Eliminated(p, th2, r) = {}
    <3>1. ASSUME NEW j \in 0..(r - 1), NEW u \in Thread PROVE ~ Gone(p, u, th2[u], r, j)
      <4>1. th2[u].barriers = Loads(p) + 1 /\ th2[u].pc # "eliminate"
        BY <1>10 DEF Fresh
      <4>. QED  BY <1>1, <4>1 DEF Gone
    <3>. QED  BY <3>1, Zenon DEF Eliminated
  <2>3. Dot(p.A, r, Target(p), {}) = 0
    BY <1>0, <1>8, DotEmpty DEF Factored
  <2>4. Plus(Target(p)[r], 0) = Target(p)[r]
    BY <1>8, Zeros DEF Column
  <2>. QED  BY <2>1, <2>2, <2>3, <2>4
<1>17. ~ Past(th2, Loads(p) + N + 1) /\ ~ Past(th2, Loads(p) + 2 * N + 2)
  BY <1>1, <1>10
<1>. QED  BY <1>0, <1>9, <1>11, <1>12, <1>13, <1>14, <1>15, <1>16, <1>17
          DEF DataOK, BackwardPhase, Storing

-----------------------------------------------------------------------------
(* The forward loop *)

(* While the slowest thread is in the forward loop only its phase matters. *)
LEMMA OnlyForward ==
  ASSUME NEW p, NEW th, Threads(p, th), NEW mm, NEW n \in Int, n >= Loads(p) + 1,
         \/ n <= Loads(p) + N /\ Slowest(th, n)
         \/ n < Loads(p) + N /\ Arriving(p, th, n),
         ForwardRows(p, th, mm[Area(p)])
  PROVE  /\ Loading(p, th, mm) /\ Pivoting(p, th, mm[Area(p)]) /\ ForwardPhase(p, th, mm[Area(p)])
         /\ BackwardPhase(p, th, mm[Area(p)]) /\ Storing(p, th, mm)
<1>1. Loads(p) \in Int /\ Loads(p) >= 0 /\ (p.local => Loads(p) = 1) /\ N \in Nat /\ N > 0
  BY Counts
<1>2. /\ p.local => Past(th, 1)
      /\ Past(th, Loads(p) + 1)
      /\ ~ Past(th, Loads(p) + N + 1) /\ ~ Past(th, Loads(p) + 2 * N + 2)
  BY <1>1 DEF Slowest, Arriving
<1>. QED  BY <1>2 DEF Loading, Pivoting, ForwardPhase, BackwardPhase, Storing

LEMMA InForward ==
  ASSUME NEW p, NEW th, NEW mm, NEW o \in Thread, NEW t, NEW th2,
         Stepping(p, th, o, t, th2), DataOK(p, th, mm), th[o].pc \in {"forward", "eliminate"}
  PROVE  /\ ForwardRows(p, th, mm[Area(p)])
         /\ th[o].barriers \in (Loads(p) + 1)..(Loads(p) + N)
<1>0. Threads(p, th)
  BY DEF Stepping
<1>1. Loads(p) \in Int /\ N \in Nat /\ N > 0
  BY <1>0, Counts
<1>2. th[o].barriers = Loads(p) + 1 + th[o].i /\ th[o].i \in 0..(N - 1)
  BY <1>0, Position, ThreadAt
<1>3. Slowest(th, th[o].barriers)
  BY SlowestBefore
<1>4. Past(th, Loads(p) + 1) /\ ~ Past(th, Loads(p) + N + 1)
  BY <1>1, <1>2, <1>3 DEF Slowest
<1>. QED  BY <1>1, <1>2, <1>4 DEF DataOK, ForwardPhase

(* The other threads do not touch the values of this column.               *)
LEMMA OthersForward ==
  ASSUME NEW p, NEW th, NEW o \in Thread, NEW t, NEW th2,
         Stepping(p, th, o, t, th2), th[o].pc \in {"forward", "eliminate"},
         NEW u \in Thread, u # o
  PROVE  /\ th2[u] = th[u] /\ th2[u].pc \notin {"substitute", "result"}
         /\ th2[u].barriers <= th[o].barriers + 1
         /\ th2[u].pc = "eliminate" => th2[u].i = th[o].i /\ th2[u].barriers = th[o].barriers
<1>0. Threads(p, th) /\ Threads(p, th2)
  BY DEF Stepping
<1>1. /\ Loads(p) \in Int /\ N \in Nat /\ N > 0 /\ th2[u].barriers \in Nat /\ th[o].barriers \in Nat
      /\ th2[u].i \in 0..(N - 1)
  BY <1>0, Counts
<1>2. th[o].barriers = Loads(p) + 1 + th[o].i /\ th[o].i \in 0..(N - 1)
  BY <1>0, Position, ThreadAt
<1>3. /\ th2[u] = th[u]
      /\ \/ th2[u].barriers = th[o].barriers
         \/ th2[u].barriers = th[o].barriers + 1 /\ Fresh(p, u, th2[u])
  BY OthersAfter
<1>4. th2[u].pc \notin {"substitute", "result"}
  <2>1. \/ th2[u].barriers <= Loads(p) + N
        \/ th2[u].barriers <= Loads(p) + N + 1 /\ Fresh(p, u, th2[u])
    BY <1>1, <1>2, <1>3
  <2>. QED  BY <1>0, <2>1, NotBackward
<1>5. ASSUME th2[u].pc = "eliminate" PROVE th2[u].i = th[o].i /\ th2[u].barriers = th[o].barriers
  <2>1. ~ Fresh(p, u, th2[u])
    BY <1>5 DEF Fresh
  <2>2. th2[u].barriers = Loads(p) + 1 + th2[u].i
    BY <1>0, <1>5, Position
  <2>. QED  BY <1>1, <1>2, <1>3, <2>1, <2>2
<1>. QED  BY <1>1, <1>3, <1>4, <1>5

(* x = sol[i] *)
LEMMA ReadsForward ==
  ASSUME NEW p, NEW th, NEW mm, NEW o \in Thread, NEW t, NEW th2,
         Stepping(p, th, o, t, th2), DataOK(p, th, mm),
         NEW i, NEW b, NEW x, NEW n, State(th[o], i, b, x, n), th[o].pc = "forward",
         State(t, i, i + o + 1, mm[Area(p)][i], n), t.pc = "eliminate"
  PROVE  DataOK(p, th2, mm)
<1>0. /\ Threads(p, th) /\ Threads(p, th2) /\ Factored(p) /\ p.b \in Column
      /\ mm \in [{"B", "sol"} -> Column] /\ \A u \in Thread : InRange(th[u])
  BY DEF Stepping, DataOK
<1>1. /\ Loads(p) \in Int /\ N \in Nat /\ N > 0 /\ o \in Nat /\ o < BlockSize /\ BlockSize \in Nat
      /\ \A r \in Rows : r \in 0..(N - 1)
  BY <1>0, Counts
<1>2. i \in 0..(N - 1) /\ i \in Rows /\ n = Loads(p) + 1 + i
  BY <1>0, StateOf, ThreadAt, Position
<1>3. th2[o] = t /\ \A u \in Thread \ {o} : th2[u] = th[u]
  BY StepTo
<1>4. PICK m \in Column : m = mm[Area(p)]
  BY <1>0 DEF Area
<1>5. /\ th[o].pc = "forward" /\ th[o].i = i /\ th[o].barriers = n
      /\ t.pc = "eliminate" /\ t.i = i /\ t.b = i + o + 1 /\ t.barriers = n /\ t.x = m[i]
  BY <1>4, StateOf
<1>6. ForwardRows(p, th, m)
  BY <1>4, InForward
<1>7. ASSUME NEW r \in Rows PROVE Eliminated(p, th2, r) = Eliminated(p, th, r)
  <2>1. ASSUME NEW j \in 0..(r - 1) PROVE Gone(p, o, t, r, j) <=> Gone(p, o, th[o], r, j)
    <3>1. r \in Int /\ i + 1 \in Int
      BY <1>1, <1>2
    <3>2. Dealt(o, r, i + 1) => r >= i + 1 + o
      BY <3>1, DealtAbove
    <3>3. t.pc = "eliminate" /\ t.i = j /\ t.b > r => ~ Dealt(o, r, j + 1)
      BY <1>1, <1>2, <1>5, <3>1, <3>2
    <3>. QED  BY <1>5, <3>3 DEF Gone
  <2>. QED  BY <2>1, EliminatedKept
<1>8. ForwardRows(p, th2, m)
  BY <1>6, <1>7 DEF ForwardRows
<1>9. Slowest(th2, n)
  BY <1>5, SlowestAfter
<1>10. /\ Loading(p, th2, mm) /\ Pivoting(p, th2, mm[Area(p)]) /\ ForwardPhase(p, th2, mm[Area(p)])
       /\ BackwardPhase(p, th2, mm[Area(p)]) /\ Storing(p, th2, mm)
  <2>1. n \in Int /\ n >= Loads(p) + 1 /\ n <= Loads(p) + N
    BY <1>1, <1>2
  <2>. QED  BY <1>0, <1>4, <1>8, <1>9, <2>1, OnlyForward
<1>11. \A u \in Thread : InRange(th2[u])
  <2>1. t.x \in Elements
    BY <1>2, <1>5 DEF Column
  <2>2. t.b \in (-N)..(N + BlockSize)
    BY <1>1, <1>2, <1>5
  <2>3. InRange(t)
    BY <2>1, <2>2 DEF InRange
  <2>. QED  BY <1>0, <2>3, RangesKept
<1>12. Close(p, th2)
  BY <1>5, StaysClose
<1>13. Registers(p, th2, m)
  <2>1. ASSUME NEW u \in Thread
        PROVE  /\ th2[u].pc = "eliminate" => th2[u].x = m[th2[u].i]
               /\ th2[u].pc \notin {"substitute", "result"}
    <3>1. CASE u = o
      BY <1>3, <1>5, <3>1
    <3>2. CASE u # o
      <4>1. th2[u] = th[u] /\ th2[u].pc \notin {"substitute", "result"}
        BY <1>5, <3>2, OthersForward
      <4>2. th[u].pc = "eliminate" => th[u].x = m[th[u].i]
        BY <1>4 DEF DataOK, Registers
      <4>. QED  BY <4>1, <4>2
    <3>. QED  BY <3>1, <3>2
  <2>. QED  BY <2>1 DEF Registers
<1>. QED  BY <1>0, <1>4, <1>10, <1>11, <1>12, <1>13 DEF DataOK

(* A term that moves from the element to the sum. *)
LEMMA Moved ==
  ASSUME NEW q \in Elements, NEW d \in Elements, NEW e \in Elements
  PROVE  Plus(Minus(q, e), Plus(d, e)) = Plus(q, d)
<1>1. Minus(q, e) \in Elements /\ Plus(Minus(q, e), e) = q
  BY MinusRules
<1>2. Plus(d, e) = Plus(e, d)
  BY PlusCommutes
<1>3. Plus(Plus(Minus(q, e), e), d) = Plus(Minus(q, e), Plus(e, d))
  BY <1>1, PlusAssociates
<1>. QED  BY <1>1, <1>2, <1>3

Memory(mm) == mm \in [{"B", "sol"} -> Column]

LEMMA PutArea ==
  ASSUME NEW p, NEW mm, Memory(mm), NEW r \in Rows, NEW e \in Elements,
         NEW m, m = mm[Area(p)], NEW mm2, mm2 = Put(mm, Area(p), r, e)
  PROVE  /\ Memory(mm2)
         /\ mm2[Area(p)] \in Column /\ mm2[Area(p)][r] = e
         /\ \A k \in Rows \ {r} : mm2[Area(p)][k] = m[k]
<1>1. PICK v : v = [m EXCEPT ![r] = e]
  OBVIOUS
<1>2. m \in Column
  BY DEF Area, Memory
<1>3. v \in Column /\ v[r] = e /\ \A k \in Rows \ {r} : v[k] = m[k]
  BY <1>1, <1>2 DEF Column
<1>4. mm2 = [mm EXCEPT ![Area(p)] = v]
  BY <1>1 DEF Put
<1>5. Memory(mm2) /\ mm2[Area(p)] = v
  BY <1>3, <1>4 DEF Area, Memory
<1>. QED  BY <1>3, <1>5

(* sol[b] -= A[b, i] * x *)
LEMMA Eliminates ==
  ASSUME NEW p, NEW th, NEW mm, NEW o \in Thread, NEW t, NEW th2, NEW mm2,
         Stepping(p, th, o, t, th2), DataOK(p, th, mm),
         NEW i, NEW b, NEW x, NEW n, State(th[o], i, b, x, n), th[o].pc = "eliminate", b < N,
         State(t, i, b + BlockSize, x, n), t.pc = "eliminate",
         mm2 = Put(mm, Area(p), b, Minus(mm[Area(p)][b], Times(Entry(p.A, b, i), x)))
  PROVE  DataOK(p, th2, mm2)
<1>0. /\ Threads(p, th) /\ Threads(p, th2) /\ Factored(p) /\ p.b \in Column
      /\ mm \in [{"B", "sol"} -> Column] /\ \A u \in Thread : InRange(th[u]) /\ p.A \in Square
  BY DEF Stepping, DataOK, Factored
<1>1. /\ Loads(p) \in Int /\ N \in Nat /\ N > 0 /\ o \in Nat /\ o < BlockSize /\ BlockSize \in Nat
      /\ \A r \in Rows : r \in 0..(N - 1)
  BY <1>0, Counts
<1>2. /\ i \in 0..(N - 1) /\ i \in Rows /\ n = Loads(p) + 1 + i
      /\ b \in Int /\ Dealt(o, b, i + 1)
  BY <1>0, StateOf, ThreadAt, Position
<1>3. b \in Rows /\ b > i
  <2>1. b >= i + 1
    BY <1>2, DealtFrom
  <2>. QED  BY <1>1, <1>2, <2>1 DEF Rows
<1>4. th2[o] = t /\ \A u \in Thread \ {o} : th2[u] = th[u]
  BY StepTo
<1>5. PICK area \in {"B", "sol"}, m \in Column : area = Area(p) /\ m = mm[area]
  BY <1>0 DEF Area
<1>6. /\ th[o].pc = "eliminate" /\ th[o].i = i /\ th[o].b = b /\ th[o].barriers = n /\ th[o].x = x
      /\ t.pc = "eliminate" /\ t.i = i /\ t.b = b + BlockSize /\ t.barriers = n /\ t.x = x
  BY StateOf
<1>7. x = m[i] /\ x \in Elements
  <2>1. x = m[i]
    BY <1>5, <1>6 DEF DataOK, Registers
  <2>. QED  BY <1>2, <2>1 DEF Column
<1>8. PICK e \in Elements : e = Times(Entry(p.A, b, i), x)
  <2>1. Entry(p.A, b, i) \in Elements
    BY <1>0, <1>2, <1>3, EntryIn
  <2>. QED  BY <1>7, <2>1, Closed
<1>9. m[b] \in Elements /\ Minus(m[b], e) \in Elements
  <2>1. m[b] \in Elements
    BY <1>3 DEF Column
  <2>. QED  BY <2>1, Closed
<1>10. PICK m2 : m2 = mm2[area]
  OBVIOUS
<1>11. /\ mm2 \in [{"B", "sol"} -> Column] /\ m2 \in Column /\ m2[b] = Minus(m[b], e)
       /\ \A k \in Rows \ {b} : m2[k] = m[k]
  <2>1. PICK v \in Elements : v = Minus(m[b], e)
    BY <1>9
  <2>2. m = mm[Area(p)] /\ mm2 = Put(mm, Area(p), b, v)
    BY <1>5, <1>8, <2>1
  <2>3. Memory(mm)
    BY <1>0 DEF Memory
  <2>4. /\ Memory(mm2)
        /\ mm2[Area(p)] \in Column /\ mm2[Area(p)][b] = v
        /\ \A k \in Rows \ {b} : mm2[Area(p)][k] = m[k]
    BY <1>3, <2>2, <2>3, PutArea
  <2>. QED  BY <1>5, <1>10, <2>1, <2>4 DEF Memory
<1>12. ForwardRows(p, th, m)
  BY <1>5, <1>6, InForward
<1>13. ASSUME NEW r \in Rows, NEW j \in 0..(r - 1)
       PROVE  Gone(p, o, t, r, j) <=> Gone(p, o, th[o], r, j) \/ (r = b /\ j = i)
  <2>1. r \in Int /\ i + 1 \in Int /\ j \in Int
    BY <1>1, <1>2
  <2>2. CASE r = b /\ j = i
    BY <1>1, <1>2, <1>6, <2>2 DEF Gone
  <2>3. CASE ~ (r = b /\ j = i)
    <3>1. Dealt(o, r, i + 1) /\ r > b => b + BlockSize <= r
      BY <1>2, <2>1, DealtApart
    <3>2. Dealt(o, r, j + 1) /\ j = i => (b + BlockSize > r <=> b > r)
      BY <1>1, <1>2, <2>1, <2>3, <3>1
    <3>. QED  BY <1>6, <2>3, <3>2 DEF Gone
  <2>. QED  BY <2>2, <2>3
<1>14. ASSUME NEW u \in Thread PROVE ~ Gone(p, u, th[u], b, i)
  <2>1. CASE u = o
    BY <1>1, <1>2, <1>6, <2>1 DEF Gone
  <2>2. CASE u # o
    <3>1. i + 1 \in Int
      BY <1>2
    <3>2. ~ Dealt(u, b, i + 1)
      BY <1>2, <2>2, <3>1, DealtOnce
    <3>. QED  BY <3>2 DEF Gone
  <2>. QED  BY <2>1, <2>2
<1>15. ASSUME NEW r \in Rows PROVE b \notin Eliminated(p, th2, r)
  <2>1. ASSUME NEW u \in Thread PROVE ~ Gone(p, u, th2[u], r, b)
    <3>1. CASE u = o
      BY <1>1, <1>2, <1>3, <1>4, <1>6, <3>1 DEF Gone
    <3>2. CASE u # o
      <4>1. /\ th2[u].barriers <= th[o].barriers + 1
            /\ th2[u].pc = "eliminate" => th2[u].i = th[o].i
        BY <1>6, <3>2, OthersForward
      <4>2. th2[u].barriers \in Nat
        BY <1>0, Counts
      <4>3. th2[u].barriers <= n + 1 /\ (th2[u].pc = "eliminate" => th2[u].i = i)
        BY <1>6, <4>1
      <4>. QED  BY <1>1, <1>2, <1>3, <4>2, <4>3 DEF Gone
    <3>. QED  BY <3>1, <3>2
  <2>. QED  BY <2>1 DEF Eliminated
<1>16. ASSUME NEW r \in Rows, r # b
       PROVE  Plus(m2[r], Dot(p.A, r, m2, Eliminated(p, th2, r))) = Target(p)[r]
  <2>1. \A j \in 0..(r - 1) : Gone(p, o, t, r, j) <=> Gone(p, o, th[o], r, j)
    BY <1>13, <1>16
  <2>2. Eliminated(p, th2, r) = Eliminated(p, th, r)
    BY <2>1, EliminatedKept
  <2>3. PICK S : S = Eliminated(p, th2, r)
    OBVIOUS
  <2>4. \A k \in Rows : k \in S => m[k] = m2[k]
    BY <1>11, <1>15, <2>3
  <2>5. Dot(p.A, r, m, S) = Dot(p.A, r, m2, S)
    BY <1>0, <1>11, <2>4, DotAgree
  <2>6. m2[r] = m[r]
    BY <1>11, <1>16
  <2>7. Plus(m[r], Dot(p.A, r, m, S)) = Target(p)[r]
    BY <1>12, <2>2, <2>3 DEF ForwardRows
  <2>. QED  BY <2>3, <2>5, <2>6, <2>7
<1>17. Plus(m2[b], Dot(p.A, b, m2, Eliminated(p, th2, b))) = Target(p)[b]
  <2>1. PICK S : S = Eliminated(p, th, b)
    OBVIOUS
  <2>2. i \notin S
    BY <1>14, <2>1 DEF Eliminated
  <2>3. Eliminated(p, th2, b) = S \cup {i}
    <3>1. i \in 0..(b - 1)
      BY <1>2, <1>3
    <3>2. \A j \in 0..(b - 1) : Gone(p, o, t, b, j) <=> Gone(p, o, th[o], b, j) \/ j = i
      BY <1>3, <1>13
    <3>3. ASSUME NEW j \in 0..(b - 1)
          PROVE  (\E u \in Thread : Gone(p, u, th2[u], b, j))
                   <=> (\E u \in Thread : Gone(p, u, th[u], b, j)) \/ j = i
      <4>1. \A u \in Thread \ {o} : Gone(p, u, th2[u], b, j) <=> Gone(p, u, th[u], b, j)
        BY <1>4
      <4>2. Gone(p, o, th2[o], b, j) <=> Gone(p, o, th[o], b, j) \/ j = i
        BY <1>4, <3>2
      <4>. QED  BY <4>1, <4>2
    <3>4. ASSUME NEW j PROVE j \in Eliminated(p, th2, b) <=> j \in Eliminated(p, th, b) \cup {i}
      BY <3>1, <3>3 DEF Eliminated
    <3>. QED  BY <2>1, <3>4
  <2>4. \A k \in Rows : k \in S \cup {i} => m[k] = m2[k]
    BY <1>3, <1>11, <1>15, <2>3
  <2>5. Dot(p.A, b, m, S \cup {i}) = Dot(p.A, b, m2, S \cup {i})
    BY <1>0, <1>3, <1>11, <2>4, DotAgree
  <2>6. Dot(p.A, b, m, S \cup {i}) = Plus(Dot(p.A, b, m, S), e)
    BY <1>0, <1>2, <1>3, <1>7, <1>8, <2>2, DotMore
  <2>7. Dot(p.A, b, m, S) \in Elements
    BY <1>0, <1>3, DotIn
  <2>8. Plus(m2[b], Plus(Dot(p.A, b, m, S), e)) = Plus(m[b], Dot(p.A, b, m, S))
    BY <1>9, <1>11, <2>7, Moved
  <2>9. Plus(m[b], Dot(p.A, b, m, S)) = Target(p)[b]
    BY <1>3, <1>12, <2>1 DEF ForwardRows
  <2>. QED  BY <2>3, <2>5, <2>6, <2>8, <2>9
<1>18. ForwardRows(p, th2, m2)
  BY <1>16, <1>17 DEF ForwardRows
<1>19. Slowest(th2, n)
  BY <1>6, SlowestAfter
<1>20. /\ Loading(p, th2, mm2) /\ Pivoting(p, th2, mm2[Area(p)]) /\ ForwardPhase(p, th2, mm2[Area(p)])
       /\ BackwardPhase(p, th2, mm2[Area(p)]) /\ Storing(p, th2, mm2)
  <2>1. n \in Int /\ n >= Loads(p) + 1 /\ n <= Loads(p) + N
    BY <1>1, <1>2
  <2>. QED  BY <1>0, <1>5, <1>10, <1>18, <1>19, <2>1, OnlyForward
<1>21. \A u \in Thread : InRange(th2[u])
  <2>1. t.b \in (-N)..(N + BlockSize)
    BY <1>1, <1>2, <1>3, <1>6
  <2>2. InRange(t)
    BY <1>6, <1>7, <2>1 DEF InRange
  <2>. QED  BY <1>0, <2>2, RangesKept
<1>22. Close(p, th2)
  BY <1>6, StaysClose
<1>23. Registers(p, th2, m2)
  <2>1. m2[i] = m[i]
    BY <1>2, <1>3, <1>11
  <2>2. ASSUME NEW u \in Thread
        PROVE  /\ th2[u].pc = "eliminate" => th2[u].x = m2[th2[u].i]
               /\ th2[u].pc \notin {"substitute", "result"}
    <3>1. CASE u = o
      BY <1>4, <1>6, <1>7, <2>1, <3>1
    <3>2. CASE u # o
      <4>1. /\ th2[u] = th[u] /\ th2[u].pc \notin {"substitute", "result"}
            /\ th2[u].pc = "eliminate" => th2[u].i = i
        BY <1>6, <3>2, OthersForward
      <4>2. th[u].pc = "eliminate" => th[u].x = m[th[u].i]
        BY <1>5 DEF DataOK, Registers
      <4>. QED  BY <2>1, <4>1, <4>2
    <3>. QED  BY <3>1, <3>2
  <2>. QED  BY <2>2 DEF Registers
<1>. QED  BY <1>0, <1>5, <1>10, <1>11, <1>20, <1>21, <1>22, <1>23 DEF DataOK

(* At the end of a column what has not been eliminated is 0. *)
LEMMA ColumnDone ==
  ASSUME NEW p, NEW th, NEW mm, NEW o \in Thread, NEW t, NEW th2,
         Stepping(p, th, o, t, th2), DataOK(p, th, mm),
         NEW i, NEW b, NEW x, NEW n, State(th[o], i, b, x, n), th[o].pc = "eliminate",
         ~ (b <= i + p.lbw /\ b < N), t.pc \notin {"eliminate", "substitute", "result"},
         t.barriers = n + 1
  PROVE  ForwardRows(p, th2, mm[Area(p)]) /\ Registers(p, th2, mm[Area(p)])
<1>0. /\ Threads(p, th) /\ Threads(p, th2) /\ Factored(p) /\ p.A \in Square /\ p.lbw \in 0..(N - 1)
      /\ mm \in [{"B", "sol"} -> Column]
  BY DEF Stepping, DataOK, Factored
<1>1. /\ Loads(p) \in Int /\ N \in Nat /\ N > 0 /\ \A r \in Rows : r \in 0..(N - 1)
  BY <1>0, Counts
<1>2. /\ i \in 0..(N - 1) /\ i \in Rows /\ n = Loads(p) + 1 + i /\ b \in Int
  BY <1>0, StateOf, ThreadAt, Position
<1>3. PICK m \in Column : m = mm[Area(p)]
  BY <1>0 DEF Area
<1>4. th[o].pc = "eliminate" /\ th[o].i = i /\ th[o].b = b /\ th[o].barriers = n
  BY StateOf
<1>5. th2[o] = t /\ \A u \in Thread \ {o} : th2[u] = th[u]
  BY StepTo
<1>6. ForwardRows(p, th, m)
  BY <1>3, <1>4, InForward
<1>7. ASSUME NEW r \in Rows
      PROVE  Plus(m[r], Dot(p.A, r, m, Eliminated(p, th2, r))) = Target(p)[r]
  <2>1. ASSUME NEW j \in 0..(r - 1)
        PROVE  \/ Gone(p, o, t, r, j) <=> Gone(p, o, th[o], r, j)
               \/ Entry(p.A, r, j) = 0
    <3>1. CASE j = i /\ b <= r
      <4>1. r - i > p.lbw
        BY <1>0, <1>1, <1>2, <3>1
      <4>2. Entry(p.A, r, i) = 0
        BY <1>0, <1>2, <4>1 DEF Factored, InLowerBand
      <4>. QED  BY <3>1, <4>2
    <3>2. CASE j = i /\ b > r
      BY <1>1, <1>2, <1>4, <3>2 DEF Gone
    <3>3. CASE j # i
      BY <1>1, <1>2, <1>4, <3>3 DEF Gone
    <3>. QED  BY <1>1, <1>2, <3>1, <3>2, <3>3
  <2>2. PICK S, S2 : S = Eliminated(p, th, r) /\ S2 = Eliminated(p, th2, r)
    OBVIOUS
  <2>3. ASSUME NEW k \in Rows
        PROVE  \/ k \in S /\ k \in S2
               \/ k \notin S /\ k \notin S2
               \/ Entry(p.A, r, k) = 0
    <3>1. CASE k \in 0..(r - 1)
      <4>1. CASE Gone(p, o, t, r, k) <=> Gone(p, o, th[o], r, k)
        <5>1. \A u \in Thread : Gone(p, u, th2[u], r, k) <=> Gone(p, u, th[u], r, k)
          BY <1>5, <4>1
        <5>2. k \in S <=> k \in S2
          BY <2>2, <3>1, <5>1 DEF Eliminated
        <5>. QED  BY <5>2
      <4>. QED  BY <2>1, <3>1, <4>1
    <3>2. CASE k \notin 0..(r - 1)
      BY <2>2, <3>2 DEF Eliminated
    <3>. QED  BY <3>1, <3>2
  <2>4. Dot(p.A, r, m, S) = Dot(p.A, r, m, S2)
    BY <1>0, <2>3, DotSame
  <2>. QED  BY <1>6, <2>2, <2>4 DEF ForwardRows
<1>8. ASSUME NEW u \in Thread
      PROVE  /\ th2[u].pc = "eliminate" => th2[u].x = m[th2[u].i]
             /\ th2[u].pc \notin {"substitute", "result"}
  <2>1. CASE u = o
    BY <1>5, <2>1
  <2>2. CASE u # o
    <3>1. th2[u] = th[u] /\ th2[u].pc \notin {"substitute", "result"}
      BY <1>4, <2>2, OthersForward
    <3>2. th[u].pc = "eliminate" => th[u].x = m[th[u].i]
      BY <1>3 DEF DataOK, Registers
    <3>. QED  BY <3>1, <3>2
  <2>. QED  BY <2>1, <2>2
<1>. QED  BY <1>3, <1>7, <1>8 DEF ForwardRows, Registers

(* The barrier at the end of a column, and the next one *)
LEMMA NextForward ==
  ASSUME NEW p, NEW th, NEW mm, NEW o \in Thread, NEW t, NEW th2,
         Stepping(p, th, o, t, th2), DataOK(p, th, mm),
         NEW i, NEW b, NEW x, NEW n, State(th[o], i, b, x, n), th[o].pc = "eliminate",
         ~ (b <= i + p.lbw /\ b < N), i < N - 1,
         State(t, i + 1, b, x, n + 1), t.pc = "forward"
  PROVE  DataOK(p, th2, mm)
<1>0. /\ Threads(p, th) /\ Threads(p, th2) /\ Factored(p) /\ p.b \in Column
      /\ mm \in [{"B", "sol"} -> Column] /\ \A u \in Thread : InRange(th[u])
  BY DEF Stepping, DataOK
<1>1. /\ Loads(p) \in Int /\ N \in Nat /\ N > 0
  BY <1>0, Counts
<1>2. /\ i \in 0..(N - 1) /\ n = Loads(p) + 1 + i /\ b \in Int
  BY <1>0, StateOf, ThreadAt, Position
<1>3. /\ th[o].pc = "eliminate" /\ th[o].b = b /\ th[o].barriers = n /\ th[o].x = x
      /\ t.pc = "forward" /\ t.b = b /\ t.barriers = n + 1 /\ t.x = x
  BY StateOf
<1>4. t.barriers = th[o].barriers + 1 /\ Fresh(p, o, t)
  BY <1>3 DEF Fresh
<1>5. ForwardRows(p, th2, mm[Area(p)]) /\ Registers(p, th2, mm[Area(p)])
  BY <1>3, ColumnDone
<1>6. Arriving(p, th2, n)
  BY <1>3, <1>4, ArrivingAfter
<1>7. /\ Loading(p, th2, mm) /\ Pivoting(p, th2, mm[Area(p)]) /\ ForwardPhase(p, th2, mm[Area(p)])
      /\ BackwardPhase(p, th2, mm[Area(p)]) /\ Storing(p, th2, mm)
  <2>1. n \in Int /\ n >= Loads(p) + 1 /\ n < Loads(p) + N
    BY <1>1, <1>2
  <2>. QED  BY <1>0, <1>5, <1>6, <2>1, OnlyForward
<1>8. \A u \in Thread : InRange(th2[u])
  <2>1. InRange(t)
    BY <1>0, <1>3 DEF InRange
  <2>. QED  BY <1>0, <2>1, RangesKept
<1>9. Close(p, th2)
  BY <1>4, StaysClose
<1>. QED  BY <1>0, <1>5, <1>7, <1>8, <1>9 DEF DataOK

(* Behind the last column LX = Pb holds, and the backward loop begins.     *)
LEMMA TurnsBack ==
  ASSUME NEW p, NEW th, Threads(p, th), Factored(p), NEW m \in Column, ForwardRows(p, th, m),
         Target(p) \in Column,
         \A u \in Thread : th[u].barriers = Loads(p) + N + 1 /\ Fresh(p, u, th[u])
  PROVE  SolvesLower(p.A, m, Target(p)) /\ BackwardRows(p, th, Divided(p, th[0], m), m)
<1>1. /\ Loads(p) \in Int /\ N \in Nat /\ N > 0 /\ 0 \in Thread /\ \A r \in Rows : r \in 0..(N - 1)
      /\ p.A \in Square /\ Regular(p.A)
  BY Counts DEF Factored
<1>2. ASSUME NEW r \in Rows PROVE Plus(m[r], Dot(p.A, r, m, 0..(r - 1))) = Target(p)[r]
  <2>1. ASSUME NEW j \in 0..(r - 1) PROVE \E u \in Thread : Gone(p, u, th[u], r, j)
    <3>0. j + 1 \in Int /\ r \in Int /\ r >= j + 1
      BY <1>1
    <3>1. PICK u \in Thread : Dealt(u, r, j + 1)
      BY <3>0, DealtToSome
    <3>2. th[u].barriers > Loads(p) + 1 + j
      BY <1>1
    <3>. QED  BY <3>1, <3>2 DEF Gone
  <2>2. Eliminated(p, th, r) = 0..(r - 1)
    BY <2>1 DEF Eliminated
  <2>. QED  BY <2>2 DEF ForwardRows
<1>3. ASSUME NEW r \in Rows
      PROVE  Plus(Times(Entry(p.A, r, r), Divided(p, th[0], m)[r]),
                  Dot(p.A, r, Divided(p, th[0], m), Backed(p, th, r))) = m[r]
  <2>1. PICK z \in Column : z = Divided(p, th[0], m)
    BY DividedIn
  <2>2. Backed(p, th, r) = {}
    <3>1. ASSUME NEW j \in (r + 1)..(N - 1), NEW u \in Thread PROVE ~ Back(p, u, th[u], r, j)
      <4>1. th[u].barriers = Loads(p) + N + 1 /\ th[u].pc # "substitute"
        BY DEF Fresh
      <4>. QED  BY <1>1, <4>1 DEF Back
    <3>. QED  BY <3>1, Zenon DEF Backed
  <2>3. r \notin Written(p, th[0])
    <3>1. th[0].barriers = Loads(p) + N + 1
      BY <1>1
    <3>. QED  BY <1>1, <3>1 DEF Written
  <2>4. m[r] \in Elements /\ Entry(p.A, r, r) \in Elements /\ Entry(p.A, r, r) # 0
    BY <1>1, EntryIn DEF Column, Regular
  <2>5. z[r] = Over(m[r], Entry(p.A, r, r))
    BY <2>1, <2>3 DEF Divided
  <2>6. Times(Entry(p.A, r, r), z[r]) = m[r]
    BY <2>4, <2>5, OverRules, TimesCommutes
  <2>7. Dot(p.A, r, z, {}) = 0
    BY <1>1, DotEmpty
  <2>8. Plus(m[r], 0) = m[r]
    BY <2>4, Zeros
  <2>. QED  BY <2>1, <2>2, <2>6, <2>7, <2>8
<1>. QED  BY <1>2, <1>3 DEF SolvesLower, BackwardRows

(* The barrier at the end of the last column *)
LEMMA LastForward ==
  ASSUME NEW p, NEW th, NEW mm, NEW o \in Thread, NEW t, NEW th2,
         Stepping(p, th, o, t, th2), DataOK(p, th, mm),
         NEW i, NEW b, NEW x, NEW n, State(th[o], i, b, x, n), th[o].pc = "eliminate",
         ~ (b <= i + p.lbw /\ b < N), ~ (i < N - 1),
         State(t, i, b, x, n + 1), t.pc = "backward"
  PROVE  DataOK(p, th2, mm)
<1>0. /\ Threads(p, th) /\ Threads(p, th2) /\ Factored(p) /\ p.b \in Column
      /\ mm \in [{"B", "sol"} -> Column] /\ \A u \in Thread : InRange(th[u])
  BY DEF Stepping, DataOK
<1>1. /\ Loads(p) \in Int /\ (p.local => Loads(p) = 1) /\ Loads(p) >= 0 /\ N \in Nat /\ N > 0
  BY <1>0, Counts
<1>2. /\ i = N - 1 /\ n = Loads(p) + N /\ b \in Int
  <2>1. i \in 0..(N - 1) /\ n = Loads(p) + 1 + i /\ b \in Int
    BY <1>0, StateOf, ThreadAt, Position
  <2>. QED  BY <1>1, <2>1
<1>3. /\ th[o].pc = "eliminate" /\ th[o].b = b /\ th[o].barriers = n /\ th[o].x = x
      /\ t.pc = "backward" /\ t.i = i /\ t.b = b /\ t.barriers = n + 1 /\ t.x = x
  BY StateOf
<1>4. t.barriers = th[o].barriers + 1 /\ Fresh(p, o, t)
  BY <1>2, <1>3 DEF Fresh
<1>5. PICK m \in Column : m = mm[Area(p)]
  BY <1>0 DEF Area
<1>6. ForwardRows(p, th2, m) /\ Registers(p, th2, m)
  BY <1>3, <1>5, ColumnDone
<1>7. /\ \A k \in Int : /\ k <= Loads(p) + N => Past(th2, k)
                        /\ k > Loads(p) + N + 1 => ~ Past(th2, k)
      /\ Past(th2, Loads(p) + N + 1) =>
           \A u \in Thread : th2[u].barriers = Loads(p) + N + 1 /\ Fresh(p, u, th2[u])
  <2>1. Arriving(p, th2, n)
    BY <1>3, <1>4, ArrivingAfter
  <2>2. Arriving(p, th2, Loads(p) + N)
    BY <1>2, <2>1
  <2>. QED  BY <2>2 DEF Arriving
<1>8. Loading(p, th2, mm) /\ Pivoting(p, th2, m) /\ Storing(p, th2, mm)
  <2>1. /\ p.local => Past(th2, 1)
        /\ Past(th2, Loads(p) + 1) /\ ~ Past(th2, Loads(p) + 2 * N + 2)
    BY <1>1, <1>7
  <2>. QED  BY <2>1 DEF Loading, Pivoting, Storing
<1>9. ForwardPhase(p, th2, m)
  BY <1>6 DEF ForwardPhase
<1>10. BackwardPhase(p, th2, m)
  <2>. SUFFICES ASSUME Past(th2, Loads(p) + N + 1)
                PROVE  SolvesLower(p.A, m, Target(p)) /\ BackwardRows(p, th2, Divided(p, th2[0], m), m)
    BY DEF BackwardPhase
  <2>1. \A u \in Thread : th2[u].barriers = Loads(p) + N + 1 /\ Fresh(p, u, th2[u])
    BY <1>7
  <2>2. Target(p) \in Column
    BY <1>0, PivotedMoves DEF Target, Factored
  <2>. QED  BY <1>0, <1>6, <2>1, <2>2, TurnsBack
<1>11. \A u \in Thread : InRange(th2[u])
  <2>1. InRange(t)
    BY <1>0, <1>3 DEF InRange
  <2>. QED  BY <1>0, <2>1, RangesKept
<1>12. Close(p, th2)
  BY <1>4, StaysClose
<1>. QED  BY <1>0, <1>5, <1>6, <1>8, <1>9, <1>10, <1>11, <1>12 DEF DataOK

-----------------------------------------------------------------------------
(* The backward loop *)

LEMMA OnlyBackward ==
  ASSUME NEW p, NEW th, Threads(p, th), NEW mm, NEW n \in Int, n >= Loads(p) + N + 1,
         \/ n <= Loads(p) + 2 * N + 1 /\ Slowest(th, n)
         \/ n < Loads(p) + 2 * N + 1 /\ Arriving(p, th, n),
         NEW y \in Column, SolvesLower(p.A, y, Target(p)),
         BackwardRows(p, th, Divided(p, th[0], mm[Area(p)]), y)
  PROVE  /\ Loading(p, th, mm) /\ Pivoting(p, th, mm[Area(p)]) /\ ForwardPhase(p, th, mm[Area(p)])
         /\ BackwardPhase(p, th, mm[Area(p)]) /\ Storing(p, th, mm)
<1>1. Loads(p) \in Int /\ Loads(p) >= 0 /\ (p.local => Loads(p) = 1) /\ N \in Nat /\ N > 0
  BY Counts
<1>2. /\ p.local => Past(th, 1)
      /\ Past(th, Loads(p) + 1) /\ Past(th, Loads(p) + N + 1)
      /\ ~ Past(th, Loads(p) + 2 * N + 2)
  BY <1>1 DEF Slowest, Arriving
<1>3. BackwardPhase(p, th, mm[Area(p)])
  BY DEF BackwardPhase
<1>. QED  BY <1>2, <1>3 DEF Loading, Pivoting, ForwardPhase, Storing

LEMMA InBackward ==
  ASSUME NEW p, NEW th, NEW mm, NEW o \in Thread, NEW t, NEW th2,
         Stepping(p, th, o, t, th2), DataOK(p, th, mm),
         th[o].pc \in {"backward", "substitute", "result"}
  PROVE  /\ \E y \in Column : /\ SolvesLower(p.A, y, Target(p))
                              /\ BackwardRows(p, th, Divided(p, th[0], mm[Area(p)]), y)
         /\ th[o].barriers \in (Loads(p) + N + 1)..(Loads(p) + 2 * N + 1)
<1>0. Threads(p, th)
  BY DEF Stepping
<1>1. Loads(p) \in Int /\ N \in Nat /\ N > 0
  BY <1>0, Counts
<1>2. /\ \/ th[o].barriers = Loads(p) + 2 * N - th[o].i
         \/ th[o].barriers = Loads(p) + 2 * N + 1 - th[o].i
      /\ th[o].i \in 0..(N - 1)
  BY <1>0, Position, ThreadAt
<1>3. Slowest(th, th[o].barriers)
  BY SlowestBefore
<1>4. th[o].barriers \in (Loads(p) + N + 1)..(Loads(p) + 2 * N + 1)
  BY <1>1, <1>2
<1>5. Past(th, Loads(p) + N + 1) /\ ~ Past(th, Loads(p) + 2 * N + 2)
  BY <1>1, <1>3, <1>4 DEF Slowest
<1>. QED  BY <1>4, <1>5 DEF DataOK, BackwardPhase

(* The other threads are in the same step of the loop, or one is at a      *)
(* result while another has begun the next row.                            *)
LEMMA OthersBackward ==
  ASSUME NEW p, NEW th, NEW o \in Thread, NEW t, NEW th2,
         Stepping(p, th, o, t, th2), th[o].pc \in {"backward", "substitute", "result"},
         NEW u \in Thread, u # o
  PROVE  /\ th2[u] = th[u] /\ th2[u].pc # "eliminate"
         /\ th2[u].barriers \in Nat /\ th2[u].barriers <= th[o].barriers + 1
         /\ th2[u].pc = "substitute" => th2[u].barriers = th[o].barriers
<1>0. Threads(p, th) /\ Threads(p, th2)
  BY DEF Stepping
<1>1. /\ Loads(p) \in Int /\ N \in Nat /\ N > 0 /\ th2[u].barriers \in Nat /\ th[o].barriers \in Nat
      /\ th2[u].i \in 0..(N - 1) /\ th[o].i \in 0..(N - 1)
  BY <1>0, ThreadAt, Counts
<1>2. \/ th[o].barriers = Loads(p) + 2 * N - th[o].i
      \/ th[o].barriers = Loads(p) + 2 * N + 1 - th[o].i
  BY <1>0, Position
<1>3. th[o].barriers >= Loads(p) + N + 1
  BY <1>1, <1>2
<1>4. /\ th2[u] = th[u] /\ th2[u].barriers >= th[o].barriers
      /\ \/ th2[u].barriers = th[o].barriers
         \/ th2[u].barriers = th[o].barriers + 1 /\ Fresh(p, u, th2[u])
  BY OthersAfter
<1>5. th2[u].pc # "eliminate"
  <2>1. th2[u].pc = "eliminate" => th2[u].barriers = Loads(p) + 1 + th2[u].i
    BY <1>0, Position
  <2>. QED  BY <1>1, <1>3, <1>4, <2>1
<1>6. th2[u].pc = "substitute" => th2[u].barriers = th[o].barriers
  BY <1>4 DEF Fresh
<1>7. th2[u].barriers <= th[o].barriers + 1
  BY <1>1, <1>4
<1>. QED  BY <1>1, <1>4, <1>5, <1>6, <1>7

LEMMA OthersAhead ==
  ASSUME NEW p, NEW th, NEW o \in Thread, NEW t, NEW th2,
         Stepping(p, th, o, t, th2), th[o].pc \in {"backward", "substitute"},
         NEW u \in Thread, u # o, th2[u].barriers > th[o].barriers
  PROVE  th2[u].pc = "result"
<1>0. Threads(p, th) /\ Threads(p, th2)
  BY DEF Stepping
<1>1. /\ Loads(p) \in {0, 1} /\ Loads(p) \in Int /\ N \in Nat /\ N > 0
      /\ th2[u].barriers \in Nat /\ th[o].barriers \in Nat
      /\ th2[u].i \in 0..(N - 1) /\ th[o].i \in 0..(N - 1)
  BY <1>0, ThreadAt, Counts
<1>2. th[o].barriers = Loads(p) + 2 * N - th[o].i
  BY <1>0, Position
<1>3. th2[u].barriers = th[o].barriers + 1 /\ Fresh(p, u, th2[u])
  <2>1. \/ th2[u].barriers = th[o].barriers
        \/ th2[u].barriers = th[o].barriers + 1 /\ Fresh(p, u, th2[u])
    BY OthersAfter
  <2>. QED  BY <1>1, <2>1
<1>4. /\ th2[u].barriers > Loads(p) + N + 1 /\ th2[u].barriers < Loads(p) + 2 * N + 2
      /\ Loads(p) >= 0
  BY <1>1, <1>2, <1>3
<1>5. /\ th2[u].pc = "pivot" => th2[u].barriers = Loads(p)
      /\ th2[u].pc = "forward" => th2[u].barriers = Loads(p) + 1 + th2[u].i
      /\ th2[u].pc = "backward" => th2[u].barriers = Loads(p) + 2 * N - th2[u].i
      /\ th2[u].pc = "store" => th2[u].barriers = Loads(p) + 2 * N + 2
      /\ th2[u].pc = "done" /\ p.local => th2[u].barriers = Loads(p) + 2 * N + 3
  BY <1>0, Position
<1>6. th2[u].pc # "pivot" /\ th2[u].pc # "forward" /\ th2[u].pc # "store"
  BY <1>1, <1>4, <1>5
<1>7. ~ (th2[u].pc = "done" /\ p.local) /\ ~ (th2[u].pc = "backward" /\ th2[u].i = N - 1)
  BY <1>1, <1>4, <1>5
<1>. QED  BY <1>3, <1>6, <1>7 DEF Fresh

(* What the others have in their registers stays true if the elements      *)
(* they have read do.                                                      *)
LEMMA RegistersBackward ==
  ASSUME NEW p, NEW th, NEW mm, NEW o \in Thread, NEW t, NEW th2,
         Stepping(p, th, o, t, th2), DataOK(p, th, mm),
         th[o].pc \in {"backward", "substitute", "result"}, NEW m,
         t.pc # "eliminate",
         t.pc \in {"substitute", "result"} => t.x = Divided(p, th2[0], m)[t.i],
         \A u \in Thread \ {o} : th2[u].pc \in {"substitute", "result"} =>
           Divided(p, th2[0], m)[th2[u].i] = Divided(p, th[0], mm[Area(p)])[th2[u].i]
  PROVE  Registers(p, th2, m)
<1>1. ASSUME NEW u \in Thread
      PROVE  /\ th2[u].pc # "eliminate"
             /\ th2[u].pc \in {"substitute", "result"} => th2[u].x = Divided(p, th2[0], m)[th2[u].i]
  <2>1. CASE u = o
    BY <2>1, StepTo
  <2>2. CASE u # o
    <3>1. th2[u] = th[u] /\ th2[u].pc # "eliminate"
      BY <2>2, OthersBackward
    <3>2. th[u].pc \in {"substitute", "result"} => th[u].x = Divided(p, th[0], mm[Area(p)])[th[u].i]
      BY DEF DataOK, Registers
    <3>. QED  BY <2>2, <3>1, <3>2
  <2>. QED  BY <2>1, <2>2
<1>. QED  BY <1>1 DEF Registers

(* x = sol[i] / A[i, i] *)
LEMMA ReadsBackward ==
  ASSUME NEW p, NEW th, NEW mm, NEW o \in Thread, NEW t, NEW th2,
         Stepping(p, th, o, t, th2), DataOK(p, th, mm),
         NEW i, NEW b, NEW x, NEW n, State(th[o], i, b, x, n), th[o].pc = "backward",
         State(t, i, i + o - p.ubw, Over(mm[Area(p)][i], Entry(p.A, i, i)), n), t.pc = "substitute"
  PROVE  DataOK(p, th2, mm)
<1>0. /\ Threads(p, th) /\ Threads(p, th2) /\ Factored(p) /\ p.b \in Column /\ p.ubw \in 0..(N - 1)
      /\ mm \in [{"B", "sol"} -> Column] /\ \A u \in Thread : InRange(th[u])
      /\ p.A \in Square /\ Regular(p.A)
  BY DEF Stepping, DataOK, Factored
<1>1. /\ Loads(p) \in Int /\ N \in Nat /\ N > 0 /\ o \in Nat /\ o < BlockSize /\ BlockSize \in Nat
      /\ 0 \in Thread /\ \A r \in Rows : r \in 0..(N - 1)
  BY <1>0, Counts
<1>2. i \in 0..(N - 1) /\ i \in Rows /\ n = Loads(p) + 2 * N - i
  BY <1>0, StateOf, ThreadAt, Position
<1>3. th2[o] = t /\ \A u \in Thread \ {o} : th2[u] = th[u]
  BY StepTo
<1>4. PICK m \in Column : m = mm[Area(p)]
  BY <1>0 DEF Area
<1>5. /\ th[o].pc = "backward" /\ th[o].i = i /\ th[o].barriers = n
      /\ t.pc = "substitute" /\ t.i = i /\ t.b = i + o - p.ubw /\ t.barriers = n
      /\ t.x = Over(m[i], Entry(p.A, i, i))
  BY <1>4, StateOf
<1>6. PICK y \in Column : /\ SolvesLower(p.A, y, Target(p))
                          /\ BackwardRows(p, th, Divided(p, th[0], m), y)
  BY <1>4, <1>5, InBackward
<1>7. ASSUME NEW r \in Rows PROVE Backed(p, th2, r) = Backed(p, th, r)
  <2>1. ASSUME NEW j \in (r + 1)..(N - 1) PROVE Back(p, o, t, r, j) <=> Back(p, o, th[o], r, j)
    <3>1. r \in Int /\ i - p.ubw \in Int
      BY <1>0, <1>1, <1>2
    <3>2. Dealt(o, r, i - p.ubw) => r >= i - p.ubw + o
      BY <3>1, DealtAbove
    <3>3. t.pc = "substitute" /\ t.i = j /\ t.b > r => ~ Dealt(o, r, j - p.ubw)
      BY <1>0, <1>1, <1>2, <1>5, <3>1, <3>2
    <3>. QED  BY <1>5, <3>3 DEF Back
  <2>. QED  BY <2>1, BackedKept
<1>8. Divided(p, th2[0], m) = Divided(p, th[0], m)
  <2>1. Written(p, th2[0]) = Written(p, th[0])
    <3>1. CASE o = 0
      <4>1. th2[0].barriers = th[0].barriers /\ th2[0].pc # "result" /\ th[0].pc # "result"
        BY <1>3, <1>5, <3>1
      <4>. QED  BY <4>1 DEF Written
    <3>2. CASE o # 0
      BY <1>1, <1>3, <3>2
    <3>. QED  BY <3>1, <3>2
  <2>. QED  BY <2>1, DividedKept
<1>9. BackwardRows(p, th2, Divided(p, th2[0], m), y)
  BY <1>6, <1>7, <1>8 DEF BackwardRows
<1>10. Slowest(th2, n)
  BY <1>5, SlowestAfter
<1>11. /\ Loading(p, th2, mm) /\ Pivoting(p, th2, mm[Area(p)]) /\ ForwardPhase(p, th2, mm[Area(p)])
       /\ BackwardPhase(p, th2, mm[Area(p)]) /\ Storing(p, th2, mm)
  <2>1. n \in Int /\ n >= Loads(p) + N + 1 /\ n <= Loads(p) + 2 * N + 1
    BY <1>1, <1>2
  <2>. QED  BY <1>0, <1>4, <1>6, <1>9, <1>10, <2>1, OnlyBackward
<1>12. t.x \in Elements
  <2>1. m[i] \in Elements /\ Entry(p.A, i, i) \in Elements /\ Entry(p.A, i, i) # 0
    BY <1>0, <1>2, EntryIn DEF Column, Regular
  <2>. QED  BY <1>5, <2>1, OverRules
<1>13. \A u \in Thread : InRange(th2[u])
  <2>1. t.b \in (-N)..(N + BlockSize)
    BY <1>0, <1>1, <1>2, <1>5
  <2>2. InRange(t)
    BY <1>12, <2>1 DEF InRange
  <2>. QED  BY <1>0, <2>2, RangesKept
<1>14. Close(p, th2)
  BY <1>5, StaysClose
<1>15. Registers(p, th2, m)
  <2>1. i \notin Written(p, th2[0])
    <3>1. CASE o = 0
      <4>1. th2[0].barriers = n
        BY <1>3, <1>5, <3>1
      <4>. QED  BY <1>1, <1>2, <4>1 DEF Written
    <3>2. CASE o # 0
      <4>1. ASSUME NEW u \in Thread, u # o PROVE i \notin Written(p, th2[u])
        <5>1. th2[u].barriers \in Nat /\ th2[u].barriers <= th[o].barriers + 1
          BY <1>5, <4>1, OthersBackward
        <5>2. th2[u].barriers > th[o].barriers => th2[u].pc = "result"
          BY <1>5, <4>1, OthersAhead
        <5>. QED  BY <1>1, <1>2, <1>5, <5>1, <5>2 DEF Written
      <4>. QED  BY <1>1, <3>2, <4>1
    <3>. QED  BY <3>1, <3>2
  <2>2. Divided(p, th2[0], m)[i] = t.x
    BY <1>2, <1>5, <2>1 DEF Divided
  <2>3. t.pc # "eliminate" /\ t.x = Divided(p, th2[0], m)[t.i]
    BY <1>5, <2>2
  <2>. QED  BY <1>4, <1>5, <1>8, <2>3, RegistersBackward
<1>. QED  BY <1>0, <1>4, <1>11, <1>13, <1>14, <1>15 DEF DataOK

LEMMA WrittenKept ==
  ASSUME NEW p, NEW th, NEW o \in Thread, NEW t, NEW th2, Stepping(p, th, o, t, th2),
         t.barriers = th[o].barriers, t.pc # "result", th[o].pc # "result"
  PROVE  Written(p, th2[0]) = Written(p, th[0])
<1>1. th2[o] = t /\ \A u \in Thread \ {o} : th2[u] = th[u]
  BY StepTo
<1>2. 0 \in Thread
  BY Counts DEF Stepping
<1>3. CASE o = 0
  <2>1. th2[0].barriers = th[0].barriers /\ th2[0].pc # "result" /\ th[0].pc # "result"
    BY <1>1, <1>3
  <2>. QED  BY <2>1 DEF Written
<1>4. CASE o # 0
  BY <1>1, <1>2, <1>4
<1>. QED  BY <1>3, <1>4

(* The rows whose results can have been written are behind this one.       *)
LEMMA WrittenBehind ==
  ASSUME NEW p, NEW th, NEW o \in Thread, NEW t, NEW th2, Stepping(p, th, o, t, th2),
         th[o].pc = "substitute", NEW k \in Written(p, th[0])
  PROVE  k > th[o].i
<1>0. Threads(p, th)
  BY DEF Stepping
<1>1. /\ Loads(p) \in Int /\ N \in Nat /\ N > 0 /\ 0 \in Thread /\ th[0].barriers \in Nat
      /\ th[o].i \in 0..(N - 1) /\ th[o].barriers = Loads(p) + 2 * N - th[o].i
  BY <1>0, Counts, ThreadAt, Position
<1>2. k \in 0..(N - 1)
  BY DEF Written, Rows
<1>3. /\ th[0].barriers <= th[o].barriers + 1
      /\ th[0].barriers > th[o].barriers => th[0].pc = "result"
  <2>1. CASE o = 0
    BY <1>1, <2>1
  <2>2. CASE o # 0
    <3>1. ASSUME NEW u \in Thread, u # o
          PROVE  /\ th[u].barriers <= th[o].barriers + 1
                 /\ th[u].barriers > th[o].barriers => th[u].pc = "result"
      <4>1. th2[u] = th[u] /\ th2[u].barriers <= th[o].barriers + 1
        BY <3>1, OthersBackward
      <4>2. th2[u].barriers > th[o].barriers => th2[u].pc = "result"
        BY <3>1, OthersAhead
      <4>. QED  BY <4>1, <4>2
    <3>. QED  BY <1>1, <2>2, <3>1
  <2>. QED  BY <2>1, <2>2
<1>. QED  BY <1>1, <1>2, <1>3 DEF Written

(* Rows above the matrix are skipped. *)
LEMMA Skips ==
  ASSUME NEW p, NEW th, NEW mm, NEW o \in Thread, NEW t, NEW th2,
         Stepping(p, th, o, t, th2), DataOK(p, th, mm),
         NEW i, NEW b, NEW x, NEW n, State(th[o], i, b, x, n), th[o].pc = "substitute", b < i, ~ (b >= 0),
         State(t, i, b + BlockSize, x, n), t.pc = "substitute"
  PROVE  DataOK(p, th2, mm)
<1>0. /\ Threads(p, th) /\ Threads(p, th2) /\ Factored(p) /\ p.b \in Column /\ p.ubw \in 0..(N - 1)
      /\ mm \in [{"B", "sol"} -> Column] /\ \A u \in Thread : InRange(th[u])
  BY DEF Stepping, DataOK, Factored
<1>1. /\ Loads(p) \in Int /\ N \in Nat /\ N > 0 /\ BlockSize \in Nat /\ \A r \in Rows : r \in 0..(N - 1)
  BY <1>0, Counts
<1>2. /\ i \in 0..(N - 1) /\ n = Loads(p) + 2 * N - i /\ b \in Int /\ Dealt(o, b, i - p.ubw)
  BY <1>0, StateOf, ThreadAt, Position
<1>4. PICK m \in Column : m = mm[Area(p)]
  BY <1>0 DEF Area
<1>5. /\ th[o].pc = "substitute" /\ th[o].i = i /\ th[o].b = b /\ th[o].barriers = n /\ th[o].x = x
      /\ t.pc = "substitute" /\ t.i = i /\ t.b = b + BlockSize /\ t.barriers = n /\ t.x = x
  BY StateOf
<1>6. PICK y \in Column : /\ SolvesLower(p.A, y, Target(p))
                          /\ BackwardRows(p, th, Divided(p, th[0], m), y)
  BY <1>4, <1>5, InBackward
<1>7. ASSUME NEW r \in Rows PROVE Backed(p, th2, r) = Backed(p, th, r)
  <2>1. ASSUME NEW j \in (r + 1)..(N - 1) PROVE Back(p, o, t, r, j) <=> Back(p, o, th[o], r, j)
    <3>1. r \in Int /\ i - p.ubw \in Int /\ b < r
      BY <1>0, <1>1, <1>2
    <3>2. Dealt(o, r, i - p.ubw) => b + BlockSize <= r
      BY <1>2, <3>1, DealtApart
    <3>. QED  BY <1>1, <1>2, <1>5, <3>1, <3>2 DEF Back
  <2>. QED  BY <2>1, BackedKept
<1>8. Divided(p, th2[0], m) = Divided(p, th[0], m)
  <2>1. Written(p, th2[0]) = Written(p, th[0])
    BY <1>5, WrittenKept
  <2>. QED  BY <2>1, DividedKept
<1>9. BackwardRows(p, th2, Divided(p, th2[0], m), y)
  BY <1>6, <1>7, <1>8 DEF BackwardRows
<1>10. Slowest(th2, n)
  BY <1>5, SlowestAfter
<1>11. /\ Loading(p, th2, mm) /\ Pivoting(p, th2, mm[Area(p)]) /\ ForwardPhase(p, th2, mm[Area(p)])
       /\ BackwardPhase(p, th2, mm[Area(p)]) /\ Storing(p, th2, mm)
  <2>1. n \in Int /\ n >= Loads(p) + N + 1 /\ n <= Loads(p) + 2 * N + 1
    BY <1>1, <1>2
  <2>. QED  BY <1>0, <1>4, <1>6, <1>9, <1>10, <2>1, OnlyBackward
<1>12. \A u \in Thread : InRange(th2[u])
  <2>1. InRange(th[o])
    BY <1>0
  <2>2. InRange(t)
    BY <1>1, <1>2, <1>5, <2>1 DEF InRange
  <2>. QED  BY <1>0, <2>2, RangesKept
<1>13. Close(p, th2)
  BY <1>5, StaysClose
<1>14. Registers(p, th2, m)
  <2>1. x = Divided(p, th[0], m)[i]
    BY <1>4, <1>5 DEF DataOK, Registers
  <2>2. t.pc # "eliminate" /\ t.x = Divided(p, th2[0], m)[t.i]
    BY <1>5, <1>8, <2>1
  <2>. QED  BY <1>4, <1>5, <1>8, <2>2, RegistersBackward
<1>. QED  BY <1>0, <1>4, <1>11, <1>12, <1>13, <1>14 DEF DataOK

(* sol[b] -= A[b, i] * x *)
LEMMA Substitutes ==
  ASSUME NEW p, NEW th, NEW mm, NEW o \in Thread, NEW t, NEW th2, NEW mm2,
         Stepping(p, th, o, t, th2), DataOK(p, th, mm),
         NEW i, NEW b, NEW x, NEW n, State(th[o], i, b, x, n), th[o].pc = "substitute", b < i, b >= 0,
         State(t, i, b + BlockSize, x, n), t.pc = "substitute",
         mm2 = Put(mm, Area(p), b, Minus(mm[Area(p)][b], Times(Entry(p.A, b, i), x)))
  PROVE  DataOK(p, th2, mm2)
<1>0. /\ Threads(p, th) /\ Threads(p, th2) /\ Factored(p) /\ p.b \in Column /\ p.ubw \in 0..(N - 1)
      /\ mm \in [{"B", "sol"} -> Column] /\ \A u \in Thread : InRange(th[u])
      /\ p.A \in Square /\ Regular(p.A)
  BY DEF Stepping, DataOK, Factored
<1>1. /\ Loads(p) \in Int /\ N \in Nat /\ N > 0 /\ BlockSize \in Nat /\ BlockSize > 0 /\ \A r \in Rows : r \in 0..(N - 1)
  BY <1>0, Counts, SizesAssumption
<1>2. /\ i \in 0..(N - 1) /\ i \in Rows /\ n = Loads(p) + 2 * N - i
      /\ b \in Int /\ Dealt(o, b, i - p.ubw)
  BY <1>0, StateOf, ThreadAt, Position
<1>3. b \in Rows /\ i - p.ubw \in Int
  BY <1>0, <1>1, <1>2 DEF Rows
<1>4. th2[o] = t /\ \A u \in Thread \ {o} : th2[u] = th[u]
  BY StepTo
<1>5. PICK m \in Column : m = mm[Area(p)]
  BY <1>0 DEF Area
<1>6. /\ th[o].pc = "substitute" /\ th[o].i = i /\ th[o].b = b /\ th[o].barriers = n /\ th[o].x = x
      /\ t.pc = "substitute" /\ t.i = i /\ t.b = b + BlockSize /\ t.barriers = n /\ t.x = x
  BY StateOf
<1>7. PICK z \in Column : z = Divided(p, th[0], m)
  BY <1>0, DividedIn
<1>8. x = z[i] /\ x \in Elements
  <2>1. x = z[i]
    BY <1>5, <1>6, <1>7 DEF DataOK, Registers
  <2>. QED  BY <1>2, <2>1 DEF Column
<1>9. PICK e \in Elements : e = Times(Entry(p.A, b, i), x)
  <2>1. Entry(p.A, b, i) \in Elements
    BY <1>0, <1>2, <1>3, EntryIn
  <2>. QED  BY <1>8, <2>1, Closed
<1>10. m[b] \in Elements /\ Minus(m[b], e) \in Elements
  <2>1. m[b] \in Elements
    BY <1>3 DEF Column
  <2>. QED  BY <2>1, Closed
<1>11. PICK m2 : m2 = mm2[Area(p)]
  OBVIOUS
<1>12. /\ mm2 \in [{"B", "sol"} -> Column] /\ m2 \in Column /\ m2[b] = Minus(m[b], e)
       /\ \A k \in Rows \ {b} : m2[k] = m[k]
  <2>1. PICK v \in Elements : v = Minus(m[b], e)
    BY <1>10
  <2>2. m = mm[Area(p)] /\ mm2 = Put(mm, Area(p), b, v)
    BY <1>5, <1>9, <2>1
  <2>3. Memory(mm)
    BY <1>0 DEF Memory
  <2>4. /\ Memory(mm2)
        /\ mm2[Area(p)] \in Column /\ mm2[Area(p)][b] = v
        /\ \A k \in Rows \ {b} : mm2[Area(p)][k] = m[k]
    BY <1>3, <2>2, <2>3, PutArea
  <2>. QED  BY <1>11, <2>1, <2>4 DEF Memory
<1>13. PICK y \in Column : SolvesLower(p.A, y, Target(p)) /\ BackwardRows(p, th, z, y)
  BY <1>5, <1>6, <1>7, InBackward
<1>14. Written(p, th2[0]) = Written(p, th[0])
  BY <1>6, WrittenKept
<1>15. b \notin Written(p, th[0])
  <2>1. b \in Written(p, th[0]) => b > i
    BY <1>6, WrittenBehind
  <2>. QED  BY <1>2, <2>1
<1>16. PICK z2 \in Column : z2 = Divided(p, th2[0], m2)
  BY <1>0, <1>12, DividedIn
<1>17. /\ \A k \in Rows \ {b} : z2[k] = z[k]
       /\ z2[b] = Over(m2[b], Entry(p.A, b, b)) /\ z[b] = Over(m[b], Entry(p.A, b, b))
  BY <1>3, <1>7, <1>12, <1>14, <1>15, <1>16 DEF Divided
<1>18. Times(Entry(p.A, b, b), z2[b]) = m2[b] /\ Times(Entry(p.A, b, b), z[b]) = m[b]
  <2>1. /\ m[b] \in Elements /\ m2[b] \in Elements
        /\ Entry(p.A, b, b) \in Elements /\ Entry(p.A, b, b) # 0
    BY <1>0, <1>3, <1>12, EntryIn DEF Column, Regular
  <2>. QED  BY <1>17, <2>1, OverRules, TimesCommutes
<1>19. ASSUME NEW r \in Rows, NEW j \in (r + 1)..(N - 1)
       PROVE  Back(p, o, t, r, j) <=> Back(p, o, th[o], r, j) \/ (r = b /\ j = i)
  <2>1. r \in Int /\ j \in Int
    BY <1>1
  <2>2. CASE r = b /\ j = i
    BY <1>1, <1>2, <1>6, <2>2 DEF Back
  <2>3. CASE ~ (r = b /\ j = i)
    <3>1. Dealt(o, r, i - p.ubw) /\ r > b => b + BlockSize <= r
      BY <1>2, <1>3, <2>1, DealtApart
    <3>2. Dealt(o, r, j - p.ubw) /\ j = i => (b + BlockSize > r <=> b > r)
      BY <1>1, <1>2, <2>1, <2>3, <3>1
    <3>. QED  BY <1>6, <2>3, <3>2 DEF Back
  <2>. QED  BY <2>2, <2>3
<1>20. ASSUME NEW u \in Thread PROVE ~ Back(p, u, th[u], b, i)
  <2>1. CASE u = o
    BY <1>1, <1>2, <1>6, <2>1 DEF Back
  <2>2. CASE u # o
    <3>1. ~ Dealt(u, b, i - p.ubw)
      BY <1>2, <1>3, <2>2, DealtOnce
    <3>. QED  BY <3>1 DEF Back
  <2>. QED  BY <2>1, <2>2
<1>21. ASSUME NEW r \in Rows PROVE b \notin Backed(p, th2, r)
  <2>1. ASSUME NEW u \in Thread PROVE ~ Back(p, u, th2[u], r, b)
    <3>1. CASE u = o
      BY <1>1, <1>2, <1>4, <1>6, <3>1 DEF Back
    <3>2. CASE u # o
      <4>1. /\ th2[u].barriers \in Nat /\ th2[u].barriers <= th[o].barriers + 1
            /\ th2[u].pc = "substitute" => th2[u].barriers = th[o].barriers
        <5>1. th2[u].barriers \in Nat /\ th2[u].barriers <= th[o].barriers + 1
          BY <1>6, <3>2, OthersBackward
        <5>2. th2[u].pc = "substitute" => th2[u].barriers = th[o].barriers
          BY <1>6, <3>2, OthersBackward
        <5>. QED  BY <5>1, <5>2
      <4>2. th2[u].pc = "substitute" => th2[u].barriers = Loads(p) + 2 * N - th2[u].i
        BY <1>0, Position
      <4>3. th2[u].i \in 0..(N - 1)
        BY <1>0, ThreadAt
      <4>4. th2[u].pc = "substitute" => th2[u].i = i
        BY <1>1, <1>2, <1>6, <4>1, <4>2, <4>3
      <4>. QED  BY <1>1, <1>2, <1>6, <4>1, <4>4 DEF Back
    <3>. QED  BY <3>1, <3>2
  <2>. QED  BY <2>1 DEF Backed
<1>22. ASSUME NEW r \in Rows, r # b
       PROVE  Plus(Times(Entry(p.A, r, r), z2[r]), Dot(p.A, r, z2, Backed(p, th2, r))) = y[r]
  <2>1. \A j \in (r + 1)..(N - 1) : Back(p, o, t, r, j) <=> Back(p, o, th[o], r, j)
    BY <1>19, <1>22
  <2>2. Backed(p, th2, r) = Backed(p, th, r)
    BY <2>1, BackedKept
  <2>3. PICK S : S = Backed(p, th2, r)
    OBVIOUS
  <2>4. \A k \in Rows : k \in S => z[k] = z2[k]
    BY <1>17, <1>21, <2>3
  <2>5. Dot(p.A, r, z, S) = Dot(p.A, r, z2, S)
    BY <1>0, <2>4, DotAgree
  <2>6. z2[r] = z[r]
    BY <1>17, <1>22
  <2>7. Plus(Times(Entry(p.A, r, r), z[r]), Dot(p.A, r, z, S)) = y[r]
    BY <1>13, <2>2, <2>3 DEF BackwardRows
  <2>. QED  BY <2>3, <2>5, <2>6, <2>7
<1>23. Plus(Times(Entry(p.A, b, b), z2[b]), Dot(p.A, b, z2, Backed(p, th2, b))) = y[b]
  <2>1. PICK S : S = Backed(p, th, b)
    OBVIOUS
  <2>2. i \notin S
    BY <1>20, <2>1 DEF Backed
  <2>3. Backed(p, th2, b) = S \cup {i}
    <3>1. i \in (b + 1)..(N - 1)
      BY <1>1, <1>2
    <3>2. \A j \in (b + 1)..(N - 1) : Back(p, o, t, b, j) <=> Back(p, o, th[o], b, j) \/ j = i
      BY <1>3, <1>19
    <3>3. ASSUME NEW j \in (b + 1)..(N - 1)
          PROVE  (\E u \in Thread : Back(p, u, th2[u], b, j))
                   <=> (\E u \in Thread : Back(p, u, th[u], b, j)) \/ j = i
      <4>1. \A u \in Thread \ {o} : Back(p, u, th2[u], b, j) <=> Back(p, u, th[u], b, j)
        BY <1>4
      <4>2. Back(p, o, th2[o], b, j) <=> Back(p, o, th[o], b, j) \/ j = i
        BY <1>4, <3>2
      <4>. QED  BY <4>1, <4>2
    <3>4. ASSUME NEW j PROVE j \in Backed(p, th2, b) <=> j \in Backed(p, th, b) \cup {i}
      BY <3>1, <3>3 DEF Backed
    <3>. QED  BY <2>1, <3>4
  <2>4. \A k \in Rows : k \in S \cup {i} => z[k] = z2[k]
    BY <1>3, <1>17, <1>21, <2>3
  <2>5. Dot(p.A, b, z, S \cup {i}) = Dot(p.A, b, z2, S \cup {i})
    BY <1>0, <1>3, <2>4, DotAgree
  <2>6. Dot(p.A, b, z, S \cup {i}) = Plus(Dot(p.A, b, z, S), e)
    BY <1>0, <1>2, <1>3, <1>8, <1>9, <2>2, DotMore
  <2>7. Dot(p.A, b, z, S) \in Elements
    BY <1>0, <1>3, DotIn
  <2>8. Plus(m2[b], Plus(Dot(p.A, b, z, S), e)) = Plus(m[b], Dot(p.A, b, z, S))
    BY <1>10, <1>12, <2>7, Moved
  <2>9. Plus(m[b], Dot(p.A, b, z, S)) = y[b]
    BY <1>3, <1>13, <1>18, <2>1 DEF BackwardRows
  <2>. QED  BY <1>18, <2>3, <2>5, <2>6, <2>8, <2>9
<1>24. BackwardRows(p, th2, Divided(p, th2[0], mm2[Area(p)]), y)
  BY <1>11, <1>16, <1>22, <1>23 DEF BackwardRows
<1>25. Slowest(th2, n)
  BY <1>6, SlowestAfter
<1>26. /\ Loading(p, th2, mm2) /\ Pivoting(p, th2, mm2[Area(p)]) /\ ForwardPhase(p, th2, mm2[Area(p)])
       /\ BackwardPhase(p, th2, mm2[Area(p)]) /\ Storing(p, th2, mm2)
  <2>1. n \in Int /\ n >= Loads(p) + N + 1 /\ n <= Loads(p) + 2 * N + 1
    BY <1>1, <1>2
  <2>. QED  BY <1>0, <1>13, <1>24, <1>25, <2>1, OnlyBackward
<1>27. \A u \in Thread : InRange(th2[u])
  <2>1. t.b \in (-N)..(N + BlockSize)
    BY <1>1, <1>2, <1>3, <1>6
  <2>2. InRange(t)
    BY <1>6, <1>8, <2>1 DEF InRange
  <2>. QED  BY <1>0, <2>2, RangesKept
<1>28. Close(p, th2)
  BY <1>6, StaysClose
<1>29. Registers(p, th2, m2)
  <2>1. ASSUME NEW u \in Thread \ {o}, th2[u].pc \in {"substitute", "result"}
        PROVE  z2[th2[u].i] = z[th2[u].i]
    <3>1. /\ th2[u].barriers \in Nat /\ th2[u].barriers <= th[o].barriers + 1
          /\ th2[u].pc = "substitute" => th2[u].barriers = th[o].barriers
      BY <1>6, <2>1, OthersBackward
    <3>2. /\ th2[u].pc = "substitute" => th2[u].barriers = Loads(p) + 2 * N - th2[u].i
          /\ th2[u].pc = "result" => th2[u].barriers = Loads(p) + 2 * N + 1 - th2[u].i
      BY <1>0, <2>1, Position
    <3>3. th2[u].i \in 0..(N - 1) /\ th2[u].i \in Rows
      BY <1>0, <2>1, ThreadAt
    <3>4. th2[u].i # b
      BY <1>1, <1>2, <1>6, <2>1, <3>1, <3>2, <3>3
    <3>. QED  BY <1>17, <3>3, <3>4
  <2>2. z2[i] = z[i]
    BY <1>2, <1>17
  <2>3. ASSUME NEW u \in Thread
        PROVE  /\ th2[u].pc # "eliminate"
               /\ th2[u].pc \in {"substitute", "result"} => th2[u].x = z2[th2[u].i]
    <3>1. CASE u = o
      BY <1>4, <1>6, <1>8, <2>2, <3>1
    <3>2. CASE u # o
      <4>1. th2[u] = th[u] /\ th2[u].pc # "eliminate"
        BY <1>6, <3>2, OthersBackward
      <4>2. th[u].pc \in {"substitute", "result"} => th[u].x = z[th[u].i]
        BY <1>5, <1>7 DEF DataOK, Registers
      <4>. QED  BY <2>1, <3>2, <4>1, <4>2
    <3>. QED  BY <3>1, <3>2
  <2>. QED  BY <1>16, <2>3 DEF Registers
<1>. QED  BY <1>0, <1>11, <1>12, <1>26, <1>27, <1>28, <1>29 DEF DataOK

(* The barrier before a result *)
LEMMA SubstitutedAll ==
  ASSUME NEW p, NEW th, NEW mm, NEW o \in Thread, NEW t, NEW th2,
         Stepping(p, th, o, t, th2), DataOK(p, th, mm),
         NEW i, NEW b, NEW x, NEW n, State(th[o], i, b, x, n), th[o].pc = "substitute", ~ (b < i),
         State(t, i, b, x, n + 1), t.pc = "result"
  PROVE  DataOK(p, th2, mm)
<1>0. /\ Threads(p, th) /\ Threads(p, th2) /\ Factored(p) /\ p.b \in Column /\ p.ubw \in 0..(N - 1)
      /\ mm \in [{"B", "sol"} -> Column] /\ \A u \in Thread : InRange(th[u])
  BY DEF Stepping, DataOK, Factored
<1>1. /\ Loads(p) \in Int /\ N \in Nat /\ N > 0 /\ 0 \in Thread /\ \A r \in Rows : r \in 0..(N - 1)
  BY <1>0, Counts
<1>2. /\ i \in 0..(N - 1) /\ n = Loads(p) + 2 * N - i /\ b \in Int
  BY <1>0, StateOf, ThreadAt, Position
<1>3. th2[o] = t /\ \A u \in Thread \ {o} : th2[u] = th[u]
  BY StepTo
<1>4. PICK m \in Column : m = mm[Area(p)]
  BY <1>0 DEF Area
<1>5. /\ th[o].pc = "substitute" /\ th[o].i = i /\ th[o].b = b /\ th[o].barriers = n /\ th[o].x = x
      /\ t.pc = "result" /\ t.i = i /\ t.b = b /\ t.barriers = n + 1 /\ t.x = x
  BY StateOf
<1>6. PICK y \in Column : /\ SolvesLower(p.A, y, Target(p))
                          /\ BackwardRows(p, th, Divided(p, th[0], m), y)
  BY <1>4, <1>5, InBackward
<1>7. ASSUME NEW r \in Rows PROVE Backed(p, th2, r) = Backed(p, th, r)
  <2>1. ASSUME NEW j \in (r + 1)..(N - 1) PROVE Back(p, o, t, r, j) <=> Back(p, o, th[o], r, j)
    <3>1. r \in Int /\ j \in Int /\ r < j
      BY <1>1
    <3>2. CASE j = i
      BY <1>1, <1>2, <1>5, <3>1, <3>2 DEF Back
    <3>3. CASE j # i
      BY <1>1, <1>2, <1>5, <3>1, <3>3 DEF Back
    <3>. QED  BY <3>2, <3>3
  <2>. QED  BY <2>1, BackedKept
<1>8. Divided(p, th2[0], m) = Divided(p, th[0], m)
  <2>1. Written(p, th2[0]) = Written(p, th[0])
    <3>1. CASE o = 0
      <4>1. /\ th[0].barriers = n /\ th[0].pc # "result"
            /\ th2[0].barriers = n + 1 /\ th2[0].pc = "result"
        BY <1>3, <1>5, <3>1
      <4>2. \A j \in Rows : j \in Written(p, th2[0]) <=> j \in Written(p, th[0])
        BY <1>1, <1>2, <4>1 DEF Written
      <4>. QED  BY <4>2 DEF Written
    <3>2. CASE o # 0
      BY <1>1, <1>3, <3>2
    <3>. QED  BY <3>1, <3>2
  <2>. QED  BY <2>1, DividedKept
<1>9. BackwardRows(p, th2, Divided(p, th2[0], m), y)
  BY <1>6, <1>7, <1>8 DEF BackwardRows
<1>10. t.barriers = th[o].barriers + 1 /\ Fresh(p, o, t)
  BY <1>5 DEF Fresh
<1>11. Arriving(p, th2, n)
  BY <1>5, <1>10, ArrivingAfter
<1>12. /\ Loading(p, th2, mm) /\ Pivoting(p, th2, mm[Area(p)]) /\ ForwardPhase(p, th2, mm[Area(p)])
       /\ BackwardPhase(p, th2, mm[Area(p)]) /\ Storing(p, th2, mm)
  <2>1. n \in Int /\ n >= Loads(p) + N + 1 /\ n < Loads(p) + 2 * N + 1
    BY <1>1, <1>2
  <2>. QED  BY <1>0, <1>4, <1>6, <1>9, <1>11, <2>1, OnlyBackward
<1>13. \A u \in Thread : InRange(th2[u])
  <2>1. InRange(t)
    BY <1>0, <1>5 DEF InRange
  <2>. QED  BY <1>0, <2>1, RangesKept
<1>14. Close(p, th2)
  BY <1>10, StaysClose
<1>15. Registers(p, th2, m)
  <2>1. x = Divided(p, th[0], m)[i]
    BY <1>4, <1>5 DEF DataOK, Registers
  <2>2. t.pc # "eliminate" /\ t.x = Divided(p, th2[0], m)[t.i]
    BY <1>5, <1>8, <2>1
  <2>. QED  BY <1>4, <1>5, <1>8, <2>2, RegistersBackward
<1>. QED  BY <1>0, <1>4, <1>12, <1>13, <1>14, <1>15 DEF DataOK

(* Thread 0 writes the result; what is solved stays the same.              *)
LEMMA Results ==
  ASSUME NEW p, NEW th, NEW mm, NEW o \in Thread, NEW t, NEW th2, NEW mm2,
         Stepping(p, th, o, t, th2), DataOK(p, th, mm),
         NEW i, NEW b, NEW x, NEW n, State(th[o], i, b, x, n), th[o].pc = "result",
         t.pc \in {"backward", "store", "done"}, t.barriers = n \/ (t.barriers = n + 1 /\ i = 0),
         mm2 = IF o = 0 THEN Put(mm, Area(p), i, x) ELSE mm
  PROVE  /\ mm2 \in [{"B", "sol"} -> Column]
         /\ Registers(p, th2, mm2[Area(p)])
         /\ \E y \in Column : /\ SolvesLower(p.A, y, Target(p))
                              /\ BackwardRows(p, th2, Divided(p, th2[0], mm2[Area(p)]), y)
<1>0. /\ Threads(p, th) /\ Threads(p, th2) /\ Factored(p)
      /\ mm \in [{"B", "sol"} -> Column]
  BY DEF Stepping, DataOK
<1>1. /\ Loads(p) \in Int /\ N \in Nat /\ N > 0 /\ 0 \in Thread /\ \A r \in Rows : r \in 0..(N - 1)
  BY <1>0, Counts
<1>2. /\ i \in 0..(N - 1) /\ i \in Rows /\ n = Loads(p) + 2 * N + 1 - i
  BY <1>0, StateOf, ThreadAt, Position
<1>3. th2[o] = t /\ \A u \in Thread \ {o} : th2[u] = th[u]
  BY StepTo
<1>4. PICK m \in Column : m = mm[Area(p)]
  BY <1>0 DEF Area
<1>5. th[o].pc = "result" /\ th[o].i = i /\ th[o].barriers = n /\ th[o].x = x
  BY StateOf
<1>6. PICK z \in Column : z = Divided(p, th[0], m)
  BY <1>0, DividedIn
<1>7. x = z[i] /\ x \in Elements
  <2>1. x = z[i]
    BY <1>4, <1>5, <1>6 DEF DataOK, Registers
  <2>. QED  BY <1>2, <2>1 DEF Column
<1>8. PICK y \in Column : SolvesLower(p.A, y, Target(p)) /\ BackwardRows(p, th, z, y)
  BY <1>4, <1>5, <1>6, InBackward
<1>9. PICK m2 : m2 = mm2[Area(p)]
  OBVIOUS
<1>10. /\ mm2 \in [{"B", "sol"} -> Column]
       /\ o = 0 => m2 \in Column /\ m2[i] = x /\ \A k \in Rows \ {i} : m2[k] = m[k]
       /\ o # 0 => m2 = m
  <2>1. CASE o = 0
    <3>1. Memory(mm) /\ mm2 = Put(mm, Area(p), i, x) /\ m = mm[Area(p)]
      BY <1>0, <1>4, <2>1 DEF Memory
    <3>2. /\ Memory(mm2)
          /\ mm2[Area(p)] \in Column /\ mm2[Area(p)][i] = x
          /\ \A k \in Rows \ {i} : mm2[Area(p)][k] = m[k]
      BY <1>2, <1>7, <3>1, PutArea
    <3>. QED  BY <1>9, <2>1, <3>2 DEF Memory
  <2>2. CASE o # 0
    BY <1>0, <1>4, <1>9, <2>2
  <2>. QED  BY <2>1, <2>2
<1>11. Divided(p, th2[0], m2) = z
  <2>1. CASE o = 0
    <3>1. /\ th[0].barriers = n /\ th[0].pc = "result" /\ th2[0].pc # "result"
          /\ th2[0].barriers = n \/ (th2[0].barriers = n + 1 /\ i = 0)
      BY <1>3, <1>5, <2>1
    <3>2. ASSUME NEW j \in Rows
          PROVE  j \in Written(p, th2[0]) <=> j \in Written(p, th[0]) \/ j = i
      BY <1>1, <1>2, <3>1 DEF Written
    <3>3. ASSUME NEW j \in Rows
          PROVE  (IF j \in Written(p, th2[0]) THEN m2[j] ELSE Over(m2[j], Entry(p.A, j, j)))
                   = (IF j \in Written(p, th[0]) THEN m[j] ELSE Over(m[j], Entry(p.A, j, j)))
      <4>1. CASE j = i
        <5>1. i \notin Written(p, th[0])
          BY <1>1, <1>2, <3>1 DEF Written
        <5>2. z[i] = Over(m[i], Entry(p.A, i, i))
          BY <1>2, <1>6, <5>1 DEF Divided
        <5>. QED  BY <1>2, <1>7, <1>10, <2>1, <3>2, <4>1, <5>1, <5>2
      <4>2. CASE j # i
        BY <1>10, <2>1, <3>2, <4>2
      <4>. QED  BY <4>1, <4>2
    <3>. QED  BY <1>6, <3>3, Zenon DEF Divided
  <2>2. CASE o # 0
    BY <1>1, <1>3, <1>6, <1>10, <2>2
  <2>. QED  BY <2>1, <2>2
<1>12. ASSUME NEW r \in Rows PROVE Backed(p, th2, r) = Backed(p, th, r)
  <2>1. ASSUME NEW j \in (r + 1)..(N - 1) PROVE Back(p, o, t, r, j) <=> Back(p, o, th[o], r, j)
    BY <1>1, <1>2, <1>5 DEF Back
  <2>. QED  BY <2>1, BackedKept
<1>13. BackwardRows(p, th2, Divided(p, th2[0], m2), y)
  BY <1>8, <1>11, <1>12 DEF BackwardRows
<1>14. Registers(p, th2, m2)
  <2>1. ASSUME NEW u \in Thread
        PROVE  /\ th2[u].pc # "eliminate"
               /\ th2[u].pc \in {"substitute", "result"} => th2[u].x = z[th2[u].i]
    <3>1. CASE u = o
      BY <1>3, <3>1
    <3>2. CASE u # o
      <4>1. th2[u] = th[u] /\ th2[u].pc # "eliminate"
        BY <1>5, <3>2, OthersBackward
      <4>2. th[u].pc \in {"substitute", "result"} => th[u].x = z[th[u].i]
        BY <1>4, <1>6 DEF DataOK, Registers
      <4>. QED  BY <4>1, <4>2
    <3>. QED  BY <3>1, <3>2
  <2>. QED  BY <1>11, <2>1 DEF Registers
<1>. QED  BY <1>8, <1>9, <1>10, <1>13, <1>14

(* The result of a row, and the next row or the end of the variant on B.   *)
LEMMA ResultOf ==
  ASSUME NEW p, NEW th, NEW mm, NEW o \in Thread, NEW t, NEW th2, NEW mm2,
         Stepping(p, th, o, t, th2), DataOK(p, th, mm),
         NEW i, NEW b, NEW x, NEW n, State(th[o], i, b, x, n), th[o].pc = "result",
         t.pc \in {"backward", "done"}, t.b = b, t.x = x, t.barriers = n,
         mm2 = IF o = 0 THEN Put(mm, Area(p), i, x) ELSE mm
  PROVE  DataOK(p, th2, mm2)
<1>0. /\ Threads(p, th) /\ Threads(p, th2) /\ Factored(p) /\ p.b \in Column
      /\ \A u \in Thread : InRange(th[u])
  BY DEF Stepping, DataOK
<1>1. /\ Loads(p) \in Int /\ N \in Nat /\ N > 0
  BY <1>0, Counts
<1>2. /\ i \in 0..(N - 1) /\ n = Loads(p) + 2 * N + 1 - i
  BY <1>0, StateOf, ThreadAt, Position
<1>3. th[o].b = b /\ th[o].x = x /\ th[o].barriers = n
  BY StateOf
<1>4. /\ mm2 \in [{"B", "sol"} -> Column]
      /\ Registers(p, th2, mm2[Area(p)])
      /\ \E y \in Column : /\ SolvesLower(p.A, y, Target(p))
                           /\ BackwardRows(p, th2, Divided(p, th2[0], mm2[Area(p)]), y)
  <2>1. t.pc \in {"backward", "store", "done"} /\ (t.barriers = n \/ (t.barriers = n + 1 /\ i = 0))
    OBVIOUS
  <2>. QED  BY <2>1, Results
<1>5. Slowest(th2, n)
  BY <1>3, SlowestAfter
<1>6. /\ Loading(p, th2, mm2) /\ Pivoting(p, th2, mm2[Area(p)]) /\ ForwardPhase(p, th2, mm2[Area(p)])
      /\ BackwardPhase(p, th2, mm2[Area(p)]) /\ Storing(p, th2, mm2)
  <2>1. n \in Int /\ n >= Loads(p) + N + 1 /\ n <= Loads(p) + 2 * N + 1
    BY <1>1, <1>2
  <2>. QED  BY <1>0, <1>4, <1>5, <2>1, OnlyBackward
<1>7. \A u \in Thread : InRange(th2[u])
  <2>1. InRange(t)
    BY <1>0, <1>3 DEF InRange
  <2>. QED  BY <1>0, <2>1, RangesKept
<1>8. Close(p, th2)
  BY <1>3, StaysClose
<1>. QED  BY <1>0, <1>4, <1>6, <1>7, <1>8 DEF DataOK

(* When all results are written UX = y holds. *)
LEMMA Finishes ==
  ASSUME NEW p, NEW th, Threads(p, th), Factored(p), NEW m \in Column, NEW y \in Column,
         BackwardRows(p, th, Divided(p, th[0], m), y),
         \A u \in Thread : th[u].barriers >= Loads(p) + 2 * N + 1,
         th[0].pc # "result"
  PROVE  SolvesUpper(p.A, m, y)
<1>1. /\ Loads(p) \in Int /\ N \in Nat /\ N > 0 /\ 0 \in Thread /\ \A r \in Rows : r \in 0..(N - 1)
      /\ p.A \in Square /\ p.ubw \in 0..(N - 1)
      /\ \A u \in Thread : th[u].barriers \in Nat
  BY Counts DEF Factored
<1>2. Divided(p, th[0], m) = m
  <2>1. ASSUME NEW j \in Rows PROVE j \in Written(p, th[0])
    <3>1. th[0].barriers >= Loads(p) + 2 * N + 1 /\ th[0].barriers \in Nat
      BY <1>1
    <3>. QED  BY <1>1, <3>1 DEF Written
  <2>. QED  BY <2>1 DEF Divided, Column
<1>3. ASSUME NEW r \in Rows
      PROVE  Plus(Times(Entry(p.A, r, r), m[r]), Dot(p.A, r, m, (r + 1)..(N - 1))) = y[r]
  <2>1. PICK S, T : S = Backed(p, th, r) /\ T = (r + 1)..(N - 1)
    OBVIOUS
  <2>2. ASSUME NEW k \in Rows
        PROVE  \/ k \in S /\ k \in T
               \/ k \notin S /\ k \notin T
               \/ Entry(p.A, r, k) = 0
    <3>1. CASE k \notin T
      BY <2>1, <3>1 DEF Backed
    <3>2. CASE k \in T /\ k - r > p.ubw
      <4>1. Entry(p.A, r, k) = 0
        BY <3>2 DEF Factored, InUpperBand
      <4>. QED  BY <4>1
    <3>3. CASE k \in T /\ ~ (k - r > p.ubw)
      <4>1. k - p.ubw \in Int /\ r \in Int /\ r >= k - p.ubw /\ k \in (r + 1)..(N - 1)
        BY <1>1, <2>1, <3>3
      <4>2. PICK u \in Thread : Dealt(u, r, k - p.ubw)
        BY <4>1, DealtToSome
      <4>3. th[u].barriers > Loads(p) + 2 * N - k
        <5>1. th[u].barriers >= Loads(p) + 2 * N + 1 /\ th[u].barriers \in Nat
          BY <1>1
        <5>. QED  BY <1>1, <4>1, <5>1
      <4>4. Back(p, u, th[u], r, k)
        BY <4>2, <4>3 DEF Back
      <4>5. k \in S
        BY <2>1, <4>1, <4>4 DEF Backed
      <4>. QED  BY <3>3, <4>5
    <3>. QED  BY <3>1, <3>2, <3>3
  <2>3. Dot(p.A, r, m, S) = Dot(p.A, r, m, T)
    BY <1>1, <2>2, DotSame
  <2>. QED  BY <1>2, <2>1, <2>3 DEF BackwardRows
<1>. QED  BY <1>3 DEF SolvesUpper

(* The last result, and the barrier behind the loop. *)
LEMMA LastResult ==
  ASSUME NEW p, NEW th, NEW mm, NEW o \in Thread, NEW t, NEW th2, NEW mm2,
         Stepping(p, th, o, t, th2), DataOK(p, th, mm),
         NEW i, NEW b, NEW x, NEW n, State(th[o], i, b, x, n), th[o].pc = "result",
         ~ (i > 0), p.local, State(t, i, o, x, n + 1), t.pc = "store",
         mm2 = IF o = 0 THEN Put(mm, Area(p), i, x) ELSE mm
  PROVE  DataOK(p, th2, mm2)
<1>0. /\ Threads(p, th) /\ Threads(p, th2) /\ Factored(p) /\ p.b \in Column
      /\ \A u \in Thread : InRange(th[u])
  BY DEF Stepping, DataOK
<1>1. /\ Loads(p) \in Int /\ Loads(p) = 1 /\ N \in Nat /\ N > 0 /\ 0 \in Thread
      /\ BlockSize \in Nat /\ o \in Nat /\ o < BlockSize /\ \A r \in Rows : r \in 0..(N - 1)
  BY <1>0, Counts
<1>2. /\ i = 0 /\ n = Loads(p) + 2 * N + 1
  <2>1. i \in 0..(N - 1) /\ n = Loads(p) + 2 * N + 1 - i
    BY <1>0, StateOf, ThreadAt, Position
  <2>. QED  BY <1>1, <2>1
<1>3. /\ th[o].x = x /\ th[o].barriers = n
      /\ t.pc = "store" /\ t.b = o /\ t.x = x /\ t.barriers = n + 1
  BY StateOf
<1>4. t.barriers = th[o].barriers + 1 /\ Fresh(p, o, t)
  BY <1>3 DEF Fresh
<1>5. PICK m : m = mm2[Area(p)]
  OBVIOUS
<1>6. /\ mm2 \in [{"B", "sol"} -> Column]
      /\ Registers(p, th2, m)
      /\ \E y \in Column : /\ SolvesLower(p.A, y, Target(p))
                           /\ BackwardRows(p, th2, Divided(p, th2[0], m), y)
  <2>1. t.pc \in {"backward", "store", "done"} /\ (t.barriers = n \/ (t.barriers = n + 1 /\ i = 0))
    BY <1>2, <1>3
  <2>. QED  BY <1>5, <2>1, Results
<1>7. m \in Column
  BY <1>5, <1>6 DEF Area
<1>8. /\ \A k \in Int : /\ k <= Loads(p) + 2 * N + 1 => Past(th2, k)
      /\ Past(th2, Loads(p) + 2 * N + 2) =>
           \A u \in Thread : th2[u].barriers = Loads(p) + 2 * N + 2 /\ Fresh(p, u, th2[u])
  <2>1. Arriving(p, th2, n)
    BY <1>3, <1>4, ArrivingAfter
  <2>2. n \in Int /\ n + 1 = Loads(p) + 2 * N + 2
    BY <1>1, <1>2
  <2>3. Past(th2, n + 1) => \A u \in Thread : th2[u].barriers = n + 1 /\ Fresh(p, u, th2[u])
    BY <2>1 DEF Arriving
  <2>4. \A k \in Int : k <= n => Past(th2, k)
    BY <2>1 DEF Arriving
  <2>. QED  BY <1>2, <2>2, <2>3, <2>4
<1>9. Loading(p, th2, mm2) /\ Pivoting(p, th2, m) /\ ForwardPhase(p, th2, m)
  <2>1. Past(th2, 1) /\ Past(th2, Loads(p) + 1) /\ Past(th2, Loads(p) + N + 1)
    BY <1>1, <1>8
  <2>. QED  BY <2>1 DEF Loading, Pivoting, ForwardPhase
<1>10. BackwardPhase(p, th2, m)
  BY <1>6 DEF BackwardPhase
<1>11. Storing(p, th2, mm2)
  <2>. SUFFICES ASSUME Past(th2, Loads(p) + 2 * N + 2)
                PROVE  /\ \E y \in Column : SolvesLower(p.A, y, Target(p)) /\ SolvesUpper(p.A, m, y)
                       /\ \A u \in Thread : \A r \in Rows :
                            ~ (Dealt(u, r, 0) /\ (th2[u].pc = "done" \/ th2[u].b > r))
    BY <1>5 DEF Storing
  <2>1. \A u \in Thread : th2[u].barriers = Loads(p) + 2 * N + 2 /\ Fresh(p, u, th2[u])
    BY <1>8
  <2>2. ASSUME NEW u \in Thread PROVE th2[u].pc = "store" /\ th2[u].b = u
    <3>1. th2[u].barriers = Loads(p) + 2 * N + 2 /\ Fresh(p, u, th2[u])
      BY <2>1
    <3>2. /\ th2[u].pc = "pivot" => th2[u].barriers = Loads(p)
          /\ th2[u].pc = "forward" => th2[u].barriers = Loads(p) + 1 + th2[u].i
          /\ th2[u].pc = "backward" => th2[u].barriers = Loads(p) + 2 * N - th2[u].i
          /\ th2[u].pc = "result" => th2[u].barriers = Loads(p) + 2 * N + 1 - th2[u].i
          /\ th2[u].pc = "done" => th2[u].barriers = Loads(p) + 2 * N + 3
      BY <1>0, Position
    <3>3. th2[u].i \in 0..(N - 1)
      BY <1>0, ThreadAt
    <3>4. th2[u].pc \notin {"pivot", "forward", "backward", "result", "done"}
      BY <1>1, <3>1, <3>2, <3>3
    <3>. QED  BY <3>1, <3>4 DEF Fresh
  <2>3. PICK y \in Column : /\ SolvesLower(p.A, y, Target(p))
                            /\ BackwardRows(p, th2, Divided(p, th2[0], m), y)
    BY <1>6
  <2>4. SolvesUpper(p.A, m, y)
    <3>1. \A u \in Thread : th2[u].barriers >= Loads(p) + 2 * N + 1
      BY <1>1, <2>1
    <3>2. th2[0].pc # "result"
      BY <1>1, <2>2
    <3>. QED  BY <1>0, <1>7, <2>3, <3>1, <3>2, Finishes
  <2>5. ASSUME NEW u \in Thread, NEW r \in Rows, Dealt(u, r, 0)
        PROVE  ~ (th2[u].pc = "done" \/ th2[u].b > r)
    <3>1. u \in Nat /\ r \in Int /\ 0 \in Int
      BY <1>0, <1>1, Counts
    <3>2. r >= 0 + u
      BY <2>5, <3>1, DealtAbove
    <3>. QED  BY <2>2, <3>1, <3>2
  <2>. QED  BY <2>3, <2>4, <2>5
<1>12. \A u \in Thread : InRange(th2[u])
  <2>1. InRange(th[o])
    BY <1>0
  <2>2. InRange(t)
    BY <1>1, <1>3, <2>1 DEF InRange
  <2>. QED  BY <1>0, <2>2, RangesKept
<1>13. Close(p, th2)
  BY <1>4, StaysClose
<1>. QED  BY <1>0, <1>5, <1>6, <1>9, <1>10, <1>11, <1>12, <1>13 DEF DataOK

-----------------------------------------------------------------------------
(* The end, and the beginning *)

LEMMA OnlyStoring ==
  ASSUME NEW p, NEW th, Threads(p, th), NEW mm, p.local, Past(th, Loads(p) + 2 * N + 2),
         \A k \in Int : k <= Loads(p) + 2 * N + 2 => Past(th, k)
  PROVE  /\ Loading(p, th, mm) /\ Pivoting(p, th, mm[Area(p)]) /\ ForwardPhase(p, th, mm[Area(p)])
         /\ BackwardPhase(p, th, mm[Area(p)])
<1>1. Loads(p) \in Int /\ Loads(p) = 1 /\ N \in Nat /\ N > 0
  BY Counts
<1>2. /\ Past(th, 1) /\ Past(th, Loads(p) + 1) /\ Past(th, Loads(p) + N + 1)
      /\ Past(th, Loads(p) + 2 * N + 2)
  BY <1>1
<1>. QED  BY <1>2 DEF Loading, Pivoting, ForwardPhase, BackwardPhase

(* B[b] = sol[b] *)
LEMMA StoreRow ==
  ASSUME NEW p, NEW th, NEW mm, NEW o \in Thread, NEW t, NEW th2, NEW mm2,
         Stepping(p, th, o, t, th2), DataOK(p, th, mm),
         NEW i, NEW b, NEW x, NEW n, State(th[o], i, b, x, n), th[o].pc = "store", b < N,
         State(t, i, b + BlockSize, x, n), t.pc = "store", mm2 = Returned(mm, b)
  PROVE  DataOK(p, th2, mm2)
<1>0. /\ Threads(p, th) /\ Threads(p, th2) /\ Factored(p) /\ p.b \in Column
      /\ mm \in [{"B", "sol"} -> Column] /\ \A u \in Thread : InRange(th[u])
  BY DEF Stepping, DataOK
<1>1. /\ Loads(p) \in Int /\ (p.local => Loads(p) = 1) /\ N \in Nat /\ N > 0
      /\ BlockSize \in Nat /\ o \in Nat /\ \A r \in Rows : r \in 0..(N - 1)
  BY <1>0, Counts
<1>2. p.local /\ n = Loads(p) + 2 * N + 2 /\ b \in Int /\ Dealt(o, b, 0)
  BY <1>0, StateOf, ThreadAt, Position
<1>3. b \in Rows
  <2>1. b >= 0
    BY <1>2, DealtFrom
  <2>. QED  BY <1>1, <1>2, <2>1 DEF Rows
<1>4. th2[o] = t /\ \A u \in Thread \ {o} : th2[u] = th[u]
  BY StepTo
<1>5. /\ th[o].pc = "store" /\ th[o].b = b /\ th[o].barriers = n /\ th[o].x = x
      /\ t.pc = "store" /\ t.b = b + BlockSize /\ t.barriers = n /\ t.x = x
  BY <1>2, StateOf
<1>6. /\ \E y \in Column : SolvesLower(p.A, y, Target(p)) /\ SolvesUpper(p.A, mm["sol"], y)
      /\ \A u \in Thread : \A r \in Rows :
           Dealt(u, r, 0) /\ (th[u].pc = "done" \/ th[u].b > r) => mm["B"][r] = mm["sol"][r]
  <2>0. Slowest(th, n)
    BY <1>5, SlowestBefore
  <2>1. Past(th, Loads(p) + 2 * N + 2)
    BY <1>1, <1>2, <2>0 DEF Slowest
  <2>2. Area(p) = "sol"
    BY <1>2 DEF Area
  <2>3. Storing(p, th, mm)
    BY DEF DataOK
  <2>. QED  BY <2>1, <2>2, <2>3 DEF Storing
<1>7. /\ mm2 \in [{"B", "sol"} -> Column] /\ mm2["sol"] = mm["sol"]
      /\ mm2["B"][b] = mm["sol"][b] /\ \A r \in Rows \ {b} : mm2["B"][r] = mm["B"][r]
  <2>1. mm["sol"][b] \in Elements
    BY <1>0, <1>3 DEF Column
  <2>2. mm2 = Put(mm, "B", b, mm["sol"][b])
    BY DEF Returned
  <2>3. "B" \in {"B", "sol"} /\ "sol" \in {"B", "sol"} \ {"B"}
    OBVIOUS
  <2>. QED  BY <1>0, <1>3, <2>1, <2>2, <2>3, PutRules
<1>8. ASSUME NEW u \in Thread, NEW r \in Rows, Dealt(u, r, 0), th2[u].pc = "done" \/ th2[u].b > r
      PROVE  mm2["B"][r] = mm2["sol"][r]
  <2>1. CASE r = b
    BY <1>7, <2>1
  <2>2. CASE r # b /\ u # o
    BY <1>4, <1>6, <1>7, <1>8, <2>2
  <2>3. CASE r # b /\ u = o
    <3>1. r \in Int /\ b + BlockSize > r
      BY <1>1, <1>4, <1>5, <1>8, <2>3
    <3>2. ~ (b < r)
      <4>1. Dealt(o, b, 0) /\ Dealt(o, r, 0) /\ b \in Int /\ 0 \in Int
        BY <1>2, <1>8, <2>3
      <4>2. b < r => b + BlockSize <= r
        BY <3>1, <4>1, DealtApart
      <4>. QED  BY <1>1, <3>1, <4>1, <4>2
    <3>3. th[o].b > r
      BY <1>2, <1>5, <2>3, <3>1, <3>2
    <3>. QED  BY <1>6, <1>7, <1>8, <2>3, <3>3
  <2>. QED  BY <2>1, <2>2, <2>3
<1>9. \A u \in Thread : InRange(th2[u])
  <2>1. InRange(th[o])
    BY <1>0
  <2>2. InRange(t)
    BY <1>1, <1>2, <1>3, <1>5, <2>1 DEF InRange, Rows
  <2>. QED  BY <1>0, <2>2, RangesKept
<1>10. Close(p, th2)
  BY <1>5, StaysClose
<1>11. Registers(p, th2, mm2[Area(p)])
  <2>1. th[o].barriers >= Loads(p) + 2 * N + 2 /\ t.pc \notin {"eliminate", "substitute", "result"}
    BY <1>1, <1>2, <1>5
  <2>. QED  BY <2>1, NoRegisters
<1>12. /\ Loading(p, th2, mm2) /\ Pivoting(p, th2, mm2[Area(p)]) /\ ForwardPhase(p, th2, mm2[Area(p)])
       /\ BackwardPhase(p, th2, mm2[Area(p)])
  <2>1. Slowest(th2, n)
    BY <1>5, SlowestAfter
  <2>2. \A k \in Int : k <= Loads(p) + 2 * N + 2 => Past(th2, k)
    BY <1>2, <2>1 DEF Slowest
  <2>3. Past(th2, Loads(p) + 2 * N + 2)
    BY <1>1, <2>2
  <2>. QED  BY <1>0, <1>2, <2>2, <2>3, OnlyStoring
<1>13. Storing(p, th2, mm2)
  <2>1. mm2[Area(p)] = mm["sol"]
    BY <1>2, <1>7 DEF Area
  <2>. QED  BY <1>6, <1>8, <2>1 DEF Storing
<1>. QED  BY <1>0, <1>7, <1>9, <1>10, <1>11, <1>12, <1>13 DEF DataOK

(* The barrier after the stores *)
LEMMA StoredAll ==
  ASSUME NEW p, NEW th, NEW mm, NEW o \in Thread, NEW t, NEW th2,
         Stepping(p, th, o, t, th2), DataOK(p, th, mm),
         NEW i, NEW b, NEW x, NEW n, State(th[o], i, b, x, n), th[o].pc = "store", ~ (b < N),
         State(t, i, b, x, n + 1), t.pc = "done"
  PROVE  DataOK(p, th2, mm)
<1>0. /\ Threads(p, th) /\ Threads(p, th2) /\ Factored(p) /\ p.b \in Column
      /\ mm \in [{"B", "sol"} -> Column] /\ \A u \in Thread : InRange(th[u])
  BY DEF Stepping, DataOK
<1>1. /\ Loads(p) \in Int /\ (p.local => Loads(p) = 1) /\ N \in Nat /\ N > 0
      /\ \A r \in Rows : r \in 0..(N - 1)
  BY <1>0, Counts
<1>2. p.local /\ n = Loads(p) + 2 * N + 2 /\ b \in Int
  BY <1>0, StateOf, ThreadAt, Position
<1>3. th2[o] = t /\ \A u \in Thread \ {o} : th2[u] = th[u]
  BY StepTo
<1>4. /\ th[o].pc = "store" /\ th[o].b = b /\ th[o].barriers = n /\ th[o].x = x
      /\ t.pc = "done" /\ t.b = b /\ t.barriers = n + 1 /\ t.x = x
  BY <1>2, StateOf
<1>5. t.barriers = th[o].barriers + 1 /\ Fresh(p, o, t)
  BY <1>2, <1>4 DEF Fresh
<1>6. /\ \E y \in Column : SolvesLower(p.A, y, Target(p)) /\ SolvesUpper(p.A, mm[Area(p)], y)
      /\ \A u \in Thread : \A r \in Rows :
           Dealt(u, r, 0) /\ (th[u].pc = "done" \/ th[u].b > r) => mm["B"][r] = mm["sol"][r]
  <2>0. Slowest(th, n)
    BY <1>4, SlowestBefore
  <2>1. Past(th, Loads(p) + 2 * N + 2)
    BY <1>1, <1>2, <2>0 DEF Slowest
  <2>3. Storing(p, th, mm)
    BY DEF DataOK
  <2>. QED  BY <2>1, <2>3 DEF Storing
<1>7. ASSUME NEW u \in Thread, NEW r \in Rows, Dealt(u, r, 0), th2[u].pc = "done" \/ th2[u].b > r
      PROVE  mm["B"][r] = mm["sol"][r]
  <2>1. CASE u # o
    BY <1>3, <1>6, <1>7, <2>1
  <2>2. CASE u = o
    <3>1. th[o].b > r
      BY <1>1, <1>2, <1>4
    <3>. QED  BY <1>6, <1>7, <2>2, <3>1
  <2>. QED  BY <2>1, <2>2
<1>8. \A u \in Thread : InRange(th2[u])
  <2>1. InRange(th[o])
    BY <1>0
  <2>2. InRange(t)
    BY <1>4, <2>1 DEF InRange
  <2>. QED  BY <1>0, <2>2, RangesKept
<1>9. Close(p, th2)
  BY <1>5, StaysClose
<1>10. Registers(p, th2, mm[Area(p)])
  <2>1. th[o].barriers >= Loads(p) + 2 * N + 2 /\ t.pc \notin {"eliminate", "substitute", "result"}
    BY <1>1, <1>2, <1>4
  <2>. QED  BY <2>1, NoRegisters
<1>11. /\ Loading(p, th2, mm) /\ Pivoting(p, th2, mm[Area(p)]) /\ ForwardPhase(p, th2, mm[Area(p)])
       /\ BackwardPhase(p, th2, mm[Area(p)])
  <2>1. Arriving(p, th2, n)
    BY <1>4, <1>5, ArrivingAfter
  <2>2. \A k \in Int : k <= Loads(p) + 2 * N + 2 => Past(th2, k)
    BY <1>2, <2>1 DEF Arriving
  <2>3. Past(th2, Loads(p) + 2 * N + 2)
    BY <1>1, <2>2
  <2>. QED  BY <1>0, <1>2, <2>2, <2>3, OnlyStoring
<1>12. Storing(p, th2, mm)
  BY <1>6, <1>7 DEF Storing
<1>. QED  BY <1>0, <1>8, <1>9, <1>10, <1>11, <1>12 DEF DataOK

(* Before the first step *)
LEMMA StartsOK ==
  ASSUME NEW p, NEW th, NEW mm, Threads(p, th), Factored(p), p.b \in Column,
         mm["B"] = p.b, mm["sol"] \in Column, mm \in [{"B", "sol"} -> Column],
         \A o \in Thread : /\ th[o].barriers = 0 /\ th[o].b = o /\ th[o].x = 0
                           /\ th[o].pc = IF p.local THEN "load" ELSE "pivot"
  PROVE  DataOK(p, th, mm)
<1>1. /\ Loads(p) \in Int /\ Loads(p) >= 0 /\ (p.local => Loads(p) = 1) /\ (~ p.local => Loads(p) = 0)
      /\ N \in Nat /\ N > 0 /\ 0 \in Thread
      /\ \A u \in Thread : u \in Nat /\ u < BlockSize
      /\ BlockSize \in Nat /\ \A r \in Rows : r \in 0..(N - 1)
  BY Counts
<1>2. \A m \in Int : m > 0 => ~ Past(th, m)
  <2>1. th[0].barriers = 0
    BY <1>1
  <2>. QED  BY <1>1, <2>1 DEF Past
<1>3. \A u \in Thread : InRange(th[u])
  <2>1. 0 \in Elements
    BY Zeros
  <2>. QED  BY <1>1, <2>1 DEF InRange
<1>4. Close(p, th)
  BY DEF Close
<1>5. Registers(p, th, mm[Area(p)])
  BY DEF Registers
<1>6. Loading(p, th, mm)
  <2>. SUFFICES ASSUME p.local, NEW u \in Thread, NEW r \in Rows, Dealt(u, r, 0)
                PROVE  ~ (th[u].pc # "load" \/ th[u].b > r)
    BY DEF Loading
  <2>1. r \in Int /\ u \in Nat /\ 0 \in Int
    BY <1>1
  <2>2. r >= 0 + u
    BY <2>1, DealtAbove
  <2>. QED  BY <2>1, <2>2
<1>7. Pivoting(p, th, mm[Area(p)])
  <2>1. CASE p.local
    <3>1. ~ Past(th, Loads(p))
      BY <1>1, <1>2, <2>1
    <3>. QED  BY <3>1 DEF Pivoting
  <2>2. CASE ~ p.local
    <3>1. Area(p) = "B" /\ Loads(p) = 0 /\ th[0].barriers = 0
      BY <1>1, <2>2 DEF Area
    <3>. QED  BY <3>1 DEF Pivoting
  <2>. QED  BY <2>1, <2>2
<1>8. ~ Past(th, Loads(p) + 1) /\ ~ Past(th, Loads(p) + N + 1) /\ ~ Past(th, Loads(p) + 2 * N + 2)
  BY <1>1, <1>2
<1>. QED  BY <1>3, <1>4, <1>5, <1>6, <1>7, <1>8
          DEF DataOK, ForwardPhase, BackwardPhase, Storing

(* After the last one *)
LEMMA EndsOK ==
  ASSUME NEW p, NEW th, NEW mm, Threads(p, th), DataOK(p, th, mm),
         \A o \in Thread : th[o].pc = "done"
  PROVE  /\ mm["B"] \in Column
         /\ Applied(L(p.A), Applied(U(p.A), mm["B"])) = Target(p)
<1>0. Factored(p) /\ p.b \in Column /\ mm \in [{"B", "sol"} -> Column] /\ p.A \in Square
  BY DEF DataOK, Factored
<1>1. /\ Loads(p) \in Int /\ N \in Nat /\ N > 0 /\ 0 \in Thread /\ \A r \in Rows : r \in 0..(N - 1)
      /\ \A u \in Thread : th[u].barriers \in Nat
  BY Counts
<1>2. \A o \in Thread : th[o].barriers = Loads(p) + 2 * N + (IF p.local THEN 3 ELSE 1)
  BY Position
<1>3. mm["B"] \in Column /\ mm["sol"] \in Column
  BY <1>0
<1>4. \E y \in Column : SolvesLower(p.A, y, Target(p)) /\ SolvesUpper(p.A, mm["B"], y)
  <2>1. CASE p.local
    <3>1. Past(th, Loads(p) + 2 * N + 2) /\ Area(p) = "sol"
      BY <1>1, <1>2, <2>1 DEF Past, Area
    <3>2. Storing(p, th, mm)
      BY DEF DataOK
    <3>3. /\ \E y \in Column : SolvesLower(p.A, y, Target(p)) /\ SolvesUpper(p.A, mm["sol"], y)
          /\ \A o \in Thread : \A r \in Rows : Dealt(o, r, 0) => mm["B"][r] = mm["sol"][r]
      BY <3>1, <3>2 DEF Storing
    <3>4. ASSUME NEW r \in Rows PROVE mm["B"][r] = mm["sol"][r]
      <4>1. r \in Int /\ r >= 0 /\ 0 \in Int
        BY <1>1
      <4>2. PICK u \in Thread : Dealt(u, r, 0)
        BY <4>1, DealtToSome
      <4>. QED  BY <3>3, <4>2
    <3>5. mm["B"] = mm["sol"]
      BY <1>3, <3>4 DEF Column
    <3>. QED  BY <3>3, <3>5
  <2>2. CASE ~ p.local
    <3>1. PICK m \in Column : m = mm["B"] /\ m = mm[Area(p)]
      BY <1>3, <2>2 DEF Area
    <3>2. Past(th, Loads(p) + N + 1) /\ ~ Past(th, Loads(p) + 2 * N + 2)
      BY <1>1, <1>2, <2>2 DEF Past
    <3>3. BackwardPhase(p, th, m)
      BY <3>1 DEF DataOK
    <3>4. PICK y \in Column : /\ SolvesLower(p.A, y, Target(p))
                              /\ BackwardRows(p, th, Divided(p, th[0], m), y)
      BY <3>2, <3>3 DEF BackwardPhase
    <3>5. (\A u \in Thread : th[u].barriers >= Loads(p) + 2 * N + 1) /\ th[0].pc # "result"
      BY <1>1, <1>2, <2>2
    <3>6. SolvesUpper(p.A, m, y)
      BY <1>0, <3>4, <3>5, Finishes
    <3>. QED  BY <3>1, <3>4, <3>6
  <2>. QED  BY <2>1, <2>2
<1>5. PICK y \in Column : SolvesLower(p.A, y, Target(p)) /\ SolvesUpper(p.A, mm["B"], y)
  BY <1>4
<1>6. Target(p) \in Column
  BY <1>0, PivotedMoves DEF Target, Factored
<1>. QED  BY <1>0, <1>3, <1>5, <1>6, Substituting

-----------------------------------------------------------------------------
(* The steps of the specification *)

(* The state before and after a step of thread o, and its thread's.        *)
Snapshot(p, th, mm, th2, mm2) ==
  p = problem /\ th = thread /\ mm = mem /\ th2 = thread' /\ mm2 = mem'

LEMMA Wiring ==
  ASSUME IInv, IInv', Data, NEW o \in Thread, NEW t, Go(o, t), Released(o), problem' = problem,
         NEW p, NEW th, NEW mm, NEW th2, NEW mm2, Snapshot(p, th, mm, th2, mm2)
  PROVE  Stepping(p, th, o, t, th2) /\ DataOK(p, th, mm)
<1>1. Threads(p, th)
  BY DEF IInv, Threads, Snapshot
<1>2. Threads(p, th2)
  BY DEF IInv, Threads, Snapshot
<1>3. DataOK(p, th, mm)
  BY DEF Data, Snapshot
<1>4. Close(p, th)
  BY <1>3 DEF DataOK
<1>5. th2 = [th EXCEPT ![o] = t] /\ \A u \in Thread : th[u].barriers >= th[o].barriers
  BY DEF Go, Released, Snapshot
<1>. QED  BY <1>1, <1>2, <1>3, <1>4, <1>5 DEF Stepping

LEMMA Unwiring ==
  ASSUME problem' = problem, NEW p, NEW th, NEW mm, NEW th2, NEW mm2, Snapshot(p, th, mm, th2, mm2),
         DataOK(p, th2, mm2)
  PROVE  Data'
  BY DEF Data, Snapshot

(* A thread's state, field by field. *)
LEMMA Fields ==
  ASSUME IInv, NEW o \in Thread,
         NEW p, NEW th, NEW mm, NEW th2, NEW mm2, Snapshot(p, th, mm, th2, mm2)
  PROVE  /\ th[o] = [pc |-> th[o].pc, i |-> th[o].i, b |-> th[o].b, x |-> th[o].x,
                     barriers |-> th[o].barriers]
         /\ th[o].i \in Int /\ th[o].b \in Int
         /\ State(th[o], th[o].i, th[o].b, th[o].x, th[o].barriers)
<1>1. ThreadOK(o, th[o], p)
  BY DEF IInv, Snapshot
<1>. QED  BY <1>1 DEF ThreadOK, State, Rows

LEMMA LoadData ==
  ASSUME IInv, IInv', Data, NEW o \in Thread, Load(o)
  PROVE  Data'
<1>1. PICK p, th, mm, th2, mm2 : Snapshot(p, th, mm, th2, mm2)
  BY DEF Snapshot
<1>2. th[o].pc = "load" /\ Released(o) /\ problem' = problem
  BY <1>1 DEF Load, At, Snapshot
<1>3. PICK s, i, b, x, n : s = th[o] /\ i = s.i /\ b = s.b /\ x = s.x /\ n = s.barriers
  OBVIOUS
<1>4. s = [pc |-> "load", i |-> i, b |-> b, x |-> x, barriers |-> n] /\ State(th[o], i, b, x, n)
  BY <1>1, <1>2, <1>3, Fields
<1>5. CASE b < N
  <2>1. PICK t : t = [pc |-> "load", i |-> i, b |-> b + BlockSize, x |-> x, barriers |-> n]
    OBVIOUS
  <2>2. Go(o, t)
    <3>1. Go(o, [s EXCEPT !.b = @ + BlockSize])
      BY <1>1, <1>3, <1>5 DEF Load, Snapshot
    <3>2. [s EXCEPT !.b = @ + BlockSize] = t
      BY <1>4, <2>1
    <3>. QED  BY <3>1, <3>2
  <2>3. mm2 = Brought(mm, b)
    BY <1>1, <1>3, <1>5 DEF Load, Snapshot, Brought, Put
  <2>4. Stepping(p, th, o, t, th2) /\ DataOK(p, th, mm)
    BY <1>1, <1>2, <2>2, Wiring
  <2>5. State(t, i, b + BlockSize, x, n) /\ t.pc = "load"
    BY <2>1 DEF State
  <2>6. DataOK(p, th2, mm2)
    BY <1>2, <1>4, <1>5, <2>3, <2>4, <2>5, LoadRow
  <2>. QED  BY <1>1, <1>2, <2>6, Unwiring
<1>6. CASE ~ (b < N)
  <2>1. PICK t : t = [pc |-> "pivot", i |-> i, b |-> b, x |-> x, barriers |-> n + 1]
    OBVIOUS
  <2>2. Go(o, t)
    <3>1. Go(o, [s EXCEPT !.pc = "pivot", !.barriers = @ + 1])
      BY <1>1, <1>3, <1>6 DEF Load, Arrived, Snapshot
    <3>2. PICK u : u = [s EXCEPT !.pc = "pivot", !.barriers = @ + 1]
      OBVIOUS
    <3>3. u = [pc |-> "pivot", i |-> i, b |-> b, x |-> x, barriers |-> n + 1]
      BY <1>4, <3>2
    <3>. QED  BY <2>1, <3>1, <3>2, <3>3
  <2>3. mm2 = mm
    BY <1>1, <1>3, <1>6 DEF Load, Snapshot
  <2>4. Stepping(p, th, o, t, th2) /\ DataOK(p, th, mm)
    BY <1>1, <1>2, <2>2, Wiring
  <2>5. State(t, i, b, x, n + 1) /\ t.pc = "pivot"
    BY <2>1 DEF State
  <2>6. DataOK(p, th2, mm2)
    BY <1>2, <1>4, <1>6, <2>3, <2>4, <2>5, Loaded
  <2>. QED  BY <1>1, <1>2, <2>6, Unwiring
<1>. QED  BY <1>5, <1>6

LEMMA PivotData ==
  ASSUME IInv, IInv', Data, NEW o \in Thread, Pivot(o)
  PROVE  Data'
<1>1. PICK p, th, mm, th2, mm2 : Snapshot(p, th, mm, th2, mm2)
  BY DEF Snapshot
<1>2. th[o].pc = "pivot" /\ Released(o) /\ problem' = problem
  BY <1>1 DEF Pivot, At, Snapshot
<1>3. PICK s, i, b, x, n : s = th[o] /\ i = s.i /\ b = s.b /\ x = s.x /\ n = s.barriers
  OBVIOUS
<1>4. s = [pc |-> "pivot", i |-> i, b |-> b, x |-> x, barriers |-> n] /\ State(th[o], i, b, x, n)
  BY <1>1, <1>2, <1>3, Fields
<1>. QED
  <2>1. PICK t : t = [pc |-> "forward", i |-> i, b |-> b, x |-> x, barriers |-> n + 1]
    OBVIOUS
  <2>2. Go(o, t)
    <3>1. PICK u : Go(o, u) /\ u = [s EXCEPT !.pc = "forward", !.barriers = @ + 1]
      BY <1>1, <1>3 DEF Pivot, Arrived, Snapshot
    <3>2. u = [pc |-> "forward", i |-> i, b |-> b, x |-> x, barriers |-> n + 1]
      BY <1>4, <3>1
    <3>. QED  BY <2>1, <3>1, <3>2
  <2>3. mm2 = IF o = 0 THEN [mm EXCEPT ![Area(p)] = Pivoted(p.piv, @)] ELSE mm
    BY <1>1, <1>3 DEF Pivot, Work, Area, Snapshot
  <2>4. Stepping(p, th, o, t, th2) /\ DataOK(p, th, mm)
    BY <1>1, <1>2, <2>2, Wiring
  <2>5. State(t, i, b, x, n + 1) /\ t.pc = "forward"
    BY <2>1 DEF State
  <2>6. DataOK(p, th2, mm2)
    BY <1>2, <1>4, <2>3, <2>4, <2>5, Pivots0
  <2>. QED  BY <1>1, <1>2, <2>6, Unwiring

LEMMA ReadForwardData ==
  ASSUME IInv, IInv', Data, NEW o \in Thread, ReadForward(o)
  PROVE  Data'
<1>1. PICK p, th, mm, th2, mm2 : Snapshot(p, th, mm, th2, mm2)
  BY DEF Snapshot
<1>2. th[o].pc = "forward" /\ Released(o) /\ problem' = problem
  BY <1>1 DEF ReadForward, At, Snapshot
<1>3. PICK s, i, b, x, n : s = th[o] /\ i = s.i /\ b = s.b /\ x = s.x /\ n = s.barriers
  OBVIOUS
<1>4. s = [pc |-> "forward", i |-> i, b |-> b, x |-> x, barriers |-> n] /\ State(th[o], i, b, x, n)
  BY <1>1, <1>2, <1>3, Fields
<1>. QED
  <2>1. PICK t : t = [pc |-> "eliminate", i |-> i, b |-> i + o + 1, x |-> mm[Area(p)][i], barriers |-> n]
    OBVIOUS
  <2>2. Go(o, t)
    <3>1. PICK u : Go(o, u) /\ u = [s EXCEPT !.pc = "eliminate", !.x = mm[Area(p)][i], !.b = i + o + 1]
      BY <1>1, <1>3 DEF ReadForward, Work, Area, Snapshot
    <3>2. u = [pc |-> "eliminate", i |-> i, b |-> i + o + 1, x |-> mm[Area(p)][i], barriers |-> n]
      BY <1>4, <3>1
    <3>. QED  BY <2>1, <3>1, <3>2
  <2>3. mm2 = mm
    BY <1>1, <1>3 DEF ReadForward, Snapshot
  <2>4. Stepping(p, th, o, t, th2) /\ DataOK(p, th, mm)
    BY <1>1, <1>2, <2>2, Wiring
  <2>5. State(t, i, i + o + 1, mm[Area(p)][i], n) /\ t.pc = "eliminate"
    BY <2>1 DEF State
  <2>6. DataOK(p, th2, mm2)
    BY <1>2, <1>4, <2>3, <2>4, <2>5, ReadsForward
  <2>. QED  BY <1>1, <1>2, <2>6, Unwiring

LEMMA EliminateData ==
  ASSUME IInv, IInv', Data, NEW o \in Thread, Eliminate(o)
  PROVE  Data'
<1>1. PICK p, th, mm, th2, mm2 : Snapshot(p, th, mm, th2, mm2)
  BY DEF Snapshot
<1>2. th[o].pc = "eliminate" /\ Released(o) /\ problem' = problem
  BY <1>1 DEF Eliminate, At, Snapshot
<1>3. PICK s, i, b, x, n : s = th[o] /\ i = s.i /\ b = s.b /\ x = s.x /\ n = s.barriers
  OBVIOUS
<1>4. s = [pc |-> "eliminate", i |-> i, b |-> b, x |-> x, barriers |-> n] /\ State(th[o], i, b, x, n)
  BY <1>1, <1>2, <1>3, Fields
<1>5. b <= i + p.lbw /\ b < N
  BY <1>1, <1>3 DEF Eliminate, Eliminating, Snapshot
<1>. QED
  <2>1. PICK t : t = [pc |-> "eliminate", i |-> i, b |-> b + BlockSize, x |-> x, barriers |-> n]
    OBVIOUS
  <2>2. Go(o, t)
    <3>1. PICK u : Go(o, u) /\ u = [s EXCEPT !.b = @ + BlockSize]
      BY <1>1, <1>3, <1>5 DEF Eliminate, Snapshot
    <3>2. u = [pc |-> "eliminate", i |-> i, b |-> b + BlockSize, x |-> x, barriers |-> n]
      BY <1>4, <3>1
    <3>. QED  BY <2>1, <3>1, <3>2
  <2>3. mm2 = Put(mm, Area(p), b, Minus(mm[Area(p)][b], Times(Entry(p.A, b, i), x)))
    BY <1>1, <1>3, <1>5 DEF Eliminate, Update, Put, Entry, Work, Area, Snapshot
  <2>4. Stepping(p, th, o, t, th2) /\ DataOK(p, th, mm)
    BY <1>1, <1>2, <2>2, Wiring
  <2>5. State(t, i, b + BlockSize, x, n) /\ t.pc = "eliminate"
    BY <2>1 DEF State
  <2>6. DataOK(p, th2, mm2)
    BY <1>2, <1>4, <1>5, <2>3, <2>4, <2>5, Eliminates
  <2>. QED  BY <1>1, <1>2, <2>6, Unwiring

LEMMA NextColumnData ==
  ASSUME IInv, IInv', Data, NEW o \in Thread, NextColumn(o)
  PROVE  Data'
<1>1. PICK p, th, mm, th2, mm2 : Snapshot(p, th, mm, th2, mm2)
  BY DEF Snapshot
<1>2. th[o].pc = "eliminate" /\ Released(o) /\ problem' = problem
  BY <1>1 DEF NextColumn, At, Snapshot
<1>3. PICK s, i, b, x, n : s = th[o] /\ i = s.i /\ b = s.b /\ x = s.x /\ n = s.barriers
  OBVIOUS
<1>4. s = [pc |-> "eliminate", i |-> i, b |-> b, x |-> x, barriers |-> n] /\ State(th[o], i, b, x, n)
  BY <1>1, <1>2, <1>3, Fields
<1>5. ~ (b <= i + p.lbw /\ b < N)
  BY <1>1, <1>3 DEF NextColumn, Eliminating, Snapshot
<1>6. CASE i < N - 1
  <2>1. PICK t : t = [pc |-> "forward", i |-> i + 1, b |-> b, x |-> x, barriers |-> n + 1]
    OBVIOUS
  <2>2. Go(o, t)
    <3>1. PICK a, u : Go(o, u) /\ u = [a EXCEPT !.i = @ + 1] /\ a = [s EXCEPT !.pc = "forward", !.barriers = @ + 1]
      BY <1>1, <1>3, <1>5, <1>6 DEF NextColumn, Arrived, Snapshot
    <3>2. a = [pc |-> "forward", i |-> i, b |-> b, x |-> x, barriers |-> n + 1]
      BY <1>4, <3>1
    <3>3. u = [a EXCEPT !.i = @ + 1]
      BY <3>1
    <3>4. u = [pc |-> "forward", i |-> i + 1, b |-> b, x |-> x, barriers |-> n + 1]
      BY <3>2, <3>3
    <3>. QED  BY <2>1, <3>1, <3>4
  <2>3. mm2 = mm
    BY <1>1, <1>3, <1>5, <1>6 DEF NextColumn, Snapshot
  <2>4. Stepping(p, th, o, t, th2) /\ DataOK(p, th, mm)
    BY <1>1, <1>2, <2>2, Wiring
  <2>5. State(t, i + 1, b, x, n + 1) /\ t.pc = "forward"
    BY <2>1 DEF State
  <2>6. DataOK(p, th2, mm2)
    BY <1>2, <1>4, <1>5, <1>6, <2>3, <2>4, <2>5, NextForward
  <2>. QED  BY <1>1, <1>2, <2>6, Unwiring
<1>7. CASE ~ (i < N - 1)
  <2>1. PICK t : t = [pc |-> "backward", i |-> i, b |-> b, x |-> x, barriers |-> n + 1]
    OBVIOUS
  <2>2. Go(o, t)
    <3>1. PICK u : Go(o, u) /\ u = [s EXCEPT !.pc = "backward", !.barriers = @ + 1]
      BY <1>1, <1>3, <1>5, <1>7 DEF NextColumn, Arrived, Snapshot
    <3>2. u = [pc |-> "backward", i |-> i, b |-> b, x |-> x, barriers |-> n + 1]
      BY <1>4, <3>1
    <3>. QED  BY <2>1, <3>1, <3>2
  <2>3. mm2 = mm
    BY <1>1, <1>3, <1>5, <1>7 DEF NextColumn, Snapshot
  <2>4. Stepping(p, th, o, t, th2) /\ DataOK(p, th, mm)
    BY <1>1, <1>2, <2>2, Wiring
  <2>5. State(t, i, b, x, n + 1) /\ t.pc = "backward"
    BY <2>1 DEF State
  <2>6. DataOK(p, th2, mm2)
    BY <1>2, <1>4, <1>5, <1>7, <2>3, <2>4, <2>5, LastForward
  <2>. QED  BY <1>1, <1>2, <2>6, Unwiring
<1>. QED  BY <1>6, <1>7

LEMMA ReadBackwardData ==
  ASSUME IInv, IInv', Data, NEW o \in Thread, ReadBackward(o)
  PROVE  Data'
<1>1. PICK p, th, mm, th2, mm2 : Snapshot(p, th, mm, th2, mm2)
  BY DEF Snapshot
<1>2. th[o].pc = "backward" /\ Released(o) /\ problem' = problem
  BY <1>1 DEF ReadBackward, At, Snapshot
<1>3. PICK s, i, b, x, n : s = th[o] /\ i = s.i /\ b = s.b /\ x = s.x /\ n = s.barriers
  OBVIOUS
<1>4. s = [pc |-> "backward", i |-> i, b |-> b, x |-> x, barriers |-> n] /\ State(th[o], i, b, x, n)
  BY <1>1, <1>2, <1>3, Fields
<1>. QED
  <2>1. PICK t : t = [pc |-> "substitute", i |-> i, b |-> i + o - p.ubw, x |-> Over(mm[Area(p)][i], Entry(p.A, i, i)), barriers |-> n]
    OBVIOUS
  <2>2. Go(o, t)
    <3>1. PICK u : Go(o, u) /\ u = [s EXCEPT !.pc = "substitute", !.x = Over(mm[Area(p)][i], Entry(p.A, i, i)), !.b = i + o - p.ubw]
      BY <1>1, <1>3 DEF ReadBackward, Entry, Work, Area, Snapshot
    <3>2. u = [pc |-> "substitute", i |-> i, b |-> i + o - p.ubw, x |-> Over(mm[Area(p)][i], Entry(p.A, i, i)), barriers |-> n]
      BY <1>4, <3>1
    <3>. QED  BY <2>1, <3>1, <3>2
  <2>3. mm2 = mm
    BY <1>1, <1>3 DEF ReadBackward, Snapshot
  <2>4. Stepping(p, th, o, t, th2) /\ DataOK(p, th, mm)
    BY <1>1, <1>2, <2>2, Wiring
  <2>5. State(t, i, i + o - p.ubw, Over(mm[Area(p)][i], Entry(p.A, i, i)), n) /\ t.pc = "substitute"
    BY <2>1 DEF State
  <2>6. DataOK(p, th2, mm2)
    BY <1>2, <1>4, <2>3, <2>4, <2>5, ReadsBackward
  <2>. QED  BY <1>1, <1>2, <2>6, Unwiring

LEMMA SubstituteData ==
  ASSUME IInv, IInv', Data, NEW o \in Thread, Substitute(o)
  PROVE  Data'
<1>1. PICK p, th, mm, th2, mm2 : Snapshot(p, th, mm, th2, mm2)
  BY DEF Snapshot
<1>2. th[o].pc = "substitute" /\ Released(o) /\ problem' = problem
  BY <1>1 DEF Substitute, At, Snapshot
<1>3. PICK s, i, b, x, n : s = th[o] /\ i = s.i /\ b = s.b /\ x = s.x /\ n = s.barriers
  OBVIOUS
<1>4. s = [pc |-> "substitute", i |-> i, b |-> b, x |-> x, barriers |-> n] /\ State(th[o], i, b, x, n)
  BY <1>1, <1>2, <1>3, Fields
<1>5. b < i
  BY <1>1, <1>3 DEF Substitute, Snapshot
<1>6. CASE b >= 0
  <2>1. PICK t : t = [pc |-> "substitute", i |-> i, b |-> b + BlockSize, x |-> x, barriers |-> n]
    OBVIOUS
  <2>2. Go(o, t)
    <3>1. PICK u : Go(o, u) /\ u = [s EXCEPT !.b = @ + BlockSize]
      BY <1>1, <1>3, <1>5, <1>6 DEF Substitute, Snapshot
    <3>2. u = [pc |-> "substitute", i |-> i, b |-> b + BlockSize, x |-> x, barriers |-> n]
      BY <1>4, <3>1
    <3>. QED  BY <2>1, <3>1, <3>2
  <2>3. mm2 = Put(mm, Area(p), b, Minus(mm[Area(p)][b], Times(Entry(p.A, b, i), x)))
    BY <1>1, <1>3, <1>5, <1>6 DEF Substitute, Update, Put, Entry, Work, Area, Snapshot
  <2>4. Stepping(p, th, o, t, th2) /\ DataOK(p, th, mm)
    BY <1>1, <1>2, <2>2, Wiring
  <2>5. State(t, i, b + BlockSize, x, n) /\ t.pc = "substitute"
    BY <2>1 DEF State
  <2>6. DataOK(p, th2, mm2)
    BY <1>2, <1>4, <1>5, <1>6, <2>3, <2>4, <2>5, Substitutes
  <2>. QED  BY <1>1, <1>2, <2>6, Unwiring
<1>7. CASE ~ (b >= 0)
  <2>1. PICK t : t = [pc |-> "substitute", i |-> i, b |-> b + BlockSize, x |-> x, barriers |-> n]
    OBVIOUS
  <2>2. Go(o, t)
    <3>1. PICK u : Go(o, u) /\ u = [s EXCEPT !.b = @ + BlockSize]
      BY <1>1, <1>3, <1>5, <1>7 DEF Substitute, Snapshot
    <3>2. u = [pc |-> "substitute", i |-> i, b |-> b + BlockSize, x |-> x, barriers |-> n]
      BY <1>4, <3>1
    <3>. QED  BY <2>1, <3>1, <3>2
  <2>3. mm2 = mm
    BY <1>1, <1>3, <1>5, <1>7 DEF Substitute, Snapshot
  <2>4. Stepping(p, th, o, t, th2) /\ DataOK(p, th, mm)
    BY <1>1, <1>2, <2>2, Wiring
  <2>5. State(t, i, b + BlockSize, x, n) /\ t.pc = "substitute"
    BY <2>1 DEF State
  <2>6. DataOK(p, th2, mm2)
    BY <1>2, <1>4, <1>5, <1>7, <2>3, <2>4, <2>5, Skips
  <2>. QED  BY <1>1, <1>2, <2>6, Unwiring
<1>. QED  BY <1>6, <1>7

LEMMA SubstitutedData ==
  ASSUME IInv, IInv', Data, NEW o \in Thread, Substituted(o)
  PROVE  Data'
<1>1. PICK p, th, mm, th2, mm2 : Snapshot(p, th, mm, th2, mm2)
  BY DEF Snapshot
<1>2. th[o].pc = "substitute" /\ Released(o) /\ problem' = problem
  BY <1>1 DEF Substituted, At, Snapshot
<1>3. PICK s, i, b, x, n : s = th[o] /\ i = s.i /\ b = s.b /\ x = s.x /\ n = s.barriers
  OBVIOUS
<1>4. s = [pc |-> "substitute", i |-> i, b |-> b, x |-> x, barriers |-> n] /\ State(th[o], i, b, x, n)
  BY <1>1, <1>2, <1>3, Fields
<1>5. ~ (b < i)
  <2>1. i \in Int /\ b \in Int
    BY <1>1, <1>3, Fields
  <2>. QED  BY <1>1, <1>3, <2>1 DEF Substituted, Snapshot
<1>. QED
  <2>1. PICK t : t = [pc |-> "result", i |-> i, b |-> b, x |-> x, barriers |-> n + 1]
    OBVIOUS
  <2>2. Go(o, t)
    <3>1. PICK u : Go(o, u) /\ u = [s EXCEPT !.pc = "result", !.barriers = @ + 1]
      BY <1>1, <1>3, <1>5 DEF Substituted, Arrived, Snapshot
    <3>2. u = [pc |-> "result", i |-> i, b |-> b, x |-> x, barriers |-> n + 1]
      BY <1>4, <3>1
    <3>. QED  BY <2>1, <3>1, <3>2
  <2>3. mm2 = mm
    BY <1>1, <1>3, <1>5 DEF Substituted, Snapshot
  <2>4. Stepping(p, th, o, t, th2) /\ DataOK(p, th, mm)
    BY <1>1, <1>2, <2>2, Wiring
  <2>5. State(t, i, b, x, n + 1) /\ t.pc = "result"
    BY <2>1 DEF State
  <2>6. DataOK(p, th2, mm2)
    BY <1>2, <1>4, <1>5, <2>3, <2>4, <2>5, SubstitutedAll
  <2>. QED  BY <1>1, <1>2, <2>6, Unwiring

LEMMA ResultData ==
  ASSUME IInv, IInv', Data, NEW o \in Thread, Result(o)
  PROVE  Data'
<1>1. PICK p, th, mm, th2, mm2 : Snapshot(p, th, mm, th2, mm2)
  BY DEF Snapshot
<1>2. th[o].pc = "result" /\ Released(o) /\ problem' = problem
  BY <1>1 DEF Result, At, Snapshot
<1>3. PICK s, i, b, x, n : s = th[o] /\ i = s.i /\ b = s.b /\ x = s.x /\ n = s.barriers
  OBVIOUS
<1>4. s = [pc |-> "result", i |-> i, b |-> b, x |-> x, barriers |-> n] /\ State(th[o], i, b, x, n)
  BY <1>1, <1>2, <1>3, Fields
<1>5. CASE i > 0
  <2>1. PICK t : t = [pc |-> "backward", i |-> i - 1, b |-> b, x |-> x, barriers |-> n]
    OBVIOUS
  <2>2. Go(o, t)
    <3>1. PICK u : Go(o, u) /\ u = [s EXCEPT !.pc = "backward", !.i = @ - 1]
      BY <1>1, <1>3, <1>5 DEF Result, Snapshot
    <3>2. u = [pc |-> "backward", i |-> i - 1, b |-> b, x |-> x, barriers |-> n]
      BY <1>4, <3>1
    <3>. QED  BY <2>1, <3>1, <3>2
  <2>3. mm2 = IF o = 0 THEN Put(mm, Area(p), i, x) ELSE mm
    BY <1>1, <1>3, <1>5 DEF Result, Put, Work, Area, Snapshot
  <2>4. Stepping(p, th, o, t, th2) /\ DataOK(p, th, mm)
    BY <1>1, <1>2, <2>2, Wiring
  <2>5. State(t, i - 1, b, x, n) /\ t.pc = "backward"
    BY <2>1 DEF State
  <2>6. DataOK(p, th2, mm2)
    BY <1>2, <1>4, <1>5, <2>3, <2>4, <2>5, ResultOf, StateOf
  <2>. QED  BY <1>1, <1>2, <2>6, Unwiring
<1>6. CASE ~ (i > 0) /\ p.local
  <2>1. PICK t : t = [pc |-> "store", i |-> i, b |-> o, x |-> x, barriers |-> n + 1]
    OBVIOUS
  <2>2. Go(o, t)
    <3>1. PICK a, u : Go(o, u) /\ u = [a EXCEPT !.b = o] /\ a = [s EXCEPT !.pc = "store", !.barriers = @ + 1]
      BY <1>1, <1>3, <1>6 DEF Result, Arrived, Snapshot
    <3>2. a = [pc |-> "store", i |-> i, b |-> b, x |-> x, barriers |-> n + 1]
      BY <1>4, <3>1
    <3>3. u = [a EXCEPT !.b = o]
      BY <3>1
    <3>4. u = [pc |-> "store", i |-> i, b |-> o, x |-> x, barriers |-> n + 1]
      BY <3>2, <3>3
    <3>. QED  BY <2>1, <3>1, <3>4
  <2>3. mm2 = IF o = 0 THEN Put(mm, Area(p), i, x) ELSE mm
    BY <1>1, <1>3, <1>6 DEF Result, Put, Work, Area, Snapshot
  <2>4. Stepping(p, th, o, t, th2) /\ DataOK(p, th, mm)
    BY <1>1, <1>2, <2>2, Wiring
  <2>5. State(t, i, o, x, n + 1) /\ t.pc = "store"
    BY <2>1 DEF State
  <2>6. DataOK(p, th2, mm2)
    BY <1>2, <1>4, <1>6, <2>3, <2>4, <2>5, LastResult
  <2>. QED  BY <1>1, <1>2, <2>6, Unwiring
<1>7. CASE ~ (i > 0) /\ ~ p.local
  <2>1. PICK t : t = [pc |-> "done", i |-> i, b |-> b, x |-> x, barriers |-> n]
    OBVIOUS
  <2>2. Go(o, t)
    <3>1. PICK u : Go(o, u) /\ u = [s EXCEPT !.pc = "done"]
      BY <1>1, <1>3, <1>7 DEF Result, Snapshot
    <3>2. u = [pc |-> "done", i |-> i, b |-> b, x |-> x, barriers |-> n]
      BY <1>4, <3>1
    <3>. QED  BY <2>1, <3>1, <3>2
  <2>3. mm2 = IF o = 0 THEN Put(mm, Area(p), i, x) ELSE mm
    BY <1>1, <1>3, <1>7 DEF Result, Put, Work, Area, Snapshot
  <2>4. Stepping(p, th, o, t, th2) /\ DataOK(p, th, mm)
    BY <1>1, <1>2, <2>2, Wiring
  <2>5. State(t, i, b, x, n) /\ t.pc = "done"
    BY <2>1 DEF State
  <2>6. DataOK(p, th2, mm2)
    BY <1>2, <1>4, <1>7, <2>3, <2>4, <2>5, ResultOf, StateOf
  <2>. QED  BY <1>1, <1>2, <2>6, Unwiring
<1>. QED  BY <1>5, <1>6, <1>7

LEMMA StoreData ==
  ASSUME IInv, IInv', Data, NEW o \in Thread, Store(o)
  PROVE  Data'
<1>1. PICK p, th, mm, th2, mm2 : Snapshot(p, th, mm, th2, mm2)
  BY DEF Snapshot
<1>2. th[o].pc = "store" /\ Released(o) /\ problem' = problem
  BY <1>1 DEF Store, At, Snapshot
<1>3. PICK s, i, b, x, n : s = th[o] /\ i = s.i /\ b = s.b /\ x = s.x /\ n = s.barriers
  OBVIOUS
<1>4. s = [pc |-> "store", i |-> i, b |-> b, x |-> x, barriers |-> n] /\ State(th[o], i, b, x, n)
  BY <1>1, <1>2, <1>3, Fields
<1>5. CASE b < N
  <2>1. PICK t : t = [pc |-> "store", i |-> i, b |-> b + BlockSize, x |-> x, barriers |-> n]
    OBVIOUS
  <2>2. Go(o, t)
    <3>1. PICK u : Go(o, u) /\ u = [s EXCEPT !.b = @ + BlockSize]
      BY <1>1, <1>3, <1>5 DEF Store, Snapshot
    <3>2. u = [pc |-> "store", i |-> i, b |-> b + BlockSize, x |-> x, barriers |-> n]
      BY <1>4, <3>1
    <3>. QED  BY <2>1, <3>1, <3>2
  <2>3. mm2 = Returned(mm, b)
    BY <1>1, <1>3, <1>5 DEF Store, Returned, Put, Snapshot
  <2>4. Stepping(p, th, o, t, th2) /\ DataOK(p, th, mm)
    BY <1>1, <1>2, <2>2, Wiring
  <2>5. State(t, i, b + BlockSize, x, n) /\ t.pc = "store"
    BY <2>1 DEF State
  <2>6. DataOK(p, th2, mm2)
    BY <1>2, <1>4, <1>5, <2>3, <2>4, <2>5, StoreRow
  <2>. QED  BY <1>1, <1>2, <2>6, Unwiring
<1>6. CASE ~ (b < N)
  <2>1. PICK t : t = [pc |-> "done", i |-> i, b |-> b, x |-> x, barriers |-> n + 1]
    OBVIOUS
  <2>2. Go(o, t)
    <3>1. PICK u : Go(o, u) /\ u = [s EXCEPT !.pc = "done", !.barriers = @ + 1]
      BY <1>1, <1>3, <1>6 DEF Store, Arrived, Snapshot
    <3>2. u = [pc |-> "done", i |-> i, b |-> b, x |-> x, barriers |-> n + 1]
      BY <1>4, <3>1
    <3>. QED  BY <2>1, <3>1, <3>2
  <2>3. mm2 = mm
    BY <1>1, <1>3, <1>6 DEF Store, Snapshot
  <2>4. Stepping(p, th, o, t, th2) /\ DataOK(p, th, mm)
    BY <1>1, <1>2, <2>2, Wiring
  <2>5. State(t, i, b, x, n + 1) /\ t.pc = "done"
    BY <2>1 DEF State
  <2>6. DataOK(p, th2, mm2)
    BY <1>2, <1>4, <1>6, <2>3, <2>4, <2>5, StoredAll
  <2>. QED  BY <1>1, <1>2, <2>6, Unwiring
<1>. QED  BY <1>5, <1>6

LEMMA InitData == Init => Data
<1> SUFFICES ASSUME Init PROVE Data
  OBVIOUS
<1>1. PICK M \in Matrices, piv \in Pivots, v \in Rhs, local \in BOOLEAN :
      \E lbw \in LowerBandwidth(M)..(N - 1), ubw \in UpperBandwidth(M)..(N - 1) :
        /\ problem = [A |-> M, piv |-> piv, b |-> v, lbw |-> lbw, ubw |-> ubw, local |-> local]
        /\ mem = [B |-> v, sol |-> [i \in Rows |-> 0]]
        /\ thread = [o \in Thread |-> [pc |-> IF local THEN "load" ELSE "pivot",
                                       i |-> 0, b |-> o, x |-> 0, barriers |-> 0]]
  BY DEF Init
<1>2. PICK lbw \in LowerBandwidth(M)..(N - 1), ubw \in UpperBandwidth(M)..(N - 1) :
        problem = [A |-> M, piv |-> piv, b |-> v, lbw |-> lbw, ubw |-> ubw, local |-> local]
  BY <1>1
<1>3. PICK p, th, mm : p = problem /\ th = thread /\ mm = mem
  OBVIOUS
<1>4. /\ p.A = M /\ p.piv = piv /\ p.b = v /\ p.lbw = lbw /\ p.ubw = ubw /\ p.local = local
  BY <1>2, <1>3
<1>5. Factored(p)
  <2>1. M \in Square
    BY ArgumentsAssumption DEF ArgumentsAssumption, Square
  <2>2. Regular(M)
    BY ArgumentsAssumption DEF ArgumentsAssumption, Regular, Entry
  <2>3. lbw \in 0..(N - 1) /\ InLowerBand(M, lbw)
    BY LowerBand
  <2>4. ubw \in 0..(N - 1) /\ InUpperBand(M, ubw)
    BY UpperBand
  <2>. QED  BY <1>4, <2>1, <2>2, <2>3, <2>4 DEF Factored
<1>6. v \in Column
  BY ArgumentsAssumption DEF ArgumentsAssumption, Column
<1>7. mm["B"] = v /\ mm["sol"] \in Column /\ mm \in [{"B", "sol"} -> Column]
  <2>1. mm = [B |-> v, sol |-> [i \in Rows |-> 0]]
    BY <1>1, <1>3
  <2>2. [i \in Rows |-> 0] \in Column
    BY Zeros DEF Column
  <2>. QED  BY <1>6, <2>1, <2>2
<1>8. Threads(p, th)
  BY <1>3, InitIInv DEF IInv, Threads
<1>9. \A o \in Thread : /\ th[o].barriers = 0 /\ th[o].b = o /\ th[o].x = 0
                        /\ th[o].pc = IF p.local THEN "load" ELSE "pivot"
  BY <1>1, <1>3, <1>4
<1>10. DataOK(p, th, mm)
  BY <1>4, <1>5, <1>6, <1>7, <1>8, <1>9, StartsOK
<1>. QED  BY <1>3, <1>10 DEF Data

LEMMA NextData == IInv /\ Data /\ [Next]_vars => Data'
<1>1. ASSUME IInv, Data, NEW o \in Thread, ThreadStep(o) PROVE Data'
  <2>1. IInv'
    BY <1>1, ForwardSteps, BackwardSteps DEF ThreadStep
  <2>. QED  BY <1>1, <2>1, LoadData, PivotData, ReadForwardData, EliminateData, NextColumnData,
               ReadBackwardData, SubstituteData, SubstitutedData, ResultData, StoreData
            DEF ThreadStep
<1>2. ASSUME Data, UNCHANGED vars PROVE Data'
  BY <1>2 DEF vars, Data
<1>. QED  BY <1>1, <1>2 DEF Next

(* What the threads have in memory and in their registers, at any time:    *)
(* in each phase the equations that the elements solve, and who has which  *)
(* part of them done.                                                      *)
THEOREM ElementsOK == Spec => [](IInv /\ Data)
<1>1. Init => IInv /\ Data
  BY InitIInv, InitData
<1>2. IInv /\ Data /\ [Next]_vars => (IInv /\ Data)'
  BY NextIInv, NextData
<1>. QED  BY <1>1, <1>2, PTL DEF Spec

(* Arrays and registers keep their ranges, and no thread leaves the        *)
(* matrix.                                                                 *)
THEOREM TypeCorrect == Spec => []TypeOK
<1>1. IInv /\ Data => TypeOK
  <2> SUFFICES ASSUME IInv, Data PROVE TypeOK
    OBVIOUS
  <2>1. mem \in [{"B", "sol"} -> [Rows -> Elements]]
    BY DEF Data, DataOK, Column
  <2>2. \A o \in Thread : thread[o].x \in Elements /\ thread[o].b \in (-N)..(N + BlockSize)
    BY DEF Data, DataOK, InRange
  <2>3. \A o \in Thread :
          /\ thread[o].pc \in {"load", "pivot", "forward", "eliminate", "backward", "substitute",
                               "result", "store", "done"}
          /\ thread[o].i \in Rows /\ thread[o].barriers \in Nat
    BY DEF IInv, ThreadOK
  <2>. QED  BY <2>1, <2>2, <2>3 DEF TypeOK
<1>. QED  BY <1>1, ElementsOK, PTL

(* The threads together solve LU x = Pb, in both variants, whatever the    *)
(* size, the bandwidths and the number of threads; and the kernel of one   *)
(* thread and the product with the inverse compute the same x.             *)
THEOREM Solution == Spec => []Solves
<1>1. IInv /\ Data => Solves
  <2> SUFFICES ASSUME IInv, Data, Done PROVE
         /\ Applied(L(problem.A), Applied(U(problem.A), mem.B)) = Pivoted(problem.piv, problem.b)
         /\ mem.B = GetrsBanded(problem, problem.b)
         /\ mem.B = SolveInverted(problem, problem.b)
    BY DEF Solves
  <2>1. PICK p, th, mm : p = problem /\ th = thread /\ mm = mem
    OBVIOUS
  <2>2. Threads(p, th) /\ DataOK(p, th, mm)
    BY <2>1 DEF IInv, Threads, Data
  <2>3. \A o \in Thread : th[o].pc = "done"
    BY <2>1 DEF Done
  <2>4. PICK x : x = mm["B"]
    OBVIOUS
  <2>5. x \in Column /\ Applied(L(p.A), Applied(U(p.A), x)) = Pivoted(p.piv, p.b)
    BY <2>2, <2>3, <2>4, EndsOK DEF Target
  <2>6. Factored(p) /\ p.b \in Column
    BY <2>2 DEF DataOK
  <2>7. x = GetrsBanded(p, p.b) /\ x = SolveInverted(p, p.b)
    BY <2>5, <2>6, TheSolution
  <2>. QED  BY <2>1, <2>4, <2>5, <2>7
<1>. QED  BY <1>1, ElementsOK, PTL
=============================================================================
