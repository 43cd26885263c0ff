--------------------------- MODULE InductionFacts ---------------------------
(***************************************************************************)
(* Facts the proofs about the components share: induction over the         *)
(* natural numbers in a form the provers can use, division, and what it    *)
(* takes to reason about the folds of the community modules.               *)
(*                                                                         *)
(* The induction theorems of the library are about an operator P(_), which *)
(* the provers here cannot instantiate.  The same induction about a SET of *)
(* numbers has no such parameter: it follows from the library's            *)
(* WFMin, that a set with a well-founded relation has a minimal element.   *)
(*                                                                         *)
(* The operator a fold applies is a parameter of the module for the same   *)
(* reason: a proof about FoldLeft(F, b, s) takes the facts by              *)
(* INSTANCE InductionFacts WITH Op <- F.                                   *)
(***************************************************************************)
EXTENDS Integers, SequencesExt, WellFoundedInduction, TLAPS

CONSTANT Op(_, _)  \* what the folds apply to a value and an element

-----------------------------------------------------------------------------
(* Induction. *)

(* The order of the natural numbers, as the set of pairs OpToRel makes.    *)
Below == {p \in Nat \X Nat : p[1] < p[2]}

(* Every set of natural numbers that is not empty has a least element.     *)
LEMMA LeastElement ==
  ASSUME NEW T, T \subseteq Nat, T # {}
  PROVE  \E x \in T : \A y \in T : x <= y
<1>1. IsWellFoundedOn(Below, Nat)
  <2>1. OpToRel(<, Nat) = Below
    BY Zenon DEF OpToRel, Below
  <2>. QED  BY <2>1, NatLessThanWellFounded, Zenon
<1>2. PICK x \in T : \A y \in T : ~ (<<y, x>> \in Below)
  BY <1>1, WFMin
<1>3. \A y \in T : ~ (y < x)
  <2>1. \A y \in T : <<y, x>> \in Below <=> y < x
    BY DEF Below
  <2>. QED  BY <1>2, <2>1
<1>. QED  BY <1>2, <1>3

(* Induction: a set that has 0 and with a number its successor has all.    *)
LEMMA Induction ==
  ASSUME NEW S, 0 \in S, \A n \in Nat : n \in S => n + 1 \in S
  PROVE  Nat \subseteq S
<1>. SUFFICES ASSUME Nat \ S # {} PROVE FALSE
  OBVIOUS
<1>1. PICK x \in Nat \ S : \A y \in Nat \ S : x <= y
  BY LeastElement
<1>2. x - 1 \in Nat
  BY <1>1
<1>3. x - 1 \in S
  BY <1>1, <1>2
<1>. QED  BY <1>1, <1>2, <1>3

(* Division with remainder, and that quotient and remainder are unique.    *)
LEMMA DivMod ==
  ASSUME NEW r \in Nat, NEW n \in Nat, n > 0
  PROVE  r = n * (r \div n) + (r % n) /\ r % n \in 0 .. n - 1 /\ r \div n \in Nat
  OBVIOUS

LEMMA DivModOf ==
  ASSUME NEW n \in Nat, NEW q \in Nat, NEW m \in 0 .. n - 1
  PROVE  (n * q + m) \div n = q /\ (n * q + m) % n = m
  OBVIOUS

-----------------------------------------------------------------------------
(* Folds from left to right. *)

(* The function on sets of positions the fold is defined by.               *)
IsIteration(f, base, seq, n) ==
  f = [s \in SUBSET (1 .. n) |->
         IF s = {} THEN base ELSE Op(f[s \ {Max(s)}], seq[Max(s)])]

(* Max of FiniteSetsExt, of a set of positions that includes the last one. *)
LEMMA MaxIsLast ==
  ASSUME NEW n \in Nat, NEW s \in SUBSET (1 .. n), n \in s
  PROVE  Max(s) = n
<1>1. \A y \in s : n >= y
  OBVIOUS
<1>2. Max(s) \in s /\ \A y \in s : Max(s) >= y
  BY <1>1 DEF Max
<1>3. Max(s) \in 1 .. n /\ Max(s) >= n
  BY <1>2
<1>. QED  BY <1>3

(* There is such a function, for a sequence of any length.                 *)
LEMMA IterationExists ==
  ASSUME NEW base, NEW seq
  PROVE  \A n \in Nat : \E f : IsIteration(f, base, seq, n)
<1>. DEFINE S == {n \in Nat : \E f : IsIteration(f, base, seq, n)}
<1>1. 0 \in S
  <2>1. 1 .. 0 = {} /\ SUBSET (1 .. 0) = {{}}
    OBVIOUS
  <2>2. IsIteration([s \in {{}} |-> base], base, seq, 0)
    BY <2>1 DEF IsIteration
  <2>. QED  BY <2>2
<1>2. ASSUME NEW n \in Nat, n \in S PROVE n + 1 \in S
  <2>1. PICK f : IsIteration(f, base, seq, n)
    BY <1>2
  <2>. DEFINE g == [s \in SUBSET (1 .. n + 1) |->
                      IF s \subseteq 1 .. n THEN f[s]
                                            ELSE Op(f[s \ {n + 1}], seq[n + 1])]
  <2>2. ASSUME NEW s \in SUBSET (1 .. n + 1)
        PROVE  g[s] = IF s = {} THEN base ELSE Op(g[s \ {Max(s)}], seq[Max(s)])
    <3>1. CASE s \subseteq 1 .. n
      <4>1. s \in SUBSET (1 .. n) /\ s \ {Max(s)} \in SUBSET (1 .. n)
        BY <3>1
      <4>2. SUBSET (1 .. n) \subseteq SUBSET (1 .. n + 1)
        OBVIOUS
      <4>3. g[s] = f[s] /\ g[s \ {Max(s)}] = f[s \ {Max(s)}]
        BY <4>1, <4>2
      <4>. HIDE DEF g
      <4>4. f[s] = IF s = {} THEN base ELSE Op(f[s \ {Max(s)}], seq[Max(s)])
        BY <2>1, <4>1 DEF IsIteration
      <4>. QED  BY <4>3, <4>4
    <3>2. CASE ~ (s \subseteq 1 .. n)
      <4>1. n + 1 \in s
        BY <3>2
      <4>2. Max(s) = n + 1
        BY <4>1, MaxIsLast
      <4>3. s \ {n + 1} \subseteq 1 .. n /\ s \ {n + 1} \in SUBSET (1 .. n + 1)
        OBVIOUS
      <4>4. g[s] = Op(f[s \ {n + 1}], seq[n + 1]) /\ g[s \ {n + 1}] = f[s \ {n + 1}]
        BY <3>2, <4>3
      <4>. HIDE DEF g
      <4>. QED  BY <4>1, <4>2, <4>4
    <3>. QED  BY <3>1, <3>2
  <2>3. g = [s \in SUBSET (1 .. n + 1) |-> g[s]]
    OBVIOUS
  <2>. HIDE DEF g
  <2>4. IsIteration(g, base, seq, n + 1)
    BY <2>2, <2>3 DEF IsIteration
  <2>. QED  BY <2>4
<1>. HIDE DEF S
<1>3. Nat \subseteq S
  BY <1>1, <1>2, Induction
<1>. QED  BY <1>3 DEF S

(* The values of a fold, one element after the other.                      *)
Chain(h, base, seq) ==
  /\ h[0] = base
  /\ \A i \in 1 .. Len(seq) : h[i] = Op(h[i - 1], seq[i])

(* The fold of a sequence is the last of these values.                     *)
LEMMA FoldIsChain ==
  ASSUME NEW base, NEW T, NEW seq \in Seq(T)
  PROVE  \E h : Chain(h, base, seq) /\ FoldLeft(Op, base, seq) = h[Len(seq)]
<1>1. DOMAIN seq = 1 .. Len(seq) /\ Len(seq) \in Nat
  OBVIOUS
<1>2. \E f : f = [s \in SUBSET (DOMAIN seq) |->
                    IF s = {} THEN base ELSE Op(f[s \ {Max(s)}], seq[Max(s)])]
  <2>1. PICK f : IsIteration(f, base, seq, Len(seq))
    BY <1>1, IterationExists
  <2>. QED  BY <1>1, <2>1, Zenon DEF IsIteration
<1>. DEFINE F == CHOOSE f : f = [s \in SUBSET (DOMAIN seq) |->
                                   IF s = {} THEN base
                                             ELSE Op(f[s \ {Max(s)}], seq[Max(s)])]
<1>3. F = [s \in SUBSET (DOMAIN seq) |->
             IF s = {} THEN base ELSE Op(F[s \ {Max(s)}], seq[Max(s)])]
  BY <1>2, Zenon
<1>4. FoldLeft(Op, base, seq) = F[DOMAIN seq]
  BY Zenon DEF FoldLeft, MapThenFoldSet
<1>. HIDE DEF F
<1>. DEFINE h == [i \in 0 .. Len(seq) |-> F[1 .. i]]
<1>5. h[0] = base
  <2>1. 1 .. 0 = {} /\ {} \in SUBSET (DOMAIN seq)
    OBVIOUS
  <2>2. F[{}] = base
    BY <1>3, <2>1
  <2>. QED  BY <1>1, <2>1, <2>2
<1>6. ASSUME NEW i \in 1 .. Len(seq) PROVE h[i] = Op(h[i - 1], seq[i])
  <2>1. /\ 1 .. i \in SUBSET (DOMAIN seq) /\ 1 .. i # {}
        /\ (1 .. i) \ {i} = 1 .. (i - 1) /\ i \in Nat /\ i \in 1 .. i
    <3>1. i \in Nat /\ i <= Len(seq) /\ 1 <= i
      BY <1>1
    <3>2. i \in 1 .. i /\ (1 .. i) \ {i} = 1 .. (i - 1)
      BY <3>1
    <3>3. 1 .. i \subseteq DOMAIN seq
      BY <1>1, <3>1
    <3>. QED  BY <3>1, <3>2, <3>3
  <2>2. Max(1 .. i) = i
    BY <2>1, MaxIsLast
  <2>3. F[1 .. i] = Op(F[1 .. (i - 1)], seq[i])
    BY <1>3, <2>1, <2>2
  <2>4. h[i] = F[1 .. i] /\ h[i - 1] = F[1 .. (i - 1)]
    BY <1>1
  <2>. QED  BY <2>3, <2>4
<1>7. FoldLeft(Op, base, seq) = h[Len(seq)]
  BY <1>1, <1>4
<1>. HIDE DEF h
<1>. QED  BY <1>5, <1>6, <1>7 DEF Chain

(* There is one chain only.                                                *)
LEMMA ChainUnique ==
  ASSUME NEW base, NEW T, NEW seq \in Seq(T), NEW h, NEW g,
         Chain(h, base, seq), Chain(g, base, seq)
  PROVE  \A i \in 0 .. Len(seq) : h[i] = g[i]
<1>. DEFINE S == {i \in Nat : i <= Len(seq) => h[i] = g[i]}
<1>1. 0 \in S
  BY DEF Chain
<1>2. ASSUME NEW i \in Nat, i \in S PROVE i + 1 \in S
  <2>1. SUFFICES ASSUME i + 1 <= Len(seq) PROVE h[i + 1] = g[i + 1]
    OBVIOUS
  <2>2. i + 1 \in 1 .. Len(seq) /\ (i + 1) - 1 = i /\ h[i] = g[i]
    BY <1>2, <2>1
  <2>. QED  BY <2>2 DEF Chain
<1>. HIDE DEF S
<1>3. Nat \subseteq S
  BY <1>1, <1>2, Induction
<1>. QED  BY <1>3 DEF S

(* Any chain ends in the fold.                                             *)
LEMMA ChainEndsInFold ==
  ASSUME NEW base, NEW T, NEW seq \in Seq(T), NEW h, Chain(h, base, seq)
  PROVE  FoldLeft(Op, base, seq) = h[Len(seq)]
<1>1. PICK g : Chain(g, base, seq) /\ FoldLeft(Op, base, seq) = g[Len(seq)]
  BY FoldIsChain
<1>2. Len(seq) \in 0 .. Len(seq)
  OBVIOUS
<1>. QED  BY <1>1, <1>2, ChainUnique

(* The fold of no elements.                                                *)
LEMMA FoldEmpty ==
  ASSUME NEW base
  PROVE  FoldLeft(Op, base, << >>) = base
<1>1. << >> \in Seq({}) /\ Len(<< >>) = 0
  OBVIOUS
<1>2. PICK h : Chain(h, base, << >>) /\ FoldLeft(Op, base, << >>) = h[Len(<< >>)]
  BY <1>1, FoldIsChain
<1>. QED  BY <1>1, <1>2 DEF Chain

(* One more element at the end is applied last.                            *)
LEMMA FoldAppend ==
  ASSUME NEW base, NEW T, NEW seq \in Seq(T), NEW e \in T
  PROVE  FoldLeft(Op, base, Append(seq, e)) = Op(FoldLeft(Op, base, seq), e)
<1>. DEFINE more == Append(seq, e)
            n == Len(seq)
<1>1. /\ more \in Seq(T) /\ Len(more) = n + 1 /\ n \in Nat
      /\ more[n + 1] = e /\ \A i \in 1 .. n : more[i] = seq[i]
  OBVIOUS
<1>. HIDE DEF more
<1>2. PICK h : Chain(h, base, more) /\ FoldLeft(Op, base, more) = h[n + 1]
  BY <1>1, FoldIsChain
<1>3. Chain(h, base, seq)
  <2>1. \A i \in 1 .. n : i \in 1 .. n + 1
    BY <1>1
  <2>. QED  BY <1>1, <1>2, <2>1 DEF Chain
<1>4. FoldLeft(Op, base, seq) = h[n]
  BY <1>3, ChainEndsInFold
<1>5. h[n + 1] = Op(h[n], e)
  <2>1. n + 1 \in 1 .. n + 1 /\ (n + 1) - 1 = n
    BY <1>1
  <2>. QED  BY <1>1, <1>2, <2>1 DEF Chain
<1>. QED  BY <1>2, <1>4, <1>5 DEF more

(* The first element may be applied to the base beforehand.                *)
LEMMA FoldHead ==
  ASSUME NEW base, NEW T, NEW seq \in Seq(T), seq # << >>
  PROVE  FoldLeft(Op, base, seq) = FoldLeft(Op, Op(base, Head(seq)), Tail(seq))
<1>. DEFINE rest == Tail(seq)
            n == Len(seq)
            first == Op(base, Head(seq))
<1>1. /\ rest \in Seq(T) /\ n \in Nat /\ n > 0 /\ Len(rest) = n - 1
      /\ Head(seq) = seq[1] /\ \A i \in 1 .. n - 1 : rest[i] = seq[i + 1]
  OBVIOUS
<1>. HIDE DEF rest
<1>2. PICK h : Chain(h, base, seq) /\ FoldLeft(Op, base, seq) = h[n]
  BY FoldIsChain
<1>. DEFINE g == [i \in 0 .. n - 1 |-> h[i + 1]]
<1>3. g[0] = first
  <2>1. 0 \in 0 .. n - 1 /\ 1 \in 1 .. n /\ 0 + 1 = 1 /\ 1 - 1 = 0
    BY <1>1
  <2>2. g[0] = h[1]
    BY <2>1
  <2>3. h[1] = Op(h[1 - 1], seq[1]) /\ h[0] = base
    BY <1>2, <2>1 DEF Chain
  <2>. QED  BY <1>1, <2>1, <2>2, <2>3
<1>4. ASSUME NEW i \in 1 .. Len(rest) PROVE g[i] = Op(g[i - 1], rest[i])
  <2>1. /\ i \in 0 .. n - 1 /\ i - 1 \in 0 .. n - 1 /\ i + 1 \in 1 .. n
        /\ (i - 1) + 1 = i /\ (i + 1) - 1 = i /\ i \in 1 .. n - 1
    BY <1>1
  <2>2. g[i] = h[i + 1] /\ g[i - 1] = h[i]
    BY <2>1
  <2>3. h[i + 1] = Op(h[i], seq[i + 1])
    BY <1>2, <2>1 DEF Chain
  <2>. QED  BY <1>1, <2>1, <2>2, <2>3
<1>5. g[n - 1] = h[n]
  <2>1. n - 1 \in 0 .. n - 1 /\ (n - 1) + 1 = n
    BY <1>1
  <2>. QED  BY <2>1
<1>. HIDE DEF g
<1>. HIDE DEF first
<1>6. Chain(g, first, rest)
  BY <1>3, <1>4 DEF Chain
<1>7. FoldLeft(Op, first, rest) = g[n - 1]
  BY <1>1, <1>6, ChainEndsInFold
<1>. QED  BY <1>2, <1>5, <1>7 DEF rest, first

(* What every step preserves, the fold preserves.                          *)
LEMMA FoldInvariant ==
  ASSUME NEW V, NEW base \in V, NEW T, NEW seq \in Seq(T),
         \A v \in V, i \in 1 .. Len(seq) : Op(v, seq[i]) \in V
  PROVE  FoldLeft(Op, base, seq) \in V
<1>1. PICK h : Chain(h, base, seq) /\ FoldLeft(Op, base, seq) = h[Len(seq)]
  BY FoldIsChain
<1>. DEFINE S == {i \in Nat : i <= Len(seq) => h[i] \in V}
<1>2. 0 \in S
  BY <1>1 DEF Chain
<1>3. ASSUME NEW i \in Nat, i \in S PROVE i + 1 \in S
  <2>1. SUFFICES ASSUME i + 1 <= Len(seq) PROVE h[i + 1] \in V
    OBVIOUS
  <2>2. i + 1 \in 1 .. Len(seq) /\ (i + 1) - 1 = i /\ h[i] \in V
    BY <1>3, <2>1
  <2>. QED  BY <1>1, <2>2 DEF Chain
<1>. HIDE DEF S
<1>4. Nat \subseteq S
  BY <1>2, <1>3, Induction
<1>. QED  BY <1>1, <1>4 DEF S

(* A fold goes on where the one of a prefix ended.                         *)
LEMMA FoldConcat ==
  ASSUME NEW base, NEW T, NEW s \in Seq(T), NEW t \in Seq(T)
  PROVE  FoldLeft(Op, base, s \o t) = FoldLeft(Op, FoldLeft(Op, base, s), t)
<1>. DEFINE both == s \o t
            m == Len(s)
            n == Len(t)
            mid == FoldLeft(Op, base, s)
<1>1. /\ both \in Seq(T) /\ Len(both) = m + n /\ m \in Nat /\ n \in Nat
      /\ \A i \in 1 .. m : both[i] = s[i]
      /\ \A i \in 1 .. n : both[m + i] = t[i]
  OBVIOUS
<1>. HIDE DEF both
<1>2. PICK h : Chain(h, base, both) /\ FoldLeft(Op, base, both) = h[m + n]
  BY <1>1, FoldIsChain
<1>3. mid = h[m]
  <2>1. Chain(h, base, s)
    <3>1. \A i \in 1 .. m : i \in 1 .. m + n
      BY <1>1
    <3>. QED  BY <1>1, <1>2, <3>1 DEF Chain
  <2>. QED  BY <2>1, ChainEndsInFold
<1>. HIDE DEF mid
<1>. DEFINE g == [i \in 0 .. n |-> h[m + i]]
<1>4. g[0] = mid
  <2>1. 0 \in 0 .. n /\ m + 0 = m
    BY <1>1
  <2>. QED  BY <1>3, <2>1
<1>5. ASSUME NEW i \in 1 .. n PROVE g[i] = Op(g[i - 1], t[i])
  <2>1. /\ i \in 0 .. n /\ i - 1 \in 0 .. n /\ m + i \in 1 .. m + n
        /\ (m + i) - 1 = m + (i - 1)
    BY <1>1
  <2>2. h[m + i] = Op(h[m + (i - 1)], both[m + i])
    BY <1>1, <1>2, <2>1 DEF Chain
  <2>3. both[m + i] = t[i]
    BY <1>1
  <2>. QED  BY <2>1, <2>2, <2>3
<1>6. g[n] = h[m + n]
  BY <1>1
<1>. HIDE DEF g
<1>7. Chain(g, mid, t)
  BY <1>4, <1>5 DEF Chain
<1>8. FoldLeft(Op, mid, t) = g[n]
  BY <1>7, ChainEndsInFold
<1>. QED  BY <1>2, <1>6, <1>8 DEF both, mid

(* Two folds of the same elements stay related if every step relates them. *)
LEMMA FoldRelated ==
  ASSUME NEW R, NEW b1, NEW b2, <<b1, b2>> \in R, NEW T, NEW seq \in Seq(T),
         \A v, w : \A i \in 1 .. Len(seq) :
           <<v, w>> \in R => <<Op(v, seq[i]), Op(w, seq[i])>> \in R
  PROVE  <<FoldLeft(Op, b1, seq), FoldLeft(Op, b2, seq)>> \in R
<1>1. PICK h : Chain(h, b1, seq) /\ FoldLeft(Op, b1, seq) = h[Len(seq)]
  BY FoldIsChain
<1>2. PICK g : Chain(g, b2, seq) /\ FoldLeft(Op, b2, seq) = g[Len(seq)]
  BY FoldIsChain
<1>. DEFINE S == {i \in Nat : i <= Len(seq) => <<h[i], g[i]>> \in R}
<1>3. 0 \in S
  BY <1>1, <1>2 DEF Chain
<1>4. ASSUME NEW i \in Nat, i \in S PROVE i + 1 \in S
  <2>1. SUFFICES ASSUME i + 1 <= Len(seq) PROVE <<h[i + 1], g[i + 1]>> \in R
    OBVIOUS
  <2>2. i + 1 \in 1 .. Len(seq) /\ (i + 1) - 1 = i /\ <<h[i], g[i]>> \in R
    BY <1>4, <2>1
  <2>3. h[i + 1] = Op(h[i], seq[i + 1]) /\ g[i + 1] = Op(g[i], seq[i + 1])
    BY <1>1, <1>2, <2>2 DEF Chain
  <2>4. <<Op(h[i], seq[i + 1]), Op(g[i], seq[i + 1])>> \in R
    BY <2>2
  <2>. QED  BY <2>3, <2>4
<1>. HIDE DEF S
<1>5. Nat \subseteq S
  BY <1>3, <1>4, Induction
<1>. QED  BY <1>1, <1>2, <1>5 DEF S
=============================================================================
