---------------------------- MODULE PosMoneyProofs ----------------------------
(***************************************************************************)
(* Proofs about the arithmetic of a ticket, for any amounts and baskets.   *)
(*                                                                         *)
(* Sums are folds, whose recursion the library's induction theorems cannot *)
(* be instantiated for.  What is used instead is that every family of sub- *)
(* sets of a finite set has a least member (LeastSubset): a counterexample *)
(* of least size is none.  A fold picks its elements in an order of its    *)
(* own; Adds says that a sum does not depend on it.                        *)
(***************************************************************************)
EXTENDS PosMoney, FiniteSets, FiniteSetTheorems, WellFoundedInduction, TLAPS

----------------------------------------------------------------------------
(* Least counterexamples *)

LEMMA LeastSubset ==
  ASSUME NEW D, IsFiniteSet(D), NEW F, F \subseteq SUBSET D, F # {}
  PROVE  \E s \in F : \A t \in F : t \subseteq s => t = s
<1>1. PICK R : R = StrictSubsetOrdering(D) OBVIOUS
<1>2. PICK S : S = SUBSET D OBVIOUS
<1>3. IsWellFoundedOn(R, S)
  BY <1>1, <1>2, FS_StrictSubsetOrderingWellFounded, FS_FiniteSubsetsOfFinite
<1>4. F \subseteq S BY <1>2
<1>5. PICK s \in F : \A t \in F : ~(<<t, s>> \in R) BY <1>3, <1>4, WFMin
<1>. QED BY <1>1, <1>5 DEF StrictSubsetOrdering

\* A set of naturals that is not empty has a least one.
LEMMA LeastNumber ==
  ASSUME NEW T \in SUBSET Nat, T # {}
  PROVE  \E n \in T : \A m \in T : n <= m
<1>1. PICK k \in T : TRUE OBVIOUS
<1>2. PICK F : F = {1..n : n \in {m \in T : m <= k}} OBVIOUS
<1>3. PICK D : D = 1..k OBVIOUS
<1>4. IsFiniteSet(D) BY <1>3, FS_Interval
<1>5. F \subseteq SUBSET D BY <1>1, <1>2, <1>3
<1>6. F # {} BY <1>1, <1>2
<1>7. PICK s \in F : \A t \in F : t \subseteq s => t = s BY <1>4, <1>5, <1>6, LeastSubset
<1>8. PICK n \in T : n <= k /\ s = 1..n BY <1>2, <1>7
<1>9. ASSUME NEW m \in T, m < n PROVE FALSE
  <2>1. 1..m \in F BY <1>2, <1>8, <1>9
  <2>2. 1..m \subseteq s BY <1>8, <1>9
  <2>3. 1..m = 1..n BY <1>7, <1>8, <2>1, <2>2
  <2>4. n \in 1..n /\ n \notin 1..m BY <1>9
  <2>. QED BY <2>3, <2>4
<1>. QED BY <1>8, <1>9

\* Counting up from zero reaches every natural number.
LEMMA CountingUp ==
  ASSUME NEW S, 0 \in S, \A n \in Nat : n \in S => n + 1 \in S
  PROVE  Nat \subseteq S
<1>. SUFFICES ASSUME Nat \ S # {} PROVE FALSE OBVIOUS
<1>1. PICK n \in Nat \ S : \A m \in Nat \ S : n <= m BY LeastNumber
<1>2. n # 0 BY <1>1
<1>3. n - 1 \in Nat /\ n - 1 \in S BY <1>1, <1>2
<1>4. (n - 1) + 1 \in S BY <1>3
<1>. QED BY <1>1, <1>4

----------------------------------------------------------------------------
(* What a fold computes *)

First(s) == CHOOSE x \in s : TRUE

\* One step of the fold that SumFunction is.
Folding(f, g, s) == IF s = {} THEN 0 ELSE f[First(s)] + g[s \ {First(s)}]

\* g is the table of the fold's partial sums.
FoldsTo(f, g, D) == g = [s \in SUBSET D |-> Folding(f, g, s)]

\* g adds up f over every subset of D, whatever is taken out of it first.
Adds(f, g, D) ==
  /\ g[{}] = 0
  /\ \A s \in SUBSET D : g[s] \in Int /\ \A x \in s : g[s] = f[x] + g[s \ {x}]

LEMMA FoldExists ==
  ASSUME NEW D, IsFiniteSet(D), NEW f
  PROVE  \E g : FoldsTo(f, g, D)
<1>. DEFINE Small(n) == {s \in SUBSET D : Cardinality(s) <= n}
            Upto(g, n) == \A s \in Small(n) : g[s] = Folding(f, g, s)
            Sizes == {n \in Nat : \E g : DOMAIN g = SUBSET D /\ Upto(g, n)}
<1>1. \A s \in SUBSET D : IsFiniteSet(s) /\ Cardinality(s) \in Nat
  BY FS_Subset, FS_CardinalityType
<1>2. 0 \in Sizes
  <2>1. PICK g : g = [s \in SUBSET D |-> 0] OBVIOUS
  <2>2. \A s \in Small(0) : s = {} BY <1>1, FS_EmptySet
  <2>3. Upto(g, 0) BY <2>1, <2>2 DEF Folding
  <2>. QED BY <2>1, <2>3
<1>3. ASSUME NEW n \in Nat, n \in Sizes PROVE n + 1 \in Sizes
  <2>1. PICK g : DOMAIN g = SUBSET D /\ Upto(g, n) BY <1>3
  <2>2. PICK h : h = [s \in SUBSET D |-> IF Cardinality(s) <= n THEN g[s] ELSE Folding(f, g, s)]
    OBVIOUS
  <2>3. \A s \in SUBSET D : s # {} =>
          /\ First(s) \in s /\ s \ {First(s)} \in SUBSET D
          /\ Cardinality(s \ {First(s)}) = Cardinality(s) - 1
    BY <1>1, FS_RemoveElement DEF First
  <2>4. \A s \in Small(n + 1) : s # {} => h[s \ {First(s)}] = g[s \ {First(s)}]
    BY <1>1, <2>2, <2>3
  <2>5. \A s \in Small(n + 1) : Folding(f, h, s) = Folding(f, g, s)
    BY <2>4 DEF Folding
  <2>6. \A s \in Small(n + 1) : h[s] = Folding(f, g, s)
    BY <2>1, <2>2
  <2>7. Upto(h, n + 1) BY <2>5, <2>6
  <2>. QED BY <2>2, <2>7
<1>4. Cardinality(D) \in Sizes
  <2>1. Nat \subseteq Sizes
    <3>. HIDE DEF Sizes
    <3>. QED BY <1>2, <1>3, CountingUp
  <2>. QED BY <1>1, <2>1
<1>5. PICK g : DOMAIN g = SUBSET D /\ Upto(g, Cardinality(D)) BY <1>4
<1>6. PICK h : h = [s \in SUBSET D |-> g[s]] OBVIOUS
<1>7. \A s \in SUBSET D : g[s] = Folding(f, g, s)
  BY <1>5, FS_Subset
<1>8. \A s \in SUBSET D : Folding(f, h, s) = Folding(f, g, s)
  BY <1>6 DEF Folding, First
<1>. QED BY <1>6, <1>7, <1>8 DEF FoldsTo

LEMMA FoldAdds ==
  ASSUME NEW D, IsFiniteSet(D), NEW f, \A x \in D : f[x] \in Int, NEW g, FoldsTo(f, g, D)
  PROVE  Adds(f, g, D)
<1>. DEFINE Good(s) == g[s] \in Int /\ \A x \in s : g[s] = f[x] + g[s \ {x}]
            Wrong == {s \in SUBSET D : ~Good(s)}
<1>1. \A s \in SUBSET D : g[s] = Folding(f, g, s) BY DEF FoldsTo
<1>2. g[{}] = 0 BY <1>1 DEF Folding
<1>3. ASSUME NEW s \in SUBSET D, ~Good(s), \A t \in Wrong : t \subseteq s => t = s
      PROVE  FALSE
  <2>1. \A t \in SUBSET D : t \subseteq s /\ t # s => Good(t) BY <1>3
  <2>2. s # {}
    <3>1. g[{}] \in Int BY <1>2
    <3>. QED BY <1>3, <3>1
  <2>3. PICK y : y = First(s) OBVIOUS
  <2>4. y \in s /\ y \in D BY <2>2, <2>3 DEF First
  <2>5. g[s] = f[y] + g[s \ {y}] BY <1>1, <2>2, <2>3 DEF Folding
  <2>6. g[s \ {y}] \in Int BY <2>1, <2>4
  <2>7. f[y] \in Int BY <2>4
  <2>8. ASSUME NEW x \in s PROVE g[s] = f[x] + g[s \ {x}]
    <3>1. CASE x = y BY <2>5, <3>1
    <3>2. CASE x # y
      <4>1. g[s \ {y}] = f[x] + g[(s \ {y}) \ {x}] BY <2>1, <2>4, <3>2
      <4>2. g[s \ {x}] = f[y] + g[(s \ {x}) \ {y}] BY <2>1, <2>4, <3>2
      <4>3. (s \ {y}) \ {x} = (s \ {x}) \ {y} OBVIOUS
      <4>4. g[(s \ {x}) \ {y}] \in Int BY <2>1, <2>4
      <4>5. f[x] \in Int OBVIOUS
      <4>6. PICK a, b, c \in Int : a = f[x] /\ b = f[y] /\ c = g[(s \ {x}) \ {y}]
        BY <2>7, <4>4, <4>5
      <4>7. g[s] = b + (a + c) BY <2>5, <4>1, <4>3, <4>6
      <4>8. f[x] + g[s \ {x}] = a + (b + c) BY <4>2, <4>6
      <4>9. b + (a + c) = a + (b + c) BY <4>6
      <4>. QED BY <4>7, <4>8, <4>9
    <3>. QED BY <3>1, <3>2
  <2>9. g[s] \in Int BY <2>5, <2>6, <2>7
  <2>. QED BY <1>3, <2>8, <2>9
<1>4. Wrong = {}
  <2>1. Wrong \subseteq SUBSET D OBVIOUS
  <2>2. ASSUME Wrong # {} PROVE \E s \in Wrong : \A t \in Wrong : t \subseteq s => t = s
    <3>. HIDE DEF Wrong
    <3>. QED BY <2>1, <2>2, LeastSubset
  <2>. QED BY <1>3, <2>2
<1>. QED BY <1>2, <1>4 DEF Adds

\* The sum of f over a finite set of integers is what adding it up gives.
LEMMA SumAdds ==
  ASSUME NEW D, IsFiniteSet(D), NEW f, \A x \in D : f[x] \in Int
  PROVE  \E g : Adds(f, g, D) /\ SumFunctionOnSet(f, D) = g[D]
<1>. DEFINE g == CHOOSE h : h = [s \in SUBSET D |->
                    IF s = {} THEN 0
                    ELSE f[CHOOSE x \in s : TRUE] + h[s \ {CHOOSE x \in s : TRUE}]]
<1>1. SumFunctionOnSet(f, D) = g[D]
  BY DEF SumFunctionOnSet, FoldFunctionOnSet, MapThenFoldSet
<1>2. \E h : FoldsTo(f, h, D) BY FoldExists
<1>3. FoldsTo(f, g, D) BY <1>2 DEF FoldsTo, Folding, First
<1>. QED BY <1>1, <1>3, FoldAdds

----------------------------------------------------------------------------
(* Sums of what sequences hold *)

LEMMA TakeOut ==
  ASSUME NEW D, NEW f, NEW g, Adds(f, g, D), NEW s \in SUBSET D, NEW x \in s
  PROVE  g[s] = f[x] + g[s \ {x}] /\ g[s] \in Int /\ g[s \ {x}] \in Int
<1>1. s \ {x} \in SUBSET D OBVIOUS
<1>. QED BY <1>1 DEF Adds

\* Two tables agree where what they add up agrees.
LEMMA AddsAgree ==
  ASSUME NEW D, IsFiniteSet(D), NEW f, NEW a, Adds(f, a, D),
         NEW C, NEW e, NEW b, Adds(e, b, C), D \subseteq C, \A x \in D : f[x] = e[x]
  PROVE  a[D] = b[D]
<1>. DEFINE Wrong == {s \in SUBSET D : a[s] # b[s]}
<1>1. ASSUME NEW s \in SUBSET D, a[s] # b[s], \A t \in Wrong : t \subseteq s => t = s
      PROVE  FALSE
  <2>1. PICK x : x \in s BY <1>1 DEF Adds
  <2>2. s \ {x} \in SUBSET D /\ s \ {x} # s BY <2>1
  <2>3. a[s \ {x}] = b[s \ {x}] BY <1>1, <2>2
  <2>4. a[s] = f[x] + a[s \ {x}] BY <2>1 DEF Adds
  <2>5. s \in SUBSET C OBVIOUS
  <2>6. b[s] = e[x] + b[s \ {x}] BY <2>1, <2>5 DEF Adds
  <2>. QED BY <1>1, <2>1, <2>3, <2>4, <2>6
<1>2. Wrong = {}
  <2>1. Wrong \subseteq SUBSET D OBVIOUS
  <2>2. ASSUME Wrong # {} PROVE \E s \in Wrong : \A t \in Wrong : t \subseteq s => t = s
    <3>. HIDE DEF Wrong
    <3>. QED BY <2>1, <2>2, LeastSubset
  <2>. QED BY <1>1, <2>2
<1>. QED BY <1>2

\* Sums drift apart by at most half a cent for every member.
LEMMA AddsClose ==
  ASSUME NEW D, IsFiniteSet(D), NEW f, NEW a, Adds(f, a, D), NEW e, NEW b, Adds(e, b, D),
         \A x \in D : /\ f[x] \in Int /\ e[x] \in Int
                      /\ 2 * Magnitude(f[x] - e[x]) <= Cent
  PROVE  2 * Magnitude(a[D] - b[D]) <= Cent * Cardinality(D)
<1>. DEFINE Wrong == {s \in SUBSET D : ~(2 * Magnitude(a[s] - b[s]) <= Cent * Cardinality(s))}
<1>1. ASSUME NEW s \in SUBSET D, ~(2 * Magnitude(a[s] - b[s]) <= Cent * Cardinality(s)),
             \A t \in Wrong : t \subseteq s => t = s
      PROVE  FALSE
  <2>1. s # {}
    <3>1. a[{}] = 0 /\ b[{}] = 0 /\ Cardinality({}) = 0 BY FS_EmptySet DEF Adds
    <3>2. 2 * Magnitude(0 - 0) <= Cent * 0 BY DEF Magnitude, Cent
    <3>. QED BY <1>1, <3>1, <3>2
  <2>2. PICK x : x \in s BY <2>1
  <2>3. s \ {x} \in SUBSET D /\ s \ {x} # s BY <2>2
  <2>4. 2 * Magnitude(a[s \ {x}] - b[s \ {x}]) <= Cent * Cardinality(s \ {x})
    BY <1>1, <2>3
  <2>5. IsFiniteSet(s) /\ Cardinality(s) \in Nat BY FS_Subset, FS_CardinalityType
  <2>6. Cardinality(s \ {x}) = Cardinality(s) - 1 BY <2>2, <2>5, FS_RemoveElement
  <2>7. a[s] = f[x] + a[s \ {x}] /\ b[s] = e[x] + b[s \ {x}] BY <2>2 DEF Adds
  <2>8. a[s \ {x}] \in Int /\ b[s \ {x}] \in Int BY <2>3 DEF Adds
  <2>9. PICK n \in Nat, p, q, r, t \in Int :
          /\ n = Cardinality(s) /\ p = a[s \ {x}] /\ q = b[s \ {x}] /\ r = f[x] /\ t = e[x]
    BY <2>2, <2>5, <2>8
  <2>10. 2 * Magnitude(r - t) <= Cent BY <2>2, <2>9
  <2>11. 2 * Magnitude(p - q) <= Cent * (n - 1) BY <2>4, <2>6, <2>9
  <2>12. 2 * Magnitude((r + p) - (t + q)) <= Cent * n BY <2>10, <2>11 DEF Magnitude, Cent
  <2>. QED BY <1>1, <2>7, <2>9, <2>12
<1>2. Wrong = {}
  <2>1. Wrong \subseteq SUBSET D OBVIOUS
  <2>2. ASSUME Wrong # {} PROVE \E s \in Wrong : \A t \in Wrong : t \subseteq s => t = s
    <3>. HIDE DEF Wrong
    <3>. QED BY <2>1, <2>2, LeastSubset
  <2>. QED BY <1>1, <2>2
<1>. QED BY <1>2

\* A sequence of n integers, as a fold sees one.
Numbers(s, n) == DOMAIN s = 1..n /\ \A i \in 1..n : s[i] \in Int

LEMMA SumIs ==
  ASSUME NEW n \in Nat, NEW s, Numbers(s, n)
  PROVE  /\ SumFunction(s) \in Int
         /\ \E g : Adds(s, g, 1..n) /\ SumFunction(s) = g[1..n]
<1>1. IsFiniteSet(1..n) BY FS_Interval
<1>2. \E g : Adds(s, g, 1..n) /\ SumFunctionOnSet(s, 1..n) = g[1..n]
  BY <1>1, SumAdds DEF Numbers
<1>. QED BY <1>2 DEF SumFunction, Numbers, Adds

LEMMA SumOfNone == ASSUME NEW s, Numbers(s, 0) PROVE SumFunction(s) = 0
<1>1. 1..0 = {} OBVIOUS
<1>. QED BY <1>1, SumIs DEF Adds

LEMMA SumOfMore ==
  ASSUME NEW n \in Nat, NEW s, Numbers(s, n), NEW t, Numbers(t, n + 1),
         \A i \in 1..n : t[i] = s[i]
  PROVE  SumFunction(t) = SumFunction(s) + t[n + 1]
<1>1. PICK a : Adds(s, a, 1..n) /\ SumFunction(s) = a[1..n] BY SumIs
<1>2. PICK b : Adds(t, b, 1..(n + 1)) /\ SumFunction(t) = b[1..(n + 1)] BY SumIs
<1>3. (1..(n + 1)) \ {n + 1} = 1..n /\ n + 1 \in 1..(n + 1) OBVIOUS
<1>4. b[1..(n + 1)] = t[n + 1] + b[1..n]
  <2>1. PICK D : D = 1..(n + 1) OBVIOUS
  <2>2. Adds(t, b, D) BY <1>2, <2>1
  <2>3. D \in SUBSET D /\ n + 1 \in D BY <1>3, <2>1
  <2>4. b[D] = t[n + 1] + b[D \ {n + 1}] BY <2>2, <2>3, TakeOut
  <2>. QED BY <1>3, <2>1, <2>4
<1>5. IsFiniteSet(1..n) /\ 1..n \subseteq 1..(n + 1) BY FS_Interval
<1>6. a[1..n] = b[1..n] BY <1>1, <1>2, <1>5, AddsAgree
<1>7. a[1..n] \in Int /\ t[n + 1] \in Int BY <1>1, <1>3 DEF Adds, Numbers
<1>. QED BY <1>1, <1>2, <1>4, <1>6, <1>7

LEMMA SumsClose ==
  ASSUME NEW n \in Nat, NEW s, Numbers(s, n), NEW t, Numbers(t, n),
         \A i \in 1..n : 2 * Magnitude(s[i] - t[i]) <= Cent
  PROVE  2 * Magnitude(SumFunction(s) - SumFunction(t)) <= Cent * n
<1>1. PICK a : Adds(s, a, 1..n) /\ SumFunction(s) = a[1..n] BY SumIs
<1>2. PICK b : Adds(t, b, 1..n) /\ SumFunction(t) = b[1..n] BY SumIs
<1>3. IsFiniteSet(1..n) /\ Cardinality(1..n) = n BY FS_Interval
<1>4. \A i \in 1..n : s[i] \in Int /\ t[i] \in Int BY DEF Numbers
<1>. QED BY <1>1, <1>2, <1>3, <1>4, AddsClose

\* A sum of whole cents is one of whole cents.
LEMMA SumOfCents ==
  ASSUME NEW n \in Nat, NEW s, Numbers(s, n), \A i \in 1..n : s[i] % Cent = 0
  PROVE  SumFunction(s) % Cent = 0
<1>1. PICK a : Adds(s, a, 1..n) /\ SumFunction(s) = a[1..n] BY SumIs
<1>2. PICK D : D = 1..n OBVIOUS
<1>3. IsFiniteSet(D) BY <1>2, FS_Interval
<1>. DEFINE Wrong == {c \in SUBSET D : a[c] % Cent # 0}
<1>4. ASSUME NEW c \in SUBSET D, a[c] % Cent # 0, \A d \in Wrong : d \subseteq c => d = c
      PROVE  FALSE
  <2>1. c # {}
    <3>1. a[{}] = 0 BY <1>1 DEF Adds
    <3>2. 0 % Cent = 0 BY DEF Cent
    <3>. QED BY <1>4, <3>1, <3>2
  <2>2. PICK x : x \in c BY <2>1
  <2>3. c \ {x} \in SUBSET D /\ c \ {x} # c BY <2>2
  <2>4. a[c \ {x}] % Cent = 0 BY <1>4, <2>3
  <2>9. Adds(s, a, D) BY <1>1, <1>2
  <2>5. a[c] = s[x] + a[c \ {x}] /\ a[c \ {x}] \in Int BY <2>2, <2>3, <2>9 DEF Adds
  <2>6. s[x] \in Int /\ s[x] % Cent = 0 BY <1>2, <2>2 DEF Numbers
  <2>7. PICK p, q \in Int : p = s[x] /\ q = a[c \ {x}] BY <2>5, <2>6
  <2>8. (p + q) % Cent = 0 BY <2>4, <2>6, <2>7 DEF Cent
  <2>. QED BY <1>4, <2>5, <2>7, <2>8
<1>5. Wrong = {}
  <2>1. Wrong \subseteq SUBSET D OBVIOUS
  <2>2. ASSUME Wrong # {} PROVE \E c \in Wrong : \A d \in Wrong : d \subseteq c => d = c
    <3>. HIDE DEF Wrong
    <3>. QED BY <1>3, <2>1, <2>2, LeastSubset
  <2>. QED BY <1>4, <2>2
<1>6. D \in SUBSET D OBVIOUS
<1>. QED BY <1>1, <1>2, <1>5, <1>6

----------------------------------------------------------------------------
(* Rounding *)

\* The nearest multiple of a step is within half of it.
LEMMA NearestIs ==
  ASSUME NEW v \in Int, NEW step \in Nat, step > 0
  PROVE  /\ \E k \in Int : Nearest(v, step) = k * step
         /\ 2 * Magnitude(Nearest(v, step) - v) <= step
<1>1. PICK m \in Nat : m = Magnitude(v) BY DEF Magnitude
<1>2. PICK q \in Int : q = (2 * m + step) \div (2 * step) OBVIOUS
<1>3. 2 * (q * step) <= 2 * m + step /\ 2 * m + step < 2 * (q * step) + 2 * step
  BY <1>2
<1>4. PICK w \in Int : w = q * step BY <1>2
<1>5. Nearest(v, step) = IF v < 0 THEN -w ELSE w BY <1>1, <1>2, <1>4 DEF Nearest
<1>6. 2 * Magnitude(Nearest(v, step) - v) <= step
  BY <1>1, <1>3, <1>4, <1>5 DEF Magnitude
<1>7. \E k \in Int : Nearest(v, step) = k * step
  <2>1. CASE v < 0
    <3>1. Nearest(v, step) = (-q) * step BY <1>4, <1>5, <2>1
    <3>2. -q \in Int OBVIOUS
    <3>. QED BY <3>1, <3>2, Zenon
  <2>2. CASE ~(v < 0) BY <1>4, <1>5, <2>2
  <2>. QED BY <2>1, <2>2
<1>. QED BY <1>6, <1>7

LEMMA MoneyIs ==
  ASSUME NEW v \in Int
  PROVE  /\ Money(v) \in Int /\ Money(v) % Cent = 0
         /\ 2 * Magnitude(Money(v) - v) <= Cent
         /\ v % Cent = 0 => Money(v) = v
         /\ v >= 0 => Money(v) >= 0
BY DEF Money, Nearest, Magnitude, Cent

LEMMA RoundToIs ==
  ASSUME NEW v \in Int, v % Cent = 0, NEW unit \in Nat, unit % Cent = 0
  PROVE  /\ RoundTo(v, unit) \in Int /\ RoundTo(v, unit) % Cent = 0
         /\ 2 * Magnitude(RoundTo(v, unit) - v) <= unit
<1>1. CASE unit = 0
  <2>1. RoundTo(v, unit) = v BY <1>1, MoneyIs DEF RoundTo
  <2>. QED BY <1>1, <2>1 DEF Magnitude
<1>2. CASE unit > 0
  <2>1. PICK k \in Int : Nearest(v, unit) = k * unit BY <1>2, NearestIs
  <2>2. 2 * Magnitude(Nearest(v, unit) - v) <= unit BY <1>2, NearestIs
  <2>3. PICK u \in Int : unit = Cent * u BY DEF Cent
  <2>4. PICK w \in Int : w = k * u BY <2>3
  <2>5. k * unit = Cent * w BY <2>3, <2>4 DEF Cent
  <2>6. Nearest(v, unit) \in Int /\ Nearest(v, unit) % Cent = 0 BY <2>1, <2>5 DEF Cent
  <2>7. Money(Nearest(v, unit)) = Nearest(v, unit) BY <2>6, MoneyIs
  <2>. QED BY <1>2, <2>2, <2>6, <2>7 DEF RoundTo
<1>. QED BY <1>1, <1>2

----------------------------------------------------------------------------
(* A ticket *)

Lines(basket, n) ==
  /\ DOMAIN basket = 1..n
  /\ \A i \in 1..n : basket[i] \in [quantity : Int, price : Int, discount : Int]

\* What a header says of itself and of the nets it is made of.
HeaderFitsNets(h, nets, unit) ==
  /\ h \in [net : Int, tax : Int, grand : Int, adjustment : Int, rounded : Int]
  /\ h.net = Money(SumFunction(nets))
  /\ h.rounded = h.grand + h.adjustment /\ h.grand = h.net + h.tax
  /\ 2 * Magnitude(h.adjustment) <= unit

LEMMA HeaderIs ==
  ASSUME NEW n \in Nat, NEW nets, Numbers(nets, n), NEW tax \in Int,
         NEW unit \in Nat, unit % Cent = 0
  PROVE  HeaderFitsNets(Header(nets, tax, unit), nets, unit)
<1>1. SumFunction(nets) \in Int BY SumIs
<1>2. PICK net, taxed \in Int : net = Money(SumFunction(nets)) /\ taxed = Money(tax)
  BY <1>1, MoneyIs
<1>3. net % Cent = 0 /\ taxed % Cent = 0 BY <1>1, <1>2, MoneyIs
<1>4. (net + taxed) \in Int /\ (net + taxed) % Cent = 0 BY <1>3 DEF Cent
<1>5. PICK rounded \in Int : rounded = RoundTo(net + taxed, unit) BY <1>4, RoundToIs
<1>6. 2 * Magnitude(rounded - (net + taxed)) <= unit BY <1>4, <1>5, RoundToIs
<1>7. Header(nets, tax, unit) =
        [net |-> net, tax |-> taxed, grand |-> net + taxed,
         adjustment |-> rounded - (net + taxed), rounded |-> rounded]
  BY <1>2, <1>5 DEF Header
<1>. QED BY <1>2, <1>6, <1>7 DEF HeaderFitsNets

LEMMA NetIs ==
  ASSUME NEW l \in [quantity : Int, price : Int, discount : Int], NEW pct \in Int
  PROVE  /\ Folded(l, pct) \in [quantity : Int, price : Int, discount : Int]
         /\ Net(l) \in Int
<1>1. ListPrice(l) \in Int BY DEF ListPrice
<1>2. ListPrice(l) * pct \in Int BY <1>1
<1>3. Nearest(ListPrice(l) * pct, 100 * Cent) \in Int BY <1>2 DEF Nearest, Magnitude, Cent
<1>4. Share(l, pct) \in Int BY <1>3 DEF Share
<1>5. Money(ListPrice(l)) \in Int /\ Money(l.discount) \in Int BY <1>1, MoneyIs
<1>. QED BY <1>4, <1>5 DEF Folded, Net

LEMMA TaxIs ==
  ASSUME NEW n \in Nat, NEW nets, Numbers(nets, n), NEW rate \in Int
  PROVE  TaxTotal(nets, rate) \in Int
<1>1. \A v \in Int : TaxOn(v, rate) \in Int
  <2>1. SUFFICES ASSUME NEW v \in Int PROVE TaxOn(v, rate) \in Int OBVIOUS
  <2>2. v * rate \in Int OBVIOUS
  <2>3. Nearest(v * rate, 100 * Cent) \in Int BY <2>2 DEF Nearest, Magnitude, Cent
  <2>. QED BY <2>3 DEF TaxOn
<1>2. Numbers([i \in DOMAIN nets |-> TaxOn(nets[i], rate)], n) BY <1>1 DEF Numbers
<1>. QED BY <1>2, SumIs DEF TaxTotal

\* Whatever the basket, the nets and the header the compute answers with fit.
LEMMA ComputedFits ==
  ASSUME NEW n \in Nat, NEW basket, Lines(basket, n), NEW pct \in Int, NEW rate \in Int,
         NEW unit \in Nat, unit % Cent = 0, NEW c \in Computed(basket, pct, rate, unit)
  PROVE  /\ c = [nets |-> c.nets, header |-> c.header]
         /\ HeaderFitsNets(c.header, c.nets, unit)
<1>1. PICK folded : folded = FoldOrderDiscount(basket, pct) OBVIOUS
<1>2. Lines(folded, n) BY <1>1, NetIs DEF Lines, FoldOrderDiscount
<1>3. PICK nets : nets = FirstPass(folded) OBVIOUS
<1>4. Numbers(nets, n) BY <1>2, <1>3, NetIs DEF Lines, FirstPass, Numbers
<1>5. PICK tax \in Int : tax = TaxTotal(nets, rate) BY <1>4, TaxIs
<1>6. PICK m \in Redistributed(nets) : c = [nets |-> m, header |-> Header(m, tax, unit)]
  BY <1>1, <1>3, <1>5 DEF Computed
<1>7. Numbers(m, n)
  <2>1. CASE m = nets BY <1>4, <2>1
  <2>2. CASE m # nets
    <3>1. m = [nets EXCEPT ![1] = @ + Cent, ![Len(nets)] = @ - Cent]
      BY <1>6, <2>2 DEF Redistributed
    <3>2. PICK k : k = Len(nets) OBVIOUS
    <3>3. m = [nets EXCEPT ![1] = @ + Cent, ![k] = @ - Cent] BY <3>1, <3>2
    <3>4. DOMAIN m = 1..n BY <1>4, <3>3 DEF Numbers
    <3>5. ASSUME NEW i \in 1..n PROVE m[i] \in Int
      <4>1. nets[i] \in Int BY <1>4 DEF Numbers
      <4>2. CASE i = k BY <1>4, <3>3, <4>1, <4>2 DEF Numbers, Cent
      <4>3. CASE i # k BY <1>4, <3>3, <4>1, <4>3 DEF Numbers, Cent
      <4>. QED BY <4>2, <4>3
    <3>. QED BY <3>4, <3>5 DEF Numbers
  <2>. QED BY <2>1, <2>2
<1>8. HeaderFitsNets(Header(m, tax, unit), m, unit) BY <1>7, HeaderIs
<1>. QED BY <1>6, <1>8

LEMMA TakeTwoOut ==
  ASSUME NEW D, NEW f, NEW g, Adds(f, g, D), NEW x \in D, NEW y \in D, x # y,
         NEW E, E = (D \ {x}) \ {y}
  PROVE  g[D] = f[x] + (f[y] + g[E]) /\ g[E] \in Int /\ Adds(f, g, E)
<1>1. D \in SUBSET D /\ D \ {x} \in SUBSET D /\ y \in D \ {x} OBVIOUS
<1>2. E \in SUBSET D OBVIOUS
<1>3. g[D] = f[x] + g[D \ {x}] BY <1>1 DEF Adds
<1>4. g[D \ {x}] = f[y] + g[E] BY <1>1 DEF Adds
<1>5. g[E] \in Int BY <1>2 DEF Adds
<1>6. Adds(f, g, E) BY <1>2 DEF Adds
<1>. QED BY <1>3, <1>4, <1>5, <1>6

LEMMA ShiftKeepsSum ==
  ASSUME NEW n \in Nat, n >= 2, NEW s, Numbers(s, n), NEW t, Numbers(t, n),
         t[1] = s[1] + Cent, t[n] = s[n] - Cent,
         \A i \in 1..n : i # 1 /\ i # n => t[i] = s[i]
  PROVE  SumFunction(t) = SumFunction(s)
<1>1. PICK D : D = 1..n OBVIOUS
<1>2. PICK a : Adds(s, a, D) /\ SumFunction(s) = a[D] BY <1>1, SumIs
<1>3. PICK b : Adds(t, b, D) /\ SumFunction(t) = b[D] BY <1>1, SumIs
<1>4. PICK E : E = (D \ {1}) \ {n} OBVIOUS
<1>5. 1 \in D /\ n \in D /\ 1 # n BY <1>1
<1>6. a[D] = s[1] + (s[n] + a[E]) /\ a[E] \in Int /\ Adds(s, a, E)
  BY <1>2, <1>4, <1>5, TakeTwoOut
<1>7. b[D] = t[1] + (t[n] + b[E]) /\ b[E] \in Int /\ Adds(t, b, E)
  BY <1>3, <1>4, <1>5, TakeTwoOut
<1>8. IsFiniteSet(E)
  <2>1. IsFiniteSet(D) BY <1>1, FS_Interval
  <2>2. E \subseteq D BY <1>4
  <2>. QED BY <2>1, <2>2, FS_Subset
<1>9. \A x \in E : s[x] = t[x] BY <1>1, <1>4
<1>10. a[E] = b[E] BY <1>6, <1>7, <1>8, <1>9, AddsAgree
<1>11. s[1] \in Int /\ s[n] \in Int BY <1>1, <1>5 DEF Numbers
<1>. QED BY <1>2, <1>3, <1>6, <1>7, <1>10, <1>11 DEF Cent

\* However the tax engine spreads its cents over the lines, the header of the ticket, and
\* with it what the customer is asked to pay, is the same.
THEOREM SpreadKeepsTheHeader ==
  ASSUME NEW nets \in Seq(Int), NEW m \in Redistributed(nets), NEW tax, NEW unit
  PROVE  Header(m, tax, unit) = Header(nets, tax, unit)
<1>1. SumFunction(m) = SumFunction(nets)
  <2>1. CASE m = nets BY <2>1
  <2>2. CASE m # nets
    <3>1. Len(nets) >= 2 /\ m = [nets EXCEPT ![1] = @ + Cent, ![Len(nets)] = @ - Cent]
      BY <2>2 DEF Redistributed
    <3>2. PICK n \in Nat : n = Len(nets) OBVIOUS
    <3>3. Numbers(nets, n) BY <3>2 DEF Numbers
    <3>4. m = [nets EXCEPT ![1] = @ + Cent, ![n] = @ - Cent] BY <3>1, <3>2
    <3>5. DOMAIN m = 1..n BY <3>3, <3>4 DEF Numbers
    <3>6. n \in 1..n /\ 1 \in 1..n /\ 1 # n BY <3>1, <3>2
    <3>7. m[1] = nets[1] + Cent BY <3>3, <3>4, <3>6 DEF Numbers
    <3>8. m[n] = nets[n] - Cent BY <3>3, <3>4, <3>6 DEF Numbers
    <3>9. \A i \in 1..n : i # 1 /\ i # n => m[i] = nets[i] BY <3>3, <3>4 DEF Numbers
    <3>10. Numbers(m, n)
      <4>1. nets[1] + Cent \in Int /\ nets[n] - Cent \in Int
        BY <3>3, <3>6 DEF Numbers, Cent
      <4>. QED BY <3>3, <3>5, <3>7, <3>8, <3>9, <4>1 DEF Numbers
    <3>. QED BY <3>1, <3>2, <3>3, <3>7, <3>8, <3>9, <3>10, ShiftKeepsSum
  <2>. QED BY <2>1, <2>2
<1>. QED BY <1>1 DEF Header

\* A line rung from what the cart pricer answers costs what the pricer said, to the cent,
\* when that is no more than its gross.
THEOREM CartNetIsKept ==
  ASSUME NEW quantity \in Int, NEW price \in Int, NEW net \in Int, net % Cent = 0,
         net <= Money(quantity * price)
  PROVE  Net(FromCart(quantity, price, net)) = net
<1>1. PICK gross \in Int : gross = quantity * price OBVIOUS
<1>2. Money(gross) \in Int /\ Money(gross) % Cent = 0 BY MoneyIs
<1>3. PICK off \in Int : off = Money(gross) - net BY <1>2
<1>4. off >= 0 /\ off % Cent = 0 BY <1>1, <1>2, <1>3 DEF Cent
<1>5. Money(off) = off BY <1>4, MoneyIs
<1>6. FromCart(quantity, price, net) =
        [quantity |-> quantity, price |-> price, discount |-> off]
  BY <1>1, <1>3, <1>4 DEF FromCart, AtLeastZero
<1>7. Net(FromCart(quantity, price, net)) = Money(gross) - Money(off)
  BY <1>1, <1>6 DEF Net, ListPrice
<1>. QED BY <1>2, <1>3, <1>5, <1>7

\* Rounding keeps the order of amounts.
LEMMA MoneyIsMonotone ==
  ASSUME NEW v \in Nat, NEW w \in Nat, v <= w
  PROVE  Money(v) <= Money(w)
<1>1. PICK q, r \in Int : q = (2 * v + 10) \div 20 /\ r = (2 * w + 10) \div 20 OBVIOUS
<1>2. q <= r BY <1>1
<1>3. Money(v) = q * 10 /\ Money(w) = r * 10 BY <1>1 DEF Money, Nearest, Magnitude, Cent
<1>. QED BY <1>2, <1>3

\* The fold refuses a discount beyond the line's gross, and with it everything that would
\* price a line below zero: a line it accepts is never refused afterwards for its net, since
\* rounding keeps the order of the gross and the discount.
THEOREM DiscountsPriceNothingBelowZero ==
  ASSUME NEW l \in [quantity : Nat, price : Nat, discount : Nat], NEW pct \in Nat,
         DiscountFits(l, pct)
  PROVE  Priced(Folded(l, pct))
<1>1. PICK q, p, d \in Nat : q = l.quantity /\ p = l.price /\ d = l.discount OBVIOUS
<1>2. PICK gross \in Nat : gross = q * p BY <1>1
<1>3. PICK x \in Nat : x = gross * pct BY <1>2
<1>4. PICK n \in Nat : n = (2 * x + 1000) \div 2000 BY <1>3
<1>5. Share(l, pct) = (n * 1000) \div 100
  BY <1>1, <1>2, <1>3, <1>4 DEF Share, ListPrice, Nearest, Magnitude, Cent
<1>6. PICK off \in Nat : off = d + Share(l, pct) BY <1>1, <1>4, <1>5
<1>7. off <= gross BY <1>1, <1>2, <1>6 DEF DiscountFits, ListPrice
<1>8. Folded(l, pct) = [quantity |-> q, price |-> p, discount |-> off]
  BY <1>1, <1>6 DEF Folded
<1>9. Net(Folded(l, pct)) = Money(gross) - Money(off) BY <1>2, <1>8 DEF Net, ListPrice
<1>10. Money(off) <= Money(gross) BY <1>7, MoneyIsMonotone
<1>11. Money(off) \in Int /\ Money(gross) \in Int BY MoneyIs
<1>. QED BY <1>8, <1>9, <1>10, <1>11 DEF Priced
===============================================================================
