------------------------------- MODULE LeftFold -------------------------------
(***************************************************************************)
(* What FoldLeft computes, for any step and any start: the community       *)
(* modules define it by a recursive function over sets of positions, and   *)
(* the proofs that instantiate this module use the two equations a reader  *)
(* expects of it, for the empty sequence and for one element more.         *)
(***************************************************************************)
EXTENDS Integers, SequencesExt, FiniteSetTheorems, WellFoundedInduction, TLAPS

CONSTANT Op(_, _)  \* what one element makes of the result so far

Folded(base, s) == FoldLeft(Op, base, s)

-------------------------------------------------------------------------------
(***************************************************************************)
(* Induction over the naturals, of sets: a set that has 0 and with every   *)
(* number its successor has them all.                                      *)
(***************************************************************************)
LEMMA SmallestOf ==
  ASSUME NEW T \in SUBSET Nat, T # {}
  PROVE  \E x \in T : \A y \in T : x <= y
<1>1. PICK x \in T : \A y \in T : ~ (<< y, x >> \in OpToRel(<, Nat))
  BY WFMin, NatLessThanWellFounded
<1>2. \A y \in T : ~(y < x)
  BY <1>1 DEF OpToRel
<1> QED
  BY <1>2

LEMMA Inductive ==
  ASSUME NEW T, 0 \in T, \A k \in Nat : k \in T => k + 1 \in T
  PROVE  \A k \in Nat : k \in T
<1> SUFFICES ASSUME Nat \ T # {}  PROVE FALSE
  OBVIOUS
<1>1. PICK x \in Nat \ T : \A y \in Nat \ T : x <= y
  BY SmallestOf
<1>2. x # 0 /\ x - 1 \in Nat /\ x - 1 \notin T
  BY <1>1
<1> QED
  BY <1>1, <1>2

-------------------------------------------------------------------------------
Greatest(d) == Max(d)

LEMMA LastIsThere ==
  ASSUME NEW n \in Nat, NEW d \in SUBSET (1 .. n), d # {}
  PROVE  Greatest(d) \in d
<1> DEFINE T == {j \in Nat : n - j \in d}
<1>1. T \in SUBSET Nat /\ T # {}
  <2>1. PICK x \in d : TRUE
    OBVIOUS
  <2>2. n - x \in T
    BY <2>1
  <2> QED
    BY <2>2
<1>2. PICK m \in T : \A y \in T : m <= y
  BY <1>1, SmallestOf
<1>3. n - m \in d
  BY <1>2
<1>4. ASSUME NEW y \in d  PROVE n - m >= y
  <2>1. y \in 1 .. n /\ n - (n - y) = y
    OBVIOUS
  <2>2. n - y \in T
    BY <2>1
  <2>3. m \in Nat /\ m <= n - y
    BY <1>2, <2>2
  <2> QED
    BY <2>1, <2>3
<1> QED
  BY <1>3, <1>4 DEF Greatest, Max

Step(base, s, g, d) == IF d = {} THEN base ELSE Op(g[d \ {Greatest(d)}], s[Greatest(d)])

Iter(base, s) == CHOOSE g : g = [d \in SUBSET (DOMAIN s) |-> Step(base, s, g, d)]

LEMMA FoldedIter ==
  ASSUME NEW base, NEW s  PROVE Folded(base, s) = Iter(base, s)[DOMAIN s]
BY DEF Folded, FoldLeft, MapThenFoldSet, Step, Greatest, Iter

\* There is a function that Iter can choose.
LEMMA IterDef ==
  ASSUME NEW base, NEW s, NEW n \in Nat, DOMAIN s = 1 .. n
  PROVE  Iter(base, s) = [d \in SUBSET (1 .. n) |-> Step(base, s, Iter(base, s), d)]
<1> DEFINE Sets  == SUBSET (1 .. n)
           Good(g, k) == /\ g = [d \in Sets |-> g[d]]
                         /\ \A d \in Sets : Cardinality(d) <= k => g[d] = Step(base, s, g, d)
           T == {k \in Nat : \E g : Good(g, k)}
<1>1. \A d \in Sets : IsFiniteSet(d) /\ Cardinality(d) \in 0 .. n
  <2>1. IsFiniteSet(1 .. n) /\ Cardinality(1 .. n) = n
    BY FS_Interval
  <2> SUFFICES ASSUME NEW d \in Sets
               PROVE  IsFiniteSet(d) /\ Cardinality(d) \in 0 .. n
    OBVIOUS
  <2>2. d \subseteq 1 .. n
    OBVIOUS
  <2> HIDE DEF Sets
  <2>3. IsFiniteSet(d) /\ Cardinality(d) <= Cardinality(1 .. n)
    BY ONLY <2>1, <2>2, FS_Subset
  <2> QED
    BY <2>1, <2>3, FS_CardinalityType
<1>2. \A d \in Sets : d # {} =>
        /\ d \ {Greatest(d)} \in Sets
        /\ Cardinality(d \ {Greatest(d)}) = Cardinality(d) - 1
  BY <1>1, LastIsThere, FS_RemoveElement
<1>3. 0 \in T
  <2> DEFINE g == [d \in Sets |-> base]
  <2>1. \A d \in Sets : Cardinality(d) <= 0 => d = {}
    BY <1>1, FS_EmptySet
  <2>2. Good(g, 0)
    BY <2>1 DEF Step
  <2> QED
    BY <2>2
<1>4. ASSUME NEW k \in Nat, k \in T  PROVE k + 1 \in T
  <2>1. PICK g : Good(g, k)
    BY <1>4
  <2> DEFINE h == [d \in Sets |-> IF Cardinality(d) <= k THEN g[d] ELSE Step(base, s, g, d)]
  <2>2. \A d \in Sets : Cardinality(d) <= k => h[d] = g[d]
    OBVIOUS
  <2>3. \A d \in Sets : h[d] = Step(base, s, g, d)
    BY <2>1
  <2>4. \A d \in Sets : Cardinality(d) <= k + 1 => Step(base, s, h, d) = Step(base, s, g, d)
    <3> SUFFICES ASSUME NEW d \in Sets, Cardinality(d) <= k + 1, d # {}
                 PROVE  h[d \ {Greatest(d)}] = g[d \ {Greatest(d)}]
      BY DEF Step
    <3>1. /\ d \ {Greatest(d)} \in Sets
          /\ Cardinality(d \ {Greatest(d)}) = Cardinality(d) - 1
      BY <1>2
    <3>2. Cardinality(d) \in Nat
      BY <1>1
    <3>3. Cardinality(d \ {Greatest(d)}) <= k
      BY <3>1, <3>2
    <3> HIDE DEF h, Sets
    <3> QED
      BY <3>1, <3>3, <2>2
  <2>5. h = [d \in Sets |-> h[d]]
    OBVIOUS
  <2> HIDE DEF h
  <2>6. Good(h, k + 1)
    BY <2>3, <2>4, <2>5
  <2> HIDE DEF Good
  <2> QED
    BY <2>6
<1> HIDE DEF T
<1>5. n \in T
  BY <1>3, <1>4, Inductive
<1>6. PICK g : Good(g, n)
  BY <1>5 DEF T
<1>7. g = [d \in Sets |-> Step(base, s, g, d)]
  <2>1. ASSUME NEW d \in Sets  PROVE g[d] = Step(base, s, g, d)
    <3>1. Cardinality(d) <= n
      BY <1>1
    <3> HIDE DEF Sets
    <3> QED
      BY <1>6, <3>1
  <2>2. g = [d \in Sets |-> g[d]]
    BY <1>6
  <2> HIDE DEF Sets
  <2>3. [d \in Sets |-> g[d]] = [d \in Sets |-> Step(base, s, g, d)]
    BY <2>1
  <2> QED
    BY <2>2, <2>3
<1> QED
  BY <1>7 DEF Iter

\* The fold of the first k elements.
Upto(base, s, k) == Iter(base, s)[1 .. k]

LEMMA UptoStart ==
  ASSUME NEW base, NEW s, NEW n \in Nat, DOMAIN s = 1 .. n
  PROVE  Upto(base, s, 0) = base
<1>1. Iter(base, s) = [d \in SUBSET (1 .. n) |-> Step(base, s, Iter(base, s), d)]
  BY IterDef
<1>2. 1 .. 0 = {}
  OBVIOUS
<1> QED
  BY <1>1, <1>2 DEF Upto, Step

LEMMA UptoStep ==
  ASSUME NEW base, NEW s, NEW n \in Nat, DOMAIN s = 1 .. n, NEW k \in 0 .. n - 1
  PROVE  Upto(base, s, k + 1) = Op(Upto(base, s, k), s[k + 1])
<1>1. Iter(base, s) = [d \in SUBSET (1 .. n) |-> Step(base, s, Iter(base, s), d)]
  BY IterDef, ZenonT(40)
<1>2. 1 .. k + 1 \in SUBSET (1 .. n) /\ 1 .. k + 1 # {} /\ k + 1 \in 1 .. k + 1
  <2>1. k \in Nat /\ k + 1 <= n
    OBVIOUS
  <2>2. k + 1 \in 1 .. k + 1
    BY <2>1
  <2>3. \A x \in 1 .. k + 1 : x \in 1 .. n
    BY <2>1
  <2> QED
    BY <2>2, <2>3
<1>3. Greatest(1 .. k + 1) = k + 1
  BY <1>2 DEF Greatest, Max
<1>4. (1 .. k + 1) \ {k + 1} = 1 .. k
  OBVIOUS
<1> QED
  BY <1>1, <1>2, <1>3, <1>4 DEF Upto, Step

\* The fold of equal beginnings is equal.
LEMMA UptoAgrees ==
  ASSUME NEW base, NEW s, NEW n \in Nat, DOMAIN s = 1 .. n,
         NEW t, NEW m \in Nat, DOMAIN t = 1 .. m,
         NEW k \in Nat, k <= n, k <= m, \A i \in 1 .. k : s[i] = t[i]
  PROVE  Upto(base, s, k) = Upto(base, t, k)
<1> DEFINE T == {j \in Nat : j <= k => Upto(base, s, j) = Upto(base, t, j)}
<1>1. 0 \in T
  BY UptoStart
<1>2. ASSUME NEW j \in Nat, j \in T  PROVE j + 1 \in T
  <2> SUFFICES ASSUME j + 1 <= k  PROVE Upto(base, s, j + 1) = Upto(base, t, j + 1)
    OBVIOUS
  <2>1. Upto(base, s, j) = Upto(base, t, j) /\ s[j + 1] = t[j + 1]
        /\ j \in 0 .. n - 1 /\ j \in 0 .. m - 1
    BY <1>2
  <2>2. Upto(base, s, j + 1) = Op(Upto(base, s, j), s[j + 1])
    BY <2>1, UptoStep
  <2>3. Upto(base, t, j + 1) = Op(Upto(base, t, j), t[j + 1])
    BY <2>1, UptoStep
  <2> QED
    BY <2>1, <2>2, <2>3
<1> HIDE DEF T
<1>3. k \in T
  BY <1>1, <1>2, Inductive
<1> QED
  BY <1>3 DEF T

(***************************************************************************)
(* The two equations.                                                      *)
(***************************************************************************)
THEOREM FoldedEmpty ==
  ASSUME NEW base  PROVE Folded(base, << >>) = base
<1>1. DOMAIN << >> = 1 .. 0
  OBVIOUS
<1> QED
  BY <1>1, FoldedIter, UptoStart DEF Upto

THEOREM FoldedMore ==
  ASSUME NEW base, NEW s, NEW n \in Nat, DOMAIN s = 1 .. n,
         NEW t, DOMAIN t = 1 .. n + 1, \A i \in 1 .. n : t[i] = s[i]
  PROVE  Folded(base, t) = Op(Folded(base, s), t[n + 1])
<1>1. Folded(base, t) = Upto(base, t, n + 1) /\ Folded(base, s) = Upto(base, s, n)
  BY FoldedIter DEF Upto
<1>2. Upto(base, t, n) = Upto(base, s, n)
  BY UptoAgrees
<1>3. Upto(base, t, n + 1) = Op(Upto(base, t, n), t[n + 1])
  <2>1. n \in 0 .. (n + 1) - 1 /\ n + 1 \in Nat
    OBVIOUS
  <2> QED
    BY <2>1, UptoStep
<1> QED
  BY <1>1, <1>2, <1>3
===============================================================================
