--------------------------- MODULE CountingProofs ---------------------------
(***************************************************************************)
(* Facts about finite sets of numbers that the proofs about lists and      *)
(* pages need: least and greatest elements, and the rank of a number in a  *)
(* set, which is how many elements of the set it does not precede.         *)
(*                                                                         *)
(* The provers cannot use the induction theorems of the library.  They can *)
(* use that < is well-founded on the naturals, and that is as good.        *)
(***************************************************************************)
EXTENDS Integers, FiniteSetTheorems, TLAPS

-----------------------------------------------------------------------------
\* Least and greatest elements.

Less == {p \in Nat \X Nat : p[1] < p[2]}

LEMMA LessWellFounded == IsWellFoundedOn(Less, Nat)
BY NatLessThanWellFounded DEF Less, OpToRel

\* Every set of natural numbers has a least element.
LEMMA LeastElement ==
    ASSUME NEW S \in SUBSET Nat, S # {}
    PROVE  \E n \in S : \A m \in S : n <= m
<1>1. PICK n \in S : \A m \in S : <<m, n>> \notin Less
  BY LessWellFounded, WFMin
<1>2. \A m \in S : ~(m < n)
  BY <1>1 DEF Less
<1> QED  BY <1>2

\* Every bounded set of natural numbers has a greatest element.
LEMMA GreatestElement ==
    ASSUME NEW b \in Nat, NEW S \in SUBSET (0 .. b), S # {}
    PROVE  \E n \in S : \A m \in S : m <= n
<1> DEFINE T == {n \in 0 .. b : b - n \in S}
<1>1. T \in SUBSET Nat
  OBVIOUS
<1>2. PICK s \in S : TRUE
  OBVIOUS
<1>3. b - s \in 0 .. b /\ b - (b - s) = s
  OBVIOUS
<1>4. T # {}
  BY <1>2, <1>3
<1>5. PICK n \in T : \A m \in T : n <= m
  BY <1>1, <1>4, LeastElement
<1>6. \A m \in S : m <= b - n
  <2> SUFFICES ASSUME NEW m \in S PROVE m <= b - n
    OBVIOUS
  <2>1. b - m \in 0 .. b /\ b - (b - m) = m
    OBVIOUS
  <2>2. n <= b - m
    BY <2>1, <1>5
  <2> QED  BY <2>2
<1> QED  BY <1>5, <1>6

-----------------------------------------------------------------------------
\* Ranks.

Rank(S, i) == Cardinality({j \in S : j <= i})

LEMMA RankType ==
    ASSUME NEW S, IsFiniteSet(S), NEW i
    PROVE  Rank(S, i) \in Nat /\ Rank(S, i) <= Cardinality(S) /\ Cardinality(S) \in Nat
<1>1. {j \in S : j <= i} \in SUBSET S
  OBVIOUS
<1> QED  BY <1>1, FS_Subset, FS_CardinalityType DEF Rank

\* Ranks are in the order of the numbers, and strictly so up to an element.
LEMMA RankOrder ==
    ASSUME NEW S \in SUBSET Int, IsFiniteSet(S), NEW a \in Int, NEW b \in Int, a <= b
    PROVE  /\ Rank(S, a) <= Rank(S, b)
           /\ b \in S /\ a < b => Rank(S, a) < Rank(S, b)
<1> DEFINE A == {j \in S : j <= a}
<1> DEFINE B == {j \in S : j <= b}
<1>1. B \in SUBSET S /\ A \in SUBSET B
  <2>1. \A j \in S : j \in Int /\ (j <= a => j <= b)
    OBVIOUS
  <2> QED  BY <2>1
<1>2. IsFiniteSet(B) /\ IsFiniteSet(A) /\ Cardinality(A) \in Nat /\ Cardinality(B) \in Nat
  BY <1>1, FS_Subset, FS_CardinalityType
<1>3. Cardinality(A) <= Cardinality(B) /\ (Cardinality(B) = Cardinality(A) => B = A)
  BY <1>1, <1>2, FS_Subset
<1>4. b \in S /\ a < b => A # B
  <2>1. b \in S => b \in B
    OBVIOUS
  <2>2. a < b => b \notin A
    OBVIOUS
  <2> QED  BY <2>1, <2>2
<1> QED  BY <1>2, <1>3, <1>4 DEF Rank

\* A number that is larger has a larger rank, if it is an element.
LEMMA RankAfter ==
    ASSUME NEW S \in SUBSET Int, IsFiniteSet(S), NEW i \in S, NEW c \in Int
    PROVE  c < i <=> Rank(S, c) < Rank(S, i)
<1>1. Rank(S, c) \in Nat /\ Rank(S, i) \in Nat
  BY RankType
<1>2. CASE c < i
  BY <1>2, RankOrder
<1>3. CASE i <= c
  BY <1>1, <1>3, RankOrder
<1> QED  BY <1>2, <1>3

\* The ranks of the elements leave no number out.
LEMMA RankOnto ==
    ASSUME NEW b \in Nat, NEW S \in SUBSET (1 .. b), NEW r \in 1 .. Cardinality(S)
    PROVE  \E i \in S : Rank(S, i) = r
<1> IsFiniteSet(S) /\ Cardinality(S) \in Nat
  <2>1. IsFiniteSet(1 .. b)
    BY FS_Interval
  <2> QED  BY <2>1, FS_Subset, FS_CardinalityType
<1> \A j \in S : j \in Nat /\ 1 <= j /\ j <= b
  OBVIOUS
<1> DEFINE T == {i \in Nat : Rank(S, i) >= r}
<1>1. \A i \in Nat : Rank(S, i) \in Nat
  BY RankType
<1>2. T # {}
  <2>1. {j \in S : j <= b} = S
    OBVIOUS
  <2>2. b \in T
    BY <2>1 DEF Rank
  <2> QED  BY <2>2
<1>3. PICK i \in T : \A m \in T : i <= m
  BY <1>2, LeastElement
<1>4. i \in Nat /\ Rank(S, i) >= r
  BY <1>3
<1>5. Rank(S, 0) = 0
  <2>1. \A j \in S : ~(j <= 0)
    OBVIOUS
  <2>2. {j \in S : j <= 0} = {}
    BY <2>1
  <2> QED  BY <2>2, FS_EmptySet DEF Rank
<1>6. i # 0
  BY <1>4, <1>5
<1>7. i - 1 \in Nat /\ Rank(S, i - 1) < r
  <2>1. i - 1 \in Nat /\ ~(i <= i - 1)
    BY <1>4, <1>6
  <2>2. i - 1 \notin T
    BY <1>3, <2>1
  <2> QED  BY <1>1, <2>1, <2>2
<1> DEFINE B == {j \in S : j <= i - 1}
<1>8. {j \in S : j <= i} = IF i \in S THEN B \cup {i} ELSE B
  <2>1. \A j \in S : j <= i <=> j <= i - 1 \/ j = i
    BY <1>4
  <2> QED  BY <2>1
<1>9. IsFiniteSet(B) /\ i \notin B /\ Cardinality(B) \in Nat
  <2>1. B \in SUBSET S
    OBVIOUS
  <2> QED  BY <1>4, <2>1, FS_Subset, FS_CardinalityType
<1>10. i \in S /\ Rank(S, i) = Rank(S, i - 1) + 1
  <2>1. Rank(S, i - 1) = Cardinality(B)
    BY DEF Rank
  <2>2. Rank(S, i) = Cardinality(IF i \in S THEN B \cup {i} ELSE B)
    BY <1>8 DEF Rank
  <2>3. Cardinality(B \cup {i}) = Cardinality(B) + 1
    BY <1>9, FS_AddElement
  <2> QED  BY <1>4, <1>7, <1>9, <2>1, <2>2, <2>3
<1>11. Rank(S, i - 1) \in Nat
  BY <1>1, <1>7
<1> QED  BY <1>4, <1>7, <1>10, <1>11

\* Elements whose ranks lie between two numbers are not more than their difference.
LEMMA RankBetween ==
    ASSUME NEW S \in SUBSET Int, IsFiniteSet(S), NEW a \in Nat, NEW b \in Nat, a <= b,
           NEW P \in SUBSET S, \A i \in P : Rank(S, i) \in a + 1 .. b
    PROVE  IsFiniteSet(P) /\ Cardinality(P) \in Nat /\ Cardinality(P) <= b - a
<1> DEFINE f == [i \in P |-> Rank(S, i)]
<1>1. f \in [P -> a + 1 .. b]
  OBVIOUS
<1>2. \A i, j \in P : f[i] = f[j] => i = j
  <2> SUFFICES ASSUME NEW i \in P, NEW j \in P, Rank(S, i) = Rank(S, j) PROVE i = j
    OBVIOUS
  <2>1. ~(i < j) /\ ~(j < i)
    BY RankAfter, RankType
  <2> QED  BY <2>1
<1> DEFINE T == a + 1 .. b
<1> HIDE DEF f
<1>3. f \in Injection(P, T)
  BY <1>1, <1>2 DEF Injection, IsInjective, T
<1>4. IsFiniteSet(T) /\ Cardinality(T) = b - a
  <2>1. IsFiniteSet(T) /\ Cardinality(T) = IF a + 1 > b THEN 0 ELSE b - (a + 1) + 1
    BY FS_Interval
  <2> QED  BY <2>1
<1> HIDE DEF T
<1>5. IsFiniteSet(P) /\ Cardinality(P) <= b - a
  BY <1>3, <1>4, FS_Injection
<1> QED  BY <1>5, FS_CardinalityType

-----------------------------------------------------------------------------
\* Cardinalities.

\* A set has more than one element if it has two.
LEMMA MoreThanOne ==
    ASSUME NEW S, IsFiniteSet(S)
    PROVE  Cardinality(S) > 1 <=> \E x, y \in S : x # y
<1>1. Cardinality(S) \in Nat
  BY FS_CardinalityType
<1>2. ASSUME NEW x \in S, NEW y \in S, x # y PROVE Cardinality(S) > 1
  <2>1. Cardinality(S) # 0
    BY <1>2, FS_EmptySet
  <2>2. Cardinality(S) # 1
    BY <1>2, FS_Singleton
  <2> QED  BY <1>1, <2>1, <2>2
<1>3. ASSUME Cardinality(S) > 1 PROVE \E x, y \in S : x # y
  <2>1. S # {}
    BY <1>3, FS_EmptySet
  <2>2. PICK x \in S : TRUE
    BY <2>1
  <2>3. S # {x}
    BY <1>3, FS_Singleton
  <2> QED  BY <2>2, <2>3
<1> QED  BY <1>2, <1>3

\* A set that is split in two has the elements of both.
LEMMA SplitInTwo ==
    ASSUME NEW S, IsFiniteSet(S), NEW A \in SUBSET S
    PROVE  /\ Cardinality(S) = Cardinality(A) + Cardinality(S \ A)
           /\ Cardinality(A) \in Nat /\ Cardinality(S \ A) \in Nat
<1>1. S \cap A = A
  OBVIOUS
<1>2. IsFiniteSet(A) /\ IsFiniteSet(S \ A)
  BY FS_Subset, FS_Difference
<1>3. Cardinality(S \ A) = Cardinality(S) - Cardinality(A)
  BY <1>1, FS_Difference
<1> QED  BY <1>2, <1>3, FS_CardinalityType

\* A larger set has not less on either side of a number.
LEMMA SubsetCounts ==
    ASSUME NEW T, IsFiniteSet(T), NEW S \in SUBSET T, NEW c
    PROVE  /\ Rank(S, c) <= Rank(T, c) /\ Rank(S, c) \in Nat /\ Rank(T, c) \in Nat
           /\ Cardinality({j \in S : j > c}) <= Cardinality({j \in T : j > c})
           /\ Cardinality({j \in S : j > c}) \in Nat /\ Cardinality({j \in T : j > c}) \in Nat
<1>1. {j \in T : j <= c} \in SUBSET T /\ {j \in T : j > c} \in SUBSET T
  OBVIOUS
<1>2. /\ {j \in S : j <= c} \in SUBSET {j \in T : j <= c}
      /\ {j \in S : j > c} \in SUBSET {j \in T : j > c}
  OBVIOUS
<1>3. IsFiniteSet({j \in T : j <= c}) /\ IsFiniteSet({j \in T : j > c})
  BY <1>1, FS_Subset
<1> QED  BY <1>2, <1>3, FS_Subset, FS_CardinalityType DEF Rank
=============================================================================
