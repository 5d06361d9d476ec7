----------------------------- MODULE PowersOfTwo -----------------------------
(* What the proofs need to know of the powers of two. The provers compute     *)
(* 2 ^ n only for numbers, so the rest is derived from the number of subsets  *)
(* of a set, by least elements.                                               *)
EXTENDS Integers, FiniteSetTheorems, WellFoundedInduction, NaturalsInduction, TLAPS

Less == {p \in Nat \X Nat : p[1] < p[2]}

\* The naturals are well-founded.
LEMMA LessWellFounded == IsWellFoundedOn(Less, Nat)
BY NatLessThanWellFounded DEF OpToRel, Less

\* A set of naturals that is not empty has a least element.
LEMMA Least ==
    ASSUME NEW T \in SUBSET Nat, T # {}
    PROVE  \E x \in T : \A y \in T : x <= y
<1>1. PICK x \in T : \A y \in T : <<y, x>> \notin Less
  BY LessWellFounded, WFMin
<1>2. \A y \in T : y \in Nat /\ x \in Nat
  OBVIOUS
<1>3. \A y \in T : ~(y < x)
  BY <1>1, <1>2 DEF Less
<1> QED
  BY <1>2, <1>3

\* The subsets of a set with one element more: without it, and with it.
LEMMA MoreSubsets ==
    ASSUME NEW S, IsFiniteSet(S), NEW x, x \notin S
    PROVE  Cardinality(SUBSET (S \cup {x})) = 2 * Cardinality(SUBSET S)
<1> DEFINE A == SUBSET S
           f == [s \in A |-> s \cup {x}]
           B == {s \cup {x} : s \in A}
<1>1. SUBSET (S \cup {x}) = A \cup B
  <2>1. ASSUME NEW s \in SUBSET (S \cup {x}) PROVE s \in A \cup B
    <3>1. CASE x \notin s
      BY <3>1
    <3>2. CASE x \in s
      <4>1. s \ {x} \in A /\ s = (s \ {x}) \cup {x}
        BY <3>2
      <4> QED
        BY <4>1
    <3> QED
      BY <3>1, <3>2
  <2> QED
    BY <2>1
<1>2. A \cap B = {}
  OBVIOUS
<1>3. IsFiniteSet(A) /\ Cardinality(A) \in Nat
  BY FS_SUBSET, FS_CardinalityType
<1>4. f \in Bijection(A, B)
  <2>1. \A s, t \in A : f[s] = f[t] => s = t
    <3> SUFFICES ASSUME NEW s \in A, NEW t \in A, f[s] = f[t] PROVE s = t
      OBVIOUS
    <3>1. s \cup {x} = t \cup {x} /\ x \notin s /\ x \notin t
      OBVIOUS
    <3>2. \A e : e \in s <=> e \in t
      BY <3>1
    <3> QED
      BY <3>2
  <2>2. f \in [A -> B]
    OBVIOUS
  <2>3. \A t \in B : \E s \in A : f[s] = t
    OBVIOUS
  <2> HIDE DEF A, B, f
  <2>4. IsInjective(f)
    BY <2>1, <2>2 DEF IsInjective
  <2> QED
    BY <2>2, <2>3, <2>4 DEF Bijection, Injection, Surjection
<1>5. IsFiniteSet(B) /\ Cardinality(B) = Cardinality(A)
  BY <1>3, <1>4, FS_Bijection, FS_SameCardinalityBij DEF ExistsBijection
<1>6. Cardinality(A \cup B) = Cardinality(A) + Cardinality(B) - Cardinality(A \cap B)
  BY <1>3, <1>5, FS_Union
<1>7. Cardinality(A \cap B) = 0
  BY <1>2, FS_EmptySet
<1> HIDE DEF A, B
<1>8. Cardinality(A \cup B) = 2 * Cardinality(A)
  BY <1>3, <1>5, <1>6, <1>7
<1> QED
  BY <1>1, <1>8 DEF A

\* There are 2 ^ n subsets of the numbers up to n.
LEMMA Subsets ==
    ASSUME NEW n \in Nat
    PROVE  /\ IsFiniteSet(1 .. n) /\ Cardinality(1 .. n) = n
           /\ Cardinality(SUBSET (1 .. n)) = 2 ^ n
<1>1. IsFiniteSet(1 .. n) /\ Cardinality(1 .. n) = n
  BY FS_Interval
<1> QED
  BY <1>1, FS_SUBSET

\* So the next power is twice the one before it,
LEMMA Doubles ==
    ASSUME NEW n \in Nat
    PROVE  2 ^ (n + 1) = 2 * 2 ^ n
<1>1. 1 .. (n + 1) = (1 .. n) \cup {n + 1} /\ n + 1 \notin 1 .. n /\ n + 1 \in Nat
  OBVIOUS
<1>2. Cardinality(SUBSET (1 .. (n + 1))) = 2 ^ (n + 1)
  BY <1>1, Subsets
<1>3. Cardinality(SUBSET ((1 .. n) \cup {n + 1})) = 2 * Cardinality(SUBSET (1 .. n))
  BY <1>1, Subsets, MoreSubsets
<1>4. Cardinality(SUBSET (1 .. n)) = 2 ^ n
  BY Subsets
<1> QED
  BY <1>1, <1>2, <1>3, <1>4

\* The first two.
LEMMA Small == 2 ^ 0 = 1 /\ 2 ^ 1 = 2
OBVIOUS

\* every power is positive,
LEMMA Positive ==
    ASSUME NEW n \in Nat
    PROVE  2 ^ n \in Nat /\ 2 ^ n > 0
<1>1. IsFiniteSet(SUBSET (1 .. n)) /\ SUBSET (1 .. n) # {}
  BY Subsets, FS_SUBSET
<1> QED
  BY <1>1, Subsets, FS_CardinalityType, FS_EmptySet

\* and a larger exponent gives one at least twice as large.
LEMMA Grows ==
    ASSUME NEW m \in Nat, NEW n \in Nat, m < n
    PROVE  2 * 2 ^ m <= 2 ^ n /\ 2 ^ m < 2 ^ n
<1>1. SUBSET (1 .. (m + 1)) \in SUBSET (SUBSET (1 .. n)) /\ m + 1 \in Nat
  OBVIOUS
<1>2. IsFiniteSet(SUBSET (1 .. n))
  BY Subsets, FS_SUBSET
<1>3. 2 ^ (m + 1) <= 2 ^ n
  <2>1. Cardinality(SUBSET (1 .. (m + 1))) = 2 ^ (m + 1)
    BY <1>1, Subsets
  <2>2. Cardinality(SUBSET (1 .. n)) = 2 ^ n
    BY Subsets
  <2>3. Cardinality(SUBSET (1 .. (m + 1))) <= Cardinality(SUBSET (1 .. n))
    BY <1>1, <1>2, FS_Subset
  <2> QED
    BY <2>1, <2>2, <2>3
<1> QED
  BY <1>3, Doubles, Positive, <1>1

\* Powers are ordered as their exponents are.
LEMMA NotBelow ==
    ASSUME NEW m \in Nat, NEW n \in Nat, m <= n
    PROVE  2 ^ m <= 2 ^ n
BY Grows, Positive

\* Every positive number lies between two powers that follow each other.
LEMMA Between ==
    ASSUME NEW w \in Nat, NEW v \in Nat, 0 < v, v < 2 ^ w
    PROVE  \E k \in 0 .. w - 1 : 2 ^ k <= v /\ v < 2 ^ (k + 1)
<1> DEFINE T == {n \in Nat : v < 2 ^ n}
<1>1. PICK n \in T : \A y \in T : n <= y
  <2>1. w \in T
    OBVIOUS
  <2> HIDE DEF T
  <2> QED
    BY <2>1, Least DEF T
<1>2. n # 0
  <2>1. 2 ^ 0 = 1
    OBVIOUS
  <2>2. v < 2 ^ n
    BY <1>1
  <2>3. n = 0 => v < 2 ^ 0
    BY <2>2, Zenon
  <2>4. v >= 1
    OBVIOUS
  <2> QED
    BY <2>1, <2>3, <2>4
<1>3. n <= w
  BY <1>1
<1>4. n - 1 \in Nat /\ n - 1 \notin T /\ (n - 1) + 1 = n
  BY <1>1, <1>2
<1> QED
  BY <1>1, <1>3, <1>4, Positive
=============================================================================
