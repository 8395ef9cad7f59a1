-------------------------- MODULE SelectionLemmas --------------------------
(***************************************************************************)
(* Lemmas about sets of numbers and about what is selected of a sequence.  *)
(* Induction is over sets of numbers instead of predicates.                *)
(***************************************************************************)
EXTENDS Selections, FiniteSetsExt, FiniteSetTheorems, SequenceTheorems,
        WellFoundedInduction, TLAPS

Before == {ss \in Nat \X Nat : ss[1] < ss[2]}

\* A set of numbers has a least one.
LEMMA Least ==
  ASSUME NEW K \in SUBSET Nat, K # {}
  PROVE  \E k \in K : \A l \in K : k <= l
<1>1. IsWellFoundedOn(Before, Nat)
  BY NatLessThanWellFounded, Zenon DEF OpToRel, Before
<1>2. PICK k \in K : \A l \in K : ~(<<l, k>> \in Before)
  BY <1>1, WFMin, Zenon
<1>3. ASSUME NEW l \in K PROVE k <= l
  <2>1. k \in Nat /\ l \in Nat /\ ~(<<l, k>> \in Before)
    BY <1>2
  <2>2. ~(l < k)
    BY <2>1 DEF Before
  <2> QED BY <2>1, <2>2
<1> QED BY <1>3

\* Induction, with a set in place of a predicate.
LEMMA AllNumbers ==
  ASSUME NEW T \in SUBSET Nat, 0 \in T, \A n \in T : n + 1 \in T
  PROVE  T = Nat
<1> SUFFICES ASSUME Nat \ T # {} PROVE FALSE
  OBVIOUS
<1>1. PICK k \in Nat \ T : \A l \in Nat \ T : k <= l
  BY Least
<1>2. k # 0 /\ k - 1 \in Nat
  OBVIOUS
<1>3. k - 1 \in T
  BY <1>1, <1>2
<1>4. (k - 1) + 1 \in T
  BY <1>3
<1> QED BY <1>4

\* The members of a finite set of numbers can be counted in their order.
LEMMA InOrder ==
  ASSUME NEW n \in Nat, NEW K \in SUBSET (1..n)
  PROVE  /\ Cardinality(K) \in Nat
         /\ \E f \in [1..Cardinality(K) -> K] :
              \A i, j \in 1..Cardinality(K) : i < j => f[i] < f[j]
<1> DEFINE Counted(L) ==
             /\ IsFiniteSet(L) /\ Cardinality(L) \in Nat
             /\ \E f \in [1..Cardinality(L) -> L] :
                  \A i, j \in 1..Cardinality(L) : i < j => f[i] < f[j]
           T == {m \in Nat : \A L \in SUBSET (1..m) : Counted(L)}
<1>1. 0 \in T
  <2>1. Counted({})
    <3>1. IsFiniteSet({}) /\ Cardinality({}) = 0
      BY FS_EmptySet
    <3> DEFINE f == [i \in 1..0 |-> i]
    <3>2. f \in [1..0 -> {}] /\ \A i, j \in 1..0 : i < j => f[i] < f[j]
      OBVIOUS
    <3> HIDE DEF f
    <3>3. \E g \in [1..0 -> {}] : \A i, j \in 1..0 : i < j => g[i] < g[j]
      BY <3>2
    <3>4. ASSUME NEW c, c = 0
          PROVE  \E g \in [1..c -> {}] : \A i, j \in 1..c : i < j => g[i] < g[j]
      BY <3>3, <3>4
    <3>5. Cardinality({}) = 0 /\ Cardinality({}) \in Nat
      BY <3>1
    <3> QED BY <3>1, <3>4, <3>5
  <2>2. \A L \in SUBSET (1..0) : L = {}
    OBVIOUS
  <2> HIDE DEF Counted
  <2> QED BY <2>1, <2>2
<1>2. ASSUME NEW m \in T PROVE m + 1 \in T
  <2>1. m \in Nat /\ \A L \in SUBSET (1..m) : Counted(L)
    OBVIOUS
  <2>2. ASSUME NEW L \in SUBSET (1..m + 1) PROVE Counted(L)
    <3>1. CASE m + 1 \notin L
      <4>1. L \in SUBSET (1..m)
        BY <2>1, <3>1
      <4> HIDE DEF Counted
      <4> QED BY <2>1, <4>1
    <3>2. CASE m + 1 \in L
      <4> DEFINE M == L \ {m + 1}
      <4>1. M \in SUBSET (1..m)
        BY <2>1
      <4>2. Counted(M)
        <5> HIDE DEF Counted, M
        <5> QED BY <2>1, <4>1
      <4> DEFINE c == Cardinality(M)
      <4>3. IsFiniteSet(M) /\ c \in Nat
        BY <4>2
      <4>4. L = M \cup {m + 1} /\ m + 1 \notin M
        BY <3>2
      <4>5. IsFiniteSet(L) /\ Cardinality(L) = c + 1
        <5> HIDE DEF M
        <5> QED BY <4>3, <4>4, FS_AddElement DEF c
      <4>6. PICK f \in [1..c -> M] : \A i, j \in 1..c : i < j => f[i] < f[j]
        BY <4>2
      <4> DEFINE g == [i \in 1..c + 1 |-> IF i <= c THEN f[i] ELSE m + 1]
      <4>7. \A i \in 1..c : f[i] \in 1..m
        BY <4>1, <4>6
      <4> HIDE DEF M, c
      <4>8. g \in [1..c + 1 -> L]
        BY <4>3, <4>4, <4>6
      <4>9. ASSUME NEW i \in 1..c + 1, NEW j \in 1..c + 1, i < j PROVE g[i] < g[j]
        <5>1. i \in 1..c /\ g[i] = f[i]
          BY <4>3, <4>9
        <5>2. CASE j <= c
          BY <4>3, <4>6, <4>9, <5>1, <5>2
        <5>3. CASE ~(j <= c)
          <6>1. g[j] = m + 1 /\ f[i] \in 1..m
            BY <4>7, <5>1, <5>3
          <6> QED BY <2>1, <5>1, <6>1
        <5> QED BY <5>2, <5>3
      <4> HIDE DEF g
      <4> QED BY <4>3, <4>5, <4>8, <4>9
    <3> QED BY <3>1, <3>2
  <2> HIDE DEF Counted
  <2> QED BY <2>1, <2>2
<1>3. n \in T
  <2> HIDE DEF T
  <2>1. T \in SUBSET Nat
    BY DEF T
  <2> QED BY <1>1, <1>2, <2>1, AllNumbers
<1>4. Counted(K)
  BY <1>3
<1> QED BY <1>4

LEMMA AscendingOrder ==
  ASSUME NEW n \in Nat, NEW K \in SUBSET (1..n)
  PROVE  /\ Cardinality(K) \in Nat
         /\ Ascending(K) \in [1..Cardinality(K) -> K]
         /\ \A i, j \in 1..Cardinality(K) : i < j => Ascending(K)[i] < Ascending(K)[j]
         /\ \A k \in K : \E i \in 1..Cardinality(K) : Ascending(K)[i] = k
<1> DEFINE c == Cardinality(K)
           P(f) == \A i, j \in 1..c : i < j => f[i] < f[j]
           f == Ascending(K)
<1>1. c \in Nat /\ \E g \in [1..c -> K] : P(g)
  BY InOrder
<1>2. \E g \in [1..c -> K] : \A i, j \in DOMAIN g : i < j => g[i] < g[j]
  <2> HIDE DEF c
  <2> QED BY <1>1
<1>3. f \in [1..c -> K] /\ \A i, j \in DOMAIN f : i < j => f[i] < f[j]
  BY <1>2, Zenon DEF Ascending
<1>4. P(f)
  <2> HIDE DEF c, f
  <2> QED BY <1>3
<1>5. f \in Surjection(1..c, K)
  <2>1. IsFiniteSet(1..c) /\ Cardinality(1..c) = c
    <3> HIDE DEF c
    <3>1. Cardinality(1..c) = IF 1 <= c THEN c - 1 + 1 ELSE 0
      BY <1>1, FS_Interval
    <3> QED BY <1>1, <3>1, FS_Interval
  <2>2. IsFiniteSet(K)
    <3>1. IsFiniteSet(1..n)
      BY FS_Interval
    <3> QED BY <3>1, FS_Subset
  <2>3. f \in Injection(1..c, K)
    <3> HIDE DEF f, c
    <3>1. ASSUME NEW i \in 1..c, NEW j \in 1..c, f[i] = f[j] PROVE i = j
      <4>1. f[i] \in 1..n /\ f[j] \in 1..n
        BY <1>3
      <4> QED BY <1>1, <1>4, <3>1, <4>1
    <3> QED BY <1>3, <3>1 DEF Injection, IsInjective
  <2> HIDE DEF f
  <2> QED BY <2>1, <2>2, <2>3, FS_Injection
<1>6. \A k \in K : \E i \in 1..c : f[i] = k
  <2> HIDE DEF c, f
  <2> QED BY <1>5 DEF Surjection
<1> QED BY <1>1, <1>3, <1>4, <1>6

\* The numbers from a to b, in their order.
LEMMA AscendingRange ==
  ASSUME NEW a \in Nat, NEW b \in Nat, 1 <= a, a <= b + 1
  PROVE  /\ Cardinality(a..b) = b + 1 - a
         /\ \A i \in 1..b + 1 - a : Ascending(a..b)[i] = a + i - 1
<1> DEFINE c == Cardinality(a..b)
           f == Ascending(a..b)
<1>1. c = b + 1 - a
  <2>1. c = IF a <= b THEN b - a + 1 ELSE 0
    BY FS_Interval
  <2> HIDE DEF c
  <2> QED BY <2>1
<1>2. /\ f \in [1..c -> a..b]
      /\ \A i, j \in 1..c : i < j => f[i] < f[j]
  <2>1. (a..b) \in SUBSET (1..b)
    OBVIOUS
  <2> QED BY <2>1, AscendingOrder
<1> HIDE DEF c, f
<1>3. \A i \in 1..c : f[i] >= a + i - 1
  <2> DEFINE K == {i \in 1..c : f[i] < a + i - 1}
  <2> SUFFICES ASSUME K # {} PROVE FALSE
    BY <1>1, <1>2
  <2>1. PICK k \in K : \A l \in K : k <= l
    <3>1. K \in SUBSET Nat
      BY <1>1
    <3> HIDE DEF K
    <3> QED BY <3>1, Least
  <2>2. k \in 1..c /\ f[k] \in a..b /\ f[k] < a + k - 1
    BY <1>2
  <2>3. k # 1 /\ k - 1 \in 1..c /\ k - 1 \notin K /\ k - 1 < k
    BY <1>1, <2>1, <2>2
  <2>4. f[k - 1] \in a..b /\ f[k - 1] >= a + (k - 1) - 1 /\ f[k - 1] < f[k]
    BY <1>1, <1>2, <2>2, <2>3
  <2> QED BY <1>1, <2>2, <2>4
<1>4. \A i \in 1..c : f[i] <= a + i - 1
  <2> DEFINE K == {i \in 0..c - 1 : f[c - i] > b - i}
  <2> SUFFICES ASSUME K # {} PROVE FALSE
    <3>1. K = {}
      OBVIOUS
    <3>2. ASSUME NEW i \in 1..c PROVE f[i] <= a + i - 1
      <4>1. c - i \in 0..c - 1 /\ c - (c - i) = i /\ b - (c - i) = a + i - 1
        BY <1>1
      <4>2. ~(f[c - (c - i)] > b - (c - i)) /\ f[i] \in a..b
        BY <1>2, <3>1, <4>1
      <4> QED BY <1>1, <4>1, <4>2
    <3> QED BY <3>2
  <2>1. PICK k \in K : \A l \in K : k <= l
    <3>1. K \in SUBSET Nat
      BY <1>1
    <3> HIDE DEF K
    <3> QED BY <3>1, Least
  <2>2. k \in 0..c - 1 /\ c - k \in 1..c /\ f[c - k] \in a..b /\ f[c - k] > b - k
    <3>1. k \in 0..c - 1 /\ f[c - k] > b - k
      OBVIOUS
    <3>2. c - k \in 1..c
      BY <1>1, <3>1
    <3> QED BY <1>2, <3>1, <3>2
  <2>3. k # 0 /\ k - 1 \in 0..c - 1 /\ c - (k - 1) \in 1..c /\ c - k < c - (k - 1)
    BY <1>1, <2>2
  <2>4. k - 1 \notin K
    BY <1>1, <2>1, <2>2, <2>3
  <2>5. f[c - (k - 1)] \in a..b /\ f[c - (k - 1)] <= b - (k - 1) /\ f[c - k] < f[c - (k - 1)]
    BY <1>1, <1>2, <2>2, <2>3, <2>4
  <2> QED BY <1>1, <2>2, <2>5
<1>5. \A i \in 1..c : f[i] = a + i - 1
  <2>1. ASSUME NEW i \in 1..c PROVE f[i] = a + i - 1
    <3>1. f[i] \in a..b /\ f[i] >= a + i - 1 /\ f[i] <= a + i - 1
      BY <1>2, <1>3, <1>4
    <3> QED BY <1>1, <3>1
  <2> QED BY <2>1
<1> QED BY <1>1, <1>5 DEF c, f

\* What is selected of a sequence is a sequence, of the elements at these places.
LEMMA SelectedIsSeq ==
  ASSUME NEW S, NEW s \in Seq(S), NEW K \in SUBSET (DOMAIN s)
  PROVE  /\ Selected(s, K) \in Seq(S)
         /\ Len(Selected(s, K)) = Cardinality(K)
         /\ \A i \in 1..Len(Selected(s, K)) : \E k \in K : Selected(s, K)[i] = s[k]
         /\ \A k \in K : \E i \in 1..Len(Selected(s, K)) : Selected(s, K)[i] = s[k]
<1> DEFINE c == Cardinality(K)
           f == Ascending(K)
<1>1. Len(s) \in Nat /\ DOMAIN s = 1..Len(s)
  OBVIOUS
<1>2. c \in Nat /\ f \in [1..c -> K] /\ \A k \in K : \E i \in 1..c : f[i] = k
  BY <1>1, AscendingOrder
<1>3. Selected(s, K) = [i \in 1..c |-> s[f[i]]]
  BY DEF Selected
<1> HIDE DEF f, c
<1>4. \A i \in 1..c : s[f[i]] \in S
  BY <1>1, <1>2, ElementOfSeq
<1>5. Selected(s, K) \in Seq(S) /\ Len(Selected(s, K)) = c
  BY <1>2, <1>3, <1>4
<1>6. \A i \in 1..c : Selected(s, K)[i] = s[f[i]] /\ f[i] \in K
  BY <1>2, <1>3
<1>7. \A k \in K : \E i \in 1..c : Selected(s, K)[i] = s[k]
  BY <1>2, <1>6
<1> QED BY <1>5, <1>6, <1>7 DEF c

\* A finite set of numbers has a greatest one.
LEMMA Greatest ==
  ASSUME NEW S \in SUBSET Nat, IsFiniteSet(S), S # {}
  PROVE  Max(S) \in S /\ \A y \in S : y <= Max(S)
<1> DEFINE Bounded(U) == \E b \in Nat : \A y \in U : y <= b
           T == {n \in Nat : \A U \in SUBSET Nat : IsFiniteSet(U) /\ Cardinality(U) = n => Bounded(U)}
<1>1. 0 \in T
  <2>1. ASSUME NEW U \in SUBSET Nat, IsFiniteSet(U), Cardinality(U) = 0 PROVE Bounded(U)
    <3>1. U = {}
      BY <2>1, FS_EmptySet
    <3> QED BY <3>1
  <2> QED BY <2>1
<1>2. ASSUME NEW n \in T PROVE n + 1 \in T
  <2>1. ASSUME NEW U \in SUBSET Nat, IsFiniteSet(U), Cardinality(U) = n + 1 PROVE Bounded(U)
    <3> HIDE DEF Bounded
    <3>0. n \in Nat /\ U # {}
      <4>1. n \in Nat
        OBVIOUS
      <4> HIDE DEF T
      <4> QED BY <2>1, <4>1, FS_EmptySet
    <3> USE DEF Bounded
    <3>1. PICK x \in U : TRUE
      BY <3>0
    <3>2. IsFiniteSet(U \ {x}) /\ Cardinality(U \ {x}) = n
      BY <2>1, FS_RemoveElement
    <3>3. PICK b \in Nat : \A y \in U \ {x} : y <= b
      BY <3>2
    <3>4. ASSUME NEW y \in U PROVE y <= b + x
      <4>1. y \in Nat /\ x \in Nat /\ (y = x \/ y <= b)
        BY <3>3
      <4> QED BY <4>1
    <3>5. b + x \in Nat
      OBVIOUS
    <3> QED BY <3>4, <3>5
  <2> HIDE DEF Bounded
  <2> QED BY <2>1
<1>3. Cardinality(S) \in Nat
  BY FS_CardinalityType
<1>4. Bounded(S)
  <2> HIDE DEF Bounded
  <2>1. T = Nat
    <3> HIDE DEF T
    <3>1. T \in SUBSET Nat
      BY DEF T
    <3> QED BY <1>1, <1>2, <3>1, AllNumbers
  <2> QED BY <1>3, <2>1
<1> DEFINE B == {b \in Nat : \A y \in S : y <= b}
<1>5. PICK m \in B : \A b \in B : m <= b
  BY <1>4, Least
<1>6. m \in S
  <2> SUFFICES ASSUME m \notin S PROVE FALSE
    OBVIOUS
  <2>1. ASSUME NEW y \in S PROVE y < m
    <3>1. y \in Nat /\ m \in Nat /\ y <= m /\ y # m
      BY <1>5
    <3> QED BY <3>1
  <2>2. m - 1 \in Nat /\ \A y \in S : y <= m - 1
    <3>1. PICK x \in S : TRUE
      OBVIOUS
    <3>2. x \in Nat /\ x < m /\ m \in Nat
      BY <1>5, <2>1
    <3>3. ASSUME NEW y \in S PROVE y <= m - 1
      <4>1. y \in Nat /\ y < m
        BY <2>1
      <4> QED BY <3>2, <4>1
    <3> QED BY <3>2, <3>3
  <2>3. m <= m - 1
    BY <1>5, <2>2
  <2> QED BY <1>5, <2>3
<1>7. \E x \in S : \A y \in S : x >= y
  BY <1>5, <1>6
<1>8. Max(S) \in S /\ \A y \in S : Max(S) >= y
  BY <1>7, Zenon DEF Max
<1> QED BY <1>8
=============================================================================
