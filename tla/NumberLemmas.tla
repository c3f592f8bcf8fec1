---------------------------- MODULE NumberLemmas ----------------------------
(***************************************************************************)
(* Numbers: a set of them has a least one and, if bounded, a greatest;     *)
(* what holds at 0 and is passed on holds up to n; and the ranks of a      *)
(* finite set's numbers.                                                   *)
(***************************************************************************)
EXTENDS Naturals, FiniteSets, FiniteSetTheorems, WellFoundedInduction, TLAPS

LEMMA LeastExists ==
    ASSUME NEW S \in SUBSET Nat, S # {}
    PROVE  \E i \in S : \A j \in S : i <= j
<1> DEFINE less == OpToRel(<, Nat)
<1>1. less = {ss \in Nat \X Nat : ss[1] < ss[2]}
  BY DEF OpToRel
<1>2. IsWellFoundedOn(less, Nat)
  BY NatLessThanWellFounded
<1> HIDE DEF less
<1>3. PICK i \in S : \A j \in S : ~(<<j, i>> \in less)
  BY <1>2, WFMin
<1>4. \A j \in S : ~(j < i)
  BY <1>1, <1>3
<1> QED
  BY <1>4

LEMMA GreatestExists ==
    ASSUME NEW S \in SUBSET Nat, S # {}, NEW n \in Nat, \A i \in S : i <= n
    PROVE  \E m \in S : \A i \in S : i <= m
<1> DEFINE above == {k \in Nat : \A i \in S : i <= k}
<1>1. PICK k \in above : \A j \in above : k <= j
  <2>1. above \in SUBSET Nat /\ n \in above
    OBVIOUS
  <2> HIDE DEF above
  <2> QED
    BY <2>1, LeastExists
<1>2. k \in S
  <2> SUFFICES ASSUME k \notin S PROVE FALSE
    OBVIOUS
  <2>1. PICK i \in S : TRUE
    OBVIOUS
  <2>2. \A j \in S : j \in Nat /\ j <= k /\ j # k
    BY <1>1
  <2>3. k \in Nat /\ k - 1 \in Nat /\ ~(k <= k - 1)
    BY <1>1, <2>1, <2>2
  <2>4. \A j \in S : j <= k - 1
    BY <2>2, <2>3
  <2> QED
    BY <1>1, <2>3, <2>4
<1> QED
  BY <1>1, <1>2

\* A set of the numbers up to n that has 0 and, with each of them, the next.
LEMMA InductionUpTo ==
    ASSUME NEW n \in Nat, NEW S, 0 \in S, \A k \in 1 .. n : k - 1 \in S => k \in S
    PROVE  \A k \in 0 .. n : k \in S
<1> DEFINE T == {k \in 0 .. n : k \notin S}
<1>1. SUFFICES ASSUME T # {} PROVE FALSE
  OBVIOUS
<1>2. T \in SUBSET Nat
  OBVIOUS
<1>3. PICK k \in T : \A j \in T : k <= j
  BY <1>1, <1>2, LeastExists
<1>4. k \in 1 .. n /\ k - 1 \in 0 .. n /\ ~(k <= k - 1)
  BY <1>3
<1>5. k - 1 \notin T
  BY <1>3, <1>4
<1>6. k - 1 \in S
  BY <1>4, <1>5
<1> QED
  BY <1>3, <1>4, <1>6

\* Ranks: counting the numbers up to each numbers them from 1, without a gap.
LEMMA RanksRise ==
    ASSUME NEW S \in SUBSET Nat, IsFiniteSet(S)
    PROVE  /\ \A u \in S : Cardinality({v \in S : v <= u}) \in 1 .. Cardinality(S)
           /\ \A u, w \in S : u < w =>
                 Cardinality({v \in S : v <= u}) < Cardinality({v \in S : v <= w})
<1> DEFINE n == Cardinality(S)
           upto(u) == {v \in S : v <= u}
<1>1. n \in Nat
  BY FS_CardinalityType
<1>2. \A u \in S : /\ IsFiniteSet(upto(u))
                   /\ Cardinality(upto(u)) \in Nat
                   /\ Cardinality(upto(u)) <= n
  BY FS_Subset, FS_CardinalityType
<1>3. \A u \in S : Cardinality(upto(u)) # 0
  BY <1>2, FS_EmptySet
<1>4. \A u \in S : Cardinality(upto(u)) \in 1 .. n
  BY <1>1, <1>2, <1>3
<1>5. \A u, w \in S : u < w => Cardinality(upto(u)) < Cardinality(upto(w))
  <2> TAKE u, w \in S
  <2> HAVE u < w
  <2>1. upto(u) \subseteq upto(w) /\ w \in upto(w) /\ w \notin upto(u)
    <3>1. u \in Nat /\ w \in Nat /\ \A v \in S : v \in Nat
      OBVIOUS
    <3>2. \A v \in Nat : v <= u => v <= w
      BY <3>1
    <3>3. w <= w /\ ~(w <= u)
      BY <3>1
    <3> QED
      BY <3>1, <3>2, <3>3
  <2>2. /\ Cardinality(upto(u)) <= Cardinality(upto(w))
        /\ Cardinality(upto(u)) = Cardinality(upto(w)) => upto(u) = upto(w)
    <3> HIDE DEF upto
    <3> QED
      BY <1>2, <2>1, FS_Subset
  <2> QED
    BY <1>2, <2>1, <2>2
<1> QED
  BY <1>4, <1>5

LEMMA RanksOnto ==
    ASSUME NEW S \in SUBSET Nat, IsFiniteSet(S)
    PROVE  \A i \in 1 .. Cardinality(S) :
              \E u \in S : Cardinality({v \in S : v <= u}) = i
<1> DEFINE n == Cardinality(S)
           upto(u) == {v \in S : v <= u}
           rank == [u \in S |-> Cardinality(upto(u))]
<1>1. n \in Nat
  BY FS_CardinalityType
<1>2. /\ \A u \in S : Cardinality(upto(u)) \in 1 .. n
      /\ \A u, w \in S : u < w => Cardinality(upto(u)) < Cardinality(upto(w))
  BY RanksRise
<1> HIDE DEF upto
<1>3. rank \in [S -> 1 .. n]
  BY <1>2
<1>4. rank \in Injection(S, 1 .. n)
  <2>1. \A u, w \in S : rank[u] = rank[w] => u = w
    <3> TAKE u, w \in S
    <3> HAVE rank[u] = rank[w]
    <3>1. u \in Nat /\ w \in Nat
      OBVIOUS
    <3>2. Cardinality(upto(u)) = Cardinality(upto(w)) /\ Cardinality(upto(u)) \in Nat
      BY <1>1, <1>2
    <3> HIDE DEF rank
    <3>3. ~(u < w) /\ ~(w < u)
      BY <1>2, <3>2
    <3> QED
      BY <3>1, <3>3
  <2> HIDE DEF rank
  <2> QED
    BY <1>3, <2>1 DEF Injection, IsInjective
<1>5. IsFiniteSet(1 .. n) /\ Cardinality(1 .. n) = n
  BY <1>1, FS_Interval
<1>6. rank \in Surjection(S, 1 .. n)
  <2> HIDE DEF rank
  <2> QED
    BY <1>4, <1>5, FS_Injection
<1> USE DEF upto
<1> QED
  BY <1>6 DEF Surjection
=============================================================================
