----------------------------- MODULE DataFacts -----------------------------
(***************************************************************************)
(* Facts about the data that the modules share: what publishing on a queue *)
(* (or appending to a history) and taking its head do to it, and induction *)
(* over the natural numbers.                                               *)
(***************************************************************************)
EXTENDS Integers, Sequences, SequenceTheorems, FiniteSetTheorems, TLAPS

LEMMA AppendFacts ==
  ASSUME NEW S, NEW q \in Seq(S), NEW x \in S
  PROVE  /\ Append(q, x) \in Seq(S)
         /\ Append(q, x) # <<>>
         /\ Len(q) \in Nat
         /\ Len(Append(q, x)) = Len(q) + 1
         /\ DOMAIN q = 1..Len(q)
         /\ DOMAIN Append(q, x) = 1..Len(q) + 1
         /\ Append(q, x)[Len(q) + 1] = x
         /\ \A i \in 1..Len(q) : Append(q, x)[i] = q[i]
<1>1. Len(q) \in Nat /\ DOMAIN q = 1..Len(q)
  BY LenProperties
<1>2. Append(q, x) \in Seq(S) /\ Append(q, x) # <<>> /\ Len(Append(q, x)) = Len(q) + 1
      /\ (\A i \in 1..Len(q) : Append(q, x)[i] = q[i]) /\ Append(q, x)[Len(q) + 1] = x
  BY AppendProperties
<1>3. DOMAIN Append(q, x) = 1..Len(q) + 1
  BY <1>2, LenProperties
<1> QED
  BY <1>1, <1>2, <1>3

LEMMA AppendRange ==
  ASSUME NEW S, NEW q \in Seq(S), NEW x \in S
  PROVE  Range(Append(q, x)) = Range(q) \union {x}
<1> USE AppendFacts
<1>1. Range(Append(q, x)) \subseteq Range(q) \union {x}
  <2> SUFFICES ASSUME NEW i \in 1..Len(q) + 1 PROVE Append(q, x)[i] \in Range(q) \union {x}
    BY DEF Range
  <2>1. CASE i \in 1..Len(q)
    BY <2>1 DEF Range
  <2>2. CASE i = Len(q) + 1
    BY <2>2
  <2> QED
    BY <2>1, <2>2
<1>2. Range(q) \subseteq Range(Append(q, x))
  <2> SUFFICES ASSUME NEW i \in 1..Len(q) PROVE q[i] \in Range(Append(q, x))
    BY DEF Range
  <2>1. i \in 1..Len(q) + 1 /\ Append(q, x)[i] = q[i]
    OBVIOUS
  <2> QED
    BY <2>1 DEF Range
<1>3. x \in Range(Append(q, x))
  <2>1. Len(q) + 1 \in 1..Len(q) + 1 /\ Append(q, x)[Len(q) + 1] = x
    OBVIOUS
  <2> QED
    BY <2>1 DEF Range
<1> QED
  BY <1>1, <1>2, <1>3

\* A queue that is not empty keeps its head when something is published on it.
LEMMA AppendHead ==
  ASSUME NEW S, NEW q \in Seq(S), NEW x \in S, q # <<>>
  PROVE  Head(Append(q, x)) = Head(q)
<1>1. Len(q) \in Nat /\ Len(q) # 0
  BY EmptySeq
<1>2. Append(q, x)[1] = q[1]
  BY <1>1, AppendFacts
<1> QED
  BY <1>1, <1>2, AppendFacts

LEMMA TailFacts ==
  ASSUME NEW S, NEW q \in Seq(S), q # <<>>
  PROVE  /\ Head(q) \in S
         /\ Head(q) = q[1]
         /\ Tail(q) \in Seq(S)
         /\ Len(q) \in Nat \ {0}
         /\ Len(Tail(q)) = Len(q) - 1
         /\ DOMAIN q = 1..Len(q)
         /\ DOMAIN Tail(q) = 1..Len(q) - 1
         /\ \A i \in 1..Len(q) - 1 : Tail(q)[i] = q[i + 1]
<1>1. Len(q) \in Nat \ {0} /\ DOMAIN q = 1..Len(q)
  BY EmptySeq, LenProperties
<1>2. Head(q) \in S /\ Tail(q) \in Seq(S) /\ Len(Tail(q)) = Len(q) - 1
      /\ \A i \in 1..Len(Tail(q)) : Tail(q)[i] = q[i + 1]
  BY HeadTailProperties
<1>3. DOMAIN Tail(q) = 1..Len(q) - 1
  BY <1>2, LenProperties
<1> QED
  BY <1>1, <1>2, <1>3

LEMMA TailRange ==
  ASSUME NEW S, NEW q \in Seq(S), q # <<>>
  PROVE  Range(q) = {Head(q)} \union Range(Tail(q))
<1> USE TailFacts
<1>1. Range(q) \subseteq {Head(q)} \union Range(Tail(q))
  <2> SUFFICES ASSUME NEW i \in 1..Len(q) PROVE q[i] \in {Head(q)} \union Range(Tail(q))
    BY DEF Range
  <2>1. CASE i = 1
    BY <2>1
  <2>2. CASE i # 1
    <3>1. i - 1 \in 1..Len(q) - 1 /\ Tail(q)[i - 1] = q[i]
      BY <2>2
    <3> QED
      BY <3>1 DEF Range
  <2> QED
    BY <2>1, <2>2
<1>2. Range(Tail(q)) \subseteq Range(q)
  <2> SUFFICES ASSUME NEW i \in 1..Len(q) - 1 PROVE Tail(q)[i] \in Range(q)
    BY DEF Range
  <2>1. i + 1 \in 1..Len(q) /\ Tail(q)[i] = q[i + 1]
    OBVIOUS
  <2> QED
    BY <2>1 DEF Range
<1>3. Head(q) \in Range(q)
  <2>1. 1 \in 1..Len(q)
    OBVIOUS
  <2> QED
    BY <2>1 DEF Range
<1> QED
  BY <1>1, <1>2, <1>3
-----------------------------------------------------------------------------
\* A set of natural numbers has a least element.
LEMMA LeastNatural ==
  ASSUME NEW S \in SUBSET Nat, S # {}
  PROVE  \E n \in S : \A m \in S : n <= m
<1>1. PICK b \in S : TRUE
  OBVIOUS
<1> DEFINE R == StrictSubsetOrdering(0..b)
           Below == {n \in S : n <= b}
           T == {0..n : n \in Below}
<1>2. IsWellFoundedOn(R, FiniteSubsetsOf(0..b))
  BY FS_StrictSubsetOrderingWellFounded
<1>3. T \subseteq FiniteSubsetsOf(0..b)
  <2>1. SUFFICES ASSUME NEW n \in Below PROVE 0..n \in FiniteSubsetsOf(0..b)
    OBVIOUS
  <2>2. n \in Nat /\ b \in Nat /\ n <= b
    OBVIOUS
  <2>3. IsFiniteSet(0..n)
    BY <2>2, FS_Interval
  <2>4. 0..n \subseteq 0..b
    BY <2>2
  <2> QED
    BY <2>3, <2>4 DEF FiniteSubsetsOf
<1>4. T # {}
  <2>1. b \in Below
    OBVIOUS
  <2> QED
    BY <2>1
<1>5. \A m, n \in Below : m < n => <<0..m, 0..n>> \in R
  <2>1. SUFFICES ASSUME NEW m \in Below, NEW n \in Below, m < n
                 PROVE  <<0..m, 0..n>> \in R
    OBVIOUS
  <2>2. m \in Nat /\ n \in Nat /\ b \in Nat /\ m <= b /\ n <= b
    OBVIOUS
  <2>3. 0..m \subseteq 0..n /\ n \in 0..n /\ n \notin 0..m /\ 0..m \subseteq 0..b /\ 0..n \subseteq 0..b
    BY <2>1, <2>2
  <2> QED
    BY <2>3 DEF StrictSubsetOrdering
<1> HIDE DEF R
<1>6. PICK x \in T : \A y \in T : ~ (<<y, x>> \in R)
  <2> HIDE DEF T
  <2> QED BY <1>2, <1>3, <1>4, WFMin
<1>7. PICK n \in Below : x = 0..n
  OBVIOUS
<1>8. \A m \in Below : n <= m
  <2> SUFFICES ASSUME NEW m \in Below, m < n PROVE FALSE
    OBVIOUS
  <2>1. 0..m \in T
    OBVIOUS
  <2> QED
    BY <1>5, <1>6, <1>7, <2>1
<1> QED
  BY <1>7, <1>8

\* Induction over the natural numbers, for a set instead of a predicate.
LEMMA SetInduction ==
  ASSUME NEW S \in SUBSET Nat, 0 \in S, \A n \in S : n + 1 \in S
  PROVE  S = Nat
<1> SUFFICES ASSUME Nat \ S # {} PROVE FALSE
  OBVIOUS
<1>1. PICK n \in Nat \ S : \A m \in Nat \ S : n <= m
  BY LeastNatural
<1>2. n # 0 /\ n - 1 \in Nat
  BY <1>1
<1>3. n - 1 \in S
  BY <1>1, <1>2
<1> QED
  BY <1>1, <1>2, <1>3


\* The elements of a finite set of natural numbers can be counted in their order:
\* each of the first ones is the one that so many are below.
LEMMA Enumeration ==
  ASSUME NEW n \in Nat, NEW S \in SUBSET (1..n), NEW i \in Nat, i < Cardinality(S)
  PROVE  \E x \in S : Cardinality({y \in S : y < x}) = i
<1> DEFINE Below(k) == {y \in S : y < k}
           T == {k \in Nat : Cardinality(Below(k)) > i}
<1>1. \A k \in Nat : IsFiniteSet(Below(k)) /\ Cardinality(Below(k)) \in Nat
  <2> SUFFICES ASSUME NEW k \in Nat PROVE IsFiniteSet(Below(k)) /\ Cardinality(Below(k)) \in Nat
    OBVIOUS
  <2>1. IsFiniteSet(1..n)
    BY FS_Interval
  <2>2. Below(k) \in SUBSET (1..n)
    OBVIOUS
  <2> HIDE DEF Below
  <2> QED
    BY <2>1, <2>2, FS_Subset, FS_CardinalityType
<1>2. Below(n + 1) = S
  <2>1. \A y \in S : y < n + 1
    OBVIOUS
  <2> QED
    BY <2>1
<1>3. T \in SUBSET Nat /\ n + 1 \in T
  BY <1>2
<1> HIDE DEF T
<1>4. PICK k \in T : \A m \in T : k <= m
  BY <1>3, LeastNatural
<1>5. k \in Nat /\ Cardinality(Below(k)) > i
  BY <1>4 DEF T
<1>6. k # 0
  <2>1. \A y \in S : ~(y < 0)
    OBVIOUS
  <2>2. Below(0) = {}
    BY <2>1
  <2> HIDE DEF Below
  <2> QED
    BY <1>5, <2>2, FS_EmptySet
<1> DEFINE x == k - 1
<1>7. x \in Nat /\ x + 1 = k
  BY <1>5, <1>6
<1>8. Cardinality(Below(x)) <= i
  <2>1. x \notin T
    BY <1>4, <1>7
  <2> QED
    BY <1>1, <1>7, <2>1 DEF T
<1> HIDE DEF x
<1>9. \A y \in S : y < k <=> y < x \/ y = x
  BY <1>7
<1>10. x \in S
  <2> SUFFICES ASSUME x \notin S PROVE FALSE
    OBVIOUS
  <2>1. Below(k) = Below(x)
    BY <1>9
  <2> HIDE DEF Below
  <2> QED
    BY <1>1, <1>5, <1>7, <1>8, <2>1
<1>11. Cardinality(Below(k)) <= Cardinality(Below(x)) + 1
  <2>1. Below(k) = Below(x) \union {x}
    <3>1. \A y : y \in Below(k) <=> y \in Below(x) \/ y = x
      BY <1>9, <1>10
    <3> HIDE DEF Below
    <3> QED
      BY <3>1
  <2> HIDE DEF Below
  <2> QED
    <3>1. IsFiniteSet(Below(x)) /\ Cardinality(Below(x)) \in Nat
      BY <1>1, <1>7
    <3>2. Cardinality(Below(x) \union {x}) \in {Cardinality(Below(x)), Cardinality(Below(x)) + 1}
      BY <3>1, FS_AddElement
    <3> QED
      BY <2>1, <3>1, <3>2
<1>12. Cardinality(Below(x)) = i
  <2> HIDE DEF Below
  <2> QED
    BY <1>1, <1>5, <1>7, <1>8, <1>11
<1> QED
  BY <1>10, <1>12
=============================================================================
