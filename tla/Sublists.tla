------------------------------- MODULE Sublists ------------------------------
(****************************************************************************)
(* What is left of a sequence when some of its positions are kept, in their *)
(* order: the filters of the code (Array.filter, Map.delete, new Set over   *)
(* an array). A position is placed by its rank among those kept, so that    *)
(* the facts below need no recursion over the sequence.                     *)
(****************************************************************************)
EXTENDS Integers, Sequences, FiniteSetTheorems, SequencesExt, TLAPS

(* How many elements of S are not greater than n, and the elements of S in  *)
(* increasing order.                                                        *)
Rank(S, n) == Cardinality({m \in S : m <= n})
InOrder(S) == [k \in 1..Cardinality(S) |-> CHOOSE n \in S : Rank(S, n) = k]

(* The elements of s at the positions in S.                                 *)
Keep(s, S) == [k \in 1..Cardinality(S) |-> s[InOrder(S)[k]]]

(* [...new Set(s)]: the first occurrence of each value.                     *)
FirstPositions(s) == {n \in DOMAIN s : \A m \in DOMAIN s : s[m] = s[n] => n <= m}
Distinct(s) == Keep(s, FirstPositions(s))

(* The rank of an element grows with it.                                    *)
LEMMA RankGrows ==
    ASSUME NEW S \in SUBSET Nat, IsFiniteSet(S), NEW n \in S, NEW m \in S
    PROVE  /\ Rank(S, n) \in 1..Cardinality(S)
           /\ n < m => Rank(S, n) < Rank(S, m)
<1> DEFINE below(i) == {j \in S : j <= i}
<1>1. ASSUME NEW i PROVE /\ IsFiniteSet(below(i)) /\ Cardinality(below(i)) \in Nat
                         /\ Cardinality(below(i)) <= Cardinality(S)
  <2>1. below(i) \in SUBSET S
      OBVIOUS
  <2> HIDE DEF below
  <2> QED BY <2>1, FS_Subset, FS_CardinalityType
<1>2. Cardinality(below(n)) # 0
    <2>1. n \in below(n)
        OBVIOUS
    <2> HIDE DEF below
    <2> QED BY <1>1, <2>1, FS_EmptySet
<1>3. ASSUME n < m PROVE Cardinality(below(n)) < Cardinality(below(m))
    <2>0. \A i \in S : i \in Nat
        OBVIOUS
    <2>1. \A j \in below(n) : j \in below(m)
        BY <1>3, <2>0
    <2>2. m \in below(m) /\ m \notin below(n)
        BY <1>3, <2>0
    <2> HIDE DEF below
    <2>3. below(n) \in SUBSET below(m)
        BY <2>1
    <2>4. /\ Cardinality(below(n)) <= Cardinality(below(m))
          /\ Cardinality(below(m)) = Cardinality(below(n)) => below(m) = below(n)
        BY <1>1, <2>3, FS_Subset
    <2> QED BY <1>1, <2>2, <2>4
<1>4. Cardinality(S) \in Nat
    BY FS_CardinalityType
<1>5. Rank(S, n) = Cardinality(below(n)) /\ Rank(S, m) = Cardinality(below(m))
    BY DEF Rank
<1> HIDE DEF below
<1> QED BY <1>1, <1>2, <1>3, <1>4, <1>5

(* Each rank is that of an element: InOrder lists them all, in order.       *)
LEMMA InOrderLists ==
    ASSUME NEW S \in SUBSET Nat, IsFiniteSet(S)
    PROVE  /\ Cardinality(S) \in Nat
           /\ \A k \in 1..Cardinality(S) : InOrder(S)[k] \in S /\ Rank(S, InOrder(S)[k]) = k
           /\ \A n \in S : Rank(S, n) \in 1..Cardinality(S) /\ InOrder(S)[Rank(S, n)] = n
           /\ \A k, l \in 1..Cardinality(S) : k < l => InOrder(S)[k] < InOrder(S)[l]
<1> DEFINE size == Cardinality(S)
           rank == [n \in S |-> Rank(S, n)]
<1>1. size \in Nat
    BY FS_CardinalityType
<1>2. rank \in [S -> 1..size]
    BY RankGrows
<1>3. \A n, m \in S : rank[n] = rank[m] => n = m
    <2> SUFFICES ASSUME NEW n \in S, NEW m \in S, Rank(S, n) = Rank(S, m), n < m PROVE FALSE
        OBVIOUS
    <2>1. Rank(S, n) < Rank(S, m) /\ Rank(S, n) \in Nat /\ Rank(S, m) \in Nat
        BY RankGrows, <1>1
    <2> QED BY <2>1
<1>4. rank \in Injection(S, 1..size)
    BY <1>2, <1>3 DEF Injection, IsInjective
<1>5. IsFiniteSet(1..size) /\ Cardinality(1..size) = size
    BY <1>1, FS_Interval
<1>6. rank \in Surjection(S, 1..size)
    BY <1>4, <1>5, FS_Injection
<1>7. \A k \in 1..size : \E n \in S : Rank(S, n) = k
    BY <1>6 DEF Surjection
<1>8. \A k \in 1..size : InOrder(S)[k] \in S /\ Rank(S, InOrder(S)[k]) = k
    BY <1>7 DEF InOrder
<1>9. \A n \in S : Rank(S, n) \in 1..size /\ InOrder(S)[Rank(S, n)] = n
    BY <1>2, <1>3, <1>8
<1>10. ASSUME NEW k \in 1..size, NEW l \in 1..size, k < l
       PROVE  InOrder(S)[k] < InOrder(S)[l]
    <2>1. InOrder(S)[k] \in S /\ InOrder(S)[l] \in S
          /\ Rank(S, InOrder(S)[k]) = k /\ Rank(S, InOrder(S)[l]) = l
        BY <1>8
    <2> DEFINE i == InOrder(S)[k]
               j == InOrder(S)[l]
    <2>2. i \in Nat /\ j \in Nat
        BY <2>1
    <2>3. j < i => Rank(S, j) < Rank(S, i)
        BY <2>1, RankGrows
    <2> QED BY <2>1, <2>2, <2>3, <1>10
<1> QED BY <1>1, <1>8, <1>9, <1>10

(* The smallest of some positions.                                          *)
LEMMA Smallest ==
    ASSUME NEW S \in SUBSET Nat, IsFiniteSet(S), S # {}
    PROVE  \E n \in S : \A m \in S : n <= m
<1>1. Cardinality(S) \in Nat \ {0}
    BY FS_CardinalityType, FS_EmptySet
<1> DEFINE n == InOrder(S)[1]
<1>2. n \in S /\ Rank(S, n) = 1
    BY <1>1, InOrderLists
<1> HIDE DEF n
<1>3. \A m \in S : Rank(S, m) >= 1 /\ (m < n => Rank(S, m) < Rank(S, n)) /\ Rank(S, m) \in Nat
    BY <1>1, <1>2, RankGrows
<1> QED BY <1>2, <1>3

(* Counting up to n.                                                        *)
LEMMA UpTo == ASSUME NEW n \in Nat PROVE IsFiniteSet(1..n) /\ Cardinality(1..n) = n
BY FS_Interval

(* A sequence without repetition is as long as the set of its values.       *)
LEMMA CountOnce ==
    ASSUME NEW T, NEW s \in Seq(T), \A k, l \in DOMAIN s : s[k] = s[l] => k = l
    PROVE  IsFiniteSet(ToSet(s)) /\ Cardinality(ToSet(s)) = Len(s)
<1>1. DOMAIN s = 1..Len(s) /\ Len(s) \in Nat
    OBVIOUS
<1>2. s \in Bijection(1..Len(s), ToSet(s))
    <2>1. s \in [1..Len(s) -> ToSet(s)]
        BY <1>1 DEF ToSet
    <2> QED BY <1>1, <2>1 DEF Bijection, Injection, IsInjective, Surjection, ToSet
<1>3. ExistsBijection(1..Len(s), ToSet(s))
    BY <1>2 DEF ExistsBijection
<1>4. IsFiniteSet(ToSet(s))
    BY <1>1, <1>3, FS_NatBijection
<1> QED BY <1>1, <1>3, <1>4, FS_CountingElements

(* Positions moved by one are as many.                                      *)
LEMMA Shifted ==
    ASSUME NEW S \in SUBSET Nat, IsFiniteSet(S)
    PROVE  Cardinality({n + 1 : n \in S}) = Cardinality(S)
<1> DEFINE f == [n \in S |-> n + 1]
           U == {n + 1 : n \in S}
<1>1. \A n \in S : n \in Nat
    OBVIOUS
<1>2. f \in Bijection(S, U)
    <2>1. f \in [S -> U]
        OBVIOUS
    <2>2. \A n, m \in S : f[n] = f[m] => n = m
        BY <1>1
    <2>3. \A u \in U : \E n \in S : f[n] = u
        OBVIOUS
    <2> QED BY <2>1, <2>2, <2>3 DEF Bijection, Injection, IsInjective, Surjection
<1> HIDE DEF f, U
<1>3. ExistsBijection(S, U)
    BY <1>2 DEF ExistsBijection
<1>4. Cardinality(U) = Cardinality(S)
    BY <1>3, FS_Bijection
<1> QED BY <1>4 DEF U

(* Positions of a sequence.                                                 *)
LEMMA PositionsFinite ==
    ASSUME NEW T, NEW s \in Seq(T), NEW S \in SUBSET DOMAIN s
    PROVE  S \in SUBSET Nat /\ IsFiniteSet(S) /\ Cardinality(S) \in Nat
           /\ Cardinality(S) <= Len(s) /\ (Cardinality(S) = Len(s) => S = DOMAIN s)
<1>1. DOMAIN s = 1..Len(s) /\ Len(s) \in Nat
    OBVIOUS
<1>2. IsFiniteSet(1..Len(s)) /\ Cardinality(1..Len(s)) = Len(s)
    BY <1>1, UpTo
<1> QED BY <1>1, <1>2, FS_Subset, FS_CardinalityType

(* What is kept: the elements at the positions given, in their order.       *)
LEMMA Kept ==
    ASSUME NEW T, NEW s \in Seq(T), NEW S \in SUBSET DOMAIN s
    PROVE  /\ Keep(s, S) \in Seq(T) /\ Len(Keep(s, S)) = Cardinality(S)
           /\ \A k \in DOMAIN Keep(s, S) : InOrder(S)[k] \in S /\ Keep(s, S)[k] = s[InOrder(S)[k]]
           /\ \A n \in S : Rank(S, n) \in DOMAIN Keep(s, S) /\ Keep(s, S)[Rank(S, n)] = s[n]
                           /\ InOrder(S)[Rank(S, n)] = n
           /\ \A k, l \in DOMAIN Keep(s, S) : k < l => InOrder(S)[k] < InOrder(S)[l]
           /\ ToSet(Keep(s, S)) = {s[n] : n \in S}
<1> DEFINE size == Cardinality(S)
<1>1. S \in SUBSET Nat /\ IsFiniteSet(S) /\ size \in Nat
    BY PositionsFinite
<1>2. /\ \A k \in 1..size : InOrder(S)[k] \in S
      /\ \A n \in S : Rank(S, n) \in 1..size /\ InOrder(S)[Rank(S, n)] = n
      /\ \A k, l \in 1..size : k < l => InOrder(S)[k] < InOrder(S)[l]
    BY <1>1, InOrderLists
<1>3. DOMAIN Keep(s, S) = 1..size /\ \A k \in 1..size : Keep(s, S)[k] = s[InOrder(S)[k]]
    BY DEF Keep
<1>4. \A n \in S : s[n] \in T
    OBVIOUS
<1>5. Keep(s, S) \in [1..size -> T]
    BY <1>2, <1>4 DEF Keep
<1>6. Keep(s, S) \in Seq(T) /\ Len(Keep(s, S)) = size
    BY <1>1, <1>5
<1>7. ToSet(Keep(s, S)) = {s[n] : n \in S}
    BY <1>2, <1>3 DEF ToSet
<1> QED BY <1>2, <1>3, <1>6, <1>7

(* Keeping every position changes nothing.                                  *)
LEMMA KeptAll ==
    ASSUME NEW T, NEW s \in Seq(T)
    PROVE  Keep(s, DOMAIN s) = s
<1>1. DOMAIN s = 1..Len(s) /\ Len(s) \in Nat
    OBVIOUS
<1>2. Cardinality(DOMAIN s) = Len(s)
    BY <1>1, FS_Interval
<1>3. \A n \in DOMAIN s : Rank(DOMAIN s, n) = n
    <2> TAKE n \in DOMAIN s
    <2>1. {m \in DOMAIN s : m <= n} = 1..n
        BY <1>1
    <2>2. Cardinality(1..n) = n
        BY <1>1, FS_Interval
    <2> QED BY <2>1, <2>2 DEF Rank
<1>4. /\ Keep(s, DOMAIN s) \in Seq(T) /\ Len(Keep(s, DOMAIN s)) = Len(s)
      /\ \A n \in DOMAIN s : Keep(s, DOMAIN s)[n] = s[n]
    BY <1>2, <1>3, Kept
<1> QED BY <1>1, <1>4

(* Distinct has each value of the sequence, once.                           *)
LEMMA DistinctOnce ==
    ASSUME NEW T, NEW s \in Seq(T)
    PROVE  /\ Distinct(s) \in Seq(T) /\ ToSet(Distinct(s)) = ToSet(s)
           /\ \A k, l \in DOMAIN Distinct(s) : Distinct(s)[k] = Distinct(s)[l] => k = l
           /\ Len(Distinct(s)) <= Len(s) /\ (s # <<>> => Distinct(s) # <<>>)
<1> DEFINE F == FirstPositions(s)
<1>1. F \in SUBSET DOMAIN s
    BY DEF FirstPositions
<1>2. /\ Distinct(s) \in Seq(T) /\ Len(Distinct(s)) = Cardinality(F)
      /\ \A k \in DOMAIN Distinct(s) : InOrder(F)[k] \in F /\ Distinct(s)[k] = s[InOrder(F)[k]]
      /\ \A k, l \in DOMAIN Distinct(s) : k < l => InOrder(F)[k] < InOrder(F)[l]
      /\ ToSet(Distinct(s)) = {s[n] : n \in F}
    BY <1>1, Kept DEF Distinct
<1>3. ASSUME NEW n \in DOMAIN s PROVE \E m \in F : s[m] = s[n]
    <2> DEFINE same == {m \in DOMAIN s : s[m] = s[n]}
    <2>1. same \in SUBSET DOMAIN s /\ n \in same
        OBVIOUS
    <2>2. same \in SUBSET Nat /\ IsFiniteSet(same)
        BY <2>1, PositionsFinite
    <2> HIDE DEF same
    <2>3. PICK m \in same : \A l \in same : m <= l
        BY <2>1, <2>2, Smallest
    <2> QED BY <2>3 DEF same, FirstPositions
<1>4. ToSet(Distinct(s)) = ToSet(s)
    BY <1>1, <1>2, <1>3 DEF ToSet
<1>5. \A n, m \in F : s[n] = s[m] => n = m
    BY DEF FirstPositions
<1>6. ASSUME NEW k \in DOMAIN Distinct(s), NEW l \in DOMAIN Distinct(s),
             Distinct(s)[k] = Distinct(s)[l], k < l
      PROVE  FALSE
    <2>1. InOrder(F)[k] \in F /\ InOrder(F)[l] \in F /\ s[InOrder(F)[k]] = s[InOrder(F)[l]]
          /\ InOrder(F)[k] < InOrder(F)[l]
        BY <1>2, <1>6
    <2>2. F \in SUBSET Nat
        BY <1>1, PositionsFinite
    <2> QED BY <1>5, <2>1, <2>2
<1>7. \A k, l \in DOMAIN Distinct(s) : Distinct(s)[k] = Distinct(s)[l] => k = l
    <2>1. DOMAIN Distinct(s) \subseteq Nat
        BY <1>2
    <2> QED BY <1>6, <2>1
<1>8. Len(Distinct(s)) <= Len(s)
    BY <1>1, <1>2, PositionsFinite
<1>9. s # <<>> => Distinct(s) # <<>>
    <2>1. s # <<>> => s[1] \in ToSet(s)
        BY DEF ToSet
    <2>2. ToSet(<<>>) = {}
        BY DEF ToSet
    <2> QED BY <1>4, <2>1, <2>2
<1> QED BY <1>2, <1>4, <1>7, <1>8, <1>9
=============================================================================
