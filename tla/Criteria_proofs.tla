--------------------------- MODULE Criteria_proofs ---------------------------
(****************************************************************************)
(* What the reports of the criteria promise, for any pages, profiles and    *)
(* sites:                                                                   *)
(*                                                                          *)
(*  - VerdictsFollow: verdict, score and items of a report agree;           *)
(*  - ComparisonsAgree: two scans say the same in either direction;         *)
(*  - FixingIsFree: to set one thing right costs nothing.                   *)
(*                                                                          *)
(* A verdict counts items and the score of a page weighs verdicts: sums     *)
(* over sets of data, about which a fact is proved from the empty set up,   *)
(* one element more at a time (Gather). Each analyser then has a lemma of   *)
(* its own, which says that its result is "right", and polarity keeps what  *)
(* they say. A scan is one of them. Each analyser has a second lemma, which *)
(* compares its results before and after one thing is set right (NoWorse).  *)
(****************************************************************************)
EXTENDS Criteria, Sublists

(* A set of numbers that holds 0, and the next of each up to n, holds n.    *)
LEMMA Climb ==
    ASSUME NEW n \in Nat, NEW S, 0 \in S, \A m \in 0..(n - 1) : m \in S => m + 1 \in S
    PROVE  n \in S
<1> SUFFICES ASSUME n \notin S PROVE FALSE
    OBVIOUS
<1> DEFINE out == {m \in 0..n : m \notin S}
<1>1. out \in SUBSET Nat /\ n \in out
    OBVIOUS
<1>2. IsFiniteSet(out)
    <2>1. IsFiniteSet(0..n)
        BY FS_Interval
    <2>2. out \in SUBSET (0..n)
        OBVIOUS
    <2> HIDE DEF out
    <2> QED BY <2>1, <2>2, FS_Subset
<1>3. PICK k \in out : \A m \in out : k <= m
    <2> HIDE DEF out
    <2> QED BY <1>1, <1>2, Smallest
<1>4. k \in 0..n /\ k \notin S
    BY <1>3
<1>5. k # 0
    BY <1>4
<1>6. k - 1 \in 0..(n - 1) /\ k - 1 \notin out
    BY <1>3, <1>4, <1>5
<1>7. k - 1 \in S
    BY <1>4, <1>6
<1> QED BY <1>4, <1>6, <1>7

(* A set of subsets of S that holds the empty one and grows by an element   *)
(* holds S when S is finite.                                                *)
LEMMA Gather ==
    ASSUME NEW S, IsFiniteSet(S), NEW Q, {} \in Q,
           \A T \in SUBSET S : \A x \in S \ T : T \in Q => T \union {x} \in Q
    PROVE  S \in Q
<1> DEFINE size == Cardinality(S)
           N == {n \in Nat : \A T \in SUBSET S : Cardinality(T) = n => T \in Q}
<1>0. size \in Nat
    BY FS_CardinalityType
<1>1. 0 \in N
    <2>1. ASSUME NEW T \in SUBSET S, Cardinality(T) = 0 PROVE T \in Q
        BY <2>1, FS_Subset, FS_EmptySet
    <2> QED BY <2>1
<1>2. ASSUME NEW m \in 0..(size - 1), m \in N PROVE m + 1 \in N
    <2>1. ASSUME NEW T \in SUBSET S, Cardinality(T) = m + 1 PROVE T \in Q
        <3>1. IsFiniteSet(T)
            BY FS_Subset
        <3>2. T # {}
            BY <2>1, <3>1, <1>0, FS_EmptySet
        <3>3. PICK x \in T : TRUE
            BY <3>2
        <3>4. Cardinality(T \ {x}) = m
            <4>1. Cardinality(T \ {x}) = Cardinality(T) - 1
                BY <3>1, <3>3, FS_RemoveElement
            <4>2. m \in Nat
                BY <1>0
            <4> QED BY <2>1, <4>1, <4>2
        <3>5. T \ {x} \in Q
            BY <1>2, <3>4
        <3>6. T = (T \ {x}) \union {x} /\ x \in S \ (T \ {x}) /\ T \ {x} \in SUBSET S
            BY <3>3
        <3> QED BY <3>5, <3>6
    <2> QED BY <1>0, <2>1
<1>3. size \in N
    <2> HIDE DEF N
    <2>1. \A m \in 0..(size - 1) : m \in N => m + 1 \in N
        BY <1>2
    <2> HIDE DEF size
    <2> QED BY <1>0, <1>1, <2>1, Climb
<1> QED BY <1>3

(****************************************************************************)
Adds(g, f, S) == \A s \in SUBSET S :
    g[s] = IF s = {} THEN 0 ELSE f[CHOOSE x \in s : TRUE] + g[s \ {CHOOSE x \in s : TRUE}]

Sums(g, f, S) == Adds(g, f, S) /\ \A s \in SUBSET S : g[s] \in Int

LEMMA SumsExist ==
    ASSUME NEW S, IsFiniteSet(S), NEW f, \A x \in S : f[x] \in Int
    PROVE  \E g \in [SUBSET S -> Int] : Sums(g, f, S)
<1> DEFINE size == Cardinality(S)
           D(n) == {s \in SUBSET S : Cardinality(s) <= n}
           P(n) == \E g \in [D(n) -> Int] : \A s \in D(n) :
                      g[s] = IF s = {} THEN 0
                             ELSE f[CHOOSE x \in s : TRUE] + g[s \ {CHOOSE x \in s : TRUE}]
           N == {n \in Nat : P(n)}
<1>0. size \in Nat /\ \A s \in SUBSET S : IsFiniteSet(s) /\ Cardinality(s) \in Nat
                                        /\ Cardinality(s) <= size
    BY FS_CardinalityType, FS_Subset
<1>1. 0 \in N
    <2>1. D(0) = {{}}
        <3>1. \A s \in D(0) : s = {}
            BY <1>0, FS_EmptySet
        <3>2. {} \in D(0)
            BY <1>0, FS_EmptySet
        <3> QED BY <3>1, <3>2
    <2> DEFINE g == [s \in D(0) |-> 0]
    <2>2. g \in [D(0) -> Int] /\ \A s \in D(0) : s = {} /\ g[s] = 0
        BY <2>1
    <2> HIDE DEF D, g
    <2>3. P(0)
        BY <2>2
    <2> QED BY <2>3
<1>2. ASSUME NEW m \in 0..(size - 1), m \in N PROVE m + 1 \in N
    <2>1. PICK g \in [D(m) -> Int] : \A s \in D(m) :
             g[s] = IF s = {} THEN 0
                    ELSE f[CHOOSE x \in s : TRUE] + g[s \ {CHOOSE x \in s : TRUE}]
        BY <1>2
    <2> DEFINE h == [s \in D(m + 1) |->
                       IF s = {} THEN 0
                       ELSE f[CHOOSE x \in s : TRUE] + g[s \ {CHOOSE x \in s : TRUE}]]
    <2>m. m \in Nat
        BY <1>0
    <2>2. ASSUME NEW s \in D(m + 1), s # {}
          PROVE  /\ (CHOOSE x \in s : TRUE) \in s
                 /\ (CHOOSE x \in s : TRUE) \in S
                 /\ s \ {CHOOSE x \in s : TRUE} \in D(m)
        <3>1. (CHOOSE x \in s : TRUE) \in s
            BY <2>2
        <3> DEFINE c == CHOOSE x \in s : TRUE
        <3> HIDE DEF c
        <3>2. c \in s
            BY <3>1 DEF c
        <3>3. s \in SUBSET S /\ IsFiniteSet(s) /\ Cardinality(s) \in Nat /\ Cardinality(s) <= m + 1
            BY <1>0
        <3>4. Cardinality(s \ {c}) = Cardinality(s) - 1
            BY <3>2, <3>3, FS_RemoveElement
        <3>5. s \ {c} \in SUBSET S /\ Cardinality(s \ {c}) <= m
            BY <3>3, <3>4, <2>m
        <3>6. c \in S /\ s \ {c} \in D(m)
            BY <3>2, <3>3, <3>5
        <3> QED BY <3>2, <3>6 DEF c
    <2>3. \A s \in D(m) : s \in D(m + 1)
        BY <1>0, <2>m
    <2>4. \A s \in D(m) : h[s] = g[s]
        <3> HIDE DEF D
        <3> QED BY <2>1, <2>3
    <2>5. h \in [D(m + 1) -> Int]
        <3>1. ASSUME NEW s \in D(m + 1), s # {}
              PROVE  f[CHOOSE x \in s : TRUE] + g[s \ {CHOOSE x \in s : TRUE}] \in Int
            <4> DEFINE c == CHOOSE x \in s : TRUE
            <4>1. c \in S /\ s \ {c} \in D(m)
                BY <2>2, <3>1
            <4> HIDE DEF c, D
            <4>2. f[c] \in Int /\ g[s \ {c}] \in Int
                BY <4>1, <2>1
            <4>3. f[c] + g[s \ {c}] \in Int
                BY <4>2
            <4> QED BY <4>3 DEF c
        <3>2. ASSUME NEW s \in D(m + 1) PROVE h[s] \in Int
            <4>1. CASE s = {}
                <5> HIDE DEF D
                <5> QED BY <4>1
            <4>2. CASE s # {}
                <5>1. h[s] = f[CHOOSE x \in s : TRUE] + g[s \ {CHOOSE x \in s : TRUE}]
                    <6> HIDE DEF D
                    <6> QED BY <4>2
                <5> HIDE DEF D, h
                <5> QED BY <4>2, <5>1, <3>1
            <4> QED BY <4>1, <4>2
        <3>3. DOMAIN h = D(m + 1) /\ h = [s \in D(m + 1) |-> h[s]]
            <4> HIDE DEF D
            <4> QED OBVIOUS
        <3> HIDE DEF D, h
        <3> QED BY <3>2, <3>3
    <2>6. ASSUME NEW s \in D(m + 1)
          PROVE  h[s] = IF s = {} THEN 0
                        ELSE f[CHOOSE x \in s : TRUE] + h[s \ {CHOOSE x \in s : TRUE}]
        <3>1. CASE s = {}
            <4> HIDE DEF D
            <4> QED BY <3>1
        <3>2. CASE s # {}
            <4>1. s \ {CHOOSE x \in s : TRUE} \in D(m)
                BY <2>2, <3>2
            <4>2. h[s \ {CHOOSE x \in s : TRUE}] = g[s \ {CHOOSE x \in s : TRUE}]
                BY <2>4, <4>1
            <4>3. h[s] = f[CHOOSE x \in s : TRUE] + g[s \ {CHOOSE x \in s : TRUE}]
                <5> HIDE DEF D
                <5> QED BY <3>2
            <4> HIDE DEF D, h
            <4> QED BY <3>2, <4>2, <4>3
        <3> QED BY <3>1, <3>2
    <2>7. P(m + 1)
        <3> HIDE DEF D, h
        <3> QED BY <2>5, <2>6
    <2> HIDE DEF P
    <2> QED BY <2>7, <2>m
<1>3. size \in N
    <2> HIDE DEF N
    <2>1. \A m \in 0..(size - 1) : m \in N => m + 1 \in N
        BY <1>2
    <2> HIDE DEF size
    <2> QED BY <1>0, <1>1, <2>1, Climb
<1>4. P(size)
    <2> HIDE DEF P
    <2> QED BY <1>3
<1>5. D(size) = SUBSET S
    BY <1>0
<1> HIDE DEF D
<1> QED BY <1>4, <1>5 DEF Adds, Sums

(* Two such functions agree on the sets they share, when what they add does.*)
LEMMA SumsAgree ==
    ASSUME NEW S, IsFiniteSet(S), NEW T, S \in SUBSET T, NEW f, NEW e, \A x \in S : f[x] = e[x],
           NEW g, NEW h, Adds(g, f, S), Adds(h, e, T)
    PROVE  g[S] = h[S]
<1> DEFINE size == Cardinality(S)
           N == {n \in Nat : \A s \in SUBSET S : Cardinality(s) = n => g[s] = h[s]}
<1>0. size \in Nat /\ \A s \in SUBSET S : IsFiniteSet(s) /\ Cardinality(s) \in Nat
    BY FS_CardinalityType, FS_Subset
<1>e. g[{}] = 0 /\ h[{}] = 0
    BY DEF Adds, Sums
<1>1. 0 \in N
    BY <1>0, <1>e, FS_EmptySet
<1>2. ASSUME NEW m \in 0..(size - 1), m \in N PROVE m + 1 \in N
    <2>1. ASSUME NEW s \in SUBSET S, Cardinality(s) = m + 1 PROVE g[s] = h[s]
        <3> DEFINE c == CHOOSE x \in s : TRUE
        <3>1. s # {} /\ m \in Nat
            BY <2>1, <1>0, FS_EmptySet
        <3>2. c \in s
            BY <3>1
        <3>3. g[s] = f[c] + g[s \ {c}]
            BY <3>1 DEF Adds, Sums
        <3>4. h[s] = e[c] + h[s \ {c}]
            BY <3>1 DEF Adds, Sums
        <3> HIDE DEF c
        <3>5. Cardinality(s \ {c}) = m
            <4>1. Cardinality(s \ {c}) = Cardinality(s) - 1
                BY <1>0, <3>2, FS_RemoveElement
            <4> QED BY <2>1, <3>1, <4>1
        <3>6. g[s \ {c}] = h[s \ {c}]
            BY <1>2, <3>5
        <3>7. f[c] = e[c]
            BY <3>2
        <3> QED BY <3>3, <3>4, <3>6, <3>7
    <2> QED BY <1>0, <2>1
<1>3. size \in N
    <2> HIDE DEF N
    <2>1. \A m \in 0..(size - 1) : m \in N => m + 1 \in N
        BY <1>2
    <2> HIDE DEF size
    <2> QED BY <1>0, <1>1, <2>1, Climb
<1> QED BY <1>3

(* The order of the additions does not matter: any element may come last.   *)
LEMMA SumsCommute ==
    ASSUME NEW S, IsFiniteSet(S), NEW f, \A x \in S : f[x] \in Int,
           NEW g, Sums(g, f, S)
    PROVE  \A a \in S : g[S] = f[a] + g[S \ {a}]
<1> DEFINE size == Cardinality(S)
           N == {n \in Nat : \A s \in SUBSET S : Cardinality(s) <= n =>
                                \A x \in s : g[s] = f[x] + g[s \ {x}]}
<1>0. size \in Nat /\ \A s \in SUBSET S : IsFiniteSet(s) /\ Cardinality(s) \in Nat
    BY FS_CardinalityType, FS_Subset
<1>1. 0 \in N
    BY <1>0, FS_EmptySet
<1>2. ASSUME NEW m \in 0..(size - 1), m \in N PROVE m + 1 \in N
    <2>1. ASSUME NEW s \in SUBSET S, Cardinality(s) <= m + 1, NEW x \in s
          PROVE  g[s] = f[x] + g[s \ {x}]
        <3> DEFINE c == CHOOSE y \in s : TRUE
        <3>1. s # {} /\ m \in Nat
            BY <1>0
        <3>2. c \in s
            BY <3>1
        <3>3. g[s] = f[c] + g[s \ {c}]
            BY <3>1 DEF Adds, Sums
        <3> HIDE DEF c
        <3>4. CASE x = c
            BY <3>3, <3>4
        <3>5. CASE x # c
            <4>1. /\ s \ {c} \in SUBSET S /\ Cardinality(s \ {c}) <= m
                  /\ s \ {x} \in SUBSET S /\ Cardinality(s \ {x}) <= m
                <5>1. /\ Cardinality(s \ {c}) = Cardinality(s) - 1
                      /\ Cardinality(s \ {x}) = Cardinality(s) - 1
                    BY <1>0, <3>2, FS_RemoveElement
                <5> QED BY <1>0, <2>1, <3>1, <5>1
            <4>2. x \in s \ {c} /\ c \in s \ {x}
                BY <3>2, <3>5
            <4>3. g[s \ {c}] = f[x] + g[(s \ {c}) \ {x}]
                BY <1>2, <4>1, <4>2
            <4>4. g[s \ {x}] = f[c] + g[(s \ {x}) \ {c}]
                BY <1>2, <4>1, <4>2
            <4>5. (s \ {c}) \ {x} = (s \ {x}) \ {c}
                OBVIOUS
            <4> DEFINE rest == g[(s \ {x}) \ {c}]
            <4>6. rest \in Int /\ f[x] \in Int /\ f[c] \in Int
                BY <3>2 DEF Adds, Sums
            <4>7. g[s \ {c}] = f[x] + rest /\ g[s \ {x}] = f[c] + rest
                BY <4>3, <4>4, <4>5
            <4> HIDE DEF rest
            <4> QED BY <3>3, <4>6, <4>7
        <3> QED BY <3>4, <3>5
    <2>2. m + 1 \in Nat
        BY <1>0
    <2> QED BY <2>1, <2>2
<1>3. size \in N
    <2> HIDE DEF N
    <2>1. \A m \in 0..(size - 1) : m \in N => m + 1 \in N
        BY <1>2
    <2> HIDE DEF size
    <2> QED BY <1>0, <1>1, <2>1, Climb
<1>4. Cardinality(S) <= size
    BY <1>0
<1> HIDE DEF size
<1> QED BY <1>3, <1>4

(****************************************************************************)
(* Sums of the values of a function                                         *)
(****************************************************************************)
LEMMA SumUnfolds ==
    ASSUME NEW S, IsFiniteSet(S), NEW f, \A x \in S : f[x] \in Int
    PROVE  \E g : Sums(g, f, S) /\ SumFunctionOnSet(f, S) = g[S]
<1> DEFINE iter == CHOOSE iter : iter = [s \in SUBSET S |->
                      IF s = {} THEN 0
                      ELSE f[CHOOSE x \in s : TRUE] + iter[s \ {CHOOSE x \in s : TRUE}]]
<1>1. PICK g \in [SUBSET S -> Int] : Sums(g, f, S)
    BY SumsExist
<1>2. g = [s \in SUBSET S |->
                      IF s = {} THEN 0
                      ELSE f[CHOOSE x \in s : TRUE] + g[s \ {CHOOSE x \in s : TRUE}]]
    BY <1>1 DEF Adds, Sums
<1>3. iter = [s \in SUBSET S |->
                      IF s = {} THEN 0
                      ELSE f[CHOOSE x \in s : TRUE] + iter[s \ {CHOOSE x \in s : TRUE}]]
    BY <1>2
<1>4. SumFunctionOnSet(f, S) = iter[S]
    BY DEF SumFunctionOnSet, FoldFunctionOnSet, MapThenFoldSet
<1> HIDE DEF iter
<1>5. Adds(iter, f, S)
    BY <1>3 DEF Adds, Sums
<1>6. \A s \in SUBSET S : iter[s] = g[s]
    <2> TAKE s \in SUBSET S
    <2>1. IsFiniteSet(s) /\ s \in SUBSET S
        BY FS_Subset
    <2>2. Adds(iter, f, s)
        BY <1>5 DEF Adds, Sums
    <2>3. Adds(g, f, S)
        BY <1>1 DEF Sums
    <2> QED BY <2>1, <2>2, <2>3, SumsAgree
<1>7. \A s \in SUBSET S : iter[s] \in Int
    BY <1>1, <1>6
<1> QED BY <1>4, <1>5, <1>7 DEF Sums

LEMMA SumEmpty == ASSUME NEW f PROVE SumFunctionOnSet(f, {}) = 0
<1>1. IsFiniteSet({})
    BY FS_EmptySet
<1>2. PICK g : Sums(g, f, {}) /\ SumFunctionOnSet(f, {}) = g[{}]
    BY <1>1, SumUnfolds
<1> QED BY <1>2 DEF Adds, Sums

(* What is summed is one of the terms and the sum of the others.            *)
LEMMA SumStep ==
    ASSUME NEW S, IsFiniteSet(S), NEW f, \A x \in S : f[x] \in Int
    PROVE  /\ SumFunctionOnSet(f, S) \in Int
           /\ \A a \in S : SumFunctionOnSet(f, S) = f[a] + SumFunctionOnSet(f, S \ {a})
<1>1. PICK g : Sums(g, f, S) /\ SumFunctionOnSet(f, S) = g[S]
    BY SumUnfolds
<1>2. ASSUME NEW a \in S PROVE SumFunctionOnSet(f, S) = f[a] + SumFunctionOnSet(f, S \ {a})
    <2> DEFINE R == S \ {a}
    <2>1. IsFiniteSet(R) /\ R \in SUBSET S /\ \A x \in R : f[x] \in Int
        BY FS_Subset
    <2> HIDE DEF R
    <2>2. PICK h : Sums(h, f, R) /\ SumFunctionOnSet(f, R) = h[R]
        BY <2>1, SumUnfolds
    <2>3. h[R] = g[R]
        BY <1>1, <2>1, <2>2, SumsAgree DEF Sums
    <2>4. g[S] = f[a] + g[S \ {a}]
        <3>1. \A b \in S : g[S] = f[b] + g[S \ {b}]
            BY <1>1, SumsCommute
        <3> QED BY <3>1
    <2>5. g[S] = f[a] + g[R]
        BY <2>4 DEF R
    <2>6. SumFunctionOnSet(f, S) = f[a] + SumFunctionOnSet(f, R)
        BY <1>1, <2>2, <2>3, <2>5
    <2> QED BY <2>6 DEF R
<1>3. SumFunctionOnSet(f, S) \in Int
    BY <1>1 DEF Sums
<1> QED BY <1>2, <1>3

(* The sum depends on the terms and on nothing else.                        *)
LEMMA SumSame ==
    ASSUME NEW S, IsFiniteSet(S), NEW f, NEW e, \A x \in S : f[x] \in Int /\ f[x] = e[x]
    PROVE  SumFunctionOnSet(f, S) = SumFunctionOnSet(e, S)
<1>1. PICK g : Sums(g, f, S) /\ SumFunctionOnSet(f, S) = g[S]
    BY SumUnfolds
<1>2. PICK h : Sums(h, e, S) /\ SumFunctionOnSet(e, S) = h[S]
    BY SumUnfolds
<1>3. g[S] = h[S]
    BY <1>1, <1>2, SumsAgree DEF Sums
<1> QED BY <1>1, <1>2, <1>3

(* A sum of smaller terms is smaller.                                       *)
LEMMA SumGrows ==
    ASSUME NEW S, IsFiniteSet(S), NEW f, NEW e,
           \A x \in S : f[x] \in Int /\ e[x] \in Int /\ f[x] <= e[x]
    PROVE  SumFunctionOnSet(f, S) <= SumFunctionOnSet(e, S)
<1> DEFINE Q == {T \in SUBSET S : SumFunctionOnSet(f, T) <= SumFunctionOnSet(e, T)}
<1>1. {} \in Q
    BY SumEmpty
<1>2. ASSUME NEW T \in SUBSET S, NEW x \in S \ T, T \in Q PROVE T \union {x} \in Q
    <2> DEFINE U == T \union {x}
    <2>1. /\ IsFiniteSet(T) /\ T \in SUBSET S /\ IsFiniteSet(U) /\ U \in SUBSET S /\ x \in U
          /\ U \ {x} = T
        BY FS_Subset, FS_AddElement
    <2> HIDE DEF U
    <2>2. SumFunctionOnSet(f, U) = f[x] + SumFunctionOnSet(f, T)
        BY <2>1, SumStep
    <2>3. SumFunctionOnSet(e, U) = e[x] + SumFunctionOnSet(e, T)
        BY <2>1, SumStep
    <2>4. SumFunctionOnSet(f, T) \in Int /\ SumFunctionOnSet(e, T) \in Int
        BY <2>1, SumStep
    <2>5. SumFunctionOnSet(f, T) <= SumFunctionOnSet(e, T)
        BY <1>2
    <2>6. SumFunctionOnSet(f, U) <= SumFunctionOnSet(e, U)
        BY <2>2, <2>3, <2>4, <2>5
    <2> QED BY <2>1, <2>6 DEF U
<1>3. S \in Q
    <2> HIDE DEF Q
    <2> QED BY <1>1, <1>2, Gather
<1> QED BY <1>3

(* A sum of positive terms is 0 only when there is none.                    *)
LEMMA SumPositive ==
    ASSUME NEW S, IsFiniteSet(S), NEW f, \A x \in S : f[x] \in Nat \ {0}
    PROVE  /\ SumFunctionOnSet(f, S) \in Nat
           /\ SumFunctionOnSet(f, S) = 0 <=> S = {}
<1>0. ASSUME NEW T \in SUBSET S PROVE SumFunctionOnSet(f, T) \in Nat
    <2> DEFINE zero == [x \in T |-> 0]
    <2>1. IsFiniteSet(T)
        BY FS_Subset
    <2>2. SumFunctionOnSet(f, T) \in Int
        BY <2>1, SumStep
    <2>3. SumFunctionOnSet(zero, T) = 0
        <3> DEFINE Q == {U \in SUBSET T : SumFunctionOnSet(zero, U) = 0}
        <3>1. {} \in Q
            BY SumEmpty
        <3>2. ASSUME NEW U \in SUBSET T, NEW x \in T \ U, U \in Q PROVE U \union {x} \in Q
            <4> DEFINE V == U \union {x}
            <4>1. IsFiniteSet(V) /\ V \in SUBSET T /\ x \in V /\ V \ {x} = U
                BY <2>1, FS_Subset
            <4>2. \A y \in V : zero[y] \in Int
                BY <4>1
            <4>3. zero[x] = 0
                OBVIOUS
            <4>4. SumFunctionOnSet(zero, U) = 0
                BY <3>2
            <4> HIDE DEF V, zero
            <4>5. SumFunctionOnSet(zero, V) = 0
                BY <4>1, <4>2, <4>3, <4>4, SumStep
            <4> QED BY <4>1, <4>5 DEF V
        <3>3. T \in Q
            <4> HIDE DEF Q
            <4> QED BY <2>1, <3>1, <3>2, Gather
        <3> QED BY <3>3
    <2>4. \A x \in T : zero[x] \in Int /\ f[x] \in Int /\ zero[x] <= f[x]
        OBVIOUS
    <2> HIDE DEF zero
    <2>5. SumFunctionOnSet(zero, T) <= SumFunctionOnSet(f, T)
        BY <2>1, <2>4, SumGrows
    <2> QED BY <2>2, <2>3, <2>5
<1>1. SumFunctionOnSet(f, S) \in Nat
    BY <1>0
<1>2. CASE S = {}
    BY <1>1, <1>2, SumEmpty
<1>3. CASE S # {}
    <2>1. PICK a \in S : TRUE
        BY <1>3
    <2>2. SumFunctionOnSet(f, S) = f[a] + SumFunctionOnSet(f, S \ {a})
        BY <2>1, SumStep
    <2>3. SumFunctionOnSet(f, S \ {a}) \in Nat /\ f[a] \in Nat \ {0}
        BY <1>0
    <2> QED BY <1>3, <2>2, <2>3
<1> QED BY <1>1, <1>2, <1>3

LEMMA SumZero ==
    ASSUME NEW S, IsFiniteSet(S)
    PROVE  SumFunctionOnSet([x \in S |-> 0], S) = 0
<1> DEFINE f == [x \in S |-> 0]
           Q == {T \in SUBSET S : SumFunctionOnSet(f, T) = 0}
<1>1. {} \in Q
    <2> HIDE DEF f
    <2> QED BY SumEmpty
<1>2. ASSUME NEW T \in SUBSET S, NEW x \in S \ T, T \in Q
      PROVE  T \union {x} \in Q
    <2> DEFINE U == T \union {x}
    <2>1. IsFiniteSet(U) /\ U \in SUBSET S /\ x \in U /\ U \ {x} = T
        BY FS_Subset
    <2>2. \A y \in U : f[y] \in Int /\ f[y] = 0
        OBVIOUS
    <2> HIDE DEF f, U
    <2>3. SumFunctionOnSet(f, U) = f[x] + SumFunctionOnSet(f, T)
        BY <2>1, <2>2, SumStep
    <2>4. SumFunctionOnSet(f, T) = 0
        BY <1>2
    <2>5. SumFunctionOnSet(f, U) = 0
        <3>1. f[x] = 0
            BY <2>1, <2>2
        <3> QED BY <2>3, <2>4, <3>1
    <2> QED BY <2>1, <2>5 DEF U
<1> HIDE DEF Q
<1>3. S \in Q
    BY <1>1, <1>2, Gather
<1> QED BY <1>3 DEF Q

(* A constant factor.                                                       *)
LEMMA SumScaled ==
    ASSUME NEW S, IsFiniteSet(S), NEW f, NEW e,
           \A x \in S : f[x] \in Int /\ e[x] = 50 * f[x]
    PROVE  SumFunctionOnSet(e, S) = 50 * SumFunctionOnSet(f, S)
<1> DEFINE Q == {T \in SUBSET S : SumFunctionOnSet(e, T) = 50 * SumFunctionOnSet(f, T)}
<1>1. {} \in Q
    <2>1. SumFunctionOnSet(e, {}) = 0 /\ SumFunctionOnSet(f, {}) = 0
        BY SumEmpty
    <2> QED BY <2>1
<1>2. ASSUME NEW T \in SUBSET S, NEW x \in S \ T, T \in Q
      PROVE  T \union {x} \in Q
    <2> DEFINE U == T \union {x}
    <2>1. IsFiniteSet(U) /\ U \in SUBSET S /\ x \in U /\ U \ {x} = T /\ IsFiniteSet(T)
        BY FS_Subset
    <2>2. \A y \in S : e[y] \in Int /\ f[y] \in Int /\ e[y] = 50 * f[y]
        OBVIOUS
    <2> HIDE DEF U
    <2>3. /\ SumFunctionOnSet(f, U) = f[x] + SumFunctionOnSet(f, T)
          /\ SumFunctionOnSet(e, U) = e[x] + SumFunctionOnSet(e, T)
          /\ SumFunctionOnSet(f, T) \in Int /\ SumFunctionOnSet(e, T) \in Int
        BY <2>1, <2>2, SumStep
    <2>4. SumFunctionOnSet(e, T) = 50 * SumFunctionOnSet(f, T)
        BY <1>2
    <2>5. SumFunctionOnSet(e, U) = 50 * SumFunctionOnSet(f, U)
        BY <2>1, <2>2, <2>3, <2>4
    <2> QED BY <2>1, <2>5 DEF U
<1> HIDE DEF Q
<1>3. S \in Q
    BY <1>1, <1>2, Gather
<1> QED BY <1>3 DEF Q

(****************************************************************************)
(* Items and their counts                                                   *)
(****************************************************************************)
Countable(items) ==
    /\ IsFiniteSet(items)
    /\ \A i \in items : /\ {"status", "n"} \subseteq DOMAIN i
                       /\ i.status \in Status /\ i.n \in Nat \ {0}

(* A count is a natural number, 0 when no item has the status.              *)
LEMMA CountPositive ==
    ASSUME NEW items, Countable(items), NEW status
    PROVE  /\ CountOf(items, status) \in Nat
           /\ CountOf(items, status) = 0 <=> \A i \in items : i.status # status
<1> DEFINE those == {i \in items : i.status = status}
           f == [i \in those |-> i.n]
<1>1. IsFiniteSet(those)
    BY FS_Subset DEF Countable
<1>2. \A i \in those : f[i] \in Nat \ {0}
    BY DEF Countable
<1>3. CountOf(items, status) = SumFunctionOnSet(f, those)
    BY DEF CountOf
<1>4. those = {} <=> \A i \in items : i.status # status
    OBVIOUS
<1> HIDE DEF f, those
<1> QED BY <1>1, <1>2, <1>3, <1>4, SumPositive

LEMMA NoItem == Countable({})
BY FS_EmptySet DEF Countable

LEMMA ItemCountable ==
    ASSUME NEW key, NEW status \in Status, NEW n \in Int
    PROVE  Countable(Item(key, status, n))
<1>1. CASE n > 0
    <2>1. IsFiniteSet({[key |-> key, status |-> status, n |-> n]})
        BY FS_Singleton
    <2> QED BY <1>1, <2>1 DEF Item, Countable
<1>2. CASE ~(n > 0)
    BY <1>2, NoItem DEF Item
<1> QED BY <1>1, <1>2

LEMMA UnionCountable ==
    ASSUME NEW A, NEW B
    PROVE  Countable(A \union B) <=> Countable(A) /\ Countable(B)
<1>1. IsFiniteSet(A \union B) <=> IsFiniteSet(A) /\ IsFiniteSet(B)
    <2>1. A \in SUBSET (A \union B) /\ B \in SUBSET (A \union B)
        OBVIOUS
    <2> QED BY <2>1, FS_Union, FS_Subset
<1> QED BY <1>1 DEF Countable

LEMMA AllCountable ==
    ASSUME NEW I, IsFiniteSet(I), NEW F, \A x \in I : Countable(F[x])
    PROVE  Countable(UNION {F[x] : x \in I})
<1> DEFINE C == {F[x] : x \in I}
<1>1. IsFiniteSet(C)
    <2> DEFINE g == [x \in I |-> F[x]]
    <2>1. g \in Surjection(I, C)
        BY DEF Surjection
    <2> HIDE DEF C, g
    <2> QED BY <2>1, FS_Surjection
<1>2. \A A \in C : Countable(A)
    OBVIOUS
<1> HIDE DEF C
<1>3. IsFiniteSet(UNION C)
    BY <1>1, <1>2, FS_UNION DEF Countable
<1>4. Countable(UNION C)
    BY <1>2, <1>3 DEF Countable
<1> QED BY <1>4 DEF C

LEMMA FewFinite ==
    /\ \A a, b : IsFiniteSet({a, b})
    /\ \A a, b, c : IsFiniteSet({a, b, c})
    /\ \A a, b, c, d : IsFiniteSet({a, b, c, d})
<1>1. ASSUME NEW a, NEW b, NEW c PROVE IsFiniteSet({a, b, c})
    <2>1. {a, b, c} = ({a} \union {b}) \union {c}
        OBVIOUS
    <2>2. IsFiniteSet(({a} \union {b}) \union {c})
        BY FS_Singleton, FS_Union
    <2> QED BY <2>1, <2>2
<1>2. ASSUME NEW a, NEW b, NEW c, NEW d PROVE IsFiniteSet({a, b, c, d})
    <2>1. {a, b, c, d} = {a, b, c} \union {d}
        OBVIOUS
    <2>2. IsFiniteSet({a, b, c} \union {d})
        BY <1>1, FS_Singleton, FS_Union
    <2> QED BY <2>1, <2>2
<1>3. ASSUME NEW a, NEW b PROVE IsFiniteSet({a, b})
    <2>1. {a, b} = {a, b, b}
        OBVIOUS
    <2> QED BY <1>1, <2>1
<1> QED BY <1>1, <1>2, <1>3

(****************************************************************************)
(* What a verdict owes to its items                                         *)
(****************************************************************************)
(* A result whose verdict is that of its items.                             *)
Founded(r) ==
    /\ r.status \in Verdicts /\ r.score \in 0..Full /\ Countable(r.items)
    /\ r.status = "na" => /\ r.score = Full
                          /\ CountOf(r.items, "fail") = 0 /\ CountOf(r.items, "warning") = 0

Judged(r) ==
    r.status # "na" => r.status = StatusOf(CountOf(r.items, "fail"), CountOf(r.items, "warning"))

(* 5 for nothing to report, and only then.                                  *)
Scaled(r) == r.status \in {"pass", "na"} <=> r.score = Full

LEMMA GradedFounded ==
    ASSUME NEW items, Countable(items), NEW note \in 0..5
    PROVE  LET f == CountOf(items, "fail")
               w == CountOf(items, "warning")
               r == Result(StatusOf(f, w), 10 * note, items)
           IN /\ Founded(r) /\ Judged(r)
              /\ (note = 5 <=> (f = 0 /\ w = 0)) => Scaled(r)
<1> DEFINE f == CountOf(items, "fail")
           w == CountOf(items, "warning")
<1>1. f \in Nat /\ w \in Nat
    BY CountPositive
<1> HIDE DEF f, w
<1> DEFINE r == Result(StatusOf(f, w), 10 * note, items)
<1>2. r.status = StatusOf(f, w) /\ r.score = 10 * note /\ r.items = items
    BY DEF Result
<1>3. r.status \in {"fail", "warning", "pass"} /\ (r.status = "pass" <=> (f = 0 /\ w = 0))
    BY <1>1, <1>2 DEF StatusOf
<1>4. 10 * note \in 0..50 /\ (10 * note = 50 <=> note = 5)
    OBVIOUS
<1> HIDE DEF r
<1>5. Founded(r)
    BY <1>2, <1>3, <1>4 DEF Founded, Verdicts, Status, Full
<1>6. Judged(r)
    BY <1>2 DEF Judged, f, w
<1>7. (note = 5 <=> (f = 0 /\ w = 0)) => Scaled(r)
    BY <1>2, <1>3, <1>4 DEF Scaled, Full
<1> QED BY <1>5, <1>6, <1>7 DEF f, w, r

(* A verdict given with its note.                                           *)
LEMMA Given ==
    ASSUME NEW items, Countable(items), NEW status \in {"pass", "warning", "fail"},
           NEW score \in 0..50, status = "pass" <=> score = 50
    PROVE  /\ Founded(Result(status, score, items)) /\ Scaled(Result(status, score, items))
           /\ status = StatusOf(CountOf(items, "fail"), CountOf(items, "warning"))
                => Judged(Result(status, score, items))
<1> DEFINE r == Result(status, score, items)
<1>1. r.status = status /\ r.score = score /\ r.items = items
    BY DEF Result
<1> HIDE DEF r
<1>2. Founded(r) /\ Scaled(r)
    BY <1>1 DEF Founded, Scaled, Verdicts, Status, Full
<1>3. status = StatusOf(CountOf(items, "fail"), CountOf(items, "warning")) => Judged(r)
    BY <1>1 DEF Judged
<1> QED BY <1>2, <1>3 DEF r

LEMMA NaFounded ==
    ASSUME NEW items, Countable(items), \A i \in items : i.status \notin {"fail", "warning"}
    PROVE  Founded(Na(items)) /\ Judged(Na(items)) /\ Scaled(Na(items))
<1>1. CountOf(items, "fail") = 0 /\ CountOf(items, "warning") = 0
    BY CountPositive
<1>2. /\ Na(items).status = "na" /\ Na(items).score = Full /\ Na(items).items = items
    BY DEF Na, Result
<1> QED BY <1>1, <1>2 DEF Founded, Judged, Scaled, Verdicts, Status, Full

(* Most criteria have one of these scales.                                  *)
Scale(note, failures, warnings) == note \in 0..5 /\ (note = 5 <=> (failures = 0 /\ warnings = 0))

LEMMA Scales ==
    ASSUME NEW f \in Nat, NEW w \in Nat
    PROVE  /\ Scale(FaultScale(f, w), f, w) /\ Scale(VerdictScale(f, w), f, w)
           /\ Scale(GradedScale(f, w), f, w) /\ Scale(LegalScale(f, w), f, w)
BY DEF Scale, FaultScale, VerdictScale, GradedScale, LegalScale, Larger

Right(r) == Founded(r) /\ Judged(r) /\ Scaled(r)

LEMMA GradedRight ==
    ASSUME NEW items, Countable(items), NEW note,
           Scale(note, CountOf(items, "fail"), CountOf(items, "warning"))
    PROVE  Right(Result(StatusOf(CountOf(items, "fail"), CountOf(items, "warning")), 10 * note, items))
BY GradedFounded DEF Scale, Right

LEMMA VerdictRight ==
    ASSUME NEW items, Countable(items)
    PROVE  /\ Right(VerdictOf(items)) /\ Right(Graded(items, FaultScale))
           /\ Right(Graded(items, LegalScale)) /\ Right(Graded(items, GradedScale))
<1>1. CountOf(items, "fail") \in Nat /\ CountOf(items, "warning") \in Nat
    BY CountPositive
<1> QED BY <1>1, Scales, GradedRight DEF VerdictOf, Graded

LEMMA WhenCountable ==
    ASSUME NEW condition, NEW key, NEW status \in Status
    PROVE  Countable(When(condition, key, status))
<1>1. (IF condition THEN 1 ELSE 0) \in Int
    OBVIOUS
<1> QED BY <1>1, ItemCountable DEF When

LEMMA JudgeCountable ==
    ASSUME NEW condition, NEW key, NEW good \in Status, NEW badKey, NEW bad \in Status
    PROVE  Countable(Judge(condition, key, good, badKey, bad))
<1>1. Countable(Item(key, good, 1)) /\ Countable(Item(badKey, bad, 1))
    BY ItemCountable
<1> QED BY <1>1 DEF Judge

(* Whatever its key and its condition, an item counts.                      *)
LEMMA AnyItem ==
    /\ \A key : /\ Countable(Item(key, "pass", 1)) /\ Countable(Item(key, "info", 1))
                /\ Countable(Item(key, "warning", 1)) /\ Countable(Item(key, "fail", 1))
    /\ \A c, key : /\ Countable(Item(key, IF c THEN "fail" ELSE "pass", 1))
                   /\ Countable(Item(key, IF c THEN "warning" ELSE "pass", 1))
                   /\ Countable(Item(key, IF c THEN "pass" ELSE "warning", 1))
                   /\ Countable(Item(key, IF c THEN "pass" ELSE "fail", 1))
                   /\ Countable(Item(key, IF c THEN "fail" ELSE "warning", 1))
                   /\ Countable(Item(key, IF c THEN "info" ELSE "fail", 1))
    /\ \A c, key : /\ Countable(When(c, key, "pass")) /\ Countable(When(c, key, "info"))
                   /\ Countable(When(c, key, "warning")) /\ Countable(When(c, key, "fail"))
    /\ \A c, key, other : /\ Countable(Judge(c, key, "pass", other, "fail"))
                          /\ Countable(Judge(c, key, "pass", other, "warning"))
                          /\ Countable(Judge(c, key, "pass", other, "info"))
    /\ Countable({})
    /\ \A A, B : Countable(A) /\ Countable(B) => Countable(A \union B)
<1>1. {"pass", "warning", "fail", "info"} \subseteq Status
    BY DEF Status
<1> QED BY <1>1, ItemCountable, WhenCountable, JudgeCountable, NoItem, UnionCountable

(* Items that are counted.                                                  *)
LEMMA ManyItems ==
    ASSUME NEW n \in Int
    PROVE  \A key : /\ Countable(Item(key, "pass", n)) /\ Countable(Item(key, "info", n))
                    /\ Countable(Item(key, "warning", n)) /\ Countable(Item(key, "fail", n))
BY ItemCountable DEF Status

(****************************************************************************)
(* The criteria about links                                                 *)
(****************************************************************************)
LEMMA LinksRight == ASSUME NEW p \in LinksPage PROVE Right(Links(p))
<1>1. ASSUME NEW S \in SUBSET DOMAIN p.links PROVE Cardinality(S) \in Int
    <2>1. p.links \in Seq([to : Destinations, follow : BOOLEAN, button : BOOLEAN,
                           around : Seq(SUBSET STRING)])
        BY DEF LinksPage
    <2> QED BY <2>1, PositionsFinite
<1>2. Countable(BadContacts(p))
    <2> DEFINE phones == Cardinality(LinksTo(p, {"bad phone"}))
               mails  == Cardinality(LinksTo(p, {"bad mail"}))
    <2>1. phones \in Int /\ mails \in Int
        BY <1>1 DEF LinksTo
    <2>2. BadContacts(p) = Item("LINKS.ctc_invalid", "fail", phones)
                           \union Item("LINKS.ctm_invalid", "fail", mails)
        BY DEF BadContacts
    <2> HIDE DEF phones, mails
    <2> QED BY <2>1, <2>2, ManyItems, UnionCountable
<1>3. Countable(Summarize(p))
    <2> DEFINE dangling == Cardinality(LinksTo(p, {"nowhere"}))
               selves   == Cardinality({i \in DOMAIN p.links : SelfReference(p.links[i])})
    <2>1. dangling \in Int /\ selves \in Int
        BY <1>1 DEF LinksTo
    <2>2. Countable(Item("LINKS.empty_anchors", "info", dangling))
          /\ Countable(Item("LINKS.self_reference", "info", selves))
        <3> HIDE DEF dangling, selves
        <3> QED BY <2>1, ManyItems
    <2> QED BY <2>2, AnyItem, Zenon DEF Summarize
<1>4. Countable(BadContacts(p) \union Summarize(p))
    BY <1>2, <1>3, UnionCountable
<1> QED BY <1>4, VerdictRight DEF Links

LEMMA BrokenLinksRight == ASSUME NEW p \in BrokenLinksPage PROVE Right(BrokenLinks(p))
<1>1. ASSUME NEW kind PROVE Sorted(p, kind) \in Int
    <2>1. p.results \in Seq([exhausted : BOOLEAN, status : Nat, social : BOOLEAN, moved : BOOLEAN])
        BY DEF BrokenLinksPage
    <2> QED BY <2>1, PositionsFinite DEF Sorted
<1>2. Countable(BrokenItems(p))
    <2>1. /\ Countable(Item("BROKEN.broken", "fail", Sorted(p, "broken")))
          /\ Countable(Item("BROKEN.timeout", "warning", Sorted(p, "unreachable")))
          /\ Countable(Item("BROKEN.redirected", "info", Sorted(p, "redirected")))
          /\ Countable(Item("BROKEN.link_valid", "info", Sorted(p, "healthy")))
        BY <1>1, ManyItems
    <2> QED BY <2>1, AnyItem, Zenon DEF BrokenItems
<1> DEFINE items == When(p.beyond > 0, NoKey, "info")
                    \union When(Sorted(p, "unverified") > 0, NoKey, "info")
                    \union Item("BROKEN.checked", "pass", 1)
                    \union When(Sorted(p, "broken") = 0, "BROKEN.no_broken", "pass")
                    \union BrokenItems(p)
           f == CountOf(items, "fail")
           w == CountOf(items, "warning")
           note == IF f >= 3 THEN 0 ELSE IF f >= 1 THEN 2
                   ELSE IF w > 2 THEN 3 ELSE IF w > 0 THEN 4 ELSE 5
<1>3. Countable(items)
    BY <1>2, AnyItem, Zenon
<1>4. BrokenLinks(p) = IF p.results = <<>> \/ ~p.net THEN Na({})
                       ELSE Result(StatusOf(f, w), 10 * note, items)
    BY DEF BrokenLinks, Graded
<1> HIDE DEF items
<1>5. f \in Nat /\ w \in Nat
    BY <1>3, CountPositive
<1>6. Scale(note, f, w)
    <2> HIDE DEF f, w
    <2> QED BY <1>5 DEF Scale
<1>7. Right(Result(StatusOf(f, w), 10 * note, items))
    <2> HIDE DEF note
    <2> QED BY <1>3, <1>6, GradedRight
<1>8. Right(Na({}))
    BY NoItem, NaFounded DEF Right
<1> HIDE DEF note, f, w
<1> QED BY <1>4, <1>7, <1>8

LEMMA SplitLinksRight == ASSUME NEW p \in SplitLinksPage PROVE Right(SplitLinks(p))
<1> DEFINE split == Cardinality({i \in DOMAIN p.links : p.links[i].glued})
           twice == Cardinality(Groups(p.links))
           items == Judge(split = 0, "SPLIT.no_split", "pass", "SPLIT.split_found", "fail")
                    \union Item("SPLIT.split_item", "info", split)
                    \union Judge(twice = 0, "SPLIT.no_duplicate", "pass",
                                 "SPLIT.duplicate_found", "fail")
                    \union Item("SPLIT.duplicate_item", "info", twice)
<1>1. split \in Int /\ twice \in Int
    <2>1. p.links \in Seq([to : STRING, glued : BOOLEAN, after : BOOLEAN])
        BY DEF SplitLinksPage
    <2> QED BY <2>1, PositionsFinite DEF Groups
<1>2. SplitLinks(p) = IF ~p.blocks THEN Na({}) ELSE Graded(items, FaultScale)
    BY DEF SplitLinks
<1> HIDE DEF split, twice
<1>3. Countable(items)
    <2>1. /\ Countable(Item("SPLIT.split_item", "info", split))
          /\ Countable(Item("SPLIT.duplicate_item", "info", twice))
        BY <1>1, ManyItems
    <2> QED BY <2>1, AnyItem, Zenon
<1> HIDE DEF items
<1>4. Right(Na({}))
    BY NoItem, NaFounded DEF Right
<1> QED BY <1>2, <1>3, <1>4, VerdictRight

(* The counts of the items of a union.                                      *)
LEMMA SomeItem ==
    ASSUME NEW items, Countable(items), NEW i \in items
    PROVE  CountOf(items, i.status) > 0
BY CountPositive

LEMMA ItemStatus ==
    ASSUME NEW key, NEW status, NEW n
    PROVE  /\ \A i \in Item(key, status, n) : i.status = status
           /\ Item(key, status, 1) # {}
<1>1. CASE n > 0
    BY <1>1 DEF Item
<1>2. CASE ~(n > 0)
    BY <1>2 DEF Item
<1>3. 1 > 0
    OBVIOUS
<1>4. Item(key, status, 1) = {[key |-> key, status |-> status, n |-> 1]}
    BY <1>3 DEF Item
<1>5. Item(key, status, 1) # {}
    BY <1>4
<1> QED BY <1>1, <1>2, <1>5

(* A failure given with a note below 5, whatever the other items.          *)
LEMMA FailsAnyway ==
    ASSUME NEW items, Countable(items), NEW key
    PROVE  Right(Fail(items \union Item(key, "fail", 1), 0))
<1> DEFINE all == items \union Item(key, "fail", 1)
<1>1. Countable(all)
    BY AnyItem, Zenon
<1>2. PICK i \in all : i.status = "fail"
    BY ItemStatus
<1> HIDE DEF all
<1>3. CountOf(all, "fail") > 0 /\ CountOf(all, "fail") \in Nat
    BY <1>1, <1>2, SomeItem, CountPositive
<1>4. Fail(all, 0) = Result("fail", 0, all)
    BY DEF Fail
<1>5. "fail" = StatusOf(CountOf(all, "fail"), CountOf(all, "warning"))
    BY <1>3 DEF StatusOf
<1> QED BY <1>1, <1>4, <1>5, Given DEF Right, all

LEMMA ThreeExpected == IsFiniteSet(Expected) /\ Cardinality(Expected) = 3
<1> DEFINE two == {"home"} \union {"about"}
<1>1. "about" \notin {"home"} /\ "realisations" \notin two /\ Expected = two \union {"realisations"}
    BY DEF Expected
<1>2. IsFiniteSet({"home"}) /\ Cardinality({"home"}) = 1
    BY FS_Singleton
<1>3. IsFiniteSet(two) /\ Cardinality(two) = 2
    BY <1>1, <1>2, FS_AddElement
<1> HIDE DEF two
<1> QED BY <1>1, <1>3, FS_AddElement

(* The verdict of a page is that of its items, but for the pages that miss  *)
(* every expected name.                                                     *)
LEMMA NavRight ==
    ASSUME NEW p \in NavPage
    PROVE  /\ Founded(NavStructure(p)) /\ Scaled(NavStructure(p))
           /\ p.missing # Expected => Judged(NavStructure(p))
<1> DEFINE visible == Visible(p.navs)
           count   == Cardinality(visible)
           hidden  == Cardinality(DOMAIN p.navs \ visible)
           found   == Item("NAV_STRUCTURE.nav_role_found", "pass", 1)
                      \union Item("NAV_STRUCTURE.nav_hidden", "info", hidden)
           chosen  == found \union
                      (IF count > 1
                       THEN Item("NAV_STRUCTURE.nav_detail", "info", count)
                            \union Item("NAV_STRUCTURE.primary_selection", "info", 1)
                       ELSE {})
           named   == chosen \union Item("NAV_STRUCTURE.links_count", "pass", 1)
                      \union ExpectedItems(p.missing)
<1>1. count \in Int /\ hidden \in Int
    <2>1. p.navs \in Seq([hidden : BOOLEAN, links : Nat])
        BY DEF NavPage
    <2> QED BY <2>1, PositionsFinite DEF Visible
<1>2. NavStructure(p) =
        IF ~p.header \/ p.navs = <<>> THEN Na({})
        ELSE IF visible = {} THEN Fail(found \union Item("NAV_STRUCTURE.all_hidden", "fail", 1), 0)
        ELSE IF p.navs[Min(visible)].links = 0
             THEN Fail(chosen \union Item("NAV_STRUCTURE.no_links", "fail", 1), 0)
        ELSE NavVerdict(Cardinality(p.missing), named)
    BY DEF NavStructure
<1> HIDE DEF visible, hidden, count
<1>3. /\ Countable(found) /\ Countable(chosen)
      /\ \A i \in chosen : i.status \in {"pass", "info"}
      /\ \A i \in found : i.status \in {"pass", "info"}
    <2>1. Countable(Item("NAV_STRUCTURE.nav_hidden", "info", hidden))
          /\ Countable(Item("NAV_STRUCTURE.nav_detail", "info", count))
        BY <1>1, ManyItems
    <2>2. Countable(found) /\ Countable(chosen)
        BY <2>1, AnyItem, Zenon
    <2>3. \A key, n : /\ \A i \in Item(key, "pass", n) : i.status \in {"pass", "info"}
                      /\ \A i \in Item(key, "info", n) : i.status \in {"pass", "info"}
        BY ItemStatus
    <2>4. \A i \in found : i.status \in {"pass", "info"}
        BY <2>3, Zenon
    <2>5. \A i \in chosen : i.status \in {"pass", "info"}
        <3> HIDE DEF found
        <3> QED BY <2>3, <2>4, Zenon
    <2> QED BY <2>2, <2>4, <2>5
<1> HIDE DEF found, chosen
<1>4. Right(Na({}))
    BY NoItem, NaFounded DEF Right
<1>5. ASSUME NEW items, Countable(items), NEW key
      PROVE  Right(Fail(items \union Item(key, "fail", 1), 0))
    BY <1>5, FailsAnyway
<1>6. /\ Countable(named) /\ CountOf(named, "fail") = 0
      /\ CountOf(named, "warning") \in Nat
      /\ CountOf(named, "warning") = 0 <=> p.missing = {}
    <2> DEFINE there == [e \in Expected |-> Item("NAV_STRUCTURE." \o e \o "_present", "pass", 1)]
               gone  == [e \in Expected |-> Item("NAV_STRUCTURE." \o e \o "_missing", "warning", 1)]
               P == UNION {there[e] : e \in Expected \ p.missing}
               M == UNION {gone[e] : e \in p.missing}
    <2>0. p.missing \in SUBSET Expected /\ IsFiniteSet(p.missing) /\ IsFiniteSet(Expected \ p.missing)
        <3>1. p.missing \in SUBSET Expected
            BY DEF NavPage
        <3> QED BY <3>1, ThreeExpected, FS_Subset
    <2>1. ExpectedItems(p.missing) = P \union M
        <3>1. {there[e] : e \in Expected \ p.missing}
                = {Item("NAV_STRUCTURE." \o e \o "_present", "pass", 1) : e \in Expected \ p.missing}
            BY <2>0
        <3>2. {gone[e] : e \in p.missing}
                = {Item("NAV_STRUCTURE." \o e \o "_missing", "warning", 1) : e \in p.missing}
            BY <2>0
        <3> HIDE DEF there, gone
        <3> QED BY <3>1, <3>2 DEF ExpectedItems
    <2>2. /\ \A e \in Expected : Countable(there[e]) /\ Countable(gone[e])
        BY AnyItem
    <2>3. /\ \A e \in Expected : \A i \in there[e] : i.status = "pass"
          /\ \A e \in Expected : /\ \A i \in gone[e] : i.status = "warning"
                                 /\ gone[e] # {}
        <3>1. \A key : Item(key, "warning", 1) # {}
            BY DEF Item
        <3> QED BY <3>1, ItemStatus
    <2> HIDE DEF there, gone
    <2>4. Countable(P) /\ Countable(M)
        BY <2>0, <2>2, AllCountable
    <2>5. /\ \A i \in P : i.status = "pass"
          /\ \A i \in M : i.status = "warning"
          /\ M = {} <=> p.missing = {}
        BY <2>0, <2>3
    <2> HIDE DEF P, M
    <2>6. Countable(named)
        BY <1>3, <2>1, <2>4, AnyItem, Zenon
    <2>7. \A i \in named : i.status # "fail"
        <3>1. \A i \in Item("NAV_STRUCTURE.links_count", "pass", 1) : i.status = "pass"
            BY DEF Item
        <3> QED BY <1>3, <2>1, <2>5, <3>1
    <2>8. (\A i \in named : i.status # "warning") <=> p.missing = {}
        <3>1. \A i \in Item("NAV_STRUCTURE.links_count", "pass", 1) : i.status = "pass"
            BY DEF Item
        <3> QED BY <1>3, <2>1, <2>5, <3>1
    <2> HIDE DEF named
    <2> QED BY <2>6, <2>7, <2>8, CountPositive
<1>7. /\ Founded(NavVerdict(Cardinality(p.missing), named))
      /\ Scaled(NavVerdict(Cardinality(p.missing), named))
      /\ p.missing # Expected => Judged(NavVerdict(Cardinality(p.missing), named))
    <2>1. Cardinality(Expected) = 3
        BY ThreeExpected
    <2>2. p.missing \in SUBSET Expected /\ IsFiniteSet(Expected)
        BY ThreeExpected DEF NavPage
    <2> DEFINE lost == Cardinality(p.missing)
    <2>3. lost \in 0..3 /\ (lost = 0 <=> p.missing = {}) /\ (lost = 3 <=> p.missing = Expected)
        BY <2>1, <2>2, FS_Subset, FS_EmptySet, FS_CardinalityType
    <2>4. NavVerdict(lost, named) = IF lost = 0 THEN Pass(named)
                                    ELSE IF lost = 3 THEN Fail(named, 0)
                                    ELSE Warn(named, IF lost = 1 THEN 3 ELSE 2)
        <3> HIDE DEF lost
        <3> QED BY <2>1, <2>3 DEF NavVerdict
    <2> HIDE DEF named
    <2>5. CASE lost = 0
        <3>1. CountOf(named, "warning") = 0
            BY <1>6, <2>3, <2>5
        <3>2. NavVerdict(lost, named) = Pass(named)
            BY <2>4, <2>5
        <3> HIDE DEF lost
        <3>3. "pass" = StatusOf(CountOf(named, "fail"), CountOf(named, "warning"))
            BY <1>6, <3>1 DEF StatusOf
        <3>4. NavVerdict(lost, named) = Result("pass", 50, named)
            BY <3>2 DEF Pass, Full
        <3> QED BY <1>6, <3>1, <3>3, <3>4, Given DEF lost
    <2>6. CASE lost \in {1, 2}
        <3> DEFINE note == IF lost = 1 THEN 3 ELSE 2
        <3>1. CountOf(named, "warning") > 0
            BY <1>6, <2>3, <2>6
        <3>2. NavVerdict(lost, named) = Warn(named, note) /\ note \in 2..3
            BY <2>4, <2>6
        <3> HIDE DEF lost, note
        <3>3. "warning" = StatusOf(CountOf(named, "fail"), CountOf(named, "warning"))
            BY <1>6, <3>1 DEF StatusOf
        <3>4. NavVerdict(lost, named) = Result("warning", 10 * note, named)
              /\ 10 * note \in 20..30
            BY <3>2 DEF Warn
        <3> QED BY <1>6, <3>1, <3>3, <3>4, Given DEF lost
    <2>7. CASE lost = 3
        <3>1. p.missing = Expected
            BY <2>3, <2>7
        <3>2. NavVerdict(lost, named) = Fail(named, 0)
            BY <2>4, <2>7
        <3> HIDE DEF lost
        <3>4. NavVerdict(lost, named) = Result("fail", 0, named)
            BY <3>2 DEF Fail, Full
        <3> QED BY <1>6, <3>1, <3>4, Given DEF lost
    <2> QED BY <2>3, <2>5, <2>6, <2>7
<1> HIDE DEF named
<1> QED BY <1>2, <1>3, <1>4, <1>5, <1>7 DEF Right

LEMMA CtaRight == ASSUME NEW p \in CtaPage PROVE Right(Cta(p))
<1>1. \A key, other : Countable(Contact(p.noPhone, p.badPhone, key, other))
                      /\ Countable(Contact(p.noEmail, p.badEmail, key, other))
    BY AnyItem, Zenon DEF Contact
<1> DEFINE noCta == /\ p.noButton > 0 /\ p.noPhone > 0 /\ p.noEmail > 0
                    /\ p.ctaLinks = 0 /\ p.imageLinks = 0
           items == Item("CTA.button_count", IF p.noButton > 0 THEN "warning" ELSE "pass", 1)
                    \union When(p.noButton = 0 /\ p.emptyButtons > 0, "CTA.buttons_empty", "info")
                    \union When(p.ctaLinks > 0, "CTA.cta_links", "pass")
                    \union When(p.imageLinks > 0, "CTA.image_links", "info")
                    \union Contact(p.noPhone, p.badPhone, "CTA.phone_count", "CTA.no_phone")
                    \union Contact(p.noEmail, p.badEmail, "CTA.email_count", "CTA.no_email")
                    \union When(noCta, "CTA.no_cta", "fail")
<1>2. Countable(items)
    BY <1>1, AnyItem, Zenon
<1>3. Cta(p) = Graded(items, FaultScale)
    BY DEF Cta
<1> HIDE DEF items
<1> QED BY <1>2, <1>3, VerdictRight

(****************************************************************************)
(* Results that are given at once                                           *)
(****************************************************************************)
LEMMA EmptyRight == Right(Na({}))
BY NoItem, NaFounded DEF Right

(* One item, and the verdict that it calls for.                             *)
LEMMA OneFailure ==
    ASSUME NEW key
    PROVE  /\ \A note \in 0..4 : Right(Fail(Item(key, "fail", 1), note))
           /\ \A note \in 0..4 : Right(Warn(Item(key, "warning", 1), note))
           /\ Right(Pass(Item(key, "pass", 1))) /\ Right(Pass(Item(key, "info", 1)))
<1> DEFINE F == Item(key, "fail", 1)
           W == Item(key, "warning", 1)
           P == Item(key, "pass", 1)
           I == Item(key, "info", 1)
<1>1. Countable(F) /\ Countable(W) /\ Countable(P) /\ Countable(I)
    BY AnyItem
<1>2. /\ CountOf(F, "fail") > 0 /\ CountOf(F, "fail") \in Nat
      /\ CountOf(W, "fail") = 0 /\ CountOf(W, "warning") > 0 /\ CountOf(W, "warning") \in Nat
      /\ CountOf(P, "fail") = 0 /\ CountOf(P, "warning") = 0
      /\ CountOf(I, "fail") = 0 /\ CountOf(I, "warning") = 0
    <2>1. /\ F # {} /\ \A i \in F : i.status = "fail"
          /\ W # {} /\ \A i \in W : i.status = "warning"
          /\ \A i \in P : i.status = "pass"
          /\ \A i \in I : i.status = "info"
        BY ItemStatus
    <2> HIDE DEF F, W, P, I
    <2> QED BY <1>1, <2>1, CountPositive
<1> HIDE DEF F, W, P, I
<1>3. /\ "fail" = StatusOf(CountOf(F, "fail"), CountOf(F, "warning"))
      /\ "warning" = StatusOf(CountOf(W, "fail"), CountOf(W, "warning"))
      /\ "pass" = StatusOf(CountOf(P, "fail"), CountOf(P, "warning"))
      /\ "pass" = StatusOf(CountOf(I, "fail"), CountOf(I, "warning"))
    BY <1>2 DEF StatusOf
<1>4. \A note \in 0..4 : Right(Fail(F, note)) /\ Right(Warn(W, note))
    <2> TAKE note \in 0..4
    <2>1. 10 * note \in 0..50 /\ 10 * note # 50
        OBVIOUS
    <2> QED BY <1>1, <1>3, <2>1, Given DEF Right, Fail, Warn
<1>5. Right(Pass(P)) /\ Right(Pass(I))
    BY <1>1, <1>3, Given DEF Right, Pass, Full
<1> QED BY <1>4, <1>5 DEF F, W, P, I

(****************************************************************************)
(* The criteria about the head                                              *)
(****************************************************************************)

LEMMA MetasRight == ASSUME NEW p \in MetasPage PROVE Right(Metas(p))
<1> DEFINE items == BoundedText(p.title, "METAS.title_")
                    \union BoundedText(p.description, "METAS.desc_")
                    \union (IF p.noindex = 0 THEN {}
                            ELSE IF p.preview THEN Item("METAS.noindex_preview", "info", 1)
                            ELSE Item("METAS.noindex", "fail", 1))
           f == CountOf(items, "fail")
           w == CountOf(items, "warning")
           note == IF f > 1 THEN 1 ELSE IF f = 1 THEN 2 ELSE IF w > 0 THEN 3 ELSE 5
<1>0. \A text, prefix : Countable(BoundedText(text, prefix))
    <2> TAKE text, prefix
    <2>1. (CASE text = "none" -> "fail" [] text = "fits" -> "pass" [] OTHER -> "warning") \in Status
        BY DEF Status
    <2> QED BY <2>1, ItemCountable DEF BoundedText
<1>1. Countable(items)
    BY <1>0, AnyItem, Zenon
<1>2. Metas(p) = Result(StatusOf(f, w), 10 * note, items)
    BY DEF Metas, Graded
<1> HIDE DEF items
<1>3. f \in Nat /\ w \in Nat
    BY <1>1, CountPositive
<1>4. Scale(note, f, w)
    <2> HIDE DEF f, w
    <2> QED BY <1>3 DEF Scale
<1>5. Right(Result(StatusOf(f, w), 10 * note, items))
    <2> HIDE DEF note
    <2> QED BY <1>1, <1>4, GradedRight
<1> HIDE DEF note, f, w
<1> QED BY <1>2, <1>5

LEMMA CanonicalRight == ASSUME NEW p \in CanonicalPage PROVE Right(Canonical(p))
<1> DEFINE many  == When(p.tags > 1, "CANONICAL.multiple", "fail")
           found == many \union Item("CANONICAL.url_ok", "pass", 1)
           wrong == found \union Item("CANONICAL.invalid_url", "fail", 1)
           items == found \union When(p.otherDomain > 0, "CANONICAL.cross_domain", "warning")
                    \union When(p.query > 0, "CANONICAL.query_fragment", "warning")
                    \union When(p.http > 0, "CANONICAL.http", "warning")
<1>1. Countable(wrong) /\ Countable(items) /\ Countable(many)
    BY AnyItem, Zenon
<1>2. Canonical(p) =
        IF p.tags = 0 THEN Fail(Item("CANONICAL.missing", "fail", 1), 0)
        ELSE IF p.noHref > 0 THEN Fail(many \union Item("CANONICAL.no_href", "fail", 1), 0)
        ELSE IF p.unreadable > 0 THEN VerdictOf(wrong) ELSE VerdictOf(items)
    BY DEF Canonical
<1> HIDE DEF many, wrong, items
<1>3. Right(Fail(many \union Item("CANONICAL.no_href", "fail", 1), 0))
    BY <1>1, FailsAnyway
<1>4. Right(VerdictOf(wrong)) /\ Right(VerdictOf(items))
    BY <1>1, VerdictRight
<1>5. Right(Fail(Item("CANONICAL.missing", "fail", 1), 0))
    BY OneFailure
<1> QED BY <1>2, <1>3, <1>4, <1>5

LEMMA RobotsMetaRight == ASSUME NEW p \in RobotsPage PROVE Right(RobotsMeta(p))
<1> DEFINE directives == p.meta \union p.header
           items == Item(IF directives = {} THEN "ROBOTS.no_directive" ELSE "ROBOTS.directive_ok", "pass", 1)
                    \union (IF "noindex" \in directives
                            THEN Item("ROBOTS.noindex", IF p.preview THEN "info" ELSE "fail", 1)
                            ELSE {})
                    \union When("nofollow" \in directives, "ROBOTS.nofollow", "warning")
                    \union When("noarchive" \in directives, "ROBOTS.noarchive", "warning")
                    \union When(p.header # {}, "ROBOTS.x_robots_tag", "info")
                    \union RobotsTxt(p)
           f == CountOf(items, "fail")
           w == CountOf(items, "warning")
           note == IF f > 0 THEN 0 ELSE IF w >= 2 THEN 3 ELSE IF w = 1 THEN 4 ELSE 5
<1>0. Countable(RobotsTxt(p))
    <2>1. \A key, other : Countable(IF p.robots = 0 THEN Item(key, "warning", 1)
                                    ELSE Item(other, "warning", 1))
        BY AnyItem, Zenon
    <2> QED BY AnyItem DEF RobotsTxt
<1>1. Countable(items)
    BY <1>0, AnyItem, Zenon
<1>2. RobotsMeta(p) = Result(StatusOf(f, w), 10 * note, items)
    BY DEF RobotsMeta, Graded
<1> HIDE DEF items
<1>3. f \in Nat /\ w \in Nat
    BY <1>1, CountPositive
<1>4. Scale(note, f, w)
    <2> HIDE DEF f, w
    <2> QED BY <1>3 DEF Scale
<1>5. Right(Result(StatusOf(f, w), 10 * note, items))
    <2> HIDE DEF note
    <2> QED BY <1>1, <1>4, GradedRight
<1> HIDE DEF note, f, w
<1> QED BY <1>2, <1>5

LEMMA OpenGraphRight == ASSUME NEW p \in OpenGraphPage PROVE Right(OpenGraph(p))
<1> DEFINE items == Item("OG.property", "pass", 4 - p.missing)
                    \union When(p.missing > 0, "OG.missing", "warning")
                    \union Judge(p.twitter, "OG.twitter_card", "pass",
                                 "OG.twitter_missing", "info")
<1>0. Countable(Item("OG.property", "pass", 4 - p.missing))
    BY ManyItems DEF OpenGraphPage
<1>1. Countable(items)
    BY <1>0, AnyItem, Zenon
<1>2. OpenGraph(p) = VerdictOf(items)
    BY DEF OpenGraph
<1> HIDE DEF items
<1> QED BY <1>1, <1>2, VerdictRight

LEMMA LangRight == ASSUME NEW p \in LangPage PROVE Right(Lang(p))
<1> DEFINE items == (IF p.noLang > 0 THEN Item("LANG.missing", "fail", 1)
                     ELSE Judge(p.unusual = 0, "LANG.ok", "pass", "LANG.unusual", "warning"))
                    \union When(p.content # "none", "LANG.content_language", "pass")
                    \union When(p.content = "other" /\ p.noLang = 0,
                                "LANG.lang_mismatch", "warning")
                    \union When(p.alternates, "LANG.hreflang_count", "pass")
                    \union When(p.alternates /\ p.noDefault > 0,
                                "LANG.hreflang_no_default", "warning")
                    \union When(p.rtl, "LANG.rtl", "pass")
<1>1. Countable(items)
    BY AnyItem, Zenon
<1>2. Lang(p) = VerdictOf(items)
    BY DEF Lang
<1> HIDE DEF items
<1> QED BY <1>1, <1>2, VerdictRight

LEMMA FaviconRight == ASSUME NEW p \in FaviconPage PROVE Right(Favicon(p))
<1> DEFINE defaults == (IF p.standard = "duda" THEN 1 ELSE 0) + (IF p.apple = "duda" THEN 1 ELSE 0)
           items == When(p.standard = "none", "FAVICON.missing", "warning")
                    \union When(p.apple = "none", "FAVICON.apple_touch_missing", "warning")
                    \union Item("FAVICON.duda_default", "warning", defaults)
                    \union When(p.standard = "own", "FAVICON.present", "pass")
                    \union When(p.apple = "own", "FAVICON.apple_touch", "pass")
                    \union When(p.sizes, "FAVICON.sizes", "pass")
<1>0. Countable(Item("FAVICON.duda_default", "warning", defaults))
    <2>1. defaults \in Int
        OBVIOUS
    <2> HIDE DEF defaults
    <2> QED BY <2>1, ManyItems
<1>1. Countable(items)
    BY <1>0, AnyItem, Zenon
<1>2. Favicon(p) = IF p.standard = "none" /\ p.apple = "none"
                   THEN Fail(Item("FAVICON.missing", "fail", 1), 0) ELSE VerdictOf(items)
    BY DEF Favicon
<1> HIDE DEF items
<1> QED BY <1>1, <1>2, VerdictRight, EmptyRight, OneFailure

LEMMA RedirectsRight == ASSUME NEW p \in RedirectsPage PROVE Right(Redirects(p))
<1> DEFINE items == Item("REDIRECTS.hop", "info", p.hops)
                    \union When(p.hops > 1, "REDIRECTS.chain_long", "warning")
                    \union When(p.temporary > 0, "REDIRECTS.temporary", "warning")
<1>0. Countable(Item("REDIRECTS.hop", "info", p.hops))
    BY ManyItems DEF RedirectsPage
<1>1. Countable(items)
    BY <1>0, AnyItem, Zenon
<1>2. Redirects(p) = IF p.hops = 0 THEN Pass(Item("REDIRECTS.none", "pass", 1)) ELSE VerdictOf(items)
    BY DEF Redirects
<1> HIDE DEF items
<1> QED BY <1>1, <1>2, VerdictRight, EmptyRight, OneFailure

LEMMA TrackingRight == ASSUME NEW p \in TrackingPage PROVE Right(Tracking(p))
<1> DEFINE items == Item("TRACKING.tool_detected", "pass", p.tools)
                    \union Judge(p.tools > 0, "TRACKING.count", "pass", "TRACKING.none", "warning")
                    \union When(p.noConsent = 0, "TRACKING.cmp_ok", "pass")
                    \union When(p.noConsent > 0 /\ p.tools > 0, "TRACKING.no_cmp", "fail")
<1>0. Countable(Item("TRACKING.tool_detected", "pass", p.tools))
    BY ManyItems DEF TrackingPage
<1>1. Countable(items)
    BY <1>0, AnyItem, Zenon
<1>2. Tracking(p) = VerdictOf(items)
    BY DEF Tracking
<1> HIDE DEF items
<1> QED BY <1>1, <1>2, VerdictRight

LEMMA DudaRight == ASSUME NEW p \in DudaPage PROVE Right(DudaParams(p))
<1> DEFINE items == Item(NoKey, "info", 1) \union When(p.shop, NoKey, "pass")
<1>1. Countable(items)
    BY AnyItem, Zenon
<1>2. \A i \in items : i.status \in {"info", "pass"}
    BY ItemStatus DEF When
<1>3. DudaParams(p) = IF ~p.duda THEN Na({}) ELSE Na(items)
    BY DEF DudaParams
<1> HIDE DEF items
<1> QED BY <1>1, <1>2, <1>3, EmptyRight, NaFounded DEF Right

(* The items of the nodes of a page, numbered by their node.                *)
LEMMA NodesCountable ==
    ASSUME NEW p \in StructuredDataPage
    PROVE  /\ \A k \in DOMAIN p.nodes : Countable(NodeItems(p.nodes[k], p.fiveImages))
           /\ Countable(UNION {{[key |-> i.key, status |-> i.status, n |-> i.n, node |-> k]
                : i \in NodeItems(p.nodes[k], p.fiveImages)} : k \in DOMAIN p.nodes})
<1> DEFINE Kinds == [kind : STRING, lacks : SUBSET {"name", "contact", "address"},
                     images : {"few", "repeated", "five"}]
<1>1. p.nodes \in Seq(Kinds)
    BY DEF StructuredDataPage
<1>2. ASSUME NEW node \in Kinds, NEW five PROVE Countable(NodeItems(node, five))
    <2> DEFINE lacking == [f \in node.lacks |-> Item("SD.lb_" \o f \o "_missing", "warning", 1)]
               L == UNION {lacking[f] : f \in node.lacks}
               pictures == CASE node.images = "few" -> "fail"
                             [] node.images = "repeated" -> "warning"
                             [] node.images = "five" -> "pass"
    <2>1. Countable(L)
        <3>1. IsFiniteSet(node.lacks)
            <4>1. IsFiniteSet({"name", "contact", "address"})
                BY FewFinite, Zenon
            <4> QED BY <4>1, FS_Subset
        <3>2. \A f \in node.lacks : Countable(lacking[f])
            BY AnyItem
        <3> HIDE DEF lacking
        <3> QED BY <3>1, <3>2, AllCountable
    <2>2. L = UNION {Item("SD.lb_" \o f \o "_missing", "warning", 1) : f \in node.lacks}
        <3>1. {lacking[f] : f \in node.lacks}
                = {Item("SD.lb_" \o f \o "_missing", "warning", 1) : f \in node.lacks}
            OBVIOUS
        <3> QED BY <3>1
    <2>3. Countable(Item("SD.lb_five_images", pictures, 1))
        <3>1. pictures \in Status
            BY DEF Status
        <3> HIDE DEF pictures
        <3> QED BY <3>1, ItemCountable
    <2> DEFINE three == Item("SD.type_block", "pass", 1)
                        \union Item("SD.breadcrumb_empty", "warning", 1)
               whole == Item("SD.type_block", "pass", 1) \union L
                        \union (IF ~five THEN {} ELSE Item("SD.lb_five_images", pictures, 1))
    <2>4. Countable(three) /\ Countable(whole) /\ Countable(Item("SD.type_missing", "warning", 1))
          /\ Countable(Item("SD.type_block", "pass", 1))
        <3> HIDE DEF L, pictures
        <3> QED BY <2>1, <2>3, AnyItem, Zenon
    <2>5. NodeItems(node, five) = CASE node.kind = "untyped" -> Item("SD.type_missing", "warning", 1)
                                    [] node.kind = "empty breadcrumb" -> three
                                    [] node.kind = "entity" -> whole
                                    [] OTHER -> Item("SD.type_block", "pass", 1)
        <3> HIDE DEF L
        <3>1. L = UNION {Item("SD.lb_" \o f \o "_missing", "warning", 1) : f \in node.lacks}
            BY <2>2
        <3> QED BY <3>1, Zenon DEF NodeItems
    <2> HIDE DEF three, whole
    <2> QED BY <2>4, <2>5
<1>3. \A k \in DOMAIN p.nodes : Countable(NodeItems(p.nodes[k], p.fiveImages))
    <2> HIDE DEF Kinds
    <2>1. \A k \in DOMAIN p.nodes : p.nodes[k] \in Kinds
        BY <1>1
    <2> QED BY <1>2, <2>1
<1> DEFINE Numbered(k) == {[key |-> i.key, status |-> i.status, n |-> i.n, node |-> k]
                             : i \in NodeItems(p.nodes[k], p.fiveImages)}
           F == [k \in DOMAIN p.nodes |-> Numbered(k)]
<1>4. \A k \in DOMAIN p.nodes : Countable(F[k])
    <2> TAKE k \in DOMAIN p.nodes
    <2> DEFINE I == NodeItems(p.nodes[k], p.fiveImages)
               g == [i \in I |-> [key |-> i.key, status |-> i.status, n |-> i.n, node |-> k]]
    <2>1. IsFiniteSet(I) /\ \A i \in I : i.status \in Status /\ i.n \in Nat \ {0}
        BY <1>3 DEF Countable
    <2> HIDE DEF I
    <2>2. g \in Surjection(I, Numbered(k))
        BY DEF Surjection, I
    <2>3. IsFiniteSet(Numbered(k))
        <3> HIDE DEF g, Numbered
        <3> QED BY <2>1, <2>2, FS_Surjection
    <2>4. \A i \in Numbered(k) : /\ {"status", "n"} \subseteq DOMAIN i
                                  /\ i.status \in Status /\ i.n \in Nat \ {0}
        BY <2>1 DEF I
    <2> HIDE DEF Numbered
    <2> QED BY <2>3, <2>4 DEF Countable
<1>5. IsFiniteSet(DOMAIN p.nodes)
    BY <1>1, PositionsFinite
<1>6. {F[k] : k \in DOMAIN p.nodes} = {Numbered(k) : k \in DOMAIN p.nodes}
    <2> HIDE DEF Numbered
    <2> QED OBVIOUS
<1>7. Countable(UNION {F[k] : k \in DOMAIN p.nodes})
    <2> HIDE DEF F
    <2> QED BY <1>4, <1>5, AllCountable
<1> QED BY <1>3, <1>6, <1>7

LEMMA StructuredDataRight == ASSUME NEW p \in StructuredDataPage PROVE Right(StructuredData(p))
<1> DEFINE numbered == UNION {{[key |-> i.key, status |-> i.status, n |-> i.n, node |-> k]
                                 : i \in NodeItems(p.nodes[k], p.fiveImages)}
                                 : k \in DOMAIN p.nodes}
           items == When(p.invalid > 0, "SD.json_invalid", "fail")
                    \union Judge(p.nodes # <<>>, "SD.json_ld_count", "pass",
                                 "SD.no_json_ld", "warning")
                    \union When(p.microdata, "SD.microdata", "pass")
                    \union numbered
           f == CountOf(items, "fail")
           w == CountOf(items, "warning")
           note == IF f > 0 THEN 1 ELSE IF w >= 3 THEN 2 ELSE IF w >= 1 THEN 3 ELSE 5
<1>0. Countable(numbered)
    BY NodesCountable
<1>1. Countable(items)
    BY <1>0, AnyItem, Zenon
<1>2. StructuredData(p) = Result(StatusOf(f, w), 10 * note, items)
    BY DEF StructuredData, Graded
<1> HIDE DEF items
<1>3. f \in Nat /\ w \in Nat
    BY <1>1, CountPositive
<1>4. Scale(note, f, w)
    <2> HIDE DEF f, w
    <2> QED BY <1>3 DEF Scale
<1>5. Right(Result(StatusOf(f, w), 10 * note, items))
    <2> HIDE DEF note
    <2> QED BY <1>1, <1>4, GradedRight
<1> HIDE DEF note, f, w
<1> QED BY <1>2, <1>5

(****************************************************************************)
(* The criteria about the law and the editor                                *)
(****************************************************************************)
LEMMA LegalRight == ASSUME NEW p \in LegalPage PROVE Right(MentionsLegales(p))
<1>1. Countable(LegalLink(p))
    BY AnyItem, Zenon DEF LegalLink
<1>2. Countable(LegalNotices(p))
    BY AnyItem, Zenon DEF LegalNotices
<1>3. Countable(Hosting(p))
    BY AnyItem, Zenon DEF Hosting
<1>4. Countable(LegalLink(p) \union LegalNotices(p) \union Hosting(p))
    BY <1>1, <1>2, <1>3, AnyItem, Zenon
<1> QED BY <1>4, VerdictRight DEF MentionsLegales

LEMMA FieldsFinite ==
    IsFiniteSet(Mandatory) /\ IsFiniteSet(Optional) /\ IsFiniteSet(Mandatory \union Optional)
<1>1. Mandatory = {"raisonsociale"} \union {"juridique"} \union {"capitalsocial"}
                  \union {"adresse"} \union {"email"} \union {"telephone"}
                  \union {"rcs"} \union {"siret"} \union {"directeur"}
    BY DEF Mandatory
<1>2. Optional = {"tva"} \union {"reglespro"} \union {"titrepro"}
                 \union {"etat"} \union {"ordre"} \union {"specifique"}
                 \union {"champlibre"} \union {"mediateur"} \union {"mentionsobligatoires"}
    BY DEF Optional
<1>3. \A a, b, c : IsFiniteSet({a}) /\ IsFiniteSet({a} \union {b}) /\ IsFiniteSet({a} \union {b} \union {c})
    BY FS_Singleton, FS_Union
<1>4. \A A, B : IsFiniteSet(A) /\ IsFiniteSet(B) => IsFiniteSet(A \union B)
    BY FS_Union
<1>5. IsFiniteSet(Mandatory)
    BY <1>1, <1>3, <1>4, Zenon
<1>6. IsFiniteSet(Optional)
    BY <1>2, <1>3, <1>4, Zenon
<1> QED BY <1>4, <1>5, <1>6

LEMMA LegalFieldsCountable == ASSUME NEW p \in LegalDataPage PROVE Countable(LegalFields(p))
<1> DEFINE bound   == IF p.widget = "config" THEN Mandatory \union Optional
                      ELSE (Mandatory \union Optional) \ p.unbound
           unread  == IF p.widget = "config" THEN {} ELSE p.unread \intersect bound
           filled  == (bound \ unread) \ p.empty
           missing == (Mandatory \union Optional) \ (filled \union unread)
           G(f) == Item("ML_DATA.binding_" \o f, IF f \in Mandatory THEN "fail" ELSE "warning", 1)
           U(f) == Item("ML_DATA.binding_" \o f, "info", 1)
           V(f) == Item("ML_DATA.binding_" \o f,
                        IF f = "rcs" THEN ValidateRcs(p, filled) ELSE "pass", 1)
<1>1. LegalFields(p) = (UNION {G(f) : f \in missing}) \union (UNION {U(f) : f \in unread})
                       \union (UNION {V(f) : f \in filled})
    BY DEF LegalFields
<1>2. IsFiniteSet(missing) /\ IsFiniteSet(unread) /\ IsFiniteSet(filled)
    <2>1. /\ missing \in SUBSET (Mandatory \union Optional)
          /\ unread \in SUBSET (Mandatory \union Optional)
          /\ filled \in SUBSET (Mandatory \union Optional)
        OBVIOUS
    <2> HIDE DEF missing, unread, filled
    <2> QED BY <2>1, FieldsFinite, FS_Subset
<1>3. \A f : Countable(G(f)) /\ Countable(U(f)) /\ Countable(V(f))
    <2> TAKE f
    <2>1. /\ (IF f \in Mandatory THEN "fail" ELSE "warning") \in Status
          /\ (IF f = "rcs" THEN ValidateRcs(p, filled) ELSE "pass") \in Status
        <3> HIDE DEF filled
        <3> QED BY DEF Status, ValidateRcs
    <2> HIDE DEF filled
    <2> QED BY <2>1, ItemCountable, AnyItem
<1> HIDE DEF missing, unread, filled, G, U, V
<1>4. Countable(UNION {G(f) : f \in missing})
    <2> DEFINE F == [f \in missing |-> G(f)]
    <2>1. {F[f] : f \in missing} = {G(f) : f \in missing} /\ \A f \in missing : Countable(F[f])
        BY <1>3
    <2>2. Countable(UNION {F[f] : f \in missing})
        <3> HIDE DEF F
        <3> QED BY <1>2, <2>1, AllCountable
    <2> QED BY <2>1, <2>2
<1>5. Countable(UNION {U(f) : f \in unread})
    <2> DEFINE F == [f \in unread |-> U(f)]
    <2>1. {F[f] : f \in unread} = {U(f) : f \in unread} /\ \A f \in unread : Countable(F[f])
        BY <1>3
    <2>2. Countable(UNION {F[f] : f \in unread})
        <3> HIDE DEF F
        <3> QED BY <1>2, <2>1, AllCountable
    <2> QED BY <2>1, <2>2
<1>6. Countable(UNION {V(f) : f \in filled})
    <2> DEFINE F == [f \in filled |-> V(f)]
    <2>1. {F[f] : f \in filled} = {V(f) : f \in filled} /\ \A f \in filled : Countable(F[f])
        BY <1>3
    <2>2. Countable(UNION {F[f] : f \in filled})
        <3> HIDE DEF F
        <3> QED BY <1>2, <2>1, AllCountable
    <2> QED BY <2>1, <2>2
<1>7. Countable((UNION {G(f) : f \in missing}) \union (UNION {U(f) : f \in unread})
                \union (UNION {V(f) : f \in filled}))
    BY <1>4, <1>5, <1>6, AnyItem, Zenon
<1> QED BY <1>1, <1>7, Zenon

LEMMA MentionsLegalesDataRight == ASSUME NEW p \in LegalDataPage PROVE Right(MentionsLegalesData(p))
<1> DEFINE items == Item("ML_DATA.widget_found", "pass", 1) \union LegalFields(p)
           f == CountOf(items, "fail")
           w == CountOf(items, "warning")
           note == IF f >= 3 THEN 0 ELSE IF f >= 1 THEN 2
                   ELSE IF w >= 5 THEN 3 ELSE IF w > 0 THEN 4 ELSE 5
<1>1. Countable(items)
    BY LegalFieldsCountable, AnyItem, Zenon
<1>2. MentionsLegalesData(p) = IF ~p.duda \/ ~p.legalPage THEN Na({})
                              ELSE IF p.widget = "none"
                                   THEN Fail(Item("ML_DATA.widget_missing", "fail", 1), 0)
                              ELSE Result(StatusOf(f, w), 10 * note, items)
    BY DEF MentionsLegalesData, Graded
<1> HIDE DEF items
<1>3. f \in Nat /\ w \in Nat
    BY <1>1, CountPositive
<1>4. Scale(note, f, w)
    <2> HIDE DEF f, w
    <2> QED BY <1>3 DEF Scale
<1>5. Right(Result(StatusOf(f, w), 10 * note, items))
    <2> HIDE DEF note
    <2> QED BY <1>1, <1>4, GradedRight
<1> HIDE DEF note, f, w
<1> QED BY <1>2, <1>5, EmptyRight, OneFailure

(* Nothing of DATA_BINDING is a failure: its scale looks at warnings only.  *)
LEMMA BindingItemsSound ==
    ASSUME NEW p \in DataBindingPage
    PROVE  LET items ==
                 Item("DATA_BINDING.footer_address", IF p.noFooter > 0 THEN "warning" ELSE "pass", 1)
                 \union Judge(p.noField = 0, "DATA_BINDING.data_field_count", "pass",
                              "DATA_BINDING.no_data_field", "warning")
                 \union When(p.noField = 0 /\ p.emptyFields > 0,
                             "DATA_BINDING.empty_data_field", "warning")
                 \union BindingItems(p)
                 \union Item("DATA_BINDING.ctc_count", "pass", 1)
                 \union Item("DATA_BINDING.ctm_count", "pass", 1)
                 \union ComponentItems(p) \union FormItem(p.form)
                 \union Item("DATA_BINDING.duda_config", "pass", 1)
           IN Countable(items) /\ \A i \in items : i.status # "fail"
<1> DEFINE Mild(S) == Countable(S) /\ \A i \in S : i.status # "fail"
<1>1. /\ \A c, key : /\ Mild(Item(key, IF c THEN "warning" ELSE "pass", 1))
                     /\ Mild(Item(key, IF c THEN "pass" ELSE "warning", 1))
                     /\ Mild(When(c, key, "warning"))
      /\ \A key : Mild(Item(key, "pass", 1)) /\ Mild(Item(key, "info", 1))
                  /\ Mild(Item(key, "warning", 1))
      /\ \A c, key, other : Mild(Judge(c, key, "pass", other, "warning"))
      /\ Mild({})
    <2>1. \A key, status, n : status # "fail" => \A i \in Item(key, status, n) : i.status # "fail"
        BY ItemStatus
    <2>2. /\ \A c : (IF c THEN "warning" ELSE "pass") # "fail"
          /\ \A c : (IF c THEN "pass" ELSE "warning") # "fail"
          /\ "warning" # "fail" /\ "pass" # "fail" /\ "info" # "fail"
        OBVIOUS
    <2>3. \A c, key : \A i \in When(c, key, "warning") : i.status # "fail"
        BY <2>1, <2>2 DEF When
    <2>4. \A c, key, other : \A i \in Judge(c, key, "pass", other, "warning") : i.status # "fail"
        BY <2>1, <2>2 DEF Judge
    <2> QED BY <2>1, <2>2, <2>3, <2>4, AnyItem
<1>2. \A A, B : Mild(A) /\ Mild(B) => Mild(A \union B)
    BY UnionCountable
<1>3. ASSUME NEW I \in SUBSET Components, NEW status \in {"pass", "warning"}
      PROVE  Mild(UNION {Item("DATA_BINDING." \o k \o "_connected", status, 1) : k \in I})
    <2> DEFINE F == [k \in I |-> Item("DATA_BINDING." \o k \o "_connected", status, 1)]
    <2>1. {F[k] : k \in I} = {Item("DATA_BINDING." \o k \o "_connected", status, 1) : k \in I}
        OBVIOUS
    <2>2. \A k \in I : Mild(F[k])
        BY <1>1
    <2>3. IsFiniteSet(I)
        <3>1. IsFiniteSet(Components)
            <4>1. Components = {"ctc"} \union {"map"} \union {"hours"} \union {"social"}
                BY DEF Components
            <4> QED BY <4>1, FS_Singleton, FS_Union
        <3> QED BY <3>1, FS_Subset
    <2> HIDE DEF F
    <2>4. Countable(UNION {F[k] : k \in I})
        BY <2>2, <2>3, AllCountable
    <2>5. \A i \in UNION {F[k] : k \in I} : i.status # "fail"
        BY <2>2
    <2> QED BY <2>1, <2>4, <2>5
<1>4. Mild(ComponentItems(p))
    <2> DEFINE J == UNION {Item("DATA_BINDING." \o k \o "_connected", "pass", 1) : k \in p.joined \ p.loose}
               L == UNION {Item("DATA_BINDING." \o k \o "_connected", "warning", 1) : k \in p.loose}
               O == Item("DATA_BINDING." \o "logo" \o "_connected",
                         IF p.noLogo > 0 THEN "warning" ELSE "pass", 1)
    <2>1. Mild(J) /\ Mild(L) /\ Mild(O)
        <3>1. p.joined \ p.loose \in SUBSET Components /\ p.loose \in SUBSET Components
            BY DEF DataBindingPage
        <3> HIDE DEF Mild
        <3> QED BY <1>1, <1>3, <3>1
    <2>2. ComponentItems(p) = O \union J \union L
        BY DEF ComponentItems
    <2> HIDE DEF Mild, J, L, O
    <2> QED BY <1>2, <2>1, <2>2
<1>5. Mild(BindingItems(p))
    <2> HIDE DEF Mild
    <2> QED BY <1>1, <1>2, Zenon DEF BindingItems
<1>6. Mild(FormItem(p.form))
    <2>1. p.form \in {"none", "bound", "encrypted", "loose"}
        BY DEF DataBindingPage
    <2> HIDE DEF Mild
    <2> QED BY <1>1, <2>1 DEF FormItem
<1> HIDE DEF Mild
<1> DEFINE items ==
                 Item("DATA_BINDING.footer_address", IF p.noFooter > 0 THEN "warning" ELSE "pass", 1)
                 \union Judge(p.noField = 0, "DATA_BINDING.data_field_count", "pass",
                              "DATA_BINDING.no_data_field", "warning")
                 \union When(p.noField = 0 /\ p.emptyFields > 0,
                             "DATA_BINDING.empty_data_field", "warning")
                 \union BindingItems(p)
                 \union Item("DATA_BINDING.ctc_count", "pass", 1)
                 \union Item("DATA_BINDING.ctm_count", "pass", 1)
                 \union ComponentItems(p) \union FormItem(p.form)
                 \union Item("DATA_BINDING.duda_config", "pass", 1)
<1>7. Mild(items)
    BY <1>1, <1>2, <1>4, <1>5, <1>6, Zenon
<1> HIDE DEF items
<1>8. Countable(items) /\ \A i \in items : i.status # "fail"
    BY <1>7 DEF Mild
<1> QED BY <1>8 DEF items

LEMMA DataBindingRight == ASSUME NEW p \in DataBindingPage PROVE Right(DataBinding(p))
<1> DEFINE items == Item("DATA_BINDING.footer_address", IF p.noFooter > 0 THEN "warning" ELSE "pass", 1)
                    \union Judge(p.noField = 0, "DATA_BINDING.data_field_count", "pass",
                                 "DATA_BINDING.no_data_field", "warning")
                    \union When(p.noField = 0 /\ p.emptyFields > 0,
                                "DATA_BINDING.empty_data_field", "warning")
                    \union BindingItems(p)
                    \union Item("DATA_BINDING.ctc_count", "pass", 1)
                    \union Item("DATA_BINDING.ctm_count", "pass", 1)
                    \union ComponentItems(p) \union FormItem(p.form)
                    \union Item("DATA_BINDING.duda_config", "pass", 1)
           f == CountOf(items, "fail")
           w == CountOf(items, "warning")
           note == IF w >= 3 THEN 2 ELSE IF w = 2 THEN 3 ELSE IF w = 1 THEN 4 ELSE 5
<1>1. Countable(items)
    BY BindingItemsSound
<1>0. \A i \in items : i.status # "fail"
    BY BindingItemsSound
<1>2. DataBinding(p) = IF ~p.duda THEN Na({}) ELSE Result(StatusOf(f, w), 10 * note, items)
    BY DEF DataBinding, Graded
<1> HIDE DEF items
<1>3. f = 0 /\ w \in Nat
    BY <1>0, <1>1, CountPositive
<1>4. Scale(note, f, w)
    <2> HIDE DEF f, w
    <2> QED BY <1>3 DEF Scale
<1>5. Right(Result(StatusOf(f, w), 10 * note, items))
    <2> HIDE DEF note
    <2> QED BY <1>1, <1>4, GradedRight
<1> HIDE DEF note, f, w
<1> QED BY <1>2, <1>5, EmptyRight, OneFailure

(****************************************************************************)
(* The criteria about the body                                              *)
(****************************************************************************)
(* A page without headings fails without an item that says so.              *)
LEMMA HnRight ==
    ASSUME NEW p \in HnPage
    PROVE  /\ Founded(Hn(p)) /\ Scaled(Hn(p))
           /\ p.headings # <<>> => Judged(Hn(p))
<1> DEFINE h == p.headings
           Count(level) == Cardinality({i \in DOMAIN h : h[i] = level})
           jumps == Cardinality({i \in 1..(Len(h) - 1) : h[i + 1] > h[i] + 1})
           heads == Item(CASE Count(1) = 0 -> "HN.h1_missing"
                           [] Count(1) = 1 -> "HN.h1_unique"
                           [] OTHER -> "HN.h1_duplicate",
                         IF Count(1) = 1 THEN "pass" ELSE "fail", 1)
           items == heads
                    \union When(h[1] # 1, "HN.first_not_h1", "warning")
                    \union When(Count(1) > 0 /\ Count(2) < 2, "HN.h2_insufficient", "warning")
                    \union When(Count(2) >= 2, "HN.h2_count", "pass")
                    \union Item("HN.hierarchy_break", "warning", jumps)
                    \union When(jumps = 0, "HN.hierarchy_ok", "pass")
                    \union When(p.words, "HN.common_words", "info")
<1>1. Countable(Item("HN.hierarchy_break", "warning", jumps))
    <2>1. h \in Seq(1..6)
        BY DEF HnPage
    <2>2. {i \in 1..(Len(h) - 1) : h[i + 1] > h[i] + 1} \in SUBSET DOMAIN h
        BY <2>1
    <2> HIDE DEF h
    <2>3. jumps \in Int
        BY <2>1, <2>2, PositionsFinite
    <2> HIDE DEF jumps
    <2> QED BY <2>3, ManyItems
<1>2. Countable(heads)
    <2>1. \A key : Countable(Item(key, IF Count(1) = 1 THEN "pass" ELSE "fail", 1))
        BY AnyItem, Zenon
    <2> HIDE DEF Count
    <2> QED BY <2>1, Zenon
<1>3. Hn(p) = IF h = <<>> THEN Fail({}, 0) ELSE Graded(items, GradedScale)
    BY DEF Hn
<1>4. Countable(items)
    <2> HIDE DEF heads, jumps
    <2> QED BY <1>1, <1>2, AnyItem, Zenon
<1> HIDE DEF items
<1>5. Right(Graded(items, GradedScale))
    BY <1>4, VerdictRight
<1>6. Founded(Fail({}, 0)) /\ Scaled(Fail({}, 0))
    BY NoItem, Given DEF Fail
<1> QED BY <1>3, <1>5, <1>6 DEF Right

LEMMA HnLengthRight == ASSUME NEW p \in HnLengthPage PROVE Right(HnLength(p))
<1> DEFINE items == Item("HN_LENGTH.too_short", "fail", p.short)
                    \union Item("HN_LENGTH.too_long", "warning", p.long)
                    \union Item("HN_LENGTH.ok", "pass", p.fitting)
<1>0. /\ Countable(Item("HN_LENGTH.too_short", "fail", p.short))
      /\ Countable(Item("HN_LENGTH.too_long", "warning", p.long))
      /\ Countable(Item("HN_LENGTH.ok", "pass", p.fitting))
    BY ManyItems DEF HnLengthPage
<1>1. Countable(items)
    BY <1>0, AnyItem, Zenon
<1>2. HnLength(p) = IF p.short + p.long + p.fitting = 0
                   THEN Pass(Item("HN_LENGTH.no_h1_h2", "info", 1)) ELSE Graded(items, GradedScale)
    BY DEF HnLength
<1> HIDE DEF items
<1> QED BY <1>1, <1>2, VerdictRight, EmptyRight, OneFailure

LEMMA ContentRight == ASSUME NEW p, NEW t PROVE Right(ContentLength(p, t))
BY OneFailure DEF ContentLength

LEMMA BoldRight == ASSUME NEW p \in BoldPage PROVE Right(Bold(p))
<1> DEFINE items == Judge(p.count = "fits", "BOLD.count_ok", "pass", "BOLD.too_" \o p.count, "warning")
                    \union Judge(p.poor = 0, "BOLD.context_ok", "pass",
                                 "BOLD.context_poor", "warning")
                    \union When(p.empty > 0, "BOLD.empty", "fail")
           f == CountOf(items, "fail")
           w == CountOf(items, "warning")
           note == IF f > 0 THEN 1 ELSE IF w >= 2 THEN 3 ELSE IF w = 1 THEN 4 ELSE 5
<1>1. Countable(items)
    BY AnyItem, Zenon
<1>2. Bold(p) = IF p.count = "none" THEN Warn(Item("BOLD.none", "warning", 1), 2)
              ELSE Result(StatusOf(f, w), 10 * note, items)
    BY DEF Bold, Graded
<1> HIDE DEF items
<1>3. f \in Nat /\ w \in Nat
    BY <1>1, CountPositive
<1>4. Scale(note, f, w)
    <2> HIDE DEF f, w
    <2> QED BY <1>3 DEF Scale
<1>5. Right(Result(StatusOf(f, w), 10 * note, items))
    <2> HIDE DEF note
    <2> QED BY <1>1, <1>4, GradedRight
<1> HIDE DEF note, f, w
<1> QED BY <1>2, <1>5, EmptyRight, OneFailure

LEMMA ImagesRight == ASSUME NEW p \in ImagesPage PROVE Right(Images(p))
<1> DEFINE items == Judge(p.noAlt = 0, "IMAGES.alt_present", "pass", "IMAGES.alt_missing", "fail")
                    \union When(p.decorative, "IMAGES.decorative", "pass")
                    \union ImageWeights(p)
                    \union When(p.legacy > 0, "IMAGES.format_modern", "warning")
           f == CountOf(items, "fail")
           w == CountOf(items, "warning")
           note == IF f >= 2 THEN 0 ELSE IF f = 1 THEN 2
                   ELSE IF w > 1 THEN 3 ELSE IF w = 1 THEN 4 ELSE 5
<1>0. Countable(ImageWeights(p))
    BY AnyItem, Zenon DEF ImageWeights
<1>1. Countable(items)
    BY <1>0, AnyItem, Zenon
<1>2. Images(p) = IF p.images = 0 THEN Na({}) ELSE Result(StatusOf(f, w), 10 * note, items)
    BY DEF Images, Graded
<1> HIDE DEF items
<1>3. f \in Nat /\ w \in Nat
    BY <1>1, CountPositive
<1>4. Scale(note, f, w)
    <2> HIDE DEF f, w
    <2> QED BY <1>3 DEF Scale
<1>5. Right(Result(StatusOf(f, w), 10 * note, items))
    <2> HIDE DEF note
    <2> QED BY <1>1, <1>4, GradedRight
<1> HIDE DEF note, f, w
<1> QED BY <1>2, <1>5, EmptyRight, OneFailure

LEMMA DuplicateImagesRight == ASSUME NEW p \in DuplicateImagesPage PROVE Right(DuplicateImages(p))
<1> DEFINE items == Item("DUP.unique_count", "pass", 1) \union When(p.logos, "DUP.logos", "info")
                    \union Judge(p.twice = 0, "DUP.no_duplicates", "pass",
                                 "DUP.duplicates", "warning")
<1>1. Countable(items)
    BY AnyItem, Zenon
<1>2. DuplicateImages(p) = IF p.images = 0 THEN Na({}) ELSE VerdictOf(items)
    BY DEF DuplicateImages
<1> HIDE DEF items
<1> QED BY <1>1, <1>2, VerdictRight, EmptyRight, OneFailure

LEMMA LogoRight == ASSUME NEW p \in LogoPage PROVE Right(Logo(p))
<1> DEFINE items == Judge(p.alt = "set", "LOGO.alt_ok", "pass", "LOGO.alt_" \o p.alt, "fail")
                    \union LogoLink(p)
                    \union Judge(p.noSrc = 0, "LOGO.src_ok", "pass", "LOGO.src_missing", "fail")
           f == CountOf(items, "fail")
           w == CountOf(items, "warning")
           note == IF f > 0 THEN 1 ELSE IF w >= 3 THEN 2
                   ELSE IF w = 2 THEN 3 ELSE IF w = 1 THEN 4 ELSE 5
<1>0. Countable(LogoLink(p))
    BY AnyItem, Zenon DEF LogoLink
<1>1. Countable(items)
    BY <1>0, AnyItem, Zenon
<1>2. Logo(p) = IF p.found = 0 THEN Fail(Item("LOGO.not_found", "fail", 1), 0)
              ELSE Result(StatusOf(f, w), 10 * note, items)
    BY DEF Logo, Graded
<1> HIDE DEF items
<1>3. f \in Nat /\ w \in Nat
    BY <1>1, CountPositive
<1>4. Scale(note, f, w)
    <2> HIDE DEF f, w
    <2> QED BY <1>3 DEF Scale
<1>5. Right(Result(StatusOf(f, w), 10 * note, items))
    <2> HIDE DEF note
    <2> QED BY <1>1, <1>4, GradedRight
<1> HIDE DEF note, f, w
<1> QED BY <1>2, <1>5, EmptyRight, OneFailure

LEMMA PictogramRight == ASSUME NEW p \in PictogramPage PROVE Right(Pictogram(p))
<1> DEFINE fontAwesome == "fa" \in p.icons
           counts == UNION {Item("PICTO." \o l \o "_count", "pass", 1) : l \in p.icons}
           items == counts
                    \union When(fontAwesome /\ p.mute > 0, "PICTO.fa_accessibility", "warning")
                    \union When(fontAwesome /\ p.unloaded > 0, "PICTO.fa_not_loaded", "warning")
                    \union When("svg" \in p.icons /\ p.bare > 0,
                                "PICTO.svg_accessibility", "warning")
                    \union Item(IF p.icons = {} THEN "PICTO.no_icons" ELSE "PICTO.total",
                                "pass", 1)
           f == CountOf(items, "fail")
           w == CountOf(items, "warning")
           note == IF f > 0 THEN 1 ELSE IF w >= 2 THEN 3 ELSE IF w = 1 THEN 4 ELSE 5
<1>0. Countable(counts)
    <2> DEFINE F == [l \in p.icons |-> Item("PICTO." \o l \o "_count", "pass", 1)]
    <2>1. {F[l] : l \in p.icons} = {Item("PICTO." \o l \o "_count", "pass", 1) : l \in p.icons}
        OBVIOUS
    <2>2. \A l \in p.icons : Countable(F[l])
        BY AnyItem
    <2>3. IsFiniteSet(p.icons)
        <3>1. IsFiniteSet({"fa", "mi", "bi", "svg"})
            BY FewFinite, Zenon
        <3> QED BY <3>1, FS_Subset DEF PictogramPage
    <2>4. Countable(UNION {F[l] : l \in p.icons})
        <3> HIDE DEF F
        <3> QED BY <2>2, <2>3, AllCountable
    <2> QED BY <2>1, <2>4
<1>1. Countable(items)
    BY <1>0, AnyItem, Zenon
<1>2. Pictogram(p) = Result(StatusOf(f, w), 10 * note, items)
    BY DEF Pictogram, Graded
<1> HIDE DEF items
<1>3. f \in Nat /\ w \in Nat
    BY <1>1, CountPositive
<1>4. Scale(note, f, w)
    <2> HIDE DEF f, w
    <2> QED BY <1>3 DEF Scale
<1>5. Right(Result(StatusOf(f, w), 10 * note, items))
    <2> HIDE DEF note
    <2> QED BY <1>1, <1>4, GradedRight
<1> HIDE DEF note, f, w
<1> QED BY <1>2, <1>5

LEMMA AccessibilityRight == ASSUME NEW p \in AccessibilityPage PROVE Right(Accessibility(p))
<1> DEFINE items == Judge(p.noSkip = 0, "A11Y.skip_ok", "pass", "A11Y.skip_missing", "warning")
                    \union Judge(p.noLandmark = 0, "A11Y.structure_ok", "pass",
                                 "A11Y.structure_incomplete", "warning")
                    \union Judge(p.noAlt = 0, "A11Y.img_alt_ok", "pass",
                                 "A11Y.img_alt_missing", "fail")
                    \union Judge(p.nameless = 0, "A11Y.links_ok", "pass",
                                 "A11Y.links_empty", "fail")
                    \union Controls(p)
           f == CountOf(items, "fail")
           w == CountOf(items, "warning")
           note == IF f >= 3 THEN 0 ELSE IF f = 2 THEN 1
                   ELSE IF f = 1 THEN (IF w >= 1 THEN 2 ELSE 3)
                   ELSE IF w >= 3 THEN 3 ELSE IF w >= 1 THEN 4 ELSE 5
<1>0. Countable(Controls(p))
    BY AnyItem, Zenon DEF Controls
<1>1. Countable(items)
    BY <1>0, AnyItem, Zenon
<1>2. Accessibility(p) = Result(StatusOf(f, w), 10 * note, items)
    BY DEF Accessibility, Graded
<1> HIDE DEF items
<1>3. f \in Nat /\ w \in Nat
    BY <1>1, CountPositive
<1>4. Scale(note, f, w)
    <2> HIDE DEF f, w
    <2> QED BY <1>3 DEF Scale
<1>5. Right(Result(StatusOf(f, w), 10 * note, items))
    <2> HIDE DEF note
    <2> QED BY <1>1, <1>4, GradedRight
<1> HIDE DEF note, f, w
<1> QED BY <1>2, <1>5

(* A quotient of a number by a larger one, in n-ths.                        *)
LEMMA Quotient ==
    ASSUME NEW a \in Nat, NEW d \in Nat \ {0}
    PROVE  /\ a \div d \in Nat
           /\ \A n \in Nat : a < n * d + d => a \div d <= n
           /\ \A n \in Nat : n * d <= a => n <= a \div d
<1> DEFINE q == a \div d
<1>1. q \in Int /\ d * q <= a /\ a < d * q + d
    BY SMTT(30)
<1> HIDE DEF q
<1>2. q \in Nat
    <2> SUFFICES ASSUME q < 0 PROVE FALSE
        BY <1>1
    <2>1. q + 1 <= 0
        BY <1>1
    <2>2. d * (q + 1) <= 0
        BY <1>1, <2>1, SMTT(30)
    <2>3. d * (q + 1) = d * q + d
        BY <1>1
    <2> QED BY <1>1, <2>2, <2>3
<1>3. ASSUME NEW n \in Nat, a < n * d + d PROVE q <= n
    <2> SUFFICES ASSUME q > n PROVE FALSE
        BY <1>1
    <2>1. q >= n + 1 /\ n * d \in Int /\ d * q \in Int
        BY <1>1
    <2>2. d * q >= d * (n + 1)
        BY <1>1, <2>1, SMTT(30)
    <2>3. d * (n + 1) = n * d + d
        OBVIOUS
    <2> QED BY <1>1, <1>3, <2>1, <2>2, <2>3
<1>4. ASSUME NEW n \in Nat, n * d <= a PROVE n <= q
    <2> SUFFICES ASSUME q < n PROVE FALSE
        BY <1>1
    <2>1. q + 1 <= n /\ n * d \in Int /\ d * q \in Int
        BY <1>1
    <2>2. d * (q + 1) <= n * d
        BY <1>1, <2>1, SMTT(30)
    <2>3. d * (q + 1) = d * q + d
        BY <1>1
    <2> QED BY <1>1, <1>4, <2>1, <2>2, <2>3
<1> QED BY <1>2, <1>3, <1>4 DEF q

(* CONTRAST_V2: the score is a share, which may round to 5 with a failure.  *)
LEMMA ContrastRight ==
    ASSUME NEW p \in ContrastPage
    PROVE  Founded(Contrast(p)) /\ Judged(Contrast(p))
<1> DEFINE scored == p.conform + p.low
           shown == Smaller(p.low, p.groups)
           kept  == Smaller(p.conform, p.groups)
           items == Item("CONTRAST_V2.low", "fail", shown)
                    \union Item("CONTRAST_V2.review", "info", p.review)
                    \union Item("CONTRAST_V2.ok", "pass", kept)
                    \union When(p.unread, NoKey, "info") \union When(p.cut, NoKey, "info")
           share == (100 * p.conform + scored) \div (2 * scored)
<1>1. p.conform \in Nat /\ p.low \in Nat /\ p.groups \in Nat /\ p.review \in Nat
    BY DEF ContrastPage
<1>2. Countable(items)
    <2>1. shown \in Int /\ kept \in Int
        BY <1>1 DEF Smaller
    <2> HIDE DEF shown, kept
    <2>2. /\ Countable(Item("CONTRAST_V2.low", "fail", shown))
          /\ Countable(Item("CONTRAST_V2.review", "info", p.review))
          /\ Countable(Item("CONTRAST_V2.ok", "pass", kept))
        BY <1>1, <2>1, ManyItems
    <2> QED BY <2>2, AnyItem, Zenon
<1>3. /\ \A i \in items : i.status # "warning"
      /\ shown <= 0 => \A i \in items : i.status # "fail"
      /\ shown > 0 => \E i \in items : i.status = "fail"
    <2>1. /\ \A c : \A i \in When(c, NoKey, "info") : i.status = "info"
          /\ \A key, n : /\ \A i \in Item(key, "info", n) : i.status = "info"
                         /\ \A i \in Item(key, "pass", n) : i.status = "pass"
                         /\ \A i \in Item(key, "fail", n) : i.status = "fail"
        BY ItemStatus DEF When
    <2>2. /\ shown <= 0 => Item("CONTRAST_V2.low", "fail", shown) = {}
          /\ shown > 0 => Item("CONTRAST_V2.low", "fail", shown) # {}
        <3>1. shown \in Int
            BY <1>1 DEF Smaller
        <3> HIDE DEF shown
        <3>2. CASE shown > 0
            <4>1. [key |-> "CONTRAST_V2.low", status |-> "fail", n |-> shown]
                    \in Item("CONTRAST_V2.low", "fail", shown)
                BY <3>2 DEF Item
            <4> QED BY <3>1, <3>2, <4>1
        <3>3. CASE ~(shown > 0)
            BY <3>1, <3>3 DEF Item
        <3> QED BY <3>2, <3>3
    <2> HIDE DEF shown, kept
    <2> QED BY <2>1, <2>2
<1>4. Contrast(p) = IF scored + p.review = 0 THEN Na({})
                    ELSE IF scored = 0 THEN Na(items)
                    ELSE Result(IF p.low > 0 THEN "fail" ELSE "pass", share, items)
    BY DEF Contrast
<1>5. CASE scored = 0
    <2>1. shown <= 0
        BY <1>1, <1>5 DEF Smaller
    <2>2. Contrast(p) = Na({}) \/ Contrast(p) = Na(items)
        BY <1>4, <1>5
    <2> HIDE DEF items, shown
    <2>3. \A i \in items : i.status \notin {"fail", "warning"}
        BY <1>3, <2>1
    <2> QED BY <1>2, <2>2, <2>3, NaFounded, EmptyRight DEF Right
<1>6. CASE scored # 0
    <2>1. share \in 0..50
        <3>1. 100 * p.conform + scored \in Nat /\ 2 * scored \in Nat \ {0}
            BY <1>1, <1>6
        <3>2. 100 * p.conform + scored < 50 * (2 * scored) + 2 * scored
            BY <1>1, <1>6
        <3> HIDE DEF scored
        <3>3. share \in Nat /\ share <= 50
            BY <3>1, <3>2, Quotient
        <3> QED BY <3>3
    <2>2. p.low > 0 <=> shown > 0
        <3>1. p.groups > 0
            BY <1>6 DEF ContrastPage
        <3> QED BY <1>1, <3>1 DEF Smaller
    <2>3. Contrast(p) = Result(IF p.low > 0 THEN "fail" ELSE "pass", share, items)
        BY <1>1, <1>4, <1>6
    <2> DEFINE f == CountOf(items, "fail")
               w == CountOf(items, "warning")
               r == Result(IF p.low > 0 THEN "fail" ELSE "pass", share, items)
    <2>0. shown \in Int
        BY <1>1 DEF Smaller
    <2> HIDE DEF items, shown, share
    <2>4. f \in Nat /\ w = 0 /\ (f > 0 <=> p.low > 0)
        <3>1. f \in Nat /\ (f = 0 <=> \A i \in items : i.status # "fail")
            BY <1>2, CountPositive
        <3>2. w = 0
            BY <1>2, <1>3, CountPositive
        <3> HIDE DEF f, w
        <3>3. p.low > 0 => \E i \in items : i.status = "fail"
            BY <1>3, <2>2
        <3>4. ~(p.low > 0) => \A i \in items : i.status # "fail"
            BY <1>1, <1>3, <2>0, <2>2
        <3> QED BY <3>1, <3>2, <3>3, <3>4
    <2>5. r.status = StatusOf(f, w)
        BY <2>4 DEF Result, StatusOf
    <2>6. Founded(r)
        BY <1>2, <2>1 DEF Result, Founded, Verdicts, Status, Full
    <2>7. Judged(r)
        BY <2>5 DEF Result, Judged
    <2> QED BY <2>3, <2>6, <2>7
<1> QED BY <1>5, <1>6

(****************************************************************************)
(* ANCHOR_TEXT: one or two warnings leave a 5.                              *)
(****************************************************************************)
LEMMA SummaryKnown ==
    ASSUME NEW discordant, NEW generic, NEW analysed
    PROVE  SummaryStatus(discordant, generic, analysed) \in Status
<1>1. SummaryStatus(discordant, generic, analysed) \in {"pass", "fail", "warning"}
    BY DEF SummaryStatus
<1> QED BY <1>1 DEF Status

LEMMA AnchorTextRight ==
    ASSUME NEW p \in AnchorPage, NEW config, config.maxReported \in Int
    PROVE  Founded(AnchorText(p, config)) /\ Judged(AnchorText(p, config))
<1> DEFINE examined == {i \in DOMAIN p.anchors : Examined(p.anchors[i], config)}
           Level(l) == Cardinality({i \in examined : JudgeAnchor(p.anchors[i], config) = l})
           analysed == Level("concordant") + Level("probable")
                       + Level("ambiguous") + Level("discordant")
           reported == Smaller(Level("discordant"), config.maxReported)
           shown(l) == Item("ANCHOR_TEXT." \o l, "info", Smaller(Level(l), config.maxReported))
           summary == SummaryStatus(Level("discordant"), Level("generic"), analysed)
           rest == Smaller(Level("ambiguous"), config.maxReported - reported)
           items == Item("ANCHOR_TEXT.summary", summary, 1)
                    \union Item("ANCHOR_TEXT.discordant", "fail", reported)
                    \union Item("ANCHOR_TEXT.ambiguous", "warning", rest)
                    \union shown("concordant") \union shown("probable")
                    \union When(Level("generic") > 0, "ANCHOR_TEXT.generic", "warning")
           f == CountOf(items, "fail")
           w == CountOf(items, "warning")
           note == IF f >= 5 THEN 1 ELSE IF f >= 3 THEN 2
                   ELSE IF f >= 1 THEN 3 ELSE IF w >= 3 THEN 4 ELSE 5
<1>1. ASSUME NEW l PROVE Level(l) \in Nat
    <2>1. p.anchors \in Seq(Anchor)
        BY DEF AnchorPage
    <2>2. {i \in examined : JudgeAnchor(p.anchors[i], config) = l} \in SUBSET DOMAIN p.anchors
        OBVIOUS
    <2> HIDE DEF examined
    <2> QED BY <2>1, <2>2, PositionsFinite
<1>2. AnchorText(p, config) =
        IF ~config.anchors THEN Na({})
        ELSE IF analysed + Level("generic") = 0 THEN Pass(Item("ANCHOR_TEXT.no_links", "pass", 1))
        ELSE Result(StatusOf(f, w), 10 * note, items)
    BY DEF AnchorText, Graded
<1> HIDE DEF Level
<1>3. Countable(Item("ANCHOR_TEXT.summary", summary, 1))
    BY SummaryKnown, ItemCountable
<1>4. reported \in Int /\ rest \in Int
    BY <1>1 DEF Smaller
<1>5. Countable(shown("concordant")) /\ Countable(shown("probable"))
    <2>1. /\ Smaller(Level("concordant"), config.maxReported) \in Int
          /\ Smaller(Level("probable"), config.maxReported) \in Int
        BY <1>1 DEF Smaller
    <2> QED BY <2>1, ManyItems
<1>6. Countable(items)
    <2> HIDE DEF reported, rest, shown, summary
    <2>1. /\ Countable(Item("ANCHOR_TEXT.discordant", "fail", reported))
          /\ Countable(Item("ANCHOR_TEXT.ambiguous", "warning", rest))
        BY <1>4, ManyItems
    <2> QED BY <1>3, <1>5, <2>1, AnyItem, Zenon
<1> HIDE DEF items
<1>7. f \in Nat /\ w \in Nat
    BY <1>6, CountPositive
<1>8. note \in 0..5
    <2> HIDE DEF f, w
    <2> QED BY <1>7
<1>9. /\ Founded(Result(StatusOf(f, w), 10 * note, items))
      /\ Judged(Result(StatusOf(f, w), 10 * note, items))
    <2> HIDE DEF note
    <2> QED BY <1>6, <1>8, GradedFounded
<1> HIDE DEF f, w, note, analysed
<1> QED BY <1>2, <1>9, EmptyRight, OneFailure DEF Right

(****************************************************************************)
(* Polarity                                                                 *)
(****************************************************************************)
(* An inverted item is an item.                                             *)
LEMMA InvertedCountable ==
    ASSUME NEW items, Countable(items), NEW absent
    PROVE  Countable(Inverted(items, absent))
<1> DEFINE Turned(i) == IF i.key \in absent THEN [i EXCEPT !.status = InvertStatus(i.status)] ELSE i
           turn == [i \in items |-> Turned(i)]
<1>1. turn \in Surjection(items, Inverted(items, absent))
    BY DEF Surjection, Inverted
<1>2. IsFiniteSet(Inverted(items, absent))
    <2> HIDE DEF turn
    <2> QED BY <1>1, FS_Surjection DEF Countable
<1>3. \A status \in Status : InvertStatus(status) \in Status
    BY DEF InvertStatus, Status
<1>4. \A i \in items : /\ {"status", "n"} \subseteq DOMAIN Turned(i)
                       /\ Turned(i).status \in Status /\ Turned(i).n \in Nat \ {0}
    <2> TAKE i \in items
    <2>1. {"status", "n"} \subseteq DOMAIN i /\ i.status \in Status /\ i.n \in Nat \ {0}
        BY DEF Countable
    <2> DEFINE e == [i EXCEPT !.status = InvertStatus(i.status)]
    <2>2. DOMAIN e = DOMAIN i /\ e.status = InvertStatus(i.status) /\ e.n = i.n
        BY <2>1
    <2> HIDE DEF e
    <2>3. CASE i.key \in absent
        BY <1>3, <2>1, <2>2, <2>3 DEF e
    <2>4. CASE i.key \notin absent
        BY <2>1, <2>4
    <2> QED BY <2>3, <2>4
<1>5. \A j \in Inverted(items, absent) : \E i \in items : j = Turned(i)
    BY DEF Inverted
<1> HIDE DEF Turned
<1> QED BY <1>2, <1>4, <1>5 DEF Countable

(* Polarity gives a verdict that is again that of the items, and a score    *)
(* that is again on the scale.                                              *)
LEMMA PolarityFounded ==
    ASSUME NEW r, Founded(r), NEW absent
    PROVE  LET q == ApplyPolarity(r, absent)
           IN Founded(q) /\ (Judged(q) \/ q = r) /\ (absent = {} => q = r)
<1> DEFINE items == Inverted(r.items, absent)
           f == CountOf(items, "fail")
           w == CountOf(items, "warning")
           score == ShiftedScore(r.score, PolarityOf(r.items), PolarityOf(items))
           q == Result(StatusOf(f, w), score, items)
<1>1. Countable(items) /\ Countable(r.items) /\ r.score \in 0..50
    BY InvertedCountable DEF Founded, Full
<1> HIDE DEF items
<1>2. \A s \in {r.items, items} : PolarityOf(s) \in 0..5
    <2>1. \A a \in Nat, b \in Nat : PolarityScore(a, b) \in 0..5
        BY DEF PolarityScore
    <2>2. \A s \in {r.items, items} : CountOf(s, "fail") \in Nat /\ CountOf(s, "warning") \in Nat
        BY <1>1, CountPositive
    <2> QED BY <2>1, <2>2 DEF PolarityOf
<1>3. score \in 0..50
    <2>1. \A a \in 0..50, b \in 0..5, c \in 0..5 : ShiftedScore(a, b, c) \in 0..50
        BY DEF ShiftedScore, Smaller, Larger, Full
    <2> QED BY <1>1, <1>2, <2>1
<1> HIDE DEF score
<1>4. f \in Nat /\ w \in Nat
    BY <1>1, CountPositive
<1>5. StatusOf(f, w) \in {"fail", "warning", "pass"}
    BY <1>4 DEF StatusOf
<1>6. Founded(q) /\ Judged(q)
    <2>1. q.status = StatusOf(f, w) /\ q.score = score /\ q.items = items
        BY DEF Result
    <2>2. Judged(q)
        BY <2>1 DEF Judged
    <2> HIDE DEF f, w, q
    <2>3. Founded(q)
        BY <1>1, <1>3, <1>5, <2>1 DEF Founded, Verdicts, Status, Full
    <2> QED BY <2>2, <2>3
<1>7. ApplyPolarity(r, absent) = IF \A i \in r.items : i.key \notin absent THEN r ELSE q
    BY DEF ApplyPolarity, items, score
<1>8. absent = {} => \A i \in r.items : i.key \notin absent
    OBVIOUS
<1> HIDE DEF q
<1> QED BY <1>6, <1>7, <1>8

(****************************************************************************)
(* Any criterion                                                            *)
(****************************************************************************)
(* The pages that get a verdict without the items that would explain it.    *)
Mute(c, p) ==
    \/ c = "HN_STRUCTURE" /\ p.headings = <<>>
    \/ c = "NAV_STRUCTURE" /\ p.missing = Expected

Fair(c, p, r) ==
    /\ Founded(r)
    /\ Judged(r) \/ Mute(c, p)
    /\ c \notin {"ANCHOR_TEXT", "CONTRAST_V2"} => Scaled(r)

LEMMA AnalysedFairly ==
    ASSUME NEW c, NEW p \in PageType(c), NEW s, s.maxReported \in Int
    PROVE  Fair(c, p, Analyse(c, p, s))
<1>1. CASE c = "LINKS"
    BY <1>1, LinksRight DEF PageType, Analyse, Right, Fair
<1>2. CASE c = "BROKEN_LINKS"
    BY <1>2, BrokenLinksRight DEF PageType, Analyse, Right, Fair
<1>3. CASE c = "SPLIT_LINKS"
    BY <1>3, SplitLinksRight DEF PageType, Analyse, Right, Fair
<1>4. CASE c = "NAV_STRUCTURE"
    BY <1>4, NavRight DEF PageType, Analyse, Mute, Fair
<1>5. CASE c = "CTA"
    BY <1>5, CtaRight DEF PageType, Analyse, Right, Fair
<1>6. CASE c = "MENTIONS_LEGALES"
    BY <1>6, LegalRight DEF PageType, Analyse, Right, Fair
<1>7. CASE c = "MENTIONS_LEGALES_DATA"
    BY <1>7, MentionsLegalesDataRight DEF PageType, Analyse, Right, Fair
<1>8. CASE c = "DATA_BINDING"
    BY <1>8, DataBindingRight DEF PageType, Analyse, Right, Fair
<1>9. CASE c = "METAS"
    BY <1>9, MetasRight DEF PageType, Analyse, Right, Fair
<1>10. CASE c = "CANONICAL"
    BY <1>10, CanonicalRight DEF PageType, Analyse, Right, Fair
<1>11. CASE c = "ROBOTS_META"
    BY <1>11, RobotsMetaRight DEF PageType, Analyse, Right, Fair
<1>12. CASE c = "OPEN_GRAPH"
    BY <1>12, OpenGraphRight DEF PageType, Analyse, Right, Fair
<1>13. CASE c = "LANG"
    BY <1>13, LangRight DEF PageType, Analyse, Right, Fair
<1>14. CASE c = "FAVICON"
    BY <1>14, FaviconRight DEF PageType, Analyse, Right, Fair
<1>15. CASE c = "REDIRECTS"
    BY <1>15, RedirectsRight DEF PageType, Analyse, Right, Fair
<1>16. CASE c = "TRACKING"
    BY <1>16, TrackingRight DEF PageType, Analyse, Right, Fair
<1>17. CASE c = "STRUCTURED_DATA"
    BY <1>17, StructuredDataRight DEF PageType, Analyse, Right, Fair
<1>18. CASE c = "DUDA_PARAMS"
    BY <1>18, DudaRight DEF PageType, Analyse, Right, Fair
<1>19. CASE c = "HN_STRUCTURE"
    BY <1>19, HnRight DEF PageType, Analyse, Mute, Fair
<1>20. CASE c = "HN_LENGTH"
    BY <1>20, HnLengthRight DEF PageType, Analyse, Right, Fair
<1>21. CASE c = "CONTENT_LENGTH"
    BY <1>21, ContentRight DEF PageType, Analyse, Right, Fair
<1>22. CASE c = "BOLD"
    BY <1>22, BoldRight DEF PageType, Analyse, Right, Fair
<1>23. CASE c = "IMAGES"
    BY <1>23, ImagesRight DEF PageType, Analyse, Right, Fair
<1>24. CASE c = "DUPLICATE_IMAGES"
    BY <1>24, DuplicateImagesRight DEF PageType, Analyse, Right, Fair
<1>25. CASE c = "LOGO"
    BY <1>25, LogoRight DEF PageType, Analyse, Right, Fair
<1>26. CASE c = "PICTOGRAM"
    BY <1>26, PictogramRight DEF PageType, Analyse, Right, Fair
<1>27. CASE c = "ACCESSIBILITY"
    BY <1>27, AccessibilityRight DEF PageType, Analyse, Right, Fair
<1>28. CASE c = "CONTRAST_V2"
    BY <1>28, ContrastRight DEF PageType, Analyse, Fair
<1>29. CASE c = "ANCHOR_TEXT"
    BY <1>29, AnchorTextRight DEF PageType, Analyse, Fair
<1> QED
    BY <1>1, <1>2, <1>3, <1>4, <1>5, <1>6, <1>7, <1>8, <1>9, <1>10, <1>11, <1>12, <1>13, <1>14, <1>15, <1>16, <1>17, <1>18, <1>19, <1>20, <1>21, <1>22, <1>23, <1>24, <1>25, <1>26, <1>27, <1>28, <1>29
       DEF PageType

(****************************************************************************)
(* What an author changes is still a page                                   *)
(****************************************************************************)
LEMMA ChangedElement ==
    ASSUME NEW T, NEW s \in Seq(T), NEW i, NEW e \in T
    PROVE  [s EXCEPT ![i] = e] \in Seq(T)
<1>1. s \in [1..Len(s) -> T] /\ Len(s) \in Nat
    OBVIOUS
<1>2. [s EXCEPT ![i] = e] \in [1..Len(s) -> T]
    BY <1>1
<1> QED BY <1>1, <1>2

LEMMA ElementOf ==
    ASSUME NEW T, NEW s \in Seq(T), NEW i \in DOMAIN s
    PROVE  s[i] \in T
OBVIOUS

LEMMA LinkMends ==
    ASSUME NEW x
    PROVE  Better("LINKS", x)
             = {[x EXCEPT !.to = CASE x.to = "bad phone" -> "phone" [] x.to = "bad mail" -> "mail"
                                   [] x.to \in {"nowhere", "self"} -> "internal" [] OTHER -> x.to],
                [x EXCEPT !.follow = FALSE]}
BY DEF Better

LEMMA LinkSetRight ==
    ASSUME NEW x, NEW e \in Better("LINKS", x), x.to \in Destinations
    PROVE  \/ \E to \in Destinations : e = [x EXCEPT !.to = to]
           \/ e = [x EXCEPT !.follow = FALSE]
<1> DEFINE to == CASE x.to = "bad phone" -> "phone" [] x.to = "bad mail" -> "mail"
                   [] x.to \in {"nowhere", "self"} -> "internal" [] OTHER -> x.to
<1>1. Better("LINKS", x) = {[x EXCEPT !.to = to], [x EXCEPT !.follow = FALSE]}
    BY LinkMends, Zenon
<1>2. to \in Destinations
    BY DEF Destinations
<1> HIDE DEF to
<1> QED BY <1>1, <1>2

LEMMA BetterLink ==
    ASSUME NEW p \in LinksPage, NEW i \in DOMAIN p.links, NEW e \in Better("LINKS", p.links[i])
    PROVE  [p EXCEPT !["links"][i] = e] \in LinksPage
<1> DEFINE Link == [to : Destinations, follow : BOOLEAN, button : BOOLEAN, around : Seq(SUBSET STRING)]
<1>1. p.links \in Seq(Link) /\ p \in [links : Seq(Link)]
    BY DEF LinksPage
<1>2. e \in Link
    <2>1. p.links[i] \in Link
        <3> HIDE DEF Link
        <3> QED BY <1>1, ElementOf
    <2>2. p.links[i].to \in Destinations
        BY <2>1
    <2>3. \/ \E to \in Destinations : e = [p.links[i] EXCEPT !.to = to]
          \/ e = [p.links[i] EXCEPT !.follow = FALSE]
        BY <2>2, LinkSetRight
    <2> QED BY <2>1, <2>3
<1> HIDE DEF Link
<1>3. [p.links EXCEPT ![i] = e] \in Seq(Link)
    BY <1>1, <1>2, ChangedElement
<1> QED BY <1>1, <1>3 DEF LinksPage, Link

LEMMA BetterAnswer ==
    ASSUME NEW p \in BrokenLinksPage, NEW i \in DOMAIN p.results,
           NEW e \in Better("BROKEN_LINKS", p.results[i])
    PROVE  [p EXCEPT !["results"][i] = e] \in BrokenLinksPage
<1> DEFINE Reply == [exhausted : BOOLEAN, status : Nat, social : BOOLEAN, moved : BOOLEAN]
<1>1. p.results \in Seq(Reply) /\ p \in [results : Seq(Reply), beyond : Nat, net : BOOLEAN]
    BY DEF BrokenLinksPage
<1>2. e \in Reply
    <2>1. p.results[i] \in Reply
        <3> HIDE DEF Reply
        <3> QED BY <1>1, ElementOf
    <2>2. e = [p.results[i] EXCEPT !.status = 200, !.moved = FALSE]
        BY DEF Better
    <2>3. e = [[p.results[i] EXCEPT !.status = 200] EXCEPT !.moved = FALSE]
        BY <2>2
    <2>4. [p.results[i] EXCEPT !.status = 200] \in Reply
        BY <2>1
    <2> QED BY <2>3, <2>4
<1> HIDE DEF Reply
<1>3. [p.results EXCEPT ![i] = e] \in Seq(Reply)
    BY <1>1, <1>2, ChangedElement
<1> QED BY <1>1, <1>3 DEF BrokenLinksPage, Reply

LEMMA BetterSplitLink ==
    ASSUME NEW p \in SplitLinksPage, NEW i \in DOMAIN p.links,
           NEW e \in Better("SPLIT_LINKS", p.links[i])
    PROVE  [p EXCEPT !["links"][i] = e] \in SplitLinksPage
<1> DEFINE Link == [to : STRING, glued : BOOLEAN, after : BOOLEAN]
<1>1. p.links \in Seq(Link) /\ p \in [blocks : BOOLEAN, links : Seq(Link)]
    BY DEF SplitLinksPage
<1>2. e \in Link
    <2>1. p.links[i] \in Link
        <3> HIDE DEF Link
        <3> QED BY <1>1, ElementOf
    <2>2. e = [p.links[i] EXCEPT !.glued = FALSE] \/ e = [p.links[i] EXCEPT !.after = FALSE]
        BY DEF Better
    <2> QED BY <2>1, <2>2
<1> HIDE DEF Link
<1>3. [p.links EXCEPT ![i] = e] \in Seq(Link)
    BY <1>1, <1>2, ChangedElement
<1> QED BY <1>1, <1>3 DEF SplitLinksPage, Link

LEMMA BetterNav ==
    ASSUME NEW p \in NavPage, NEW i \in DOMAIN p.navs, NEW e \in Better("NAV_STRUCTURE", p.navs[i])
    PROVE  [p EXCEPT !["navs"][i] = e] \in NavPage
<1> DEFINE Nav == [hidden : BOOLEAN, links : Nat]
<1>1. p.navs \in Seq(Nav) /\ p \in [header : BOOLEAN, navs : Seq(Nav), missing : SUBSET Expected]
    BY DEF NavPage
<1>2. e \in Nav
    <2>1. p.navs[i] \in Nav
        <3> HIDE DEF Nav
        <3> QED BY <1>1, ElementOf
    <2>2. e = [p.navs[i] EXCEPT !.links = 3]
        BY DEF Better
    <2> QED BY <2>1, <2>2
<1> HIDE DEF Nav
<1>3. [p.navs EXCEPT ![i] = e] \in Seq(Nav)
    BY <1>1, <1>2, ChangedElement
<1> QED BY <1>1, <1>3 DEF NavPage, Nav

LEMMA BetterNode ==
    ASSUME NEW p \in StructuredDataPage, NEW i \in DOMAIN p.nodes,
           NEW e \in Better("STRUCTURED_DATA", p.nodes[i])
    PROVE  [p EXCEPT !["nodes"][i] = e] \in StructuredDataPage
<1> DEFINE Described == [kind : STRING, lacks : SUBSET {"name", "contact", "address"},
                         images : {"few", "repeated", "five"}]
<1>1. p.nodes \in Seq(Described)
    BY DEF StructuredDataPage
<1>2. e \in Described
    <2>1. p.nodes[i] \in Described
        <3> HIDE DEF Described
        <3> QED BY <1>1, ElementOf
    <2>2. PICK f \in p.nodes[i].lacks : e = [p.nodes[i] EXCEPT !.lacks = @ \ {f}]
        BY DEF Better
    <2> QED BY <2>1, <2>2
<1>3. [p.nodes EXCEPT ![i] = e] \in Seq(Described)
    <2> HIDE DEF Described
    <2> QED BY <1>1, <1>2, ChangedElement
<1> QED BY <1>1, <1>3 DEF StructuredDataPage

(* One resemblance more, in its place.                                      *)
LEMMA MoreAlike ==
    ASSUME NEW x \in Anchor, NEW e \in Better("ANCHOR_TEXT", x)
    PROVE  /\ e \in Anchor
           /\ \E t \in DOMAIN x.alike, s \in DOMAIN x.alike[1] :
                 e = [x EXCEPT !.alike = [x.alike EXCEPT ![t] = [x.alike[t] EXCEPT ![s] = 100]]]
<1> DEFINE T == 0..100
           Row == Seq(T)
           R == [comparable : BOOLEAN, text : STRING, excluded : BOOLEAN, around : SUBSET STRING,
                 target : STRING, named : STRING, lengths : Seq(0..10), alike : Seq(Row),
                 family : BOOLEAN]
<1>1. x \in R /\ x.alike \in Seq(Row) /\ DOMAIN x.alike \subseteq DOMAIN x.lengths
      /\ \A t \in DOMAIN x.alike : Len(x.alike[t]) = Len(x.alike[1])
    BY DEF Anchor
<1>2. PICK t \in DOMAIN x.alike, s \in Segments(x) : e = [x EXCEPT !.alike[t][s] = 100]
    BY DEF Better
<1>3. s \in DOMAIN x.alike[1] /\ t \in 1..Len(x.alike) /\ 1 \in DOMAIN x.alike
    BY <1>1, <1>2 DEF Segments
<1> DEFINE y == [x.alike[t] EXCEPT ![s] = 100]
           rows == [x.alike EXCEPT ![t] = y]
<1>4. y \in Row /\ Len(y) = Len(x.alike[t])
    <2>1. 100 \in T
        OBVIOUS
    <2> HIDE DEF T
    <2>2. x.alike[t] \in Seq(T)
        <3>1. x.alike \in Seq(Row)
            BY <1>1
        <3> HIDE DEF Row
        <3>2. x.alike[t] \in Row
            BY <1>2, <3>1
        <3> QED BY <3>2 DEF Row
    <2> QED BY <2>1, <2>2, ChangedElement
<1> HIDE DEF y, Row
<1>5. rows \in Seq(Row) /\ DOMAIN rows = DOMAIN x.alike
      /\ \A k \in DOMAIN rows : rows[k] = IF k = t THEN y ELSE x.alike[k]
    BY <1>1, <1>2, <1>4, ChangedElement
<1>6. \A k \in DOMAIN rows : Len(rows[k]) = Len(rows[1])
    BY <1>1, <1>3, <1>4, <1>5
<1>7. e = [x EXCEPT !.alike = rows]
    BY <1>1, <1>2 DEF y
<1> HIDE DEF rows
<1>8. e \in R /\ e.alike = rows /\ e.lengths = x.lengths
    BY <1>1, <1>5, <1>7
<1>9. e \in Anchor
    BY <1>1, <1>5, <1>6, <1>8 DEF Anchor, Row, R
<1> QED BY <1>3, <1>7, <1>9 DEF rows, y

LEMMA BetterAnchor ==
    ASSUME NEW p \in AnchorPage, NEW i \in DOMAIN p.anchors,
           NEW e \in Better("ANCHOR_TEXT", p.anchors[i])
    PROVE  [p EXCEPT !["anchors"][i] = e] \in AnchorPage
<1>1. p.anchors \in Seq(Anchor) /\ p \in [anchors : Seq(Anchor)]
    BY DEF AnchorPage
<1>2. e \in Anchor
    BY <1>1, ElementOf, MoreAlike
<1>3. [p.anchors EXCEPT ![i] = e] \in Seq(Anchor)
    BY <1>1, <1>2, ChangedElement
<1> QED BY <1>1, <1>3 DEF AnchorPage

LEMMA OneBinding ==
    ASSUME NEW p \in DataBindingPage
    PROVE  [p EXCEPT !.noBinding = 0, !.active = 1] \in DataBindingPage
<1> DEFINE R == [duda : BOOLEAN, noFooter : Nat, noField : Nat, emptyFields : Nat, noBinding : Nat,
                 active : Nat, emptyBindings : Nat, noLogo : Nat, joined : SUBSET Components,
                 loose : SUBSET Components, form : {"none", "bound", "encrypted", "loose"}]
           x == [p EXCEPT !.noBinding = 0]
           q == [x EXCEPT !.active = 1]
<1>1. p \in R /\ (p.noField > 0 => p.emptyFields = 0)
    BY DEF DataBindingPage
<1>2. x \in R /\ x.noBinding = 0 /\ x.noField = p.noField /\ x.emptyFields = p.emptyFields
    BY <1>1
<1>3. [p EXCEPT !.noBinding = 0, !.active = 1] = q
    OBVIOUS
<1> HIDE DEF x
<1>4. q \in R
    BY <1>2
<1>5. q.noBinding = 0 /\ q.noField = p.noField /\ q.emptyFields = p.emptyFields
    BY <1>2
<1> HIDE DEF q
<1>6. q \in DataBindingPage
    BY <1>1, <1>4, <1>5 DEF DataBindingPage
<1> QED BY <1>3, <1>6

LEMMA ReworkedPage ==
    ASSUME NEW c, NEW p \in PageType(c), NEW q \in Reworked(c, p)
    PROVE  q \in PageType(c)
<1>1. CASE c = "HN_STRUCTURE"
    <2>1. p \in [headings : Seq(1..6), words : BOOLEAN] /\ p.headings \in Seq(1..6)
        BY <1>1 DEF PageType, HnPage
    <2>2. \/ q = [p EXCEPT !.headings = <<1>> \o @]
          \/ \E i : q = [p EXCEPT !.headings[i] = 2]
        BY <1>1 DEF Reworked
    <2>3. <<1>> \o p.headings \in Seq(1..6)
        BY <2>1
    <2>4. \A i : [p.headings EXCEPT ![i] = 2] \in Seq(1..6)
        <3> DEFINE T == 1..6
        <3>1. 2 \in T
            OBVIOUS
        <3> HIDE DEF T
        <3>2. p.headings \in Seq(T)
            BY <2>1 DEF T
        <3>3. \A i : [p.headings EXCEPT ![i] = 2] \in Seq(T)
            BY <3>1, <3>2, ChangedElement
        <3> QED BY <3>3 DEF T
    <2>5. q \in [headings : Seq(1..6), words : BOOLEAN]
        <3> DEFINE S == Seq(1..6)
        <3>1. p \in [headings : S, words : BOOLEAN]
            BY <2>1
        <3>2. \/ q = [p EXCEPT !.headings = <<1>> \o p.headings]
              \/ \E i : q = [p EXCEPT !.headings = [p.headings EXCEPT ![i] = 2]]
            BY <2>2, Zenon
        <3>3. PICK h \in S : q = [p EXCEPT !.headings = h]
            <4> HIDE DEF S
            <4>1. \A i : [p.headings EXCEPT ![i] = 2] \in S
                BY <2>4 DEF S
            <4>2. <<1>> \o p.headings \in S
                BY <2>3 DEF S
            <4> QED BY <3>2, <4>1, <4>2, Zenon
        <3> HIDE DEF S
        <3>4. q \in [headings : S, words : BOOLEAN]
            BY <3>1, <3>3
        <3> QED BY <3>4 DEF S
    <2> QED BY <1>1, <2>5 DEF PageType, HnPage
<1>2. CASE c = "CONTRAST_V2"
    <2>1. p \in ContrastPage
        BY <1>2 DEF PageType
    <2>2. p.low > 0 /\ q = [p EXCEPT !.low = @ - 1, !.conform = @ + 1]
        BY <1>2 DEF Reworked
    <2>3. q \in ContrastPage
        <3> DEFINE R == [conform : Nat, low : Nat, review : Nat, groups : Nat, unread : BOOLEAN,
                         cut : BOOLEAN]
        <3>1. p \in R /\ p.conform \in Nat /\ p.low \in Nat
            BY <2>1 DEF ContrastPage
        <3>2. p.groups > 0
            BY <2>1, <2>2, <3>1 DEF ContrastPage
        <3>3. p.low - 1 \in Nat /\ p.conform + 1 \in Nat
            BY <2>2, <3>1
        <3>4. q \in R /\ q.groups = p.groups
            BY <2>2, <3>1, <3>3
        <3> QED BY <3>2, <3>4 DEF ContrastPage
    <2> QED BY <1>2, <2>3 DEF PageType
<1>3. CASE c = "NAV_STRUCTURE"
    <2>1. p \in NavPage
        BY <1>3 DEF PageType
    <2>2. PICK e \in p.missing : q = [p EXCEPT !.missing = @ \ {e}]
        BY <1>3 DEF Reworked
    <2>3. q \in NavPage
        BY <2>1, <2>2 DEF NavPage
    <2> QED BY <1>3, <2>3 DEF PageType
<1>4. CASE c = "CTA"
    <2>1. p \in CtaPage
        BY <1>4 DEF PageType
    <2>2. \/ q = [p EXCEPT !.noButton = 0]
          \/ q = [p EXCEPT !.noPhone = 0]
          \/ q = [p EXCEPT !.noEmail = 0]
          \/ q = [p EXCEPT !.badPhone = 0]
          \/ q = [p EXCEPT !.badEmail = 0]
          \/ q = [p EXCEPT !.emptyButtons = 0]
        BY <1>4 DEF Reworked, Without
    <2>3. q \in CtaPage
        <3>1. CASE q = [p EXCEPT !.noButton = 0]
            BY <2>1, <3>1 DEF CtaPage
        <3>2. CASE q = [p EXCEPT !.noPhone = 0]
            BY <2>1, <3>2 DEF CtaPage
        <3>3. CASE q = [p EXCEPT !.noEmail = 0]
            BY <2>1, <3>3 DEF CtaPage
        <3>4. CASE q = [p EXCEPT !.badPhone = 0]
            BY <2>1, <3>4 DEF CtaPage
        <3>5. CASE q = [p EXCEPT !.badEmail = 0]
            BY <2>1, <3>5 DEF CtaPage
        <3>6. CASE q = [p EXCEPT !.emptyButtons = 0]
            BY <2>1, <3>6 DEF CtaPage
        <3> QED BY <2>2, <3>1, <3>2, <3>3, <3>4, <3>5, <3>6
    <2> QED BY <1>4, <2>3 DEF PageType
<1>5. CASE c = "MENTIONS_LEGALES"
    <2>1. p \in LegalPage
        BY <1>5 DEF PageType
    <2>2. \/ q = [p EXCEPT !.noLegal = 0]
          \/ q = [p EXCEPT !.dead = 0]
          \/ q = [p EXCEPT !.noPrivacy = 0]
          \/ q = [p EXCEPT !.noConsent = 0]
          \/ q = [p EXCEPT !.solocal = 0]
          \/ q = [p EXCEPT !.hostHere = TRUE]
          \/ q = [p EXCEPT !.hostThere = TRUE]
        BY <1>5 DEF Reworked, Without
    <2>3. q \in LegalPage
        <3>1. CASE q = [p EXCEPT !.noLegal = 0]
            BY <2>1, <3>1 DEF LegalPage
        <3>2. CASE q = [p EXCEPT !.dead = 0]
            BY <2>1, <3>2 DEF LegalPage
        <3>3. CASE q = [p EXCEPT !.noPrivacy = 0]
            BY <2>1, <3>3 DEF LegalPage
        <3>4. CASE q = [p EXCEPT !.noConsent = 0]
            BY <2>1, <3>4 DEF LegalPage
        <3>5. CASE q = [p EXCEPT !.solocal = 0]
            BY <2>1, <3>5 DEF LegalPage
        <3>6. CASE q = [p EXCEPT !.hostHere = TRUE]
            BY <2>1, <3>6 DEF LegalPage
        <3>7. CASE q = [p EXCEPT !.hostThere = TRUE]
            BY <2>1, <3>7 DEF LegalPage
        <3> QED BY <2>2, <3>1, <3>2, <3>3, <3>4, <3>5, <3>6, <3>7
    <2> QED BY <1>5, <2>3 DEF PageType
<1>6. CASE c = "MENTIONS_LEGALES_DATA"
    <2>1. p \in LegalDataPage
        BY <1>6 DEF PageType
    <2>2. \/ q = [p EXCEPT !.unbound = {}]
          \/ q = [p EXCEPT !.empty = {}]
          \/ q = [p EXCEPT !.rcs = "good"]
        BY <1>6 DEF Reworked
    <2>3. q \in LegalDataPage
        BY <2>1, <2>2 DEF LegalDataPage
    <2> QED BY <1>6, <2>3 DEF PageType
<1>7. CASE c = "DATA_BINDING"
    <2>1. p \in DataBindingPage
        BY <1>7 DEF PageType
    <2>2. \/ q = [p EXCEPT !.noFooter = 0]
          \/ q = [p EXCEPT !.noField = 0]
          \/ q = [p EXCEPT !.emptyFields = 0]
          \/ q = [p EXCEPT !.emptyBindings = 0]
          \/ q = [p EXCEPT !.noLogo = 0]
          \/ q = [p EXCEPT !.loose = {}]
          \/ q = [p EXCEPT !.noBinding = 0, !.active = 1]
        BY <1>7 DEF Reworked, Without
    <2>3. q \in DataBindingPage
        <3>1. CASE q = [p EXCEPT !.noFooter = 0]
            BY <2>1, <3>1 DEF DataBindingPage
        <3>2. CASE q = [p EXCEPT !.noField = 0]
            BY <2>1, <3>2 DEF DataBindingPage
        <3>3. CASE q = [p EXCEPT !.emptyFields = 0]
            BY <2>1, <3>3 DEF DataBindingPage
        <3>4. CASE q = [p EXCEPT !.emptyBindings = 0]
            BY <2>1, <3>4 DEF DataBindingPage
        <3>5. CASE q = [p EXCEPT !.noLogo = 0]
            BY <2>1, <3>5 DEF DataBindingPage
        <3>6. CASE q = [p EXCEPT !.loose = {}]
            BY <2>1, <3>6 DEF DataBindingPage
        <3>7. CASE q = [p EXCEPT !.noBinding = 0, !.active = 1]
            BY <2>1, <3>7, OneBinding
        <3> QED BY <2>2, <3>1, <3>2, <3>3, <3>4, <3>5, <3>6, <3>7
    <2> QED BY <1>7, <2>3 DEF PageType
<1>8. CASE c = "METAS"
    <2>1. p \in MetasPage
        BY <1>8 DEF PageType
    <2>2. \/ q = [p EXCEPT !.title = "fits"]
          \/ q = [p EXCEPT !.description = "fits"]
          \/ q = [p EXCEPT !.noindex = 0]
        BY <1>8 DEF Reworked
    <2>3. q \in MetasPage
        BY <2>1, <2>2 DEF MetasPage
    <2> QED BY <1>8, <2>3 DEF PageType
<1>9. CASE c = "CANONICAL"
    <2>1. p \in CanonicalPage
        BY <1>9 DEF PageType
    <2>2. \/ q = [p EXCEPT !.noHref = 0]
          \/ q = [p EXCEPT !.unreadable = 0]
          \/ q = [p EXCEPT !.otherDomain = 0]
          \/ q = [p EXCEPT !.query = 0]
          \/ q = [p EXCEPT !.http = 0]
          \/ q = [p EXCEPT !.tags = 1]
        BY <1>9 DEF Reworked, Without
    <2>3. q \in CanonicalPage
        BY <2>1, <2>2 DEF CanonicalPage
    <2> QED BY <1>9, <2>3 DEF PageType
<1>10. CASE c = "ROBOTS_META"
    <2>1. p \in RobotsPage
        BY <1>10 DEF PageType
    <2>2. \/ q = [p EXCEPT !.meta = {}]
          \/ q = [p EXCEPT !.header = {}]
          \/ q = [p EXCEPT !.robots = 200]
        BY <1>10 DEF Reworked
    <2>3. q \in RobotsPage
        BY <2>1, <2>2 DEF RobotsPage
    <2> QED BY <1>10, <2>3 DEF PageType
<1>11. CASE c = "OPEN_GRAPH"
    <2>1. p \in OpenGraphPage
        BY <1>11 DEF PageType
    <2>2. \/ q = [p EXCEPT !.missing = 0]
          \/ q = [p EXCEPT !.twitter = TRUE]
        BY <1>11 DEF Reworked
    <2>3. q \in OpenGraphPage
        <3>1. CASE q = [p EXCEPT !.missing = 0]
            BY <2>1, <3>1 DEF OpenGraphPage
        <3>2. CASE q = [p EXCEPT !.twitter = TRUE]
            BY <2>1, <3>2 DEF OpenGraphPage
        <3> QED BY <2>2, <3>1, <3>2
    <2> QED BY <1>11, <2>3 DEF PageType
<1>12. CASE c = "LANG"
    <2>1. p \in LangPage
        BY <1>12 DEF PageType
    <2>2. \/ q = [p EXCEPT !.noLang = 0]
          \/ q = [p EXCEPT !.unusual = 0]
          \/ q = [p EXCEPT !.noDefault = 0]
          \/ q = [p EXCEPT !.content = "same"]
        BY <1>12 DEF Reworked, Without
    <2>3. q \in LangPage
        BY <2>1, <2>2 DEF LangPage
    <2> QED BY <1>12, <2>3 DEF PageType
<1>13. CASE c = "FAVICON"
    <2>1. p \in FaviconPage
        BY <1>13 DEF PageType
    <2>2. \/ q = [p EXCEPT !.standard = "own"]
          \/ q = [p EXCEPT !.apple = "own"]
        BY <1>13 DEF Reworked
    <2>3. q \in FaviconPage
        BY <2>1, <2>2 DEF FaviconPage
    <2> QED BY <1>13, <2>3 DEF PageType
<1>14. CASE c = "REDIRECTS"
    <2>1. p \in RedirectsPage
        BY <1>14 DEF PageType
    <2>2. \/ q = [p EXCEPT !.hops = 0, !.temporary = 0]
          \/ q = [p EXCEPT !.temporary = 0]
        BY <1>14 DEF Reworked
    <2>3. q \in RedirectsPage
        <3>1. CASE q = [p EXCEPT !.hops = 0, !.temporary = 0]
            BY <2>1, <3>1 DEF RedirectsPage
        <3>2. CASE q = [p EXCEPT !.temporary = 0]
            BY <2>1, <3>2 DEF RedirectsPage
        <3> QED BY <2>2, <3>1, <3>2
    <2> QED BY <1>14, <2>3 DEF PageType
<1>15. CASE c = "TRACKING"
    <2>1. p \in TrackingPage
        BY <1>15 DEF PageType
    <2>2. \/ q = [p EXCEPT !.tools = 1]
          \/ q = [p EXCEPT !.noConsent = 0]
        BY <1>15 DEF Reworked
    <2>3. q \in TrackingPage
        BY <2>1, <2>2 DEF TrackingPage
    <2> QED BY <1>15, <2>3 DEF PageType
<1>16. CASE c = "STRUCTURED_DATA"
    <2>1. p \in StructuredDataPage
        BY <1>16 DEF PageType
    <2>2. q = [p EXCEPT !.invalid = 0]
        BY <1>16 DEF Reworked, Without
    <2>3. q \in StructuredDataPage
        BY <2>1, <2>2 DEF StructuredDataPage
    <2> QED BY <1>16, <2>3 DEF PageType
<1>17. CASE c = "HN_LENGTH"
    <2>1. p \in HnLengthPage
        BY <1>17 DEF PageType
    <2>2. \/ q = [p EXCEPT !.short = 0]
          \/ q = [p EXCEPT !.long = 0]
        BY <1>17 DEF Reworked, Without
    <2>3. q \in HnLengthPage
        BY <2>1, <2>2 DEF HnLengthPage
    <2> QED BY <1>17, <2>3 DEF PageType
<1>18. CASE c = "CONTENT_LENGTH"
    <2>1. p \in ContentPage
        BY <1>18 DEF PageType
    <2>2. q = [p EXCEPT !.words = @ + 1]
        BY <1>18 DEF Reworked
    <2>3. q \in ContentPage
        BY <2>1, <2>2 DEF ContentPage
    <2> QED BY <1>18, <2>3 DEF PageType
<1>19. CASE c = "BOLD"
    <2>1. p \in BoldPage
        BY <1>19 DEF PageType
    <2>2. \/ q = [p EXCEPT !.poor = 0]
          \/ q = [p EXCEPT !.empty = 0]
          \/ q = [p EXCEPT !.count = "fits"]
        BY <1>19 DEF Reworked, Without
    <2>3. q \in BoldPage
        <3>1. CASE q = [p EXCEPT !.poor = 0]
            BY <2>1, <3>1 DEF BoldPage
        <3>2. CASE q = [p EXCEPT !.empty = 0]
            BY <2>1, <3>2 DEF BoldPage
        <3>3. CASE q = [p EXCEPT !.count = "fits"]
            BY <2>1, <3>3 DEF BoldPage
        <3> QED BY <2>2, <3>1, <3>2, <3>3
    <2> QED BY <1>19, <2>3 DEF PageType
<1>20. CASE c = "IMAGES"
    <2>1. p \in ImagesPage
        BY <1>20 DEF PageType
    <2>2. \/ q = [p EXCEPT !.noAlt = 0]
          \/ q = [p EXCEPT !.heavy = 0]
          \/ q = [p EXCEPT !.borderline = 0]
          \/ q = [p EXCEPT !.legacy = 0]
        BY <1>20 DEF Reworked, Without
    <2>3. q \in ImagesPage
        BY <2>1, <2>2 DEF ImagesPage
    <2> QED BY <1>20, <2>3 DEF PageType
<1>21. CASE c = "DUPLICATE_IMAGES"
    <2>1. p \in DuplicateImagesPage
        BY <1>21 DEF PageType
    <2>2. q = [p EXCEPT !.twice = 0]
        BY <1>21 DEF Reworked, Without
    <2>3. q \in DuplicateImagesPage
        BY <2>1, <2>2 DEF DuplicateImagesPage
    <2> QED BY <1>21, <2>3 DEF PageType
<1>22. CASE c = "LOGO"
    <2>1. p \in LogoPage
        BY <1>22 DEF PageType
    <2>2. \/ q = [p EXCEPT !.noTitle = 0]
          \/ q = [p EXCEPT !.noSrc = 0]
          \/ q = [p EXCEPT !.found = 1]
          \/ q = [p EXCEPT !.alt = "set"]
          \/ q = [p EXCEPT !.link = "homepage"]
        BY <1>22 DEF Reworked, Without
    <2>3. q \in LogoPage
        BY <2>1, <2>2 DEF LogoPage
    <2> QED BY <1>22, <2>3 DEF PageType
<1>23. CASE c = "PICTOGRAM"
    <2>1. p \in PictogramPage
        BY <1>23 DEF PageType
    <2>2. \/ q = [p EXCEPT !.mute = 0]
          \/ q = [p EXCEPT !.unloaded = 0]
          \/ q = [p EXCEPT !.bare = 0]
        BY <1>23 DEF Reworked, Without
    <2>3. q \in PictogramPage
        BY <2>1, <2>2 DEF PictogramPage
    <2> QED BY <1>23, <2>3 DEF PageType
<1>24. CASE c = "ACCESSIBILITY"
    <2>1. p \in AccessibilityPage
        BY <1>24 DEF PageType
    <2>2. \/ q = [p EXCEPT !.noSkip = 0]
          \/ q = [p EXCEPT !.noLandmark = 0]
          \/ q = [p EXCEPT !.noAlt = 0]
          \/ q = [p EXCEPT !.nameless = 0]
          \/ q = [p EXCEPT !.unlabelled = 0]
          \/ q = [p EXCEPT !.tabindex = 0]
          \/ q = [p EXCEPT !.noLang = 0]
        BY <1>24 DEF Reworked, Without
    <2>3. q \in AccessibilityPage
        BY <2>1, <2>2 DEF AccessibilityPage
    <2> QED BY <1>24, <2>3 DEF PageType
<1> QED
    BY <1>1, <1>2, <1>3, <1>4, <1>5, <1>6, <1>7, <1>8, <1>9, <1>10, <1>11, <1>12, <1>13, <1>14, <1>15, <1>16, <1>17, <1>18, <1>19, <1>20, <1>21, <1>22, <1>23, <1>24 DEF Reworked

(* What an author changes: something of the page, or one element of it.     *)
LEMMA MendedForms ==
    ASSUME NEW c, NEW p, NEW q \in Mended(c, p)
    PROVE  \/ q \in Reworked(c, p)
           \/ \E f \in Elements(c) : \E i \in DOMAIN p[f] : \E e \in Better(c, p[f][i]) :
                 q = [p EXCEPT ![f][i] = e]
<1> DEFINE At(f, i) == {[p EXCEPT ![f][i] = e] : e \in Better(c, p[f][i])}
           Of(f) == UNION {At(f, i) : i \in DOMAIN p[f]}
<1>1. q \in Reworked(c, p) \/ q \in UNION {Of(f) : f \in Elements(c)}
    BY Zenon DEF Mended
<1>2. ASSUME q \in UNION {Of(f) : f \in Elements(c)}
      PROVE  \E f \in Elements(c) : \E i \in DOMAIN p[f] : \E e \in Better(c, p[f][i]) :
                q = [p EXCEPT ![f][i] = e]
    <2>1. PICK f \in Elements(c) : q \in Of(f)
        <3> HIDE DEF Of
        <3> QED BY <1>2
    <2>2. PICK i \in DOMAIN p[f] : q \in At(f, i)
        <3> HIDE DEF At
        <3> QED BY <2>1
    <2> QED BY <2>2, Zenon
<1> QED BY <1>1, <1>2, Zenon

LEMMA MendedPage ==
    ASSUME NEW c, NEW p \in PageType(c), NEW q \in Mended(c, p)
    PROVE  q \in PageType(c)
<1>1. p \in PageType(c)
    OBVIOUS
<1>2. \/ q \in Reworked(c, p)
      \/ \E f \in Elements(c) : \E i \in DOMAIN p[f] : \E e \in Better(c, p[f][i]) :
            q = [p EXCEPT ![f][i] = e]
    BY MendedForms
<1>3. CASE q \in Reworked(c, p)
    BY <1>1, <1>3, ReworkedPage
<1>4. ASSUME NEW f \in Elements(c), NEW i \in DOMAIN p[f], NEW e \in Better(c, p[f][i]),
             q = [p EXCEPT ![f][i] = e]
      PROVE  q \in PageType(c)
    <2>1. CASE c = "LINKS"
        <3>1. p \in LinksPage /\ f = "links"
            BY <1>1, <2>1 DEF PageType, Elements
        <3> QED BY <1>4, <2>1, <3>1, BetterLink DEF PageType
    <2>2. CASE c = "SPLIT_LINKS"
        <3>1. p \in SplitLinksPage /\ f = "links"
            BY <1>1, <2>2 DEF PageType, Elements
        <3> QED BY <1>4, <2>2, <3>1, BetterSplitLink DEF PageType
    <2>3. CASE c = "BROKEN_LINKS"
        <3>1. p \in BrokenLinksPage /\ f = "results"
            BY <1>1, <2>3 DEF PageType, Elements
        <3> QED BY <1>4, <2>3, <3>1, BetterAnswer DEF PageType
    <2>4. CASE c = "NAV_STRUCTURE"
        <3>1. p \in NavPage /\ f = "navs"
            BY <1>1, <2>4 DEF PageType, Elements
        <3> QED BY <1>4, <2>4, <3>1, BetterNav DEF PageType
    <2>5. CASE c = "STRUCTURED_DATA"
        <3>1. p \in StructuredDataPage /\ f = "nodes"
            BY <1>1, <2>5 DEF PageType, Elements
        <3> QED BY <1>4, <2>5, <3>1, BetterNode DEF PageType
    <2>6. CASE c = "ANCHOR_TEXT"
        <3>1. p \in AnchorPage /\ f = "anchors"
            BY <1>1, <2>6 DEF PageType, Elements
        <3> QED BY <1>4, <2>6, <3>1, BetterAnchor DEF PageType
    <2> QED BY <2>1, <2>2, <2>3, <2>4, <2>5, <2>6 DEF Elements
<1> QED BY <1>2, <1>3, <1>4

(****************************************************************************)
(* The verdicts of every behaviour                                          *)
(****************************************************************************)
(* A page rule changes what a profile disables and its thresholds, nothing  *)
(* else.                                                                    *)
LEMMA RulesKeep ==
    ASSUME NEW s, IsProfile(s), NEW a
    PROVE  /\ ApplyPageRules(a, s).absent = s.absent
           /\ ApplyPageRules(a, s).maxReported \in Nat
           /\ ApplyPageRules(a, s).weights = s.weights
<1>1. DOMAIN s = {"disabled", "enabled", "informational", "absent", "weights", "words", "rules",
                  "anchors", "concordant", "probable", "maxReported", "ignoreZones",
                  "excludeShop", "distinctive"} /\ s.maxReported \in Nat
    BY DEF IsProfile
<1>2. \E d, w : ApplyPageRules(a, s) = [s EXCEPT !.disabled = d, !.words = w]
    BY DEF ApplyPageRules
<1> QED BY <1>1, <1>2

LEMMA RunFairly ==
    ASSUME NEW c, NEW p \in PageType(c), NEW s, s.maxReported \in Int
    PROVE  LET r == RunOne(c, p, s)
           IN /\ Founded(r) /\ (Judged(r) \/ Mute(c, p))
              /\ s.absent = {} /\ c \notin {"ANCHOR_TEXT", "CONTRAST_V2"} => Scaled(r)
<1> DEFINE base == IF IsEnabled(c, s) THEN Analyse(c, p, s) ELSE Na({})
<1>1. Fair(c, p, base)
    BY AnalysedFairly, EmptyRight DEF Fair, Right
<1>2. RunOne(c, p, s) = ApplyPolarity(base, s.absent)
    BY DEF RunOne
<1> HIDE DEF base
<1> QED BY <1>1, <1>2, PolarityFounded DEF Fair

LEMMA ErrorRight == Right(InternalError)
BY OneFailure DEF InternalError

(* A report holds the verdict it was made from.                             *)
VerdictSound(r) ==
    /\ Founded(r) /\ (Judged(r) \/ Mute(criterion, page))
    /\ settings.absent = {} /\ criterion \notin {"ANCHOR_TEXT", "CONTRAST_V2"} => Scaled(r)

SituationOK ==
    /\ criterion \in DOMAIN Pages /\ page \in PageType(criterion)
    /\ IsProfile(settings) /\ company \in Companies[criterion]
    /\ past = NoScan => page \in Pages[criterion] /\ settings \in Profiles[criterion]

VerdictInv == SituationOK /\ (present # NoScan => VerdictSound(present.result))

LEMMA SituationStart == Init => SituationOK
BY PagesAssumption, ProfilesAssumption DEF Init, SituationOK

LEMMA SituationStep == SituationOK /\ [Next]_vars => SituationOK'
<1> SUFFICES ASSUME SituationOK, [Next]_vars PROVE SituationOK'
    OBVIOUS
<1>1. CASE Scan \/ ScanThrows \/ UNCHANGED vars
    BY <1>1 DEF Scan, ScanThrows, vars, SituationOK
<1>2. CASE Mend
    <2>1. page' \in Mended(criterion, page) /\ page \in Pages[criterion]
        BY <1>2 DEF Mend, SituationOK
    <2>2. page' \in PageType(criterion)
        BY <2>1, MendedPage DEF SituationOK
    <2>3. UNCHANGED <<criterion, settings, company>> /\ past' # NoScan
        BY <1>2 DEF Mend
    <2> QED BY <2>2, <2>3 DEF SituationOK
<1>3. CASE Retune
    <2>1. settings' \in Retuned(criterion, settings) /\ settings \in Profiles[criterion]
        BY <1>3 DEF Retune, SituationOK
    <2>2. IsProfile(settings')
        BY <2>1, ProfilesAssumption DEF SituationOK
    <2>3. UNCHANGED <<criterion, page, company>> /\ past' # NoScan
        BY <1>3 DEF Retune
    <2> QED BY <2>2, <2>3 DEF SituationOK
<1> QED BY <1>1, <1>2, <1>3 DEF Next

LEMMA ScanSound ==
    ASSUME SituationOK
    PROVE  /\ VerdictSound(RunOne(criterion, page, Effective))
           /\ VerdictSound(InternalError)
<1>1. Effective.absent = settings.absent /\ Effective.maxReported \in Int
    BY RulesKeep DEF Effective, SituationOK
<1>2. VerdictSound(RunOne(criterion, page, Effective))
    BY <1>1, RunFairly DEF VerdictSound, SituationOK
<1>3. VerdictSound(InternalError)
    BY ErrorRight DEF VerdictSound, Right
<1> QED BY <1>2, <1>3

LEMMA VerdictStep == VerdictInv /\ [Next]_vars => VerdictInv'
<1> SUFFICES ASSUME VerdictInv, [Next]_vars PROVE VerdictInv'
    OBVIOUS
<1>1. SituationOK /\ SituationOK'
    BY SituationStep DEF VerdictInv
<1>2. CASE Scan
    <2>1. present'.result = RunOne(criterion, page, Effective)
        BY <1>2 DEF Scan, Report
    <2>2. UNCHANGED <<criterion, page, settings>>
        BY <1>2 DEF Scan
    <2> QED BY <1>1, <2>1, <2>2, ScanSound DEF VerdictInv, VerdictSound
<1>3. CASE ScanThrows
    <2>1. present'.result = InternalError
        BY <1>3 DEF ScanThrows, Report
    <2>2. UNCHANGED <<criterion, page, settings>>
        BY <1>3 DEF ScanThrows
    <2> QED BY <1>1, <2>1, <2>2, ScanSound DEF VerdictInv, VerdictSound
<1>4. CASE Mend \/ Retune
    BY <1>1, <1>4 DEF Mend, Retune, VerdictInv
<1>5. CASE UNCHANGED vars
    BY <1>1, <1>5 DEF vars, VerdictInv, VerdictSound
<1> QED BY <1>2, <1>3, <1>4, <1>5 DEF Next

LEMMA VerdictImplied == VerdictInv => VerdictFollowsItems
<1> SUFFICES ASSUME VerdictInv, present # NoScan PROVE VerdictFollowsItems
    BY DEF VerdictFollowsItems
<1> DEFINE r == present.result
           f == CountOf(r.items, "fail")
           w == CountOf(r.items, "warning")
<1>1. VerdictSound(r)
    BY DEF VerdictInv
<1>2. Mute(criterion, page) => Unexplained
    BY DEF Mute, Unexplained
<1>3. /\ r.score \in 0..Full
      /\ r.status = "na" => r.score = Full /\ f = 0 /\ w = 0
      /\ r.status # "na" => r.status = StatusOf(f, w) \/ Unexplained
      /\ settings.absent = {} /\ criterion \notin {"ANCHOR_TEXT", "CONTRAST_V2"} =>
            (r.status \in {"pass", "na"} <=> r.score = Full)
    BY <1>1, <1>2 DEF VerdictSound, Founded, Judged, Scaled
<1> HIDE DEF f, w, r
<1>4. r.status = "na" => f + w = 0
    BY <1>3
<1> QED BY <1>3, <1>4 DEF VerdictFollowsItems, r, f, w

(* Whatever the criterion, the page, the profile and the page rules, the    *)
(* verdict of a report is that of the worst of its items, its score is on   *)
(* the scale and on the side of its verdict (verdict.ts, the analysers,     *)
(* applyPolarity).                                                          *)
THEOREM VerdictsFollow == Spec => []VerdictFollowsItems
<1>1. Init => VerdictInv
    BY SituationStart DEF VerdictInv, Init
<1>2. VerdictInv /\ [Next]_vars => VerdictInv'
    BY VerdictStep
<1>3. VerdictInv => VerdictFollowsItems
    BY VerdictImplied
<1> QED BY <1>1, <1>2, <1>3, PTL DEF Spec

(****************************************************************************)
(* Two scans compared                                                       *)
(****************************************************************************)
(* A side as scans and histories make them.                                 *)
SideOK(side) ==
    /\ DOMAIN side \subseteq Int
    /\ \A u \in DOMAIN side :
          /\ side[u].score \in Int
          /\ IsFiniteSet(DOMAIN side[u].summary)
          /\ \A c \in DOMAIN side[u].summary : side[u].summary[c] \in Verdicts

(* What improves in one direction degrades in the other.                    *)
LEMMA StatusesCompared ==
    ASSUME NEW s \in Verdicts, NEW t \in Verdicts
    PROVE  /\ CompareStatus(s, t) = "improved" <=> CompareStatus(t, s) = "degraded"
           /\ CompareStatus(s, t) = "degraded" =>
                 t \in {"fail", "warning", "info"} /\ s \notin {"na", "fail"}
           /\ CompareStatus(s, t) = "degraded" => t \in {"fail", "warning"}
<1>1. /\ CheckHealthOrder["fail"] = 0 /\ CheckHealthOrder["warning"] = 1
      /\ CheckHealthOrder["pass"] = 3 /\ CheckHealthOrder["na"] = -1
    BY DEF CheckHealthOrder
<1>2. /\ s \in {"pass", "warning", "fail", "na"}
      /\ t \in {"pass", "warning", "fail", "na"}
    BY DEF Verdicts, Status
<1> QED BY <1>1, <1>2 DEF CompareStatus

LEMMA TrendsMirrored ==
    ASSUME NEW a, NEW b,
           \A c \in DOMAIN a : a[c] \in Verdicts, \A c \in DOMAIN b : b[c] \in Verdicts
    PROVE  /\ Trend(a, b, "improved") = Trend(b, a, "degraded")
           /\ Trend(b, a, "improved") = Trend(a, b, "degraded")
           /\ \A c \in Trend(a, b, "degraded") :
                 /\ c \in DOMAIN a \intersect DOMAIN b
                 /\ b[c] \in {"fail", "warning"} /\ a[c] \notin {"na", "fail"}
BY StatusesCompared DEF Trend

(* A page in both scans.                                                    *)
LEMMA ChangeMirrored ==
    ASSUME NEW x, NEW y, x.score \in Int, y.score \in Int,
           \A c \in DOMAIN x.summary : x.summary[c] \in Verdicts,
           \A c \in DOMAIN y.summary : y.summary[c] \in Verdicts
    PROVE  LET fell == x.score # NoScore /\ y.score # NoScore /\ y.score < x.score
           IN /\ PageChange(x, y) \in {"unchanged", "degraded", "improved"}
              /\ PageChange(x, y) = "unchanged" <=> PageChange(y, x) = "unchanged"
              /\ PageChange(x, y) = "improved" =>
                    PageChange(y, x) = "degraded" /\ ~fell /\ ScoreDelta(x, y) >= 0
              /\ PageChange(x, y) = "degraded" =>
                    \/ fell
                    \/ \E c \in DOMAIN x.summary \intersect DOMAIN y.summary :
                          y.summary[c] \in {"fail", "warning"} /\ x.summary[c] \notin {"na", "fail"}
              /\ ScoreDelta(x, y) \in Int /\ (fell => ScoreDelta(x, y) < 0)
<1> DEFINE fell == x.score # NoScore /\ y.score # NoScore /\ y.score < x.score
           worse == Trend(x.summary, y.summary, "degraded")
           better == Trend(x.summary, y.summary, "improved")
           delta == ScoreDelta(x, y)
           back == ScoreDelta(y, x)
<1>1. delta \in Int /\ back \in Int /\ delta = -back /\ (fell <=> delta < 0)
    BY DEF ScoreDelta
<1>2. Trend(y.summary, x.summary, "degraded") = better /\ Trend(y.summary, x.summary, "improved") = worse
    BY TrendsMirrored
<1>3. \A c \in worse : /\ c \in DOMAIN x.summary \intersect DOMAIN y.summary
                       /\ y.summary[c] \in {"fail", "warning"} /\ x.summary[c] \notin {"na", "fail"}
    BY TrendsMirrored
<1> HIDE DEF worse, better, delta, back, fell
<1>4. PageChange(x, y) = IF worse \union better = {} /\ delta = 0 THEN "unchanged"
                         ELSE IF worse # {} \/ delta < 0 THEN "degraded" ELSE "improved"
    BY DEF PageChange, worse, better, delta
<1>5. PageChange(y, x) = IF better \union worse = {} /\ back = 0 THEN "unchanged"
                         ELSE IF better # {} \/ back < 0 THEN "degraded" ELSE "improved"
    BY <1>2 DEF PageChange, back
<1>6. PageChange(x, y) = "unchanged" <=> PageChange(y, x) = "unchanged"
    BY <1>1, <1>4, <1>5
<1>7. PageChange(x, y) = "improved" => PageChange(y, x) = "degraded" /\ ~fell /\ delta >= 0
    BY <1>1, <1>4, <1>5
<1>8. PageChange(x, y) = "degraded" => fell \/ worse # {}
    BY <1>1, <1>4
<1>9. PageChange(x, y) \in {"unchanged", "degraded", "improved"}
    BY <1>4
<1> QED BY <1>1, <1>3, <1>6, <1>7, <1>8, <1>9 DEF fell, delta

(* The order of the lines is lexicographic.                                 *)
Lex(r, d, w, u, s, e, x, v) ==
    \/ r < s
    \/ r = s /\ (d < e \/ (d = e /\ w > x) \/ (d = e /\ w = x /\ u < v))

LEMMA LexTransitive ==
    ASSUME NEW r \in Int, NEW d \in Int, NEW w \in Int, NEW u \in Int,
           NEW s \in Int, NEW e \in Int, NEW x \in Int, NEW v \in Int,
           NEW t \in Int, NEW f \in Int, NEW y \in Int, NEW z \in Int,
           Lex(r, d, w, u, s, e, x, v), Lex(s, e, x, v, t, f, y, z)
    PROVE  Lex(r, d, w, u, t, f, y, z)
BY DEF Lex

LEMMA SidesAgree ==
    ASSUME NEW A, SideOK(A), NEW B, SideOK(B)
    PROVE  LET there == ComparePages(A, B)
               back  == ComparePages(B, A)
               lines == DOMAIN there
               Before(u, v) == Precedes(A, B, u, v)
               Fell(u) == A[u].score # NoScore /\ B[u].score # NoScore /\ B[u].score < A[u].score
           IN /\ \A u \in lines :
                    /\ there[u] = "added" <=> back[u] = "removed"
                    /\ there[u] = "unchanged" <=> back[u] = "unchanged"
                    /\ there[u] = "improved" => back[u] = "degraded" /\ ~Fell(u)
                    /\ there[u] = "degraded" =>
                          \/ Fell(u)
                          \/ \E c \in DOMAIN A[u].summary \intersect DOMAIN B[u].summary :
                                /\ B[u].summary[c] \in {"fail", "warning"}
                                /\ A[u].summary[c] \notin {"na", "fail"}
              /\ \A u, v \in lines : u # v => (Before(u, v) <=> ~Before(v, u))
              /\ \A u, v, w \in lines : Before(u, v) /\ Before(v, w) => Before(u, w)
              /\ \A u, v \in lines :
                    there[u] = "improved" /\ there[v] = "degraded" /\ Fell(v) => Before(v, u)
<1> DEFINE there == ComparePages(A, B)
           back  == ComparePages(B, A)
           lines == DOMAIN A \union DOMAIN B
           Both(u) == u \in DOMAIN A /\ u \in DOMAIN B
           Fell(u) == A[u].score # NoScore /\ B[u].score # NoScore /\ B[u].score < A[u].score
           Rk(u) == LineRank(there[u])
           Dl(u) == IF Both(u) THEN ScoreDelta(A[u], B[u]) ELSE 0
           Wr(u) == IF Both(u) THEN Cardinality(Trend(A[u].summary, B[u].summary, "degraded"))
                    ELSE 0
           Lost(u) == \E c \in DOMAIN A[u].summary \intersect DOMAIN B[u].summary :
                         B[u].summary[c] \in {"fail", "warning"} /\ A[u].summary[c] \notin {"na", "fail"}
<1>1. DOMAIN there = lines /\ DOMAIN back = lines
    BY DEF ComparePages
<1>2. ASSUME NEW u \in lines
      PROVE  /\ there[u] = IF u \notin DOMAIN A THEN "added"
                           ELSE IF u \notin DOMAIN B THEN "removed" ELSE PageChange(A[u], B[u])
             /\ back[u] = IF u \notin DOMAIN B THEN "added"
                          ELSE IF u \notin DOMAIN A THEN "removed" ELSE PageChange(B[u], A[u])
    BY DEF ComparePages
<1>3. ASSUME NEW u, Both(u)
      PROVE  /\ PageChange(A[u], B[u]) \in {"unchanged", "degraded", "improved"}
             /\ PageChange(B[u], A[u]) \in {"unchanged", "degraded", "improved"}
             /\ PageChange(A[u], B[u]) = "unchanged" <=> PageChange(B[u], A[u]) = "unchanged"
             /\ PageChange(A[u], B[u]) = "improved" =>
                   PageChange(B[u], A[u]) = "degraded" /\ ~Fell(u) /\ ScoreDelta(A[u], B[u]) >= 0
             /\ PageChange(A[u], B[u]) = "degraded" => Fell(u) \/ Lost(u)
             /\ ScoreDelta(A[u], B[u]) \in Int /\ (Fell(u) => ScoreDelta(A[u], B[u]) < 0)
    <2>1. /\ A[u].score \in Int /\ B[u].score \in Int
          /\ \A c \in DOMAIN A[u].summary : A[u].summary[c] \in Verdicts
          /\ \A c \in DOMAIN B[u].summary : B[u].summary[c] \in Verdicts
        BY <1>3 DEF SideOK
    <2> QED BY <2>1, ChangeMirrored
<1>4. \A u \in lines : u \in Int /\ Rk(u) \in Int /\ Dl(u) \in Int /\ Wr(u) \in Int
    <2> TAKE u \in lines
    <2>1. u \in Int
        BY DEF SideOK
    <2>2. Rk(u) \in Int
        BY DEF LineRank
    <2>3. Dl(u) \in Int
        BY <1>3
    <2>4. Wr(u) \in Int
        <3>1. CASE Both(u)
            <4>1. IsFiniteSet(DOMAIN A[u].summary)
                BY <3>1 DEF SideOK
            <4>2. Trend(A[u].summary, B[u].summary, "degraded") \in SUBSET DOMAIN A[u].summary
                BY DEF Trend
            <4> QED BY <3>1, <4>1, <4>2, FS_Subset, FS_CardinalityType
        <3>2. CASE ~Both(u)
            BY <3>2
        <3> QED BY <3>1, <3>2
    <2> QED BY <2>1, <2>2, <2>3, <2>4
<1>5. \A u, v : Precedes(A, B, u, v) <=> Lex(Rk(u), Dl(u), Wr(u), u, Rk(v), Dl(v), Wr(v), v)
    <2> TAKE u, v
    <2>1. Precedes(A, B, u, v)
            <=> \/ Rk(u) < Rk(v)
                \/ /\ Rk(u) = Rk(v)
                   /\ \/ Dl(u) < Dl(v)
                      \/ Dl(u) = Dl(v) /\ Wr(u) > Wr(v)
                      \/ Dl(u) = Dl(v) /\ Wr(u) = Wr(v) /\ u < v
        BY DEF Precedes
    <2> HIDE DEF Rk, Dl, Wr
    <2> QED BY <2>1 DEF Lex
<1>6. ASSUME NEW u \in lines
      PROVE  /\ there[u] = "added" <=> back[u] = "removed"
             /\ there[u] = "unchanged" <=> back[u] = "unchanged"
             /\ there[u] = "improved" => back[u] = "degraded" /\ ~Fell(u)
             /\ there[u] = "degraded" => Fell(u) \/ Lost(u)
    <2> HIDE DEF there, back, Fell, Lost
    <2> QED BY <1>2, <1>3
<1>7. ASSUME NEW u \in lines, NEW v \in lines, there[u] = "improved", there[v] = "degraded", Fell(v)
      PROVE  Precedes(A, B, v, u)
    <2>1. Both(u) /\ Both(v)
        <3> HIDE DEF there, Fell
        <3> QED BY <1>2, <1>7
    <2>2. Rk(u) = 0 /\ Rk(v) = 0
        BY <1>7 DEF LineRank
    <2>3. Dl(v) < 0 /\ Dl(u) >= 0
        <3> HIDE DEF there, Fell, Lost
        <3> QED BY <1>2, <1>3, <1>7, <2>1
    <2> HIDE DEF Rk, Dl, Wr
    <2>4. Lex(Rk(v), Dl(v), Wr(v), v, Rk(u), Dl(u), Wr(u), u)
        BY <1>4, <2>2, <2>3 DEF Lex
    <2> QED BY <1>5, <2>4
<1> HIDE DEF there, back, Fell, Lost, Rk, Dl, Wr
<1>8. \A u, v \in lines : u # v => (Precedes(A, B, u, v) <=> ~Precedes(A, B, v, u))
    <2> TAKE u, v \in lines
    <2>1. /\ u \in Int /\ Rk(u) \in Int /\ Dl(u) \in Int /\ Wr(u) \in Int
          /\ v \in Int /\ Rk(v) \in Int /\ Dl(v) \in Int /\ Wr(v) \in Int
        BY <1>4
    <2>2. ASSUME u # v
          PROVE  Lex(Rk(u), Dl(u), Wr(u), u, Rk(v), Dl(v), Wr(v), v)
                 <=> ~Lex(Rk(v), Dl(v), Wr(v), v, Rk(u), Dl(u), Wr(u), u)
        BY <2>1, <2>2 DEF Lex
    <2> QED BY <1>5, <2>2
<1>9. \A u, v, w \in lines : Precedes(A, B, u, v) /\ Precedes(A, B, v, w) => Precedes(A, B, u, w)
    <2> TAKE u, v, w \in lines
    <2>1. /\ u \in Int /\ Rk(u) \in Int /\ Dl(u) \in Int /\ Wr(u) \in Int
          /\ v \in Int /\ Rk(v) \in Int /\ Dl(v) \in Int /\ Wr(v) \in Int
          /\ w \in Int /\ Rk(w) \in Int /\ Dl(w) \in Int /\ Wr(w) \in Int
        BY <1>4
    <2>2. Lex(Rk(u), Dl(u), Wr(u), u, Rk(v), Dl(v), Wr(v), v)
            /\ Lex(Rk(v), Dl(v), Wr(v), v, Rk(w), Dl(w), Wr(w), w)
          => Lex(Rk(u), Dl(u), Wr(u), u, Rk(w), Dl(w), Wr(w), w)
        BY <2>1, LexTransitive
    <2> QED BY <1>5, <2>2
<1> QED BY <1>1, <1>6, <1>7, <1>8, <1>9 DEF there, back, Fell, Lost

(* The score of a page is a share of 50, whatever the weights.              *)
LEMMA GlobalCounts ==
    ASSUME NEW checks, IsFiniteSet(DOMAIN checks),
           \A c \in DOMAIN checks : checks[c].score \in 0..Full,
           NEW s, \A c \in DOMAIN s.weights : s.weights[c] \in Int
    PROVE  WeightedGlobalScore(checks, s) \in 0..Full
<1> DEFINE counted == Weighted(checks, s)
           weights == [c \in counted |-> ResolveCheckWeight(c, s)]
           marks == [c \in counted |-> checks[c].score * weights[c]]
           tops == [c \in counted |-> Full * weights[c]]
           sum == SumFunctionOnSet(weights, counted)
           acc == SumFunctionOnSet(marks, counted)
<1>1. IsFiniteSet(counted) /\ counted \subseteq DOMAIN checks
    BY FS_Subset DEF Weighted
<1>2. \A c \in counted : weights[c] \in Nat \ {0}
    <2>1. \A c : ResolveCheckWeight(c, s) \in Int
        BY WeightAssumption DEF ResolveCheckWeight, Smaller, Larger
    <2> QED BY <2>1 DEF Weighted
<1>3. CASE counted = {}
    BY <1>3 DEF WeightedGlobalScore, Full
<1>4. CASE counted # {}
    <2>1. sum \in Nat \ {0}
        <3> HIDE DEF counted, weights
        <3> QED BY <1>1, <1>2, <1>4, SumPositive
    <2>2. \A c \in counted : /\ marks[c] \in Nat /\ tops[c] \in Nat /\ marks[c] <= tops[c]
                             /\ marks[c] = checks[c].score * weights[c]
                             /\ tops[c] = 50 * weights[c]
        <3> TAKE c \in counted
        <3>1. checks[c].score \in 0..50 /\ weights[c] \in Nat
            BY <1>1, <1>2 DEF Full
        <3> DEFINE a == checks[c].score
                   b == weights[c]
        <3>2. marks[c] = a * b /\ tops[c] = 50 * b
            BY DEF Full
        <3> HIDE DEF a, b, marks, tops
        <3>3. a \in 0..50 /\ b \in Nat
            BY <3>1 DEF a, b
        <3>4. a * b \in Nat /\ a * b <= 50 * b
            BY <3>3, SMTT(30)
        <3> QED BY <3>2, <3>3, <3>4 DEF a, b
    <2>3. acc \in Int /\ acc >= 0 /\ acc <= SumFunctionOnSet(tops, counted)
        <3> DEFINE none == [c \in counted |-> 0]
        <3>1. /\ \A c \in counted : none[c] \in Int /\ marks[c] \in Int /\ tops[c] \in Int
              /\ \A c \in counted : none[c] <= marks[c] /\ marks[c] <= tops[c]
            BY <2>2
        <3> HIDE DEF counted, marks, tops
        <3>2. SumFunctionOnSet(none, counted) = 0
            BY <1>1, SumZero
        <3> HIDE DEF none
        <3>3. /\ SumFunctionOnSet(none, counted) <= acc
              /\ acc <= SumFunctionOnSet(tops, counted) /\ acc \in Int
            BY <1>1, <3>1, SumGrows, SumStep
        <3> QED BY <3>2, <3>3
    <2>4. SumFunctionOnSet(tops, counted) = 50 * sum
        <3> HIDE DEF counted, weights, tops
        <3> QED BY <1>1, <1>2, <2>2, SumScaled
    <2>5. WeightedGlobalScore(checks, s) = (2 * acc + sum) \div (2 * sum)
        BY <1>4 DEF WeightedGlobalScore
    <2> HIDE DEF acc, sum
    <2>6. 2 * acc + sum \in Nat /\ 2 * sum \in Nat \ {0} /\ 2 * acc + sum < 50 * (2 * sum) + 2 * sum
        BY <2>1, <2>3, <2>4
    <2>7. (2 * acc + sum) \div (2 * sum) \in Nat /\ (2 * acc + sum) \div (2 * sum) <= 50
        BY <2>6, Quotient
    <2> QED BY <2>5, <2>7 DEF Full
<1> QED BY <1>3, <1>4

(****************************************************************************)
(* What a scan leaves to compare                                            *)
(****************************************************************************)
LEMMA ReportSide ==
    ASSUME SituationOK, NEW r, Founded(r), NEW s, s.weights = settings.weights,
           NEW others, SideOK(others)
    PROVE  SideOK(Report(r, s, others).side)
<1> DEFINE checks == Checks(r)
           global == WeightedGlobalScore(checks, s)
           summary == ToCheckSummary(checks)
           side == Report(r, s, others).side
<1>1. DOMAIN checks = {criterion, Rest} /\ IsFiniteSet({criterion, Rest})
    BY FewFinite DEF Checks
<1>2. \A c \in DOMAIN checks : checks[c].score \in 0..Full /\ checks[c].status \in Verdicts
    <2>1. company.rest.status \in Verdicts /\ company.rest.score \in 0..Full
        BY CompaniesAssumption DEF SituationOK
    <2>2. r.score \in 0..Full /\ r.status \in Verdicts
        BY DEF Founded
    <2> QED BY <2>1, <2>2 DEF Checks
<1>3. \A c \in DOMAIN s.weights : s.weights[c] \in Int
    BY DEF SituationOK, IsProfile
<1>4. global \in Int
    <2> HIDE DEF checks
    <2>1. global \in 0..Full
        BY <1>1, <1>2, <1>3, GlobalCounts
    <2> QED BY <2>1 DEF Full
<1>5. DOMAIN summary = {criterion, Rest} /\ \A c \in DOMAIN summary : summary[c] \in Verdicts
    BY <1>1, <1>2 DEF ToCheckSummary
<1>6. side = [u \in DOMAIN others \union {Here} |->
                IF u = Here THEN [score |-> global, summary |-> summary] ELSE others[u]]
    BY DEF Report
<1> HIDE DEF global, summary, side
<1>7. DOMAIN side = DOMAIN others \union {Here} /\ Here \in Int
    BY <1>6 DEF Here
<1>8. side[Here].score = global /\ side[Here].summary = summary
    BY <1>6
<1>9. \A u \in DOMAIN side : u # Here => u \in DOMAIN others /\ side[u] = others[u]
    BY <1>6
<1>10. ASSUME NEW u \in DOMAIN side
       PROVE  /\ side[u].score \in Int
              /\ IsFiniteSet(DOMAIN side[u].summary)
              /\ \A c \in DOMAIN side[u].summary : side[u].summary[c] \in Verdicts
    <2>1. CASE u = Here
        BY <1>1, <1>4, <1>5, <1>8, <2>1
    <2>2. CASE u # Here
        BY <1>9, <2>2 DEF SideOK
    <2> QED BY <2>1, <2>2
<1>11. DOMAIN side \subseteq Int
    BY <1>7 DEF SideOK
<1>12. SideOK(side)
    BY <1>10, <1>11 DEF SideOK
<1> QED BY <1>12 DEF side

LEMMA OthersOK == SituationOK => SideOK(Others)
<1> SUFFICES ASSUME SituationOK PROVE SideOK(Others)
    OBVIOUS
<1>1. IsSide(company.before) /\ IsSide(company.after)
    BY CompaniesAssumption DEF SituationOK
<1>2. \A side : IsSide(side) => SideOK(side)
    BY DEF IsSide, SideOK, Full, NoScore
<1> QED BY <1>1, <1>2 DEF Others

(* The reports kept are comparable.                                         *)
ReportsInv ==
    /\ SituationOK
    /\ past # NoScan => SideOK(past.side)
    /\ present # NoScan => SideOK(present.side)

LEMMA ReportsStep == ReportsInv /\ [Next]_vars => ReportsInv'
<1> SUFFICES ASSUME ReportsInv, [Next]_vars PROVE ReportsInv'
    OBVIOUS
<1>1. SituationOK /\ SituationOK'
    BY SituationStep DEF ReportsInv
<1>2. Effective.weights = settings.weights
    BY <1>1, RulesKeep DEF Effective, SituationOK
<1>3. SideOK(Others)
    BY <1>1, OthersOK
<1>4. Founded(RunOne(criterion, page, Effective)) /\ Founded(InternalError)
    BY <1>1, ScanSound DEF VerdictSound
<1>5. CASE Scan \/ ScanThrows
    <2>1. /\ SideOK(Report(RunOne(criterion, page, Effective), Effective, Others).side)
          /\ SideOK(Report(InternalError, Effective, Others).side)
        BY <1>1, <1>2, <1>3, <1>4, ReportSide
    <2>2. SideOK(present'.side) /\ UNCHANGED past
        BY <1>5, <2>1 DEF Scan, ScanThrows
    <2> QED BY <1>1, <2>2 DEF ReportsInv, SideOK
<1>6. CASE Mend \/ Retune
    <2>1. past' = present /\ present' = NoScan /\ present # NoScan
        BY <1>6 DEF Mend, Retune
    <2> QED BY <1>1, <2>1 DEF ReportsInv, SideOK
<1>7. CASE UNCHANGED vars
    BY <1>1, <1>7 DEF vars, ReportsInv, SideOK
<1> QED BY <1>5, <1>6, <1>7 DEF Next

LEMMA AgreementImplied == ReportsInv => ComparisonAgrees
<1> SUFFICES ASSUME ReportsInv, Compared PROVE ComparisonAgrees
    BY DEF ComparisonAgrees
<1>1. SideOK(past.side) /\ SideOK(present.side)
    BY DEF ReportsInv, Compared
<1> QED BY <1>1, SidesAgree DEF ComparisonAgrees

(* Two scans of a site tell the same story in either direction, and the     *)
(* lines of their comparison have one order, whatever the pages, the        *)
(* profiles and the other pages of the site (comparePages).                 *)
THEOREM ComparisonsAgree == Spec => []ComparisonAgrees
<1>1. Init => ReportsInv
    BY SituationStart DEF ReportsInv, Init
<1>2. ReportsInv /\ [Next]_vars => ReportsInv'
    BY ReportsStep
<1>3. ReportsInv => ComparisonAgrees
    BY AgreementImplied
<1> QED BY <1>1, <1>2, <1>3, PTL DEF Spec

(****************************************************************************)
(* What it is to get no worse                                               *)
(****************************************************************************)
(* A sum of positive terms over part of a set.                              *)
LEMMA SumOfPart ==
    ASSUME NEW S, IsFiniteSet(S), NEW f, \A x \in S : f[x] \in Nat \ {0}, NEW T \in SUBSET S
    PROVE  /\ SumFunctionOnSet(f, T) \in Nat /\ SumFunctionOnSet(f, S) \in Nat
           /\ SumFunctionOnSet(f, T) <= SumFunctionOnSet(f, S)
           /\ T # S => SumFunctionOnSet(f, T) < SumFunctionOnSet(f, S)
<1> DEFINE R == S \ T
           Q == {X \in SUBSET R : /\ SumFunctionOnSet(f, T) <= SumFunctionOnSet(f, T \union X)
                                  /\ X # {} => SumFunctionOnSet(f, T) < SumFunctionOnSet(f, T \union X)}
<1>1. ASSUME NEW X \in SUBSET R PROVE IsFiniteSet(T \union X) /\ T \union X \in SUBSET S
    <2>1. T \union X \in SUBSET S
        OBVIOUS
    <2> QED BY <2>1, FS_Subset
<1>2. \A X \in SUBSET R : SumFunctionOnSet(f, T \union X) \in Nat
    <2> TAKE X \in SUBSET R
    <2> DEFINE U == T \union X
    <2>1. IsFiniteSet(U) /\ \A x \in U : f[x] \in Nat \ {0}
        BY <1>1
    <2> HIDE DEF U
    <2> QED BY <2>1, SumPositive DEF U
<1>3. IsFiniteSet(R)
    BY FS_Subset
<1>4. {} \in Q
    <2>1. T \union {} = T
        OBVIOUS
    <2>2. SumFunctionOnSet(f, T \union {}) \in Nat
        BY <1>2
    <2> QED BY <2>1, <2>2
<1>5. ASSUME NEW X \in SUBSET R, NEW x \in R \ X, X \in Q PROVE X \union {x} \in Q
    <2> DEFINE U == T \union (X \union {x})
    <2>1. IsFiniteSet(U) /\ U \in SUBSET S /\ x \in U /\ U \ {x} = T \union X
        <3>1. X \union {x} \in SUBSET R
            OBVIOUS
        <3> QED BY <1>1, <3>1
    <2>2. \A y \in U : f[y] \in Int
        BY <2>1
    <2> HIDE DEF U
    <2>3. SumFunctionOnSet(f, U) = f[x] + SumFunctionOnSet(f, T \union X)
        BY <2>1, <2>2, SumStep
    <2>4. f[x] \in Nat \ {0}
        OBVIOUS
    <2>5. /\ SumFunctionOnSet(f, T) <= SumFunctionOnSet(f, T \union X)
          /\ SumFunctionOnSet(f, T \union X) \in Nat
        BY <1>2, <1>5
    <2>6. SumFunctionOnSet(f, T) \in Nat
        <3>1. T \union {} = T
            OBVIOUS
        <3>2. SumFunctionOnSet(f, T \union {}) \in Nat
            BY <1>2
        <3> QED BY <3>1, <3>2
    <2>7. SumFunctionOnSet(f, T) < SumFunctionOnSet(f, U)
        BY <2>3, <2>4, <2>5, <2>6
    <2> QED BY <2>6, <2>7, <2>3, <2>4, <2>5 DEF U
<1>6. R \in Q
    <2> HIDE DEF Q, R
    <2> QED BY <1>3, <1>4, <1>5, Gather
<1>7. T \union R = S /\ (T # S => R # {}) /\ T \union {} = T
    OBVIOUS
<1>8. SumFunctionOnSet(f, T \union {}) \in Nat /\ SumFunctionOnSet(f, T \union R) \in Nat
    BY <1>2
<1> HIDE DEF R
<1> QED BY <1>6, <1>7, <1>8

(* The items of one status that a set has, when it has all those of another.*)
LEMMA CountOfPart ==
    ASSUME NEW A, Countable(A), NEW B, Countable(B), NEW status,
           \A i \in B : i.status = status => i \in A
    PROVE  /\ CountOf(B, status) <= CountOf(A, status)
           /\ (\E i \in A \ B : i.status = status) => CountOf(B, status) < CountOf(A, status)
<1> DEFINE S == {i \in A : i.status = status}
           T == {i \in B : i.status = status}
           f == [i \in S |-> i.n]
           e == [i \in T |-> i.n]
<1>1. IsFiniteSet(S) /\ IsFiniteSet(T) /\ T \in SUBSET S
      /\ ((\E i \in A \ B : i.status = status) => T # S)
    <2>1. S \in SUBSET A /\ T \in SUBSET B
        OBVIOUS
    <2> QED BY <2>1, FS_Subset DEF Countable
<1>2. \A i \in S : f[i] \in Nat \ {0}
    BY DEF Countable
<1>3. \A i \in T : e[i] \in Int /\ e[i] = f[i]
    BY <1>1 DEF Countable
<1>4. CountOf(A, status) = SumFunctionOnSet(f, S) /\ CountOf(B, status) = SumFunctionOnSet(e, T)
    BY DEF CountOf
<1> HIDE DEF S, T, f, e
<1>5. SumFunctionOnSet(e, T) = SumFunctionOnSet(f, T)
    BY <1>1, <1>3, SumSame
<1>6. /\ SumFunctionOnSet(f, T) <= SumFunctionOnSet(f, S)
      /\ T # S => SumFunctionOnSet(f, T) < SumFunctionOnSet(f, S)
    BY <1>1, <1>2, SumOfPart
<1> QED BY <1>1, <1>4, <1>5, <1>6

(* One item more, n times, which the others do not speak of.                *)
LEMMA ItemAdds ==
    ASSUME NEW C, Countable(C), NEW key, NEW status \in Status, NEW n \in Nat,
           \A i \in C : i.status = status => i.key # key
    PROVE  /\ Countable(C \union Item(key, status, n))
           /\ CountOf(C \union Item(key, status, n), status) = CountOf(C, status) + n
           /\ \A other : other # status =>
                 CountOf(C \union Item(key, status, n), other) = CountOf(C, other)
<1> DEFINE x == [key |-> key, status |-> status, n |-> n]
           D == C \union Item(key, status, n)
<1>0. CountOf(C, status) \in Nat
    BY CountPositive
<1>1. Countable(D)
    BY ItemCountable, UnionCountable
<1>2. \A other : other # status => CountOf(D, other) = CountOf(C, other)
    <2> TAKE other
    <2> HAVE other # status
    <2>1. {i \in D : i.status = other} = {i \in C : i.status = other}
        BY <1>1 DEF Item
    <2> HIDE DEF D
    <2> QED BY <2>1 DEF CountOf
<1>3. CountOf(D, status) = CountOf(C, status) + n
    <2>1. CASE n = 0
        <3>1. D = C
            BY <2>1 DEF Item
        <3> HIDE DEF D
        <3> QED BY <1>0, <2>1, <3>1
    <2>2. CASE n > 0
        <3> DEFINE S == {i \in D : i.status = status}
                   T == {i \in C : i.status = status}
                   f == [i \in S |-> i.n]
                   e == [i \in T |-> i.n]
        <3>1. S = T \union {x} /\ x \notin T /\ x \in S /\ S \ {x} = T
            BY <2>2 DEF Item
        <3>2. IsFiniteSet(S) /\ IsFiniteSet(T)
            <4>1. S \in SUBSET D /\ T \in SUBSET C
                OBVIOUS
            <4> QED BY <1>1, <4>1, FS_Subset DEF Countable
        <3>3. \A i \in S : f[i] \in Int
            BY <1>1 DEF Countable
        <3>4. \A i \in T : e[i] \in Int /\ e[i] = f[i]
            BY <3>1 DEF Countable
        <3>5. f[x] = n
            BY <3>1
        <3>6. CountOf(D, status) = SumFunctionOnSet(f, S)
              /\ CountOf(C, status) = SumFunctionOnSet(e, T)
            BY DEF CountOf
        <3> HIDE DEF S, T, f, e, D, x
        <3>7. SumFunctionOnSet(f, S) = f[x] + SumFunctionOnSet(f, T)
            BY <3>1, <3>2, <3>3, SumStep
        <3>8. SumFunctionOnSet(e, T) = SumFunctionOnSet(f, T)
            BY <3>2, <3>4, SumSame
        <3> QED BY <1>0, <3>5, <3>6, <3>7, <3>8
    <2> QED BY <2>1, <2>2
<1> QED BY <1>1, <1>2, <1>3

(* Less to report: fewer failures, or as many and no more warnings.         *)
Milder(B, A) ==
    \/ CountOf(B, "fail") < CountOf(A, "fail")
    \/ CountOf(B, "fail") = CountOf(A, "fail") /\ CountOf(B, "warning") <= CountOf(A, "warning")

(* Nothing is reported that was not.                                        *)
Sub(B, A) == \A i \in B : i.status \in {"fail", "warning"} => i \in A

(* A result that is no worse than another.                                  *)
NoWorse(was, now) ==
    /\ was.status \in Verdicts /\ now.status \in Verdicts
    /\ was.score \in Int /\ now.score \in Int /\ now.score >= was.score
    /\ now.status = "na" <=> was.status = "na"
    /\ CompareStatus(was.status, now.status) # "degraded"

(* The first statuses a comparison takes for no worse.                      *)
LEMMA Ranked ==
    ASSUME NEW s \in Verdicts, NEW t \in Verdicts,
           s = "na" \/ s = "fail" \/ t = "pass" \/ t = "na" \/ s = t
    PROVE  CompareStatus(s, t) # "degraded"
<1>1. /\ CheckHealthOrder["fail"] = 0 /\ CheckHealthOrder["warning"] = 1
      /\ CheckHealthOrder["pass"] = 3 /\ CheckHealthOrder["na"] = -1
    BY DEF CheckHealthOrder
<1>2. /\ s \in {"pass", "warning", "fail", "na"}
      /\ t \in {"pass", "warning", "fail", "na"}
    BY DEF Verdicts, Status
<1> QED BY <1>1, <1>2 DEF CompareStatus

LEMMA SubMilder ==
    ASSUME NEW A, Countable(A), NEW B, Countable(B), Sub(B, A)
    PROVE  Milder(B, A) /\ CountOf(B, "fail") <= CountOf(A, "fail")
                        /\ CountOf(B, "warning") <= CountOf(A, "warning")
<1>1. CountOf(B, "fail") <= CountOf(A, "fail") /\ CountOf(B, "warning") <= CountOf(A, "warning")
    BY CountOfPart DEF Sub
<1>2. /\ CountOf(A, "fail") \in Nat /\ CountOf(B, "fail") \in Nat
      /\ CountOf(A, "warning") \in Nat /\ CountOf(B, "warning") \in Nat
    BY CountPositive
<1> QED BY <1>1, <1>2 DEF Milder

(* A scale gives no less for less to report.                                *)
LEMMA GradedNoWorse ==
    ASSUME NEW A, Countable(A), NEW B, Countable(B), Milder(B, A),
           NEW m \in Int, NEW n \in Int, m <= n
    PROVE  NoWorse(Result(StatusOf(CountOf(A, "fail"), CountOf(A, "warning")), 10 * m, A),
                   Result(StatusOf(CountOf(B, "fail"), CountOf(B, "warning")), 10 * n, B))
<1> DEFINE f == CountOf(A, "fail")
           w == CountOf(A, "warning")
           g == CountOf(B, "fail")
           v == CountOf(B, "warning")
           s == StatusOf(f, w)
           t == StatusOf(g, v)
<1>1. f \in Nat /\ w \in Nat /\ g \in Nat /\ v \in Nat
    BY CountPositive
<1>2. g < f \/ (g = f /\ v <= w)
    BY DEF Milder
<1>3. /\ s \in {"fail", "warning", "pass"} /\ t \in {"fail", "warning", "pass"}
      /\ s = "fail" \/ t = "pass" \/ s = t
    <2> HIDE DEF f, w, g, v
    <2> QED BY <1>1, <1>2 DEF StatusOf
<1> HIDE DEF s, t
<1>4. CompareStatus(s, t) # "degraded" /\ s \in Verdicts /\ t \in Verdicts
    BY <1>3, Ranked DEF Verdicts, Status
<1>5. 10 * m \in Int /\ 10 * n \in Int /\ 10 * m <= 10 * n
    OBVIOUS
<1>6. NoWorse(Result(s, 10 * m, A), Result(t, 10 * n, B))
    BY <1>3, <1>4, <1>5 DEF NoWorse, Result
<1> QED BY <1>6 DEF s, t

LEMMA ScalesEase ==
    ASSUME NEW A, Countable(A), NEW B, Countable(B), Milder(B, A)
    PROVE  /\ NoWorse(Graded(A, FaultScale), Graded(B, FaultScale))
           /\ NoWorse(Graded(A, LegalScale), Graded(B, LegalScale))
           /\ NoWorse(Graded(A, GradedScale), Graded(B, GradedScale))
           /\ NoWorse(VerdictOf(A), VerdictOf(B))
<1> DEFINE f == CountOf(A, "fail")
           w == CountOf(A, "warning")
           g == CountOf(B, "fail")
           v == CountOf(B, "warning")
<1>1. f \in Nat /\ w \in Nat /\ g \in Nat /\ v \in Nat
    BY CountPositive
<1>2. g < f \/ (g = f /\ v <= w)
    BY DEF Milder
<1>3. /\ FaultScale(f, w) \in Int /\ FaultScale(g, v) \in Int /\ FaultScale(f, w) <= FaultScale(g, v)
      /\ LegalScale(f, w) \in Int /\ LegalScale(g, v) \in Int /\ LegalScale(f, w) <= LegalScale(g, v)
      /\ VerdictScale(f, w) \in Int /\ VerdictScale(g, v) \in Int
      /\ VerdictScale(f, w) <= VerdictScale(g, v)
    <2> HIDE DEF f, w, g, v
    <2> QED BY <1>1, <1>2 DEF FaultScale, LegalScale, VerdictScale
<1>4. /\ GradedScale(f, w) \in Int /\ GradedScale(g, v) \in Int
      /\ GradedScale(f, w) <= GradedScale(g, v)
    <2> HIDE DEF f, w, g, v
    <2> QED BY <1>1, <1>2 DEF GradedScale, Larger
<1>5. NoWorse(Graded(A, FaultScale), Graded(B, FaultScale))
    BY <1>3, GradedNoWorse DEF Graded
<1>6. NoWorse(Graded(A, LegalScale), Graded(B, LegalScale))
    BY <1>3, GradedNoWorse DEF Graded
<1>7. NoWorse(Graded(A, GradedScale), Graded(B, GradedScale))
    BY <1>4, GradedNoWorse DEF Graded
<1>8. NoWorse(VerdictOf(A), VerdictOf(B))
    BY <1>3, GradedNoWorse DEF Graded, VerdictOf
<1> QED BY <1>5, <1>6, <1>7, <1>8

(* The scale with three notes looks only for what there is.                 *)
LEMMA VerdictEases ==
    ASSUME NEW A, Countable(A), NEW B, Countable(B),
           \A i \in B : i.status = "fail" => \E j \in A : j.status = "fail",
           \A i \in B : i.status = "warning" => \E j \in A : j.status \in {"fail", "warning"}
    PROVE  NoWorse(VerdictOf(A), VerdictOf(B))
<1> DEFINE f == CountOf(A, "fail")
           w == CountOf(A, "warning")
           g == CountOf(B, "fail")
           v == CountOf(B, "warning")
           s == StatusOf(f, w)
           t == StatusOf(g, v)
<1>1. f \in Nat /\ w \in Nat /\ g \in Nat /\ v \in Nat
    BY CountPositive
<1>2. g > 0 => f > 0
    BY <1>1, CountPositive
<1>3. v > 0 => f > 0 \/ w > 0
    BY <1>1, CountPositive
<1>4. VerdictOf(A) = Result(s, 10 * VerdictScale(f, w), A)
      /\ VerdictOf(B) = Result(t, 10 * VerdictScale(g, v), B)
    BY DEF VerdictOf, Graded
<1>5. /\ s \in {"fail", "warning", "pass"} /\ t \in {"fail", "warning", "pass"}
      /\ s = "fail" \/ t = "pass" \/ s = t
      /\ VerdictScale(f, w) \in Int /\ VerdictScale(g, v) \in Int
      /\ VerdictScale(f, w) <= VerdictScale(g, v)
    <2> HIDE DEF f, w, g, v
    <2> QED BY <1>1, <1>2, <1>3 DEF StatusOf, VerdictScale
<1> HIDE DEF s, t, f, w, g, v
<1>6. CompareStatus(s, t) # "degraded" /\ s \in Verdicts /\ t \in Verdicts
    BY <1>5, Ranked DEF Verdicts, Status
<1> QED BY <1>4, <1>5, <1>6 DEF NoWorse, Result

(* The worst result can only be bettered, the best one only reached.        *)
LEMMA FromWorst ==
    ASSUME NEW was, NEW now, was.status = "fail", was.score \in Int,
           now.status \in {"pass", "warning", "fail"}, now.score \in Int, was.score <= now.score
    PROVE  NoWorse(was, now)
BY Ranked DEF NoWorse, Verdicts, Status

LEMMA ToBest ==
    ASSUME NEW was, NEW now, was.status \in {"pass", "warning", "fail"}, was.score \in 0..Full,
           now.status = "pass", now.score = Full
    PROVE  NoWorse(was, now)
BY Ranked DEF NoWorse, Verdicts, Status, Full

LEMMA Unchanged ==
    ASSUME NEW was, was.status \in Verdicts, was.score \in Int
    PROVE  NoWorse(was, was)
BY Ranked DEF NoWorse

(* The parts of a set of items.                                             *)
LEMMA SubParts ==
    /\ \A A : Sub({}, A) /\ Sub(A, A)
    /\ \A key, n, A : Sub(Item(key, "pass", n), A) /\ Sub(Item(key, "info", n), A)
    /\ \A c, key, A : Sub(When(c, key, "pass"), A) /\ Sub(When(c, key, "info"), A)
    /\ \A A, B, C, D : Sub(B, A) /\ Sub(D, C) => Sub(B \union D, A \union C)
    /\ \A A, B, C : Sub(B, A) /\ Sub(C, A) <=> Sub(B \union C, A)
    /\ \A A, B, C : Sub(B, A) => Sub(B, A \union C) /\ Sub(B, C \union A)
BY DEF Sub, Item, When

LEMMA NotApplying == \A items : NoWorse(Na(items), Na(items))
BY Ranked DEF NoWorse, Na, Result, Verdicts, Status, Full

LEMMA CtaEases ==
    ASSUME NEW p \in CtaPage, NEW q \in CtaPage, q \in Reworked("CTA", p)
    PROVE  NoWorse(Cta(p), Cta(q))
<1> DEFINE buttons(x) == Item("CTA.button_count", IF x.noButton > 0 THEN "warning" ELSE "pass", 1)
           hollow(x) == When(x.noButton = 0 /\ x.emptyButtons > 0, "CTA.buttons_empty", "info")
           links(x) == When(x.ctaLinks > 0, "CTA.cta_links", "pass")
           images(x) == When(x.imageLinks > 0, "CTA.image_links", "info")
           phones(x) == Contact(x.noPhone, x.badPhone, "CTA.phone_count", "CTA.no_phone")
           mails(x) == Contact(x.noEmail, x.badEmail, "CTA.email_count", "CTA.no_email")
           none(x) == When(/\ x.noButton > 0 /\ x.noPhone > 0 /\ x.noEmail > 0
                           /\ x.ctaLinks = 0 /\ x.imageLinks = 0, "CTA.no_cta", "fail")
           items(x) == buttons(x) \union hollow(x) \union links(x) \union images(x)
                       \union phones(x) \union mails(x) \union none(x)
<1>0. \/ q = [p EXCEPT !.noButton = 0]
      \/ q = [p EXCEPT !.noPhone = 0]
      \/ q = [p EXCEPT !.noEmail = 0]
      \/ q = [p EXCEPT !.badPhone = 0]
      \/ q = [p EXCEPT !.badEmail = 0]
      \/ q = [p EXCEPT !.emptyButtons = 0]
    BY DEF Reworked, Without
<1>1. /\ q.noButton \in {p.noButton, 0}
      /\ q.noPhone \in {p.noPhone, 0}
      /\ q.noEmail \in {p.noEmail, 0}
      /\ q.badPhone \in {p.badPhone, 0} /\ q.badEmail \in {p.badEmail, 0}
      /\ p.noPhone > 0 => p.badPhone = 0
      /\ p.noEmail > 0 => p.badEmail = 0
      /\ q.ctaLinks = p.ctaLinks /\ q.imageLinks = p.imageLinks
    BY <1>0 DEF CtaPage
<1>2. \A x \in CtaPage : Cta(x) = Graded(items(x), FaultScale)
    BY DEF Cta
<1>3. Sub(items(q), items(p))
    <2>1. Sub(buttons(q), buttons(p))
        BY <1>1 DEF Sub, Item
    <2>2. Sub(hollow(q), hollow(p))
        BY <1>1 DEF Sub, Item, When
    <2>3. Sub(links(q), links(p))
        BY <1>1 DEF Sub, Item, When
    <2>4. Sub(images(q), images(p))
        BY <1>1 DEF Sub, Item, When
    <2>5. Sub(phones(q), phones(p))
        BY <1>1 DEF Sub, Item, Contact
    <2>6. Sub(mails(q), mails(p))
        BY <1>1 DEF Sub, Item, Contact
    <2>7. Sub(none(q), none(p))
        BY <1>1 DEF Sub, Item, When
    <2> HIDE DEF buttons, hollow, links, images, phones, mails, none
    <2> QED BY <2>1, <2>2, <2>3, <2>4, <2>5, <2>6, <2>7 DEF Sub
<1> HIDE DEF items
<1>4. NoWorse(Cta(p), Cta(q))
    <2>1. Cta(p).items = items(p) /\ Cta(q).items = items(q)
        BY <1>2 DEF Graded, VerdictOf, Result
    <2>2. Countable(items(p)) /\ Countable(items(q))
        BY <2>1, CtaRight DEF Right, Founded
    <2>3. Milder(items(q), items(p))
        BY <2>2, <1>3, SubMilder
    <2> QED BY <1>2, <2>2, <2>3, ScalesEase
<1> QED BY <1>4

LEMMA DataBindingEases ==
    ASSUME NEW p \in DataBindingPage, NEW q \in DataBindingPage, q \in Reworked("DATA_BINDING", p)
    PROVE  NoWorse(DataBinding(p), DataBinding(q))
<1> DEFINE footer(x) == Item("DATA_BINDING.footer_address", IF x.noFooter > 0 THEN "warning" ELSE "pass", 1)
           fields(x) == Judge(x.noField = 0, "DATA_BINDING.data_field_count", "pass",
                              "DATA_BINDING.no_data_field", "warning")
           hollow(x) == When(x.noField = 0 /\ x.emptyFields > 0, "DATA_BINDING.empty_data_field", "warning")
           bindings(x) == BindingItems(x)
           phones(x) == Item("DATA_BINDING.ctc_count", "pass", 1)
           mails(x) == Item("DATA_BINDING.ctm_count", "pass", 1)
           components(x) == ComponentItems(x)
           form(x) == FormItem(x.form)
           config(x) == Item("DATA_BINDING.duda_config", "pass", 1)
           items(x) == footer(x) \union fields(x) \union hollow(x) \union bindings(x)
                       \union phones(x) \union mails(x) \union components(x) \union form(x)
                       \union config(x)
           f(x) == CountOf(items(x), "fail")
           w(x) == CountOf(items(x), "warning")
           note(x) == IF w(x) >= 3 THEN 2 ELSE IF w(x) = 2 THEN 3 ELSE IF w(x) = 1 THEN 4 ELSE 5
<1>0. \/ q = [p EXCEPT !.noFooter = 0]
      \/ q = [p EXCEPT !.noField = 0]
      \/ q = [p EXCEPT !.emptyFields = 0]
      \/ q = [p EXCEPT !.emptyBindings = 0]
      \/ q = [p EXCEPT !.noLogo = 0]
      \/ q = [p EXCEPT !.loose = {}]
      \/ q = [p EXCEPT !.noBinding = 0, !.active = 1]
    BY DEF Reworked, Without
<1>1. /\ q.noFooter \in {p.noFooter, 0}
      /\ q.noField \in {p.noField, 0}
      /\ q.emptyFields \in {p.emptyFields, 0}
      /\ q.emptyBindings \in {p.emptyBindings, 0}
      /\ q.noLogo \in {p.noLogo, 0}
      /\ p.noField > 0 => p.emptyFields = 0
      /\ p.noField \in Nat /\ p.emptyFields \in Nat
      /\ \/ q.noBinding = p.noBinding /\ q.active = p.active
         \/ q.noBinding = 0 /\ q.active = 1 /\ (p.noBinding > 0 => q.emptyBindings = 0)
      /\ q.loose \subseteq p.loose
      /\ q.duda = p.duda /\ q.form = p.form /\ q.joined = p.joined
    <2>1. CASE q = [p EXCEPT !.noFooter = 0]
        BY <2>1 DEF DataBindingPage
    <2>2. CASE q = [p EXCEPT !.noField = 0]
        BY <2>2 DEF DataBindingPage
    <2>3. CASE q = [p EXCEPT !.emptyFields = 0]
        BY <2>3 DEF DataBindingPage
    <2>4. CASE q = [p EXCEPT !.emptyBindings = 0]
        BY <2>4 DEF DataBindingPage
    <2>5. CASE q = [p EXCEPT !.noLogo = 0]
        BY <2>5 DEF DataBindingPage
    <2>6. CASE q = [p EXCEPT !.loose = {}]
        BY <2>6 DEF DataBindingPage
    <2>7. CASE q = [p EXCEPT !.noBinding = 0, !.active = 1]
        BY <2>7 DEF DataBindingPage
    <2> QED BY <1>0, <2>1, <2>2, <2>3, <2>4, <2>5, <2>6, <2>7
<1>2. \A x \in DataBindingPage : x.duda =>
        DataBinding(x) = Result(StatusOf(f(x), w(x)), 10 * note(x), items(x))
    BY DEF DataBinding, Graded
<1>3. Sub(items(q), items(p))
    <2>1. Sub(footer(q), footer(p))
        BY <1>1 DEF Sub, Item
    <2>2. Sub(fields(q), fields(p))
        BY <1>1 DEF Sub, Item, Judge
    <2>3. Sub(hollow(q), hollow(p))
        BY <1>1 DEF Sub, Item, When
    <2>4. Sub(bindings(q), bindings(p))
        BY <1>1 DEF Sub, Item, BindingItems, When
    <2>5. Sub(phones(q), phones(p))
        BY SubParts
    <2>6. Sub(mails(q), mails(p))
        BY SubParts
    <2>7. Sub(components(q), components(p))
        <3> DEFINE Component(k, status) == Item("DATA_BINDING." \o k \o "_connected", status, 1)
                   logo(x) == Component("logo", IF x.noLogo > 0 THEN "warning" ELSE "pass")
                   bound(x) == UNION {Component(k, "pass") : k \in x.joined \ x.loose}
                   free(x) == UNION {Component(k, "warning") : k \in x.loose}
        <3>1. Sub(logo(q), logo(p))
            BY <1>1 DEF Sub, Item
        <3>2. Sub(bound(q), bound(p))
            BY DEF Sub, Item
        <3>3. free(q) \subseteq free(p)
            BY <1>1
        <3>4. \A x : ComponentItems(x) = logo(x) \union bound(x) \union free(x)
            BY DEF ComponentItems
        <3> HIDE DEF logo, bound, free
        <3> QED BY <3>1, <3>2, <3>3, <3>4 DEF Sub
    <2>8. Sub(form(q), form(p))
        BY <1>1 DEF Sub, Item, FormItem
    <2>9. Sub(config(q), config(p))
        BY SubParts
    <2> HIDE DEF footer, fields, hollow, bindings, phones, mails, components, form, config
    <2> QED BY <2>1, <2>2, <2>3, <2>4, <2>5, <2>6, <2>7, <2>8, <2>9 DEF Sub
<1> HIDE DEF items
<1>4. ASSUME p.duda, q.duda PROVE NoWorse(DataBinding(p), DataBinding(q))
    <2>1. DataBinding(p).items = items(p) /\ DataBinding(q).items = items(q)
        <3> HIDE DEF f, w, note
        <3> QED BY <1>4, <1>2 DEF Result
    <2>2. Countable(items(p)) /\ Countable(items(q))
        BY <2>1, DataBindingRight DEF Right, Founded
    <2>3. /\ Milder(items(q), items(p)) /\ f(q) <= f(p) /\ w(q) <= w(p)
          /\ f(p) \in Nat /\ w(p) \in Nat /\ f(q) \in Nat /\ w(q) \in Nat
        BY <2>2, <1>3, SubMilder, CountPositive
    <2>4. note(p) \in Int /\ note(q) \in Int /\ note(p) <= note(q)
        <3> HIDE DEF f, w
        <3> QED BY <2>3
    <2> HIDE DEF note
    <2> QED BY <1>4, <1>2, <2>2, <2>3, <2>4, GradedNoWorse
<1>5. CASE ~p.duda
    BY <1>1, <1>5, NotApplying DEF DataBinding
<1> QED BY <1>1, <1>4, <1>5

LEMMA MetasEases ==
    ASSUME NEW p \in MetasPage, NEW q \in MetasPage, q \in Reworked("METAS", p)
    PROVE  NoWorse(Metas(p), Metas(q))
<1> DEFINE title(x) == BoundedText(x.title, "METAS.title_")
           text(x) == BoundedText(x.description, "METAS.desc_")
           index(x) == IF x.noindex = 0 THEN {}
                       ELSE IF x.preview THEN Item("METAS.noindex_preview", "info", 1)
                       ELSE Item("METAS.noindex", "fail", 1)
           items(x) == title(x) \union text(x) \union index(x)
           f(x) == CountOf(items(x), "fail")
           w(x) == CountOf(items(x), "warning")
           note(x) == IF f(x) > 1 THEN 1 ELSE IF f(x) = 1 THEN 2 ELSE IF w(x) > 0 THEN 3 ELSE 5
<1>0. \/ q = [p EXCEPT !.title = "fits"]
      \/ q = [p EXCEPT !.description = "fits"]
      \/ q = [p EXCEPT !.noindex = 0]
    BY DEF Reworked
<1>1. /\ q.title \in {p.title, "fits"} /\ q.description \in {p.description, "fits"}
      /\ q.noindex \in {p.noindex, 0}
      /\ q.preview = p.preview
    BY <1>0 DEF MetasPage
<1>2. \A x \in MetasPage : Metas(x) = Result(StatusOf(f(x), w(x)), 10 * note(x), items(x))
    BY DEF Metas, Graded
<1>3. Sub(items(q), items(p))
    <2>1. Sub(title(q), title(p))
        <3>1. BoundedText("fits", "METAS.title_") = Item("METAS.title_" \o "ok", "pass", 1)
            BY DEF BoundedText
        <3> QED BY <1>1, <3>1, SubParts
    <2>2. Sub(text(q), text(p))
        <3>1. BoundedText("fits", "METAS.desc_") = Item("METAS.desc_" \o "ok", "pass", 1)
            BY DEF BoundedText
        <3> QED BY <1>1, <3>1, SubParts
    <2>3. Sub(index(q), index(p))
        BY <1>1 DEF Sub, Item
    <2> HIDE DEF title, text, index
    <2> QED BY <2>1, <2>2, <2>3 DEF Sub
<1> HIDE DEF items
<1>4. NoWorse(Metas(p), Metas(q))
    <2>1. Metas(p).items = items(p) /\ Metas(q).items = items(q)
        <3> HIDE DEF f, w, note
        <3> QED BY <1>2 DEF Result
    <2>2. Countable(items(p)) /\ Countable(items(q))
        BY <2>1, MetasRight DEF Right, Founded
    <2>3. /\ Milder(items(q), items(p)) /\ f(q) <= f(p) /\ w(q) <= w(p)
          /\ f(p) \in Nat /\ w(p) \in Nat /\ f(q) \in Nat /\ w(q) \in Nat
        BY <2>2, <1>3, SubMilder, CountPositive
    <2>4. note(p) \in Int /\ note(q) \in Int /\ note(p) <= note(q)
        <3> HIDE DEF f, w
        <3> QED BY <2>3
    <2> HIDE DEF note
    <2> QED BY <1>2, <2>2, <2>3, <2>4, GradedNoWorse
<1> QED BY <1>4

LEMMA RobotsMetaEases ==
    ASSUME NEW p \in RobotsPage, NEW q \in RobotsPage, q \in Reworked("ROBOTS_META", p)
    PROVE  NoWorse(RobotsMeta(p), RobotsMeta(q))
<1> DEFINE some(x) == Item(IF x.meta \union x.header = {} THEN "ROBOTS.no_directive" ELSE "ROBOTS.directive_ok",
                           "pass", 1)
           unlisted(x) == IF "noindex" \in x.meta \union x.header
                          THEN Item("ROBOTS.noindex", IF x.preview THEN "info" ELSE "fail", 1) ELSE {}
           unfollowed(x) == When("nofollow" \in x.meta \union x.header, "ROBOTS.nofollow", "warning")
           unkept(x) == When("noarchive" \in x.meta \union x.header, "ROBOTS.noarchive", "warning")
           tag(x) == When(x.header # {}, "ROBOTS.x_robots_tag", "info")
           text(x) == RobotsTxt(x)
           items(x) == some(x) \union unlisted(x) \union unfollowed(x) \union unkept(x)
                       \union tag(x) \union text(x)
           f(x) == CountOf(items(x), "fail")
           w(x) == CountOf(items(x), "warning")
           note(x) == IF f(x) > 0 THEN 0 ELSE IF w(x) >= 2 THEN 3 ELSE IF w(x) = 1 THEN 4 ELSE 5
<1>0. \/ q = [p EXCEPT !.meta = {}]
      \/ q = [p EXCEPT !.header = {}]
      \/ q = [p EXCEPT !.robots = 200]
    BY DEF Reworked
<1>1. /\ q.meta \in {p.meta, {}} /\ q.header \in {p.header, {}}
      /\ q.robots \in {p.robots, 200}
      /\ q.preview = p.preview /\ q.resolves = p.resolves /\ q.net = p.net /\ q.exhausted = p.exhausted
    BY <1>0 DEF RobotsPage
<1>2. \A x \in RobotsPage : RobotsMeta(x) = Result(StatusOf(f(x), w(x)), 10 * note(x), items(x))
    BY DEF RobotsMeta, Graded
<1>3. Sub(items(q), items(p))
    <2>1. Sub(some(q), some(p))
        BY <1>1 DEF Sub, Item
    <2>2. Sub(unlisted(q), unlisted(p))
        BY <1>1 DEF Sub, Item
    <2>3. Sub(unfollowed(q), unfollowed(p))
        BY <1>1 DEF Sub, Item, When
    <2>4. Sub(unkept(q), unkept(p))
        BY <1>1 DEF Sub, Item, When
    <2>5. Sub(tag(q), tag(p))
        BY <1>1 DEF Sub, Item, When
    <2>6. Sub(text(q), text(p))
        BY <1>1 DEF Sub, Item, RobotsTxt
    <2> HIDE DEF some, unlisted, unfollowed, unkept, tag, text
    <2> QED BY <2>1, <2>2, <2>3, <2>4, <2>5, <2>6 DEF Sub
<1> HIDE DEF items
<1>4. NoWorse(RobotsMeta(p), RobotsMeta(q))
    <2>1. RobotsMeta(p).items = items(p) /\ RobotsMeta(q).items = items(q)
        <3> HIDE DEF f, w, note
        <3> QED BY <1>2 DEF Result
    <2>2. Countable(items(p)) /\ Countable(items(q))
        BY <2>1, RobotsMetaRight DEF Right, Founded
    <2>3. /\ Milder(items(q), items(p)) /\ f(q) <= f(p) /\ w(q) <= w(p)
          /\ f(p) \in Nat /\ w(p) \in Nat /\ f(q) \in Nat /\ w(q) \in Nat
        BY <2>2, <1>3, SubMilder, CountPositive
    <2>4. note(p) \in Int /\ note(q) \in Int /\ note(p) <= note(q)
        <3> HIDE DEF f, w
        <3> QED BY <2>3
    <2> HIDE DEF note
    <2> QED BY <1>2, <2>2, <2>3, <2>4, GradedNoWorse
<1> QED BY <1>4

LEMMA OpenGraphEases ==
    ASSUME NEW p \in OpenGraphPage, NEW q \in OpenGraphPage, q \in Reworked("OPEN_GRAPH", p)
    PROVE  NoWorse(OpenGraph(p), OpenGraph(q))
<1> DEFINE found(x) == Item("OG.property", "pass", 4 - x.missing)
           lost(x) == When(x.missing > 0, "OG.missing", "warning")
           card(x) == Judge(x.twitter, "OG.twitter_card", "pass", "OG.twitter_missing", "info")
           items(x) == found(x) \union lost(x) \union card(x)
<1>0. \/ q = [p EXCEPT !.missing = 0]
      \/ q = [p EXCEPT !.twitter = TRUE]
    BY DEF Reworked
<1>1. /\ q.missing \in {p.missing, 0}
      /\ q.twitter \in {p.twitter, TRUE}
      /\ p.missing \in 0..4
    BY <1>0 DEF OpenGraphPage
<1>2. \A x \in OpenGraphPage : OpenGraph(x) = VerdictOf(items(x))
    BY DEF OpenGraph
<1>3. Sub(items(q), items(p))
    <2>1. Sub(found(q), found(p))
        BY <1>1 DEF Sub, Item
    <2>2. Sub(lost(q), lost(p))
        BY <1>1 DEF Sub, Item, When
    <2>3. Sub(card(q), card(p))
        BY <1>1 DEF Sub, Item, Judge
    <2> HIDE DEF found, lost, card
    <2> QED BY <2>1, <2>2, <2>3 DEF Sub
<1> HIDE DEF items
<1>4. NoWorse(OpenGraph(p), OpenGraph(q))
    <2>1. OpenGraph(p).items = items(p) /\ OpenGraph(q).items = items(q)
        BY <1>2 DEF Graded, VerdictOf, Result
    <2>2. Countable(items(p)) /\ Countable(items(q))
        BY <2>1, OpenGraphRight DEF Right, Founded
    <2>3. Milder(items(q), items(p))
        BY <2>2, <1>3, SubMilder
    <2> QED BY <1>2, <2>2, <2>3, ScalesEase
<1> QED BY <1>4

LEMMA RedirectsEases ==
    ASSUME NEW p \in RedirectsPage, NEW q \in RedirectsPage, q \in Reworked("REDIRECTS", p)
    PROVE  NoWorse(Redirects(p), Redirects(q))
<1> DEFINE hops(x) == Item("REDIRECTS.hop", "info", x.hops)
           long(x) == When(x.hops > 1, "REDIRECTS.chain_long", "warning")
           brief(x) == When(x.temporary > 0, "REDIRECTS.temporary", "warning")
           items(x) == hops(x) \union long(x) \union brief(x)
<1>0. \/ q = [p EXCEPT !.hops = 0, !.temporary = 0]
      \/ q = [p EXCEPT !.temporary = 0]
    BY DEF Reworked
<1>1. /\ q.temporary \in {p.temporary, 0}
      /\ \/ q.hops = p.hops
         \/ q.hops = 0
      /\ p.hops \in Nat /\ q.hops \in Nat
    BY <1>0 DEF RedirectsPage
<1>2. \A x \in RedirectsPage : x.hops # 0 =>
        Redirects(x) = VerdictOf(items(x))
    BY DEF Redirects
<1>3. Sub(items(q), items(p))
    <2>1. Sub(hops(q), hops(p))
        BY <1>1 DEF Sub, Item
    <2>2. Sub(long(q), long(p))
        BY <1>1 DEF Sub, Item, When
    <2>3. Sub(brief(q), brief(p))
        BY <1>1 DEF Sub, Item, When
    <2> HIDE DEF hops, long, brief
    <2> QED BY <2>1, <2>2, <2>3 DEF Sub
<1> HIDE DEF items
<1>4. ASSUME p.hops # 0, q.hops # 0 PROVE NoWorse(Redirects(p), Redirects(q))
    <2>1. Redirects(p).items = items(p) /\ Redirects(q).items = items(q)
        BY <1>4, <1>2 DEF Graded, VerdictOf, Result
    <2>2. Countable(items(p)) /\ Countable(items(q))
        BY <2>1, RedirectsRight DEF Right, Founded
    <2>3. Milder(items(q), items(p))
        BY <2>2, <1>3, SubMilder
    <2> QED BY <1>4, <1>2, <2>2, <2>3, ScalesEase
<1>5. CASE q.hops = 0
    <2>1. Redirects(q).status = "pass" /\ Redirects(q).score = Full
        BY <1>5 DEF Redirects, Pass, Result
    <2>2. Redirects(p).status \in {"pass", "warning", "fail"} /\ Redirects(p).score \in 0..Full
        <3>1. Redirects(p).status # "na"
            BY DEF Redirects, Pass, VerdictOf, Graded, Result, StatusOf
        <3> QED BY <3>1, RedirectsRight DEF Right, Founded, Verdicts, Status
    <2> QED BY <2>1, <2>2, ToBest
<1> QED BY <1>1, <1>4, <1>5

LEMMA HnLengthEases ==
    ASSUME NEW p \in HnLengthPage, NEW q \in HnLengthPage, q \in Reworked("HN_LENGTH", p)
    PROVE  NoWorse(HnLength(p), HnLength(q))
<1> DEFINE short(x) == Item("HN_LENGTH.too_short", "fail", x.short)
           long(x) == Item("HN_LENGTH.too_long", "warning", x.long)
           ok(x) == Item("HN_LENGTH.ok", "pass", x.fitting)
           items(x) == short(x) \union long(x) \union ok(x)
<1>0. \/ q = [p EXCEPT !.short = 0]
      \/ q = [p EXCEPT !.long = 0]
    BY DEF Reworked, Without
<1>1. /\ q.short \in {p.short, 0}
      /\ q.long \in {p.long, 0}
      /\ q.fitting = p.fitting
      /\ p.short \in Nat /\ p.long \in Nat /\ p.fitting \in Nat
    BY <1>0 DEF HnLengthPage
<1>2. \A x \in HnLengthPage : x.short + x.long + x.fitting # 0 =>
        HnLength(x) = Graded(items(x), GradedScale)
    BY DEF HnLength
<1>3. Sub(items(q), items(p))
    <2>1. Sub(short(q), short(p))
        BY <1>1 DEF Sub, Item
    <2>2. Sub(long(q), long(p))
        BY <1>1 DEF Sub, Item
    <2>3. Sub(ok(q), ok(p))
        BY <1>1 DEF Sub, Item
    <2> HIDE DEF short, long, ok
    <2> QED BY <2>1, <2>2, <2>3 DEF Sub
<1> HIDE DEF items
<1>4. ASSUME p.short + p.long + p.fitting # 0, q.short + q.long + q.fitting # 0 PROVE NoWorse(HnLength(p), HnLength(q))
    <2>1. HnLength(p).items = items(p) /\ HnLength(q).items = items(q)
        BY <1>4, <1>2 DEF Graded, VerdictOf, Result
    <2>2. Countable(items(p)) /\ Countable(items(q))
        BY <2>1, HnLengthRight DEF Right, Founded
    <2>3. Milder(items(q), items(p))
        BY <2>2, <1>3, SubMilder
    <2> QED BY <1>4, <1>2, <2>2, <2>3, ScalesEase
<1>5. CASE q.short + q.long + q.fitting = 0
    <2>1. HnLength(q).status = "pass" /\ HnLength(q).score = Full
        BY <1>5 DEF HnLength, Pass, Result
    <2>2. HnLength(p).status \in {"pass", "warning", "fail"} /\ HnLength(p).score \in 0..Full
        <3>1. HnLength(p).status # "na"
            BY DEF HnLength, Pass, Graded, Result, StatusOf
        <3> QED BY <3>1, HnLengthRight DEF Right, Founded, Verdicts, Status
    <2> QED BY <2>1, <2>2, ToBest
<1>6. p.short + p.long + p.fitting = 0 => q.short + q.long + q.fitting = 0
    <2>1. \A a, b, c \in Nat : a + b + c = 0 <=> (a = 0 /\ b = 0 /\ c = 0)
        OBVIOUS
    <2>2. q.short \in Nat /\ q.long \in Nat /\ q.fitting \in Nat
        BY <1>1
    <2>3. p.short + p.long + p.fitting = 0 => (p.short = 0 /\ p.long = 0 /\ p.fitting = 0)
        BY <1>1, <2>1
    <2>4. (p.short = 0 /\ p.long = 0 /\ p.fitting = 0) => (q.short = 0 /\ q.long = 0 /\ q.fitting = 0)
        BY <1>1
    <2>5. (q.short = 0 /\ q.long = 0 /\ q.fitting = 0) => q.short + q.long + q.fitting = 0
        BY <2>1, <2>2
    <2> QED BY <2>3, <2>4, <2>5
<1> QED BY <1>4, <1>5, <1>6

LEMMA BoldEases ==
    ASSUME NEW p \in BoldPage, NEW q \in BoldPage, q \in Reworked("BOLD", p)
    PROVE  NoWorse(Bold(p), Bold(q))
<1> DEFINE count(x) == Judge(x.count = "fits", "BOLD.count_ok", "pass", "BOLD.too_" \o x.count, "warning")
           context(x) == Judge(x.poor = 0, "BOLD.context_ok", "pass", "BOLD.context_poor", "warning")
           empty(x) == When(x.empty > 0, "BOLD.empty", "fail")
           items(x) == count(x) \union context(x) \union empty(x)
           f(x) == CountOf(items(x), "fail")
           w(x) == CountOf(items(x), "warning")
           note(x) == IF f(x) > 0 THEN 1 ELSE IF w(x) >= 2 THEN 3 ELSE IF w(x) = 1 THEN 4 ELSE 5
<1>0. \/ q = [p EXCEPT !.poor = 0]
      \/ q = [p EXCEPT !.empty = 0]
      \/ q = [p EXCEPT !.count = "fits"]
    BY DEF Reworked, Without
<1>1. /\ q.count \in {p.count, "fits"}
      /\ q.poor \in {p.poor, 0}
      /\ q.empty \in {p.empty, 0}
      /\ p.count = "none" => (p.poor = 0 /\ p.empty = 0)
      /\ p.poor \in Nat /\ p.empty \in Nat
    <2>1. CASE q = [p EXCEPT !.poor = 0]
        BY <2>1 DEF BoldPage
    <2>2. CASE q = [p EXCEPT !.empty = 0]
        BY <2>2 DEF BoldPage
    <2>3. CASE q = [p EXCEPT !.count = "fits"]
        BY <2>3 DEF BoldPage
    <2> QED BY <1>0, <2>1, <2>2, <2>3
<1>2. \A x \in BoldPage : x.count # "none" =>
        Bold(x) = Result(StatusOf(f(x), w(x)), 10 * note(x), items(x))
    BY DEF Bold, Graded
<1>3. Sub(items(q), items(p))
    <2>1. Sub(count(q), count(p))
        BY <1>1 DEF Sub, Item, Judge
    <2>2. Sub(context(q), context(p))
        BY <1>1 DEF Sub, Item, Judge
    <2>3. Sub(empty(q), empty(p))
        BY <1>1 DEF Sub, Item, When
    <2> HIDE DEF count, context, empty
    <2> QED BY <2>1, <2>2, <2>3 DEF Sub
<1> HIDE DEF items
<1>4. ASSUME p.count # "none", q.count # "none" PROVE NoWorse(Bold(p), Bold(q))
    <2>1. Bold(p).items = items(p) /\ Bold(q).items = items(q)
        <3> HIDE DEF f, w, note
        <3> QED BY <1>4, <1>2 DEF Result
    <2>2. Countable(items(p)) /\ Countable(items(q))
        BY <2>1, BoldRight DEF Right, Founded
    <2>3. /\ Milder(items(q), items(p)) /\ f(q) <= f(p) /\ w(q) <= w(p)
          /\ f(p) \in Nat /\ w(p) \in Nat /\ f(q) \in Nat /\ w(q) \in Nat
        BY <2>2, <1>3, SubMilder, CountPositive
    <2>4. note(p) \in Int /\ note(q) \in Int /\ note(p) <= note(q)
        <3> HIDE DEF f, w
        <3> QED BY <2>3
    <2> HIDE DEF note
    <2> QED BY <1>4, <1>2, <2>2, <2>3, <2>4, GradedNoWorse
<1>7. \A x \in BoldPage : x.count = "none" => Bold(x).status = "warning" /\ Bold(x).score = 20
    <2> SUFFICES ASSUME NEW x \in BoldPage, x.count = "none" 
                 PROVE  Bold(x).status = "warning" /\ Bold(x).score = 20
        OBVIOUS
    <2>1. Bold(x) = Warn(Item("BOLD.none", "warning", 1), 2)
        BY DEF Bold
    <2> QED BY <2>1 DEF Warn, Result
<1>5. CASE p.count = "none" /\ q.count = "none"
    BY <1>5, <1>7, Ranked DEF NoWorse, Verdicts, Status
<1>6. CASE p.count = "none" /\ q.count = "fits"
    <2>1. \A i \in items(q) : i.status = "pass"
        BY <1>1, <1>6 DEF items, Judge, When, Item
    <2>2. Bold(q).items = items(q)
        <3> HIDE DEF f, w, note
        <3> QED BY <1>2, <1>6 DEF Result
    <2>3. Countable(items(q))
        BY <2>2, BoldRight DEF Right, Founded
    <2>4. f(q) = 0 /\ w(q) = 0
        BY <2>1, <2>3, CountPositive
    <2>5. Bold(q).status = "pass" /\ Bold(q).score = Full
        <3> HIDE DEF f, w
        <3> QED BY <1>2, <1>6, <2>4 DEF StatusOf, Result, Full
    <2>6. Bold(p).status \in {"pass", "warning", "fail"} /\ Bold(p).score \in 0..Full
        BY <1>6, <1>7 DEF Result, Full
    <2> QED BY <2>5, <2>6, ToBest
<1> QED BY <1>1, <1>4, <1>5, <1>6

LEMMA ImagesEases ==
    ASSUME NEW p \in ImagesPage, NEW q \in ImagesPage, q \in Reworked("IMAGES", p)
    PROVE  NoWorse(Images(p), Images(q))
<1> DEFINE alt(x) == Judge(x.noAlt = 0, "IMAGES.alt_present", "pass", "IMAGES.alt_missing", "fail")
           decorative(x) == When(x.decorative, "IMAGES.decorative", "pass")
           weights(x) == ImageWeights(x)
           legacy(x) == When(x.legacy > 0, "IMAGES.format_modern", "warning")
           items(x) == alt(x) \union decorative(x) \union weights(x) \union legacy(x)
           f(x) == CountOf(items(x), "fail")
           w(x) == CountOf(items(x), "warning")
           note(x) == IF f(x) >= 2 THEN 0 ELSE IF f(x) = 1 THEN 2
                      ELSE IF w(x) > 1 THEN 3 ELSE IF w(x) = 1 THEN 4 ELSE 5
<1>0. \/ q = [p EXCEPT !.noAlt = 0]
      \/ q = [p EXCEPT !.heavy = 0]
      \/ q = [p EXCEPT !.borderline = 0]
      \/ q = [p EXCEPT !.legacy = 0]
    BY DEF Reworked, Without
<1>1. /\ q.images = p.images /\ q.decorative = p.decorative /\ q.unverified = p.unverified /\ q.beyond = p.beyond
      /\ q.net = p.net
      /\ q.noAlt \in {p.noAlt, 0}
      /\ q.heavy \in {p.heavy, 0}
      /\ q.borderline \in {p.borderline, 0}
      /\ q.legacy \in {p.legacy, 0}
    BY <1>0 DEF ImagesPage
<1>2. \A x \in ImagesPage : x.images # 0 =>
        Images(x) = Result(StatusOf(f(x), w(x)), 10 * note(x), items(x))
    BY DEF Images, Graded
<1>3. Sub(items(q), items(p))
    <2>1. Sub(alt(q), alt(p))
        BY <1>1 DEF Sub, Item, Judge
    <2>2. Sub(decorative(q), decorative(p))
        BY <1>1 DEF Sub, Item, When
    <2>3. Sub(weights(q), weights(p))
        BY <1>1 DEF Sub, Item, ImageWeights, When
    <2>4. Sub(legacy(q), legacy(p))
        BY <1>1 DEF Sub, Item, When
    <2> HIDE DEF alt, decorative, weights, legacy
    <2> QED BY <2>1, <2>2, <2>3, <2>4 DEF Sub
<1> HIDE DEF items
<1>4. ASSUME p.images # 0, q.images # 0 PROVE NoWorse(Images(p), Images(q))
    <2>1. Images(p).items = items(p) /\ Images(q).items = items(q)
        <3> HIDE DEF f, w, note
        <3> QED BY <1>4, <1>2 DEF Result
    <2>2. Countable(items(p)) /\ Countable(items(q))
        BY <2>1, ImagesRight DEF Right, Founded
    <2>3. /\ Milder(items(q), items(p)) /\ f(q) <= f(p) /\ w(q) <= w(p)
          /\ f(p) \in Nat /\ w(p) \in Nat /\ f(q) \in Nat /\ w(q) \in Nat
        BY <2>2, <1>3, SubMilder, CountPositive
    <2>4. note(p) \in Int /\ note(q) \in Int /\ note(p) <= note(q)
        <3> HIDE DEF f, w
        <3> QED BY <2>3
    <2> HIDE DEF note
    <2> QED BY <1>4, <1>2, <2>2, <2>3, <2>4, GradedNoWorse
<1>5. CASE p.images = 0
    BY <1>1, <1>5, NotApplying DEF Images
<1> QED BY <1>1, <1>4, <1>5

LEMMA DuplicateImagesEases ==
    ASSUME NEW p \in DuplicateImagesPage, NEW q \in DuplicateImagesPage, q \in Reworked("DUPLICATE_IMAGES", p)
    PROVE  NoWorse(DuplicateImages(p), DuplicateImages(q))
<1> DEFINE some(x) == Item("DUP.unique_count", "pass", 1)
           logos(x) == When(x.logos, "DUP.logos", "info")
           twice(x) == Judge(x.twice = 0, "DUP.no_duplicates", "pass", "DUP.duplicates", "warning")
           items(x) == some(x) \union logos(x) \union twice(x)
<1>0. q = [p EXCEPT !.twice = 0]
    BY DEF Reworked, Without
<1>1. /\ q.images = p.images /\ q.logos = p.logos
      /\ q.twice \in {p.twice, 0}
    BY <1>0 DEF DuplicateImagesPage
<1>2. \A x \in DuplicateImagesPage : x.images # 0 =>
        DuplicateImages(x) = VerdictOf(items(x))
    BY DEF DuplicateImages
<1>3. Sub(items(q), items(p))
    <2>1. Sub(some(q), some(p))
        BY SubParts
    <2>2. Sub(logos(q), logos(p))
        BY <1>1 DEF Sub, Item, When
    <2>3. Sub(twice(q), twice(p))
        BY <1>1 DEF Sub, Item, Judge
    <2> HIDE DEF some, logos, twice
    <2> QED BY <2>1, <2>2, <2>3 DEF Sub
<1> HIDE DEF items
<1>4. ASSUME p.images # 0, q.images # 0 PROVE NoWorse(DuplicateImages(p), DuplicateImages(q))
    <2>1. DuplicateImages(p).items = items(p) /\ DuplicateImages(q).items = items(q)
        BY <1>4, <1>2 DEF Graded, VerdictOf, Result
    <2>2. Countable(items(p)) /\ Countable(items(q))
        BY <2>1, DuplicateImagesRight DEF Right, Founded
    <2>3. Milder(items(q), items(p))
        BY <2>2, <1>3, SubMilder
    <2> QED BY <1>4, <1>2, <2>2, <2>3, ScalesEase
<1>5. CASE p.images = 0
    BY <1>1, <1>5, NotApplying DEF DuplicateImages
<1> QED BY <1>1, <1>4, <1>5

LEMMA PictogramEases ==
    ASSUME NEW p \in PictogramPage, NEW q \in PictogramPage, q \in Reworked("PICTOGRAM", p)
    PROVE  NoWorse(Pictogram(p), Pictogram(q))
<1> DEFINE counts(x) == UNION {Item("PICTO." \o l \o "_count", "pass", 1) : l \in x.icons}
           mute(x) == When("fa" \in x.icons /\ x.mute > 0, "PICTO.fa_accessibility", "warning")
           unloaded(x) == When("fa" \in x.icons /\ x.unloaded > 0, "PICTO.fa_not_loaded", "warning")
           bare(x) == When("svg" \in x.icons /\ x.bare > 0, "PICTO.svg_accessibility", "warning")
           total(x) == Item(IF x.icons = {} THEN "PICTO.no_icons" ELSE "PICTO.total", "pass", 1)
           items(x) == counts(x) \union mute(x) \union unloaded(x) \union bare(x) \union total(x)
           f(x) == CountOf(items(x), "fail")
           w(x) == CountOf(items(x), "warning")
           note(x) == IF f(x) > 0 THEN 1 ELSE IF w(x) >= 2 THEN 3 ELSE IF w(x) = 1 THEN 4 ELSE 5
<1>0. \/ q = [p EXCEPT !.mute = 0]
      \/ q = [p EXCEPT !.unloaded = 0]
      \/ q = [p EXCEPT !.bare = 0]
    BY DEF Reworked, Without
<1>1. /\ q.icons = p.icons
      /\ q.mute \in {p.mute, 0}
      /\ q.unloaded \in {p.unloaded, 0}
      /\ q.bare \in {p.bare, 0}
    BY <1>0 DEF PictogramPage
<1>2. \A x \in PictogramPage : Pictogram(x) = Result(StatusOf(f(x), w(x)), 10 * note(x), items(x))
    BY DEF Pictogram, Graded
<1>3. Sub(items(q), items(p))
    <2>1. Sub(counts(q), counts(p))
        BY <1>1 DEF Sub, Item
    <2>2. Sub(mute(q), mute(p))
        BY <1>1 DEF Sub, Item, When
    <2>3. Sub(unloaded(q), unloaded(p))
        BY <1>1 DEF Sub, Item, When
    <2>4. Sub(bare(q), bare(p))
        BY <1>1 DEF Sub, Item, When
    <2>5. Sub(total(q), total(p))
        BY <1>1 DEF Sub, Item
    <2> HIDE DEF counts, mute, unloaded, bare, total
    <2> QED BY <2>1, <2>2, <2>3, <2>4, <2>5 DEF Sub
<1> HIDE DEF items
<1>4. NoWorse(Pictogram(p), Pictogram(q))
    <2>1. Pictogram(p).items = items(p) /\ Pictogram(q).items = items(q)
        <3> HIDE DEF f, w, note
        <3> QED BY <1>2 DEF Result
    <2>2. Countable(items(p)) /\ Countable(items(q))
        BY <2>1, PictogramRight DEF Right, Founded
    <2>3. /\ Milder(items(q), items(p)) /\ f(q) <= f(p) /\ w(q) <= w(p)
          /\ f(p) \in Nat /\ w(p) \in Nat /\ f(q) \in Nat /\ w(q) \in Nat
        BY <2>2, <1>3, SubMilder, CountPositive
    <2>4. note(p) \in Int /\ note(q) \in Int /\ note(p) <= note(q)
        <3> HIDE DEF f, w
        <3> QED BY <2>3
    <2> HIDE DEF note
    <2> QED BY <1>2, <2>2, <2>3, <2>4, GradedNoWorse
<1> QED BY <1>4

LEMMA AccessibilityEases ==
    ASSUME NEW p \in AccessibilityPage, NEW q \in AccessibilityPage, q \in Reworked("ACCESSIBILITY", p)
    PROVE  NoWorse(Accessibility(p), Accessibility(q))
<1> DEFINE skip(x) == Judge(x.noSkip = 0, "A11Y.skip_ok", "pass", "A11Y.skip_missing", "warning")
           landmarks(x) == Judge(x.noLandmark = 0, "A11Y.structure_ok", "pass",
                                 "A11Y.structure_incomplete", "warning")
           alt(x) == Judge(x.noAlt = 0, "A11Y.img_alt_ok", "pass", "A11Y.img_alt_missing", "fail")
           names(x) == Judge(x.nameless = 0, "A11Y.links_ok", "pass", "A11Y.links_empty", "fail")
           controls(x) == Controls(x)
           items(x) == skip(x) \union landmarks(x) \union alt(x) \union names(x)
                       \union controls(x)
           f(x) == CountOf(items(x), "fail")
           w(x) == CountOf(items(x), "warning")
           note(x) == IF f(x) >= 3 THEN 0 ELSE IF f(x) = 2 THEN 1
                      ELSE IF f(x) = 1 THEN (IF w(x) >= 1 THEN 2 ELSE 3)
                      ELSE IF w(x) >= 3 THEN 3 ELSE IF w(x) >= 1 THEN 4 ELSE 5
<1>0. \/ q = [p EXCEPT !.noSkip = 0]
      \/ q = [p EXCEPT !.noLandmark = 0]
      \/ q = [p EXCEPT !.noAlt = 0]
      \/ q = [p EXCEPT !.nameless = 0]
      \/ q = [p EXCEPT !.unlabelled = 0]
      \/ q = [p EXCEPT !.tabindex = 0]
      \/ q = [p EXCEPT !.noLang = 0]
    BY DEF Reworked, Without
<1>1. /\ q.fields = p.fields /\ q.roles = p.roles
      /\ q.noSkip \in {p.noSkip, 0}
      /\ q.noLandmark \in {p.noLandmark, 0}
      /\ q.noAlt \in {p.noAlt, 0}
      /\ q.nameless \in {p.nameless, 0}
      /\ q.unlabelled \in {p.unlabelled, 0}
      /\ q.tabindex \in {p.tabindex, 0}
      /\ q.noLang \in {p.noLang, 0}
    BY <1>0 DEF AccessibilityPage
<1>2. \A x \in AccessibilityPage : Accessibility(x) = Result(StatusOf(f(x), w(x)), 10 * note(x), items(x))
    BY DEF Accessibility, Graded
<1>3. Sub(items(q), items(p))
    <2>1. Sub(skip(q), skip(p))
        BY <1>1 DEF Sub, Item, Judge
    <2>2. Sub(landmarks(q), landmarks(p))
        BY <1>1 DEF Sub, Item, Judge
    <2>3. Sub(alt(q), alt(p))
        BY <1>1 DEF Sub, Item, Judge
    <2>4. Sub(names(q), names(p))
        BY <1>1 DEF Sub, Item, Judge
    <2>5. Sub(controls(q), controls(p))
        BY <1>1 DEF Sub, Item, Controls, Judge, When
    <2> HIDE DEF skip, landmarks, alt, names, controls
    <2> QED BY <2>1, <2>2, <2>3, <2>4, <2>5 DEF Sub
<1> HIDE DEF items
<1>4. NoWorse(Accessibility(p), Accessibility(q))
    <2>1. Accessibility(p).items = items(p) /\ Accessibility(q).items = items(q)
        <3> HIDE DEF f, w, note
        <3> QED BY <1>2 DEF Result
    <2>2. Countable(items(p)) /\ Countable(items(q))
        BY <2>1, AccessibilityRight DEF Right, Founded
    <2>3. /\ Milder(items(q), items(p)) /\ f(q) <= f(p) /\ w(q) <= w(p)
          /\ f(p) \in Nat /\ w(p) \in Nat /\ f(q) \in Nat /\ w(q) \in Nat
        BY <2>2, <1>3, SubMilder, CountPositive
    <2>4. note(p) \in Int /\ note(q) \in Int /\ note(p) <= note(q)
        <3> HIDE DEF f, w
        <3> QED BY <2>3
    <2> HIDE DEF note
    <2> QED BY <1>2, <2>2, <2>3, <2>4, GradedNoWorse
<1> QED BY <1>4

(* The notes of the scale that most of the small criteria have.             *)
LEMMA VerdictNotes ==
    ASSUME NEW A, Countable(A)
    PROVE  /\ VerdictOf(A).status \in {"pass", "warning", "fail"}
           /\ VerdictOf(A).score \in {10, 30, 50}
           /\ (\E i \in A : i.status = "fail") =>
                  VerdictOf(A).status = "fail" /\ VerdictOf(A).score = 10
<1> DEFINE f == CountOf(A, "fail")
           w == CountOf(A, "warning")
<1>1. f \in Nat /\ w \in Nat /\ ((\E i \in A : i.status = "fail") => f > 0)
    BY CountPositive
<1>2. VerdictOf(A) = Result(StatusOf(f, w), 10 * VerdictScale(f, w), A)
    BY DEF VerdictOf, Graded
<1> HIDE DEF f, w
<1> QED BY <1>1, <1>2 DEF Result, StatusOf, VerdictScale


LEMMA TrackingEases ==
    ASSUME NEW p \in TrackingPage, NEW q \in TrackingPage, q \in Reworked("TRACKING", p),
           q.noConsent = 0
    PROVE  NoWorse(Tracking(p), Tracking(q))
<1> DEFINE tools(x) == Item("TRACKING.tool_detected", "pass", x.tools)
           count(x) == Judge(x.tools > 0, "TRACKING.count", "pass", "TRACKING.none", "warning")
           asked(x) == When(x.noConsent = 0, "TRACKING.cmp_ok", "pass")
           unasked(x) == When(x.noConsent > 0 /\ x.tools > 0, "TRACKING.no_cmp", "fail")
           items(x) == tools(x) \union count(x) \union asked(x) \union unasked(x)
<1>0. \/ q = [p EXCEPT !.tools = 1]
      \/ q = [p EXCEPT !.noConsent = 0]
    BY DEF Reworked
<1>1. /\ q.tools \in {p.tools, 1} /\ p.tools \in Nat
      /\ q.noConsent = 0
    BY <1>0 DEF TrackingPage
<1>2. \A x \in TrackingPage : Tracking(x) = VerdictOf(items(x))
    BY DEF Tracking
<1>3. Sub(items(q), items(p))
    <2>1. Sub(tools(q), tools(p))
        BY <1>1 DEF Sub, Item
    <2>2. Sub(count(q), count(p))
        BY <1>1 DEF Sub, Item, Judge
    <2>3. Sub(asked(q), asked(p))
        BY <1>1 DEF Sub, Item, When
    <2>4. Sub(unasked(q), unasked(p))
        BY <1>1 DEF Sub, Item, When
    <2> HIDE DEF tools, count, asked, unasked
    <2> QED BY <2>1, <2>2, <2>3, <2>4 DEF Sub
<1> HIDE DEF items
<1>4. NoWorse(Tracking(p), Tracking(q))
    <2>1. Tracking(p).items = items(p) /\ Tracking(q).items = items(q)
        BY <1>2 DEF Graded, VerdictOf, Result
    <2>2. Countable(items(p)) /\ Countable(items(q))
        BY <2>1, TrackingRight DEF Right, Founded
    <2>3. Milder(items(q), items(p))
        BY <2>2, <1>3, SubMilder
    <2> QED BY <1>2, <2>2, <2>3, ScalesEase
<1> QED BY <1>4

LEMMA LangEases ==
    ASSUME NEW p \in LangPage, NEW q \in LangPage, q \in Reworked("LANG", p)
    PROVE  NoWorse(Lang(p), Lang(q))
<1> DEFINE lang(x) == IF x.noLang > 0 THEN Item("LANG.missing", "fail", 1)
                      ELSE Judge(x.unusual = 0, "LANG.ok", "pass", "LANG.unusual", "warning")
           content(x) == When(x.content # "none", "LANG.content_language", "pass")
           mismatch(x) == When(x.content = "other" /\ x.noLang = 0, "LANG.lang_mismatch", "warning")
           others(x) == When(x.alternates, "LANG.hreflang_count", "pass")
           default(x) == When(x.alternates /\ x.noDefault > 0, "LANG.hreflang_no_default", "warning")
           rtl(x) == When(x.rtl, "LANG.rtl", "pass")
           items(x) == lang(x) \union content(x) \union mismatch(x) \union others(x)
                       \union default(x) \union rtl(x)
<1>0. \/ q = [p EXCEPT !.noLang = 0]
      \/ q = [p EXCEPT !.unusual = 0]
      \/ q = [p EXCEPT !.noDefault = 0]
      \/ q = [p EXCEPT !.content = "same"]
    BY DEF Reworked, Without
<1>1. /\ q.noLang \in {p.noLang, 0}
      /\ q.unusual \in {p.unusual, 0}
      /\ q.noDefault \in {p.noDefault, 0}
      /\ q.content \in {p.content, "same"}
      /\ q.alternates = p.alternates /\ q.rtl = p.rtl
      /\ p.noLang \in Nat /\ q.noLang \in Nat
    BY <1>0 DEF LangPage
<1>2. \A x \in LangPage : Lang(x) = VerdictOf(items(x))
    BY DEF Lang
<1>3. ASSUME p.noLang = 0 PROVE Sub(items(q), items(p))
    <2>1. Sub(lang(q), lang(p))
        BY <1>1, <1>3 DEF Sub, Item, Judge
    <2>2. Sub(content(q), content(p))
        BY <1>1, <1>3 DEF Sub, Item, When
    <2>3. Sub(mismatch(q), mismatch(p))
        BY <1>1, <1>3 DEF Sub, Item, When
    <2>4. Sub(others(q), others(p))
        BY <1>1, <1>3 DEF Sub, Item, When
    <2>5. Sub(default(q), default(p))
        BY <1>1, <1>3 DEF Sub, Item, When
    <2>6. Sub(rtl(q), rtl(p))
        BY <1>1, <1>3 DEF Sub, Item, When
    <2> HIDE DEF lang, content, mismatch, others, default, rtl
    <2> QED BY <2>1, <2>2, <2>3, <2>4, <2>5, <2>6 DEF Sub
<1> HIDE DEF items
<1>4. \A x \in LangPage : Countable(items(x)) /\ Lang(x) = VerdictOf(items(x))
    <2>1. \A x \in LangPage : Lang(x).items = items(x)
        BY <1>2 DEF Graded, VerdictOf, Result
    <2> QED BY <1>2, <2>1, LangRight DEF Right, Founded
<1>5. CASE p.noLang = 0
    BY <1>3, <1>4, <1>5, SubMilder, ScalesEase
<1>6. CASE p.noLang > 0
    <2>1. \E i \in items(p) : i.status = "fail"
        <3>1. lang(p) = {[key |-> "LANG.missing", status |-> "fail", n |-> 1]}
            BY <1>6 DEF Item
        <3>2. lang(p) \subseteq items(p)
            BY DEF items
        <3> HIDE DEF lang
        <3> QED BY <3>1, <3>2
    <2> QED BY <1>4, <2>1, VerdictNotes, FromWorst
<1> QED BY <1>1, <1>5, <1>6

LEMMA FaviconEases ==
    ASSUME NEW p \in FaviconPage, NEW q \in FaviconPage, q \in Reworked("FAVICON", p)
    PROVE  NoWorse(Favicon(p), Favicon(q))
<1> DEFINE lost(x) == When(x.standard = "none", "FAVICON.missing", "warning")
           touch(x) == When(x.apple = "none", "FAVICON.apple_touch_missing", "warning")
           given(x) == Item("FAVICON.duda_default", "warning",
                         (IF x.standard = "duda" THEN 1 ELSE 0) + (IF x.apple = "duda" THEN 1 ELSE 0))
           own(x) == When(x.standard = "own", "FAVICON.present", "pass")
           ownTouch(x) == When(x.apple = "own", "FAVICON.apple_touch", "pass")
           sizes(x) == When(x.sizes, "FAVICON.sizes", "pass")
           items(x) == lost(x) \union touch(x) \union given(x) \union own(x)
                       \union ownTouch(x) \union sizes(x)
           None(x) == x.standard = "none" /\ x.apple = "none"
<1>0. \/ q = [p EXCEPT !.standard = "own"]
      \/ q = [p EXCEPT !.apple = "own"]
    BY DEF Reworked
<1>1. q.standard \in {p.standard, "own"} /\ q.apple \in {p.apple, "own"}
    BY <1>0 DEF FaviconPage
<1>2. \A x \in FaviconPage : ~None(x) => Favicon(x) = VerdictOf(items(x))
    BY DEF Favicon
<1>3. \A x \in FaviconPage : ~None(x) => Countable(items(x))
    <2>1. \A x \in FaviconPage : ~None(x) => Favicon(x).items = items(x)
        <3> HIDE DEF items
        <3> QED BY <1>2 DEF Graded, VerdictOf, Result
    <2> HIDE DEF items, None
    <2> QED BY <2>1, FaviconRight DEF Right, Founded
<1>4. \A x : \A i \in items(x) : /\ i.status \in {"warning", "pass"}
                                 /\ i.status = "warning" => x.standard \in {"none", "duda"} \/ x.apple \in {"none", "duda"}
    <2> SUFFICES ASSUME NEW x, NEW i \in items(x)
                 PROVE  /\ i.status \in {"warning", "pass"}
                        /\ i.status = "warning" => x.standard \in {"none", "duda"} \/ x.apple \in {"none", "duda"}
        OBVIOUS
    <2>1. CASE i \in lost(x)
        BY <2>1 DEF When, Item
    <2>2. CASE i \in touch(x)
        BY <2>2 DEF When, Item
    <2>3. CASE i \in given(x)
        BY <2>3 DEF Item
    <2>4. CASE i \in own(x) \union ownTouch(x) \union sizes(x)
        BY <2>4 DEF When, Item
    <2> HIDE DEF lost, touch, given, own, ownTouch, sizes
    <2> QED BY <2>1, <2>2, <2>3, <2>4
<1>5. \A x \in FaviconPage : x.standard \in {"none", "duda"} \/ x.apple \in {"none", "duda"} =>
          \E i \in items(x) : i.status = "warning"
    <2> SUFFICES ASSUME NEW x \in FaviconPage,
                        x.standard \in {"none", "duda"} \/ x.apple \in {"none", "duda"}
                 PROVE  \E i \in lost(x) \union touch(x) \union given(x) : i.status = "warning"
        OBVIOUS
    <2>1. CASE x.standard = "none"
        <3>1. [key |-> "FAVICON.missing", status |-> "warning", n |-> 1] \in lost(x)
            BY <2>1 DEF When, Item
        <3> HIDE DEF given, lost, touch
        <3> QED BY <3>1
    <2>2. CASE x.apple = "none"
        <3>1. [key |-> "FAVICON.apple_touch_missing", status |-> "warning", n |-> 1] \in touch(x)
            BY <2>2 DEF When, Item
        <3> HIDE DEF given, lost, touch
        <3> QED BY <3>1
    <2>3. CASE x.standard = "duda" \/ x.apple = "duda"
        <3> DEFINE n == (IF x.standard = "duda" THEN 1 ELSE 0) + (IF x.apple = "duda" THEN 1 ELSE 0)
        <3>1. n > 0
            BY <2>3
        <3> HIDE DEF n
        <3>2. [key |-> "FAVICON.duda_default", status |-> "warning", n |-> n] \in given(x)
            BY <3>1 DEF n, Item
        <3> HIDE DEF given, lost, touch
        <3> QED BY <3>2
    <2> QED BY <2>1, <2>2, <2>3
<1> HIDE DEF items
<1>6. ASSUME ~None(p) PROVE NoWorse(Favicon(p), Favicon(q))
    <2>1. ~None(q)
        BY <1>1, <1>6
    <2>2. q.standard \in {"none", "duda"} \/ q.apple \in {"none", "duda"} =>
             p.standard \in {"none", "duda"} \/ p.apple \in {"none", "duda"}
        BY <1>1
    <2>3. /\ \A i \in items(q) : i.status = "fail" => \E j \in items(p) : j.status = "fail"
          /\ \A i \in items(q) : i.status = "warning" =>
                \E j \in items(p) : j.status \in {"fail", "warning"}
        BY <1>4, <1>5, <2>2
    <2>4. Countable(items(p)) /\ Countable(items(q))
        BY <1>3, <1>6, <2>1
    <2>5. Favicon(p) = VerdictOf(items(p)) /\ Favicon(q) = VerdictOf(items(q))
        BY <1>2, <1>6, <2>1
    <2> HIDE DEF None
    <2> QED BY <2>3, <2>4, <2>5, VerdictEases
<1>7. ASSUME None(p) PROVE NoWorse(Favicon(p), Favicon(q))
    <2>1. Favicon(p) = Fail(Item("FAVICON.missing", "fail", 1), 0)
        BY <1>7 DEF Favicon
    <2>2. ~None(q)
        BY <1>0, <1>7 DEF FaviconPage
    <2>3. Favicon(q) = VerdictOf(items(q)) /\ Countable(items(q))
        BY <1>2, <1>3, <2>2
    <2>4. Favicon(p).status = "fail" /\ Favicon(p).score = 0
        BY <2>1 DEF Fail, Result
    <2> HIDE DEF None
    <2> QED BY <2>3, <2>4, VerdictNotes, FromWorst
<1> QED BY <1>6, <1>7

LEMMA ContentEases ==
    ASSUME NEW p \in ContentPage, NEW q \in ContentPage, q \in Reworked("CONTENT_LENGTH", p),
           NEW t \in Thresholds
    PROVE  NoWorse(ContentLength(p, t), ContentLength(q, t))
<1>1. p.words \in Nat /\ q.words = p.words + 1
    BY DEF Reworked, ContentPage
<1>2. t[1] \in Nat /\ t[2] \in Nat
    BY DEF Thresholds
<1> DEFINE short == Fail(Item("CONTENT.too_short", "fail", 1), 2)
           brief == Warn(Item("CONTENT.short", "warning", 1), 3)
           good  == Pass(Item("CONTENT.ok", "pass", 1))
<1>3. /\ short.status = "fail" /\ short.score = 20
      /\ brief.status = "warning" /\ brief.score = 30
      /\ good.status = "pass" /\ good.score = 50
    BY DEF Fail, Warn, Pass, Result, Full
<1>4. \A x : ContentLength(x, t) = IF x.words < t[1] THEN short ELSE IF x.words < t[2] THEN brief ELSE good
    BY DEF ContentLength
<1> HIDE DEF short, brief, good
<1>5. CASE p.words < t[1]
    <2>1. ContentLength(p, t) = short
        BY <1>4, <1>5
    <2>2. ContentLength(q, t) \in {short, brief, good}
        BY <1>4
    <2> QED BY <1>3, <2>1, <2>2, FromWorst
<1>6. CASE p.words >= t[1] /\ p.words < t[2]
    <2>1. ContentLength(p, t) = brief /\ ContentLength(q, t) \in {brief, good}
        BY <1>1, <1>2, <1>4, <1>6
    <2> QED BY <1>3, <2>1, Ranked DEF NoWorse, Verdicts, Status
<1>7. CASE p.words >= t[1] /\ p.words >= t[2]
    <2>1. ContentLength(p, t) = good /\ ContentLength(q, t) = good
        BY <1>1, <1>2, <1>4, <1>7
    <2> QED BY <1>3, <2>1, Ranked DEF NoWorse, Verdicts, Status
<1> QED BY <1>1, <1>2, <1>5, <1>6, <1>7

(* A quotient grows with what is divided.                                   *)
LEMMA QuotientGrows ==
    ASSUME NEW a \in Nat, NEW b \in Nat, a <= b, NEW d \in Nat \ {0}
    PROVE  a \div d <= b \div d /\ a \div d \in Nat /\ b \div d \in Nat
<1> DEFINE m == a \div d
           n == b \div d
<1>1. /\ m \in Nat /\ n \in Nat
      /\ \A k \in Nat : a < k * d + d => m <= k
      /\ \A k \in Nat : b < k * d + d => n <= k
      /\ \A k \in Nat : k * d <= b => k <= n
    BY Quotient
<1> HIDE DEF m, n
<1>2. CASE m = 0
    BY <1>1, <1>2 DEF m, n
<1>3. CASE m > 0
    <2>1. m - 1 \in Nat /\ ~(m <= m - 1)
        BY <1>1, <1>3
    <2>2. ~(a < (m - 1) * d + d)
        BY <1>1, <2>1
    <2>3. (m - 1) * d + d = m * d /\ m * d \in Nat
        BY <1>1
    <2>4. m * d <= b
        BY <2>2, <2>3
    <2>5. m <= n
        BY <1>1, <2>4
    <2> QED BY <1>1, <2>5 DEF m, n
<1> QED BY <1>1, <1>2, <1>3

LEMMA ContrastEases ==
    ASSUME NEW p \in ContrastPage, NEW q \in ContrastPage, q \in Reworked("CONTRAST_V2", p)
    PROVE  NoWorse(Contrast(p), Contrast(q))
<1> DEFINE scored(x) == x.conform + x.low
           raw(x) == 100 * x.conform + scored(x)
           share(x) == raw(x) \div (2 * scored(x))
<1>1. /\ p.conform \in Nat /\ p.low \in Nat /\ q.conform \in Nat /\ q.low \in Nat
      /\ p.low > 0 /\ q.low = p.low - 1 /\ q.conform = p.conform + 1
    BY DEF Reworked, ContrastPage
<1>2. \A x \in ContrastPage : scored(x) # 0 =>
          \E items : Contrast(x) = Result(IF x.low > 0 THEN "fail" ELSE "pass", share(x), items)
    <2> SUFFICES ASSUME NEW x \in ContrastPage, scored(x) # 0
                 PROVE  \E items : Contrast(x) = Result(IF x.low > 0 THEN "fail" ELSE "pass", share(x), items)
        OBVIOUS
    <2>1. x.conform \in Nat /\ x.low \in Nat /\ x.review \in Nat
        BY DEF ContrastPage
    <2>2. scored(x) + x.review # 0
        BY <2>1
    <2> QED BY <2>2 DEF Contrast
<1>3. scored(p) = scored(q) /\ scored(p) \in Nat \ {0} /\ 2 * scored(p) \in Nat \ {0}
    BY <1>1
<1>4. raw(p) \in Nat /\ raw(q) \in Nat /\ raw(p) <= raw(q)
    BY <1>1
<1>5. share(p) <= share(q) /\ share(p) \in Nat /\ share(q) \in Nat
    <2> DEFINE d == 2 * scored(p)
    <2>1. d \in Nat \ {0} /\ share(p) = raw(p) \div d /\ share(q) = raw(q) \div d
        BY <1>3
    <2> HIDE DEF d, raw
    <2> QED BY <1>4, <2>1, QuotientGrows
<1>6. Contrast(p).status = "fail" /\ Contrast(p).score = share(p)
    BY <1>1, <1>2, <1>3 DEF Result
<1>7. Contrast(q).status \in {"fail", "pass"} /\ Contrast(q).score = share(q)
    BY <1>1, <1>2, <1>3 DEF Result
<1> HIDE DEF share
<1> QED BY <1>5, <1>6, <1>7, FromWorst

(* A page without exactly one h1 has one failure, and no page has more.     *)
LEMMA HnEases ==
    ASSUME NEW p \in HnPage, NEW q \in HnPage, q \in Reworked("HN_STRUCTURE", p)
    PROVE  NoWorse(Hn(p), Hn(q))
<1> DEFINE At(x, level) == {i \in DOMAIN x.headings : x.headings[i] = level}
           Count(x, level) == Cardinality(At(x, level))
           jumps(x) == Cardinality({i \in 1..(Len(x.headings) - 1) :
                                       x.headings[i + 1] > x.headings[i] + 1})
           named(x) == CASE Count(x, 1) = 0 -> "HN.h1_missing"
                         [] Count(x, 1) = 1 -> "HN.h1_unique"
                         [] OTHER -> "HN.h1_duplicate"
           title(x) == Item(named(x), IF Count(x, 1) = 1 THEN "pass" ELSE "fail", 1)
           rest(x) == When(x.headings[1] # 1, "HN.first_not_h1", "warning")
                      \union When(Count(x, 1) > 0 /\ Count(x, 2) < 2, "HN.h2_insufficient", "warning")
                      \union When(Count(x, 2) >= 2, "HN.h2_count", "pass")
                      \union Item("HN.hierarchy_break", "warning", jumps(x))
                      \union When(jumps(x) = 0, "HN.hierarchy_ok", "pass")
                      \union When(x.words, "HN.common_words", "info")
           items(x) == title(x) \union rest(x)
           f(x) == CountOf(items(x), "fail")
           w(x) == CountOf(items(x), "warning")
<1>1. \A x \in HnPage : /\ x.headings = <<>> => Hn(x) = Fail({}, 0)
                        /\ x.headings # <<>> => Hn(x) = Graded(items(x), GradedScale)
    <2>1. \A x \in HnPage : items(x) = title(x)
              \union When(x.headings[1] # 1, "HN.first_not_h1", "warning")
              \union When(Count(x, 1) > 0 /\ Count(x, 2) < 2, "HN.h2_insufficient", "warning")
              \union When(Count(x, 2) >= 2, "HN.h2_count", "pass")
              \union Item("HN.hierarchy_break", "warning", jumps(x))
              \union When(jumps(x) = 0, "HN.hierarchy_ok", "pass")
              \union When(x.words, "HN.common_words", "info")
        <3> HIDE DEF title, jumps, Count
        <3> QED OBVIOUS
    <2> HIDE DEF items
    <2> QED BY <2>1 DEF Hn
<1>2. \A x : \A i \in rest(x) : i.status # "fail"
    BY DEF When, Item
<1>3. \A x \in HnPage : x.headings # <<>> => Countable(items(x))
    <2>1. \A x \in HnPage : x.headings # <<>> => Hn(x).items = items(x)
        <3> HIDE DEF items
        <3> QED BY <1>1 DEF Graded, Result
    <2> HIDE DEF items
    <2> QED BY <2>1, HnRight DEF Founded
<1> HIDE DEF named
<1>4. \A x : /\ Countable(title(x))
             /\ title(x) = {[key |-> named(x),
                             status |-> IF Count(x, 1) = 1 THEN "pass" ELSE "fail", n |-> 1]}
    <2> TAKE x
    <2>1. \A key : Countable(Item(key, IF Count(x, 1) = 1 THEN "pass" ELSE "fail", 1))
        <3> HIDE DEF Count
        <3> QED BY AnyItem, Zenon
    <2>2. title(x) = {[key |-> named(x),
                       status |-> IF Count(x, 1) = 1 THEN "pass" ELSE "fail", n |-> 1]}
        <3> HIDE DEF Count
        <3> QED BY DEF Item
    <2>3. Countable(title(x))
        <3> HIDE DEF Count
        <3> QED BY <2>1
    <2> HIDE DEF title
    <2> QED BY <2>2, <2>3
<1> HIDE DEF rest
<1>5. \A x \in HnPage : x.headings # <<>> =>
          f(x) \in {0, 1} /\ w(x) \in Nat /\ (Count(x, 1) # 1 => f(x) = 1)
    <2> SUFFICES ASSUME NEW x \in HnPage, x.headings # <<>>
                 PROVE  f(x) \in {0, 1} /\ w(x) \in Nat /\ (Count(x, 1) # 1 => f(x) = 1)
        OBVIOUS
    <2>1. Countable(items(x)) /\ Countable(title(x))
        BY <1>3, <1>4
    <2>2. f(x) \in Nat /\ w(x) \in Nat /\ (f(x) = 0 <=> \A i \in items(x) : i.status # "fail")
        <3> HIDE DEF items
        <3> QED BY <2>1, CountPositive
    <2>3. CountOf(title(x), "fail") <= 1 /\ CountOf(title(x), "fail") \in Nat
        <3> DEFINE key == named(x)
        <3>1. CountOf({}, "fail") = 0 /\ Countable({})
            BY NoItem, CountPositive
        <3>2. CountOf({} \union Item(key, "fail", 1), "fail") = 0 + 1
            <4> HIDE DEF key
            <4>1. "fail" \in Status /\ 1 \in Nat
                BY DEF Status
            <4> QED BY <3>1, <4>1, ItemAdds
        <3>3. title(x) = Item(key, IF Count(x, 1) = 1 THEN "pass" ELSE "fail", 1)
            OBVIOUS
        <3> HIDE DEF title, key, Count
        <3>4. CASE Count(x, 1) = 1
            <4>1. \A i \in title(x) : i.status # "fail"
                BY <3>3, <3>4 DEF Item
            <4> QED BY <2>1, <4>1, CountPositive
        <3>5. CASE Count(x, 1) # 1
            <4>1. title(x) = {} \union Item(key, "fail", 1)
                BY <3>3, <3>5
            <4> QED BY <3>2, <4>1
        <3> QED BY <3>4, <3>5
    <2>4. f(x) <= CountOf(title(x), "fail")
        <3>1. \A i \in items(x) : i.status = "fail" => i \in title(x)
            BY <1>2
        <3> HIDE DEF items, title
        <3> QED BY <2>1, <3>1, CountOfPart
    <2>5. Count(x, 1) # 1 => f(x) # 0
        <3>1. Count(x, 1) # 1 => \E i \in title(x) : i.status = "fail"
            <4>1. title(x) = {[key |-> named(x),
                               status |-> IF Count(x, 1) = 1 THEN "pass" ELSE "fail", n |-> 1]}
                BY <1>4
            <4> HIDE DEF title, Count
            <4> QED BY <4>1
        <3>2. title(x) \subseteq items(x)
            OBVIOUS
        <3> HIDE DEF items, title, Count
        <3> QED BY <2>2, <3>1, <3>2
    <2> HIDE DEF f, w, title, Count
    <2> QED BY <2>2, <2>3, <2>4, <2>5
<1>6. q.headings # <<>> /\ (p.headings # <<>> => Count(p, 1) # 1)
    <2>1. p.headings \in Seq(1..6)
        BY DEF HnPage
    <2>2. CASE ~\E i \in DOMAIN p.headings : p.headings[i] = 1
        <3>1. q = [p EXCEPT !.headings = <<1>> \o p.headings]
            BY <2>2 DEF Reworked
        <3>2. q.headings = <<1>> \o p.headings
            BY <3>1 DEF HnPage
        <3>3. q.headings # <<>>
            BY <2>1, <3>2
        <3>4. At(p, 1) = {}
            BY <2>2
        <3>5. Count(p, 1) = 0
            BY <3>4, FS_EmptySet
        <3> QED BY <3>3, <3>5
    <2>3. CASE \E i \in DOMAIN p.headings : p.headings[i] = 1
        <3>1. PICK i, k : /\ i \in DOMAIN p.headings /\ k \in 1..(i - 1)
                         /\ p.headings[i] = 1 /\ p.headings[k] = 1
                         /\ q = [p EXCEPT !.headings[i] = 2]
            BY <2>3 DEF Reworked
        <3>2. q.headings = [p.headings EXCEPT ![i] = 2]
            BY <3>1 DEF HnPage
        <3>3. DOMAIN q.headings = DOMAIN p.headings
            BY <3>2
        <3>4. q.headings # <<>>
            <4>1. DOMAIN <<>> = {}
                OBVIOUS
            <4> QED BY <3>1, <3>3, <4>1
        <3>5. i \in At(p, 1) /\ k \in At(p, 1) /\ i # k
            BY <2>1, <3>1
        <3>6. Count(p, 1) # 1
            <4>1. IsFiniteSet(At(p, 1))
                <5>1. At(p, 1) \in SUBSET DOMAIN p.headings /\ IsFiniteSet(DOMAIN p.headings)
                    BY <2>1, PositionsFinite
                <5> QED BY <5>1, FS_Subset
            <4>2. SUFFICES ASSUME Count(p, 1) = 1 PROVE FALSE
                OBVIOUS
            <4>3. PICK one : At(p, 1) = {one}
                <5> HIDE DEF At
                <5> QED BY <4>1, <4>2, FS_Singleton
            <4> QED BY <3>5, <4>3
        <3> QED BY <3>4, <3>6
    <2> QED BY <2>2, <2>3
<1> HIDE DEF items
<1>7. \A x \in HnPage : x.headings # <<>> =>
          /\ Hn(x).status \in {"pass", "warning", "fail"}
          /\ Hn(x).score \in Int /\ Hn(x).score >= 20
          /\ Count(x, 1) # 1 => Hn(x).status = "fail" /\ Hn(x).score = 20
    <2> SUFFICES ASSUME NEW x \in HnPage, x.headings # <<>>
                 PROVE  /\ Hn(x).status \in {"pass", "warning", "fail"}
                        /\ Hn(x).score \in Int /\ Hn(x).score >= 20
                        /\ Count(x, 1) # 1 => Hn(x).status = "fail" /\ Hn(x).score = 20
        OBVIOUS
    <2>1. Hn(x) = Result(StatusOf(f(x), w(x)), 10 * GradedScale(f(x), w(x)), items(x))
        BY <1>1 DEF Graded
    <2>2. f(x) \in {0, 1} /\ w(x) \in Nat /\ (Count(x, 1) # 1 => f(x) = 1)
        BY <1>5
    <2> HIDE DEF f, w, Count
    <2>3. /\ GradedScale(f(x), w(x)) \in Int /\ GradedScale(f(x), w(x)) >= 2
          /\ f(x) = 1 => GradedScale(f(x), w(x)) = 2
        BY <2>2 DEF GradedScale, Larger
    <2>4. /\ StatusOf(f(x), w(x)) \in {"pass", "warning", "fail"}
          /\ f(x) = 1 => StatusOf(f(x), w(x)) = "fail"
        BY <2>2 DEF StatusOf
    <2>5. Hn(x).status = StatusOf(f(x), w(x)) /\ Hn(x).score = 10 * GradedScale(f(x), w(x))
        BY <2>1 DEF Result
    <2> QED BY <2>2, <2>3, <2>4, <2>5
<1>8. CASE p.headings = <<>>
    <2>1. Hn(p).status = "fail" /\ Hn(p).score = 0
        BY <1>1, <1>8 DEF Fail, Result
    <2> HIDE DEF Count
    <2> QED BY <1>6, <1>7, <2>1, FromWorst
<1>9. CASE p.headings # <<>>
    <2> HIDE DEF Count
    <2> QED BY <1>6, <1>7, <1>9, FromWorst
<1> QED BY <1>8, <1>9

LEMMA CanonicalEases ==
    ASSUME NEW p \in CanonicalPage, NEW q \in CanonicalPage, q \in Reworked("CANONICAL", p)
    PROVE  NoWorse(Canonical(p), Canonical(q))
<1> DEFINE many(x) == When(x.tags > 1, "CANONICAL.multiple", "fail")
           ok(x) == Item("CANONICAL.url_ok", "pass", 1)
           domain(x) == When(x.otherDomain > 0, "CANONICAL.cross_domain", "warning")
           query(x) == When(x.query > 0, "CANONICAL.query_fragment", "warning")
           http(x) == When(x.http > 0, "CANONICAL.http", "warning")
           Tag(x) == x.tags # 0 /\ x.noHref = 0
           Read(x) == Tag(x) /\ x.unreadable = 0
           wrong(x) == many(x) \union ok(x) \union Item("CANONICAL.invalid_url", "fail", 1)
           items(x) == many(x) \union ok(x) \union domain(x) \union query(x) \union http(x)
<1>0. \/ q = [p EXCEPT !.noHref = 0]
      \/ q = [p EXCEPT !.unreadable = 0]
      \/ q = [p EXCEPT !.otherDomain = 0]
      \/ q = [p EXCEPT !.query = 0]
      \/ q = [p EXCEPT !.http = 0]
      \/ q = [p EXCEPT !.tags = 1]
    BY DEF Reworked, Without
<1>1. /\ q.noHref \in {p.noHref, 0}
      /\ q.unreadable \in {p.unreadable, 0}
      /\ q.otherDomain \in {p.otherDomain, 0}
      /\ q.query \in {p.query, 0}
      /\ q.http \in {p.http, 0}
      /\ q.tags \in {p.tags, 1} /\ p.tags \in Nat
      /\ p.noHref \in Nat /\ p.unreadable \in Nat
    BY <1>0 DEF CanonicalPage
<1>2. \A x \in CanonicalPage :
          /\ ~Tag(x) => Canonical(x).status = "fail" /\ Canonical(x).score = 0
          /\ Tag(x) => Canonical(x) = IF Read(x) THEN VerdictOf(items(x)) ELSE VerdictOf(wrong(x))
    <2> SUFFICES ASSUME NEW x \in CanonicalPage
                 PROVE  /\ ~Tag(x) => Canonical(x).status = "fail" /\ Canonical(x).score = 0
                        /\ Tag(x) => Canonical(x) = IF Read(x) THEN VerdictOf(items(x))
                                                    ELSE VerdictOf(wrong(x))
        OBVIOUS
    <2>0. x.noHref \in Nat /\ x.unreadable \in Nat
        BY DEF CanonicalPage
    <2>1. CASE ~Tag(x)
        <3>1. \/ Canonical(x) = Fail(Item("CANONICAL.missing", "fail", 1), 0)
              \/ Canonical(x) = Fail(many(x) \union Item("CANONICAL.no_href", "fail", 1), 0)
            BY <2>0, <2>1 DEF Canonical
        <3> QED BY <2>1, <3>1 DEF Fail, Result
    <2>2. CASE Tag(x) /\ ~Read(x)
        BY <2>0, <2>2 DEF Canonical
    <2>3. CASE Read(x)
        <3>1. Canonical(x) = VerdictOf((many(x) \union ok(x)) \union domain(x) \union query(x) \union http(x))
            BY <2>0, <2>3 DEF Canonical
        <3> HIDE DEF many, ok, domain, query, http
        <3> QED BY <2>3, <3>1
    <2> HIDE DEF Tag, items, wrong
    <2> QED BY <2>1, <2>2, <2>3
<1>3. Sub(items(q), items(p))
    <2>1. Sub(many(q), many(p))
        BY <1>1 DEF Sub, Item, When
    <2>2. Sub(ok(q), ok(p))
        BY SubParts
    <2>3. Sub(domain(q), domain(p))
        BY <1>1 DEF Sub, Item, When
    <2>4. Sub(query(q), query(p))
        BY <1>1 DEF Sub, Item, When
    <2>5. Sub(http(q), http(p))
        BY <1>1 DEF Sub, Item, When
    <2> HIDE DEF many, ok, domain, query, http
    <2> QED BY <2>1, <2>2, <2>3, <2>4, <2>5 DEF Sub
<1> HIDE DEF items
<1> HIDE DEF wrong
<1>4. \A x \in CanonicalPage : Tag(x) =>
          /\ Read(x) => Countable(items(x))
          /\ ~Read(x) => Countable(wrong(x))
    <2>1. \A A : VerdictOf(A).items = A
        BY DEF VerdictOf, Graded, Result
    <2> HIDE DEF Tag, Read
    <2> QED BY <1>2, <2>1, CanonicalRight DEF Right, Founded
<1>5. \A x \in CanonicalPage : Tag(x) =>
          /\ Canonical(x).status \in {"pass", "warning", "fail"} /\ Canonical(x).score \in {10, 30, 50}
          /\ ~Read(x) => Canonical(x).status = "fail" /\ Canonical(x).score = 10
    <2>1. \A x : \E i \in wrong(x) : i.status = "fail"
        <3> TAKE x
        <3>1. [key |-> "CANONICAL.invalid_url", status |-> "fail", n |-> 1] \in wrong(x)
            BY DEF wrong, Item
        <3> QED BY <3>1
    <2> HIDE DEF Tag, Read
    <2> QED BY <1>2, <1>4, <2>1, VerdictNotes
<1>6. \A x \in CanonicalPage : Canonical(x).status \in {"pass", "warning", "fail"}
                               /\ Canonical(x).score \in {0, 10, 30, 50}
    <2> HIDE DEF Tag, Read
    <2> QED BY <1>2, <1>5
<1>7. CASE ~Tag(p)
    <2> HIDE DEF Tag, Read
    <2> QED BY <1>2, <1>6, <1>7, FromWorst
<1>8. CASE Tag(p) /\ ~Read(p)
    <2>1. Tag(q)
        BY <1>1, <1>8
    <2> HIDE DEF Tag, Read
    <2> QED BY <1>5, <1>8, <2>1, FromWorst
<1>9. CASE Tag(p) /\ Read(p)
    <2>1. Tag(q) /\ Read(q)
        BY <1>1, <1>9
    <2> HIDE DEF Tag, Read
    <2> QED BY <1>2, <1>3, <1>4, <1>9, <2>1, SubMilder, ScalesEase
<1> QED BY <1>7, <1>8, <1>9

LEMMA LogoEases ==
    ASSUME NEW p \in LogoPage, NEW q \in LogoPage, q \in Reworked("LOGO", p)
    PROVE  NoWorse(Logo(p), Logo(q))
<1> DEFINE alt(x) == Judge(x.alt = "set", "LOGO.alt_ok", "pass", "LOGO.alt_" \o x.alt, "fail")
           link(x) == LogoLink(x)
           src(x) == Judge(x.noSrc = 0, "LOGO.src_ok", "pass", "LOGO.src_missing", "fail")
           items(x) == alt(x) \union link(x) \union src(x)
           f(x) == CountOf(items(x), "fail")
           w(x) == CountOf(items(x), "warning")
           note(x) == IF f(x) > 0 THEN 1 ELSE IF w(x) >= 3 THEN 2
                      ELSE IF w(x) = 2 THEN 3 ELSE IF w(x) = 1 THEN 4 ELSE 5
<1>0. \/ q = [p EXCEPT !.noTitle = 0]
      \/ q = [p EXCEPT !.noSrc = 0]
      \/ q = [p EXCEPT !.found = 1]
      \/ q = [p EXCEPT !.alt = "set"]
      \/ q = [p EXCEPT !.link = "homepage"]
    BY DEF Reworked, Without
<1>1. /\ q.found \in {p.found, 1} /\ q.alt \in {p.alt, "set"} /\ q.link \in {p.link, "homepage"}
      /\ p.found \in Nat /\ q.found \in Nat
      /\ q.noTitle \in {p.noTitle, 0}
      /\ q.noSrc \in {p.noSrc, 0}
    BY <1>0 DEF LogoPage
<1>2. \A x \in LogoPage : x.found # 0 =>
        Logo(x) = Result(StatusOf(f(x), w(x)), 10 * note(x), items(x))
    BY DEF Logo, Graded
<1> DEFINE others(x) == alt(x) \union src(x)
<1>3. /\ Sub(alt(q), alt(p)) /\ Sub(src(q), src(p))
      /\ p.link # "none" \/ q.link = p.link => Sub(link(q), link(p))
    <2>1. Sub(alt(q), alt(p))
        BY <1>1 DEF Sub, Judge, Item
    <2>2. Sub(src(q), src(p))
        BY <1>1 DEF Sub, Judge, Item
    <2>3. ASSUME p.link # "none" \/ q.link = p.link PROVE Sub(link(q), link(p))
        <3>1. CASE q.link = p.link
            BY <1>1, <3>1 DEF Sub, LogoLink, Judge, Item
        <3>2. CASE p.link # "none" /\ q.link = "homepage"
            BY <1>1, <3>2 DEF Sub, LogoLink, Judge, Item
        <3> QED BY <1>1, <2>3, <3>1, <3>2
    <2> HIDE DEF alt, link, src
    <2> QED BY <2>1, <2>2, <2>3
<1>6. \A x : /\ \A i \in others(x) : i.status # "warning" /\ i.status \in {"pass", "fail"}
             /\ items(x) = others(x) \union link(x)
    <2> TAKE x
    <2>1. items(x) = others(x) \union link(x)
        OBVIOUS
    <2>2. \A i \in others(x) : i.status # "warning" /\ i.status \in {"pass", "fail"}
        BY DEF Judge, Item
    <2> QED BY <2>1, <2>2
<1>7. ASSUME p.link = "none", q.link = "homepage"
      PROVE  /\ link(p) = Item("LOGO.not_clickable", "warning", 1)
             /\ \E n \in {0, 1} : link(q) = (Item("LOGO.link_" \o "homepage", "pass", 1)
                   \union Item("LOGO.link_title_ok", "pass", 1 - n))
                   \union Item("LOGO.link_title_missing", "warning", n)
    <2>1. link(p) = Item("LOGO.not_clickable", "warning", 1)
        BY <1>7 DEF LogoLink
    <2>2. CASE q.noTitle = 0
        BY <1>7, <2>2 DEF LogoLink, Judge, Item
    <2>3. CASE q.noTitle # 0
        BY <1>7, <2>3 DEF LogoLink, Judge, Item
    <2> QED BY <2>1, <2>2, <2>3
<1> HIDE DEF items, alt, link, src
<1>4. ASSUME p.found # 0, q.found # 0 PROVE NoWorse(Logo(p), Logo(q))
    <2>1. Logo(p).items = items(p) /\ Logo(q).items = items(q)
        <3> HIDE DEF f, w, note
        <3> QED BY <1>4, <1>2 DEF Result
    <2>2. Countable(items(p)) /\ Countable(items(q))
        BY <2>1, LogoRight DEF Right, Founded
    <2>3. /\ Milder(items(q), items(p)) /\ f(q) <= f(p) /\ w(q) <= w(p)
          /\ f(p) \in Nat /\ w(p) \in Nat /\ f(q) \in Nat /\ w(q) \in Nat
        <3>1. CASE p.link # "none" \/ q.link = p.link
            <4>1. Sub(items(q), items(p))
                BY <1>3, <3>1 DEF Sub, items
            <4> QED BY <2>2, <4>1, SubMilder, CountPositive
        <3>2. CASE p.link = "none" /\ q.link = "homepage"
            <4>1. PICK n \in {0, 1} :
                     link(q) = (Item("LOGO.link_" \o "homepage", "pass", 1)
                                  \union Item("LOGO.link_title_ok", "pass", 1 - n))
                                 \union Item("LOGO.link_title_missing", "warning", n)
                BY <1>7, <3>2
            <4> DEFINE good == Item("LOGO.link_" \o "homepage", "pass", 1)
                               \union Item("LOGO.link_title_ok", "pass", 1 - n)
                       most == others(q) \union good
            <4>2. /\ items(p) = others(p) \union Item("LOGO.not_clickable", "warning", 1)
                  /\ items(q) = most \union Item("LOGO.link_title_missing", "warning", n)
                <5>1. items(p) = others(p) \union link(p) /\ items(q) = others(q) \union link(q)
                    BY <1>6
                <5>2. link(p) = Item("LOGO.not_clickable", "warning", 1)
                    BY <1>7, <3>2
                <5>3. link(q) = good \union Item("LOGO.link_title_missing", "warning", n)
                    BY <4>1
                <5> HIDE DEF others, good
                <5> QED BY <5>1, <5>2, <5>3
            <4>3. \A i \in good : i.status = "pass"
                BY DEF Item
            <4> HIDE DEF good, others
            <4>4. Countable(others(p)) /\ Countable(most)
                BY <2>2, <4>2, UnionCountable
            <4>5. /\ CountOf(items(p), "warning") = CountOf(others(p), "warning") + 1
                  /\ CountOf(items(p), "fail") = CountOf(others(p), "fail")
                <5>1. "warning" \in Status /\ 1 \in Nat /\ "fail" # "warning"
                    BY DEF Status
                <5> QED BY <1>6, <4>2, <4>4, <5>1, ItemAdds
            <4>6. /\ CountOf(items(q), "warning") = CountOf(most, "warning") + n
                  /\ CountOf(items(q), "fail") = CountOf(most, "fail")
                <5>1. "warning" \in Status /\ n \in Nat /\ "fail" # "warning"
                    BY DEF Status
                <5>2. \A i \in most : i.status # "warning"
                    BY <1>6, <4>3
                <5> HIDE DEF most
                <5> QED BY <4>2, <4>4, <5>1, <5>2, ItemAdds
            <4>7. CountOf(most, "warning") = 0 /\ CountOf(others(p), "warning") = 0
                <5>1. \A i \in most : i.status # "warning"
                    BY <1>6, <4>3
                <5> HIDE DEF most
                <5> QED BY <1>6, <4>4, <5>1, CountPositive
            <4>8. CountOf(most, "fail") <= CountOf(others(p), "fail")
                <5>1. \A i \in most : i.status = "fail" => i \in others(p)
                    BY <1>3, <4>3 DEF others, Sub
                <5> HIDE DEF most
                <5> QED BY <4>4, <5>1, CountOfPart
            <4>9. f(p) \in Nat /\ w(p) \in Nat /\ f(q) \in Nat /\ w(q) \in Nat
                BY <2>2, CountPositive
            <4> HIDE DEF most
            <4> QED BY <4>5, <4>6, <4>7, <4>8, <4>9 DEF Milder
        <3> QED BY <1>1, <3>1, <3>2
    <2>4. note(p) \in Int /\ note(q) \in Int /\ note(p) <= note(q)
        <3> HIDE DEF f, w
        <3> QED BY <2>3
    <2> HIDE DEF note
    <2> QED BY <1>4, <1>2, <2>2, <2>3, <2>4, GradedNoWorse
<1>5. CASE p.found = 0
    <2>1. Logo(p).status = "fail" /\ Logo(p).score = 0
        <3>1. Logo(p) = Fail(Item("LOGO.not_found", "fail", 1), 0)
            BY <1>5 DEF Logo
        <3> QED BY <3>1 DEF Fail, Result
    <2>2. Logo(q).status \in {"pass", "warning", "fail"} /\ Logo(q).score \in 0..50
        <3>1. Logo(q).status # "na"
            BY DEF Logo, Fail, Graded, Result, StatusOf
        <3> QED BY <3>1, LogoRight DEF Right, Founded, Verdicts, Status, Full
    <2> QED BY <2>1, <2>2, FromWorst
<1> QED BY <1>1, <1>4, <1>5

(* One description mended, or the broken ones removed.                      *)
LEMMA StructuredEases ==
    ASSUME NEW p \in StructuredDataPage, NEW q \in StructuredDataPage,
           q.invalid \in {p.invalid, 0}, q.fiveImages = p.fiveImages, q.microdata = p.microdata,
           DOMAIN q.nodes = DOMAIN p.nodes,
           \A k \in DOMAIN p.nodes :
              Sub(NodeItems(q.nodes[k], p.fiveImages), NodeItems(p.nodes[k], p.fiveImages))
    PROVE  NoWorse(StructuredData(p), StructuredData(q))
<1> DEFINE invalid(x) == When(x.invalid > 0, "SD.json_invalid", "fail")
           some(x) == Judge(x.nodes # <<>>, "SD.json_ld_count", "pass", "SD.no_json_ld", "warning")
           micro(x) == When(x.microdata, "SD.microdata", "pass")
           numbered(x) == UNION {{[key |-> i.key, status |-> i.status, n |-> i.n, node |-> k]
                             : i \in NodeItems(x.nodes[k], x.fiveImages)} : k \in DOMAIN x.nodes}
           items(x) == invalid(x) \union some(x) \union micro(x) \union numbered(x)
           f(x) == CountOf(items(x), "fail")
           w(x) == CountOf(items(x), "warning")
           note(x) == IF f(x) > 0 THEN 1 ELSE IF w(x) >= 3 THEN 2
                      ELSE IF w(x) >= 1 THEN 3 ELSE 5
<1>1. /\ q.invalid \in {p.invalid, 0}
      /\ q.fiveImages = p.fiveImages /\ q.microdata = p.microdata
      /\ DOMAIN q.nodes = DOMAIN p.nodes
      /\ q.nodes = <<>> <=> p.nodes = <<>>
      /\ \A k \in DOMAIN p.nodes :
            Sub(NodeItems(q.nodes[k], p.fiveImages), NodeItems(p.nodes[k], p.fiveImages))
    <2>1. q.nodes = <<>> <=> p.nodes = <<>>
        <3> DEFINE T == [kind : STRING, lacks : SUBSET {"name", "contact", "address"},
                         images : {"few", "repeated", "five"}]
        <3>1. p.nodes \in Seq(T) /\ q.nodes \in Seq(T)
            BY DEF StructuredDataPage
        <3> HIDE DEF T
        <3> QED BY <3>1
    <2> QED BY <2>1
<1>2. \A x \in StructuredDataPage : StructuredData(x) = Result(StatusOf(f(x), w(x)), 10 * note(x), items(x))
    BY DEF StructuredData, Graded
<1>3. Sub(items(q), items(p))
    <2>1. Sub(invalid(q), invalid(p))
        BY <1>1 DEF Sub, Item, When
    <2>2. Sub(some(q), some(p))
        BY <1>1 DEF Sub, Item, Judge
    <2>3. Sub(micro(q), micro(p))
        BY <1>1 DEF Sub, Item, When
    <2>4. Sub(numbered(q), numbered(p))
        BY <1>1 DEF Sub
    <2> HIDE DEF invalid, some, micro, numbered
    <2> QED BY <2>1, <2>2, <2>3, <2>4 DEF Sub
<1> HIDE DEF items
<1>4. NoWorse(StructuredData(p), StructuredData(q))
    <2>1. StructuredData(p).items = items(p) /\ StructuredData(q).items = items(q)
        <3> HIDE DEF f, w, note
        <3> QED BY <1>2 DEF Result
    <2>2. Countable(items(p)) /\ Countable(items(q))
        BY <2>1, StructuredDataRight DEF Right, Founded
    <2>3. /\ Milder(items(q), items(p)) /\ f(q) <= f(p) /\ w(q) <= w(p)
          /\ f(p) \in Nat /\ w(p) \in Nat /\ f(q) \in Nat /\ w(q) \in Nat
        BY <2>2, <1>3, SubMilder, CountPositive
    <2>4. note(p) \in Int /\ note(q) \in Int /\ note(p) <= note(q)
        <3> HIDE DEF f, w
        <3> QED BY <2>3
    <2> HIDE DEF note
    <2> QED BY <1>2, <2>2, <2>3, <2>4, GradedNoWorse
<1> QED BY <1>4

LEMMA StructuredDataEases ==
    ASSUME NEW p \in StructuredDataPage, NEW q \in StructuredDataPage,
           \/ q \in Reworked("STRUCTURED_DATA", p)
           \/ \E i \in DOMAIN p.nodes : \E e \in Better("STRUCTURED_DATA", p.nodes[i]) :
                 q = [p EXCEPT !["nodes"][i] = e]
    PROVE  NoWorse(StructuredData(p), StructuredData(q))
<1>0. \A A : Sub(A, A)
    BY DEF Sub
<1>1. CASE q \in Reworked("STRUCTURED_DATA", p)
    <2>1. q = [p EXCEPT !.invalid = 0]
        BY <1>1 DEF Reworked, Without
    <2>2. /\ q.invalid \in {p.invalid, 0} /\ q.fiveImages = p.fiveImages /\ q.microdata = p.microdata
          /\ q.nodes = p.nodes
        BY <2>1 DEF StructuredDataPage
    <2> QED BY <1>0, <2>2, StructuredEases
<1>2. ASSUME NEW i \in DOMAIN p.nodes, NEW e \in Better("STRUCTURED_DATA", p.nodes[i]),
             q = [p EXCEPT !["nodes"][i] = e]
      PROVE  NoWorse(StructuredData(p), StructuredData(q))
    <2> DEFINE T == [kind : STRING, lacks : SUBSET {"name", "contact", "address"},
                     images : {"few", "repeated", "five"}]
               was == p.nodes[i]
    <2>1. p.nodes \in Seq(T)
        BY DEF StructuredDataPage
    <2>2. was \in T
        <3> HIDE DEF T
        <3> QED BY <2>1, ElementOf
    <2>3. PICK f \in was.lacks : e = [was EXCEPT !.lacks = was.lacks \ {f}]
        BY <1>2 DEF Better
    <2>4. e.kind = was.kind /\ e.images = was.images /\ e.lacks \subseteq was.lacks
        BY <2>2, <2>3
    <2>5. Sub(NodeItems(e, p.fiveImages), NodeItems(was, p.fiveImages))
        <3> DEFINE lost(x) == UNION {Item("SD.lb_" \o g \o "_missing", "warning", 1) : g \in x.lacks}
                   shown(x) == IF ~p.fiveImages THEN {}
                               ELSE Item("SD.lb_five_images",
                                         CASE x.images = "few" -> "fail"
                                           [] x.images = "repeated" -> "warning"
                                           [] x.images = "five" -> "pass", 1)
                   some == Item("SD.type_block", "pass", 1)
        <3>1. CASE e.kind # "entity"
            <4>1. NodeItems(e, p.fiveImages) = NodeItems(was, p.fiveImages)
                BY <2>4, <3>1 DEF NodeItems
            <4> QED BY <1>0, <4>1
        <3>2. CASE e.kind = "entity"
            <4>1. /\ NodeItems(e, p.fiveImages) = some \union lost(e) \union shown(e)
                  /\ NodeItems(was, p.fiveImages) = some \union lost(was) \union shown(was)
                BY <2>4, <3>2 DEF NodeItems
            <4>2. lost(e) \subseteq lost(was) /\ shown(e) = shown(was)
                BY <2>4
            <4> HIDE DEF some, lost, shown
            <4> QED BY <4>1, <4>2 DEF Sub
        <3> QED BY <3>1, <3>2
    <2>6. q = [p EXCEPT !.nodes = [p.nodes EXCEPT ![i] = e]]
        BY <1>2
    <2>7. /\ q.invalid = p.invalid /\ q.fiveImages = p.fiveImages /\ q.microdata = p.microdata
          /\ q.nodes = [p.nodes EXCEPT ![i] = e]
        BY <2>6 DEF StructuredDataPage
    <2> HIDE DEF was
    <2>8. \A k \in DOMAIN p.nodes :
             Sub(NodeItems(q.nodes[k], p.fiveImages), NodeItems(p.nodes[k], p.fiveImages))
        BY <1>0, <2>5, <2>7 DEF was
    <2> QED BY <2>7, <2>8, StructuredEases
<1> QED BY <1>1, <1>2

(* A legal page that is found, or answers, takes a failure away; the host,  *)
(* now looked for in it, may be missing there.                              *)
LEMMA LegalEases ==
    ASSUME NEW p \in LegalPage, NEW q \in LegalPage, q \in Reworked("MENTIONS_LEGALES", p)
    PROVE  NoWorse(MentionsLegales(p), MentionsLegales(q))
<1> DEFINE privacy(x) == Judge(x.noPrivacy = 0, "ML.privacy_ok", "pass", "ML.privacy_missing", "warning")
           terms(x) == Item(IF x.terms THEN "ML.cgu_ok" ELSE "ML.cgu_missing", "pass", 1)
           solocal(x) == IF ~x.editor THEN {}
                         ELSE Judge(x.solocal = 0, "ML.solocal_ok", "pass",
                                    "ML.solocal_detected", "fail")
           cookie(x) == Judge(x.noConsent = 0, "ML.cookie_ok", "pass", "ML.cookie_missing", "warning")
           items(x) == LegalLink(x) \union LegalNotices(x) \union Hosting(x)
           Failing(x) == \/ x.noLegal > 0
                         \/ x.noLegal = 0 /\ x.resolves /\ x.net /\ ~x.exhausted /\ x.dead > 0
           Reads(x) == x.noLegal = 0 /\ x.resolves /\ x.net /\ ~x.exhausted /\ x.dead = 0
<1>0. \/ q = [p EXCEPT !.noLegal = 0]
      \/ q = [p EXCEPT !.dead = 0]
      \/ q = [p EXCEPT !.noPrivacy = 0]
      \/ q = [p EXCEPT !.noConsent = 0]
      \/ q = [p EXCEPT !.solocal = 0]
      \/ q = [p EXCEPT !.hostHere = TRUE]
      \/ q = [p EXCEPT !.hostThere = TRUE]
    BY DEF Reworked, Without
<1>1. /\ q.noLegal \in {p.noLegal, 0} /\ q.dead \in {p.dead, 0}
      /\ q.noPrivacy \in {p.noPrivacy, 0} /\ q.noConsent \in {p.noConsent, 0}
      /\ q.solocal \in {p.solocal, 0}
      /\ q.hostHere \in {p.hostHere, TRUE} /\ q.hostThere \in {p.hostThere, TRUE}
      /\ q.resolves = p.resolves /\ q.net = p.net /\ q.exhausted = p.exhausted
      /\ q.terms = p.terms /\ q.editor = p.editor
      /\ p.noLegal \in Nat /\ p.dead \in Nat
      /\ p.noLegal > 0 => p.dead = 0 /\ ~p.exhausted
    <2>1. CASE q = [p EXCEPT !.noLegal = 0]
        BY <2>1 DEF LegalPage
    <2>2. CASE q = [p EXCEPT !.dead = 0]
        BY <2>2 DEF LegalPage
    <2>3. CASE q = [p EXCEPT !.noPrivacy = 0]
        BY <2>3 DEF LegalPage
    <2>4. CASE q = [p EXCEPT !.noConsent = 0]
        BY <2>4 DEF LegalPage
    <2>5. CASE q = [p EXCEPT !.solocal = 0]
        BY <2>5 DEF LegalPage
    <2>6. CASE q = [p EXCEPT !.hostHere = TRUE]
        BY <2>6 DEF LegalPage
    <2>7. CASE q = [p EXCEPT !.hostThere = TRUE]
        BY <2>7 DEF LegalPage
    <2> QED BY <1>0, <2>1, <2>2, <2>3, <2>4, <2>5, <2>6, <2>7
<1>2. \A x : MentionsLegales(x) = Graded(items(x), LegalScale)
    BY DEF MentionsLegales
<1>3. Countable(items(p)) /\ Countable(items(q))
    <2>1. MentionsLegales(p).items = items(p) /\ MentionsLegales(q).items = items(q)
        <3> HIDE DEF items
        <3> QED BY <1>2 DEF Graded, Result
    <2> HIDE DEF items
    <2> QED BY <2>1, LegalRight DEF Right, Founded
<1>4. Sub(LegalNotices(q), LegalNotices(p))
    <2>1. Sub(privacy(q), privacy(p))
        BY <1>1 DEF Sub, Judge, Item
    <2>2. Sub(terms(q), terms(p))
        BY SubParts
    <2>3. Sub(solocal(q), solocal(p))
        BY <1>1 DEF Sub, Judge, Item
    <2>4. Sub(cookie(q), cookie(p))
        BY <1>1 DEF Sub, Judge, Item
    <2>5. /\ LegalNotices(p) = privacy(p) \union terms(p) \union solocal(p) \union cookie(p)
          /\ LegalNotices(q) = privacy(q) \union terms(q) \union solocal(q) \union cookie(q)
        BY DEF LegalNotices
    <2> HIDE DEF privacy, terms, solocal, cookie
    <2> QED BY <2>1, <2>2, <2>3, <2>4, <2>5 DEF Sub
<1>5. Sub(LegalLink(q), LegalLink(p))
    <2>1. CASE q.noLegal > 0
        BY <1>1, <2>1 DEF LegalLink, Sub, Item
    <2>2. CASE q.noLegal = 0 /\ q.dead = 0
        BY <1>1, <2>2 DEF LegalLink, Sub, Item
    <2>3. CASE q.noLegal = 0 /\ q.dead > 0
        <3>1. p.noLegal = 0 /\ p.dead = q.dead
            BY <1>1, <2>3
        <3> QED BY <1>1, <2>3, <3>1 DEF LegalLink, Sub, Item
    <2> QED BY <1>1, <2>1, <2>2, <2>3
<1>6. \A x : \A i \in LegalNotices(x) \union Hosting(x) :
          i.key # "ML.legal_missing" /\ i.key # "ML.legal_inaccessible"
    BY DEF LegalNotices, Hosting, Judge, Item
<1>7. CASE Reads(q) = Reads(p)
    <2>1. Sub(Hosting(q), Hosting(p))
        <3>1. \A x : Hosting(x) = Judge(IF Reads(x) THEN x.hostThere ELSE x.hostHere,
                                       "ML.hosting_ok", "pass", "ML.hosting_missing", "warning")
            BY DEF Hosting
        <3> HIDE DEF Reads
        <3> DEFINE Host(c) == Judge(c, "ML.hosting_ok", "pass", "ML.hosting_missing", "warning")
        <3>2. ASSUME NEW c, NEW d, d = c \/ d = TRUE PROVE Sub(Host(d), Host(c))
            <4>1. CASE d = c
                BY <4>1 DEF Sub
            <4>2. CASE d = TRUE
                <5>1. Host(TRUE) = Item("ML.hosting_ok", "pass", 1)
                    BY DEF Judge
                <5> HIDE DEF Host
                <5> QED BY <4>2, <5>1, SubParts
            <4> QED BY <3>2, <4>1, <4>2
        <3>3. \A x : Hosting(x) = Host(IF Reads(x) THEN x.hostThere ELSE x.hostHere)
            BY <3>1
        <3> DEFINE c == IF Reads(p) THEN p.hostThere ELSE p.hostHere
                   d == IF Reads(q) THEN q.hostThere ELSE q.hostHere
        <3>4. d = c \/ d = TRUE
            BY <1>1, <1>7
        <3>5. Hosting(q) = Host(d) /\ Hosting(p) = Host(c)
            BY <3>3
        <3> HIDE DEF Host, c, d
        <3> QED BY <3>2, <3>4, <3>5
    <2>2. Sub(items(q), items(p))
        <3> HIDE DEF Reads
        <3> QED BY <1>4, <1>5, <2>1 DEF Sub
    <2> HIDE DEF items, Reads
    <2> QED BY <1>2, <1>3, <2>2, SubMilder, ScalesEase
<1>8. CASE Reads(q) # Reads(p)
    <2>1. Reads(q) /\ Failing(p)
        BY <1>1, <1>8
    <2>2. \E i \in LegalLink(p) : /\ i.status = "fail"
                                  /\ i.key \in {"ML.legal_missing", "ML.legal_inaccessible"}
        <3>1. CASE p.noLegal > 0
            <4>1. [key |-> "ML.legal_missing", status |-> "fail", n |-> 1] \in LegalLink(p)
                BY <3>1 DEF LegalLink, Item
            <4> QED BY <4>1
        <3>2. CASE ~(p.noLegal > 0) /\ p.resolves /\ p.net /\ ~p.exhausted /\ p.dead > 0
            <4>1. [key |-> "ML.legal_inaccessible", status |-> "fail", n |-> 1] \in LegalLink(p)
                BY <3>2 DEF LegalLink, Item
            <4> QED BY <4>1
        <3> QED BY <1>1, <2>1, <3>1, <3>2
    <2>3. \A i \in LegalLink(q) : i.status # "fail"
        BY <2>1 DEF LegalLink, Item
    <2>4. \E i \in items(p) \ items(q) : i.status = "fail"
        <3> HIDE DEF Reads, Failing
        <3> QED BY <1>6, <2>2, <2>3
    <2>5. \A i \in items(q) : i.status = "fail" => i \in items(p)
        <3>1. \A x : \A i \in Hosting(x) : i.status # "fail"
            BY DEF Hosting, Judge, Item
        <3> HIDE DEF Reads, Failing
        <3> QED BY <1>4, <2>3, <3>1 DEF Sub
    <2> HIDE DEF items, Reads, Failing
    <2>6. CountOf(items(q), "fail") < CountOf(items(p), "fail")
        BY <1>3, <2>4, <2>5, CountOfPart
    <2> QED BY <1>2, <1>3, <2>6, ScalesEase DEF Milder
<1> QED BY <1>7, <1>8

(* A number that is read may be found wrong: it was a failure before.       *)
LEMMA LegalDataEases ==
    ASSUME NEW p \in LegalDataPage, NEW q \in LegalDataPage,
           q \in Reworked("MENTIONS_LEGALES_DATA", p)
    PROVE  NoWorse(MentionsLegalesData(p), MentionsLegalesData(q))
<1> DEFINE All == Mandatory \union Optional
           bound(x) == IF x.widget = "config" THEN All ELSE All \ x.unbound
           unread(x) == IF x.widget = "config" THEN {} ELSE x.unread \intersect bound(x)
           filled(x) == (bound(x) \ unread(x)) \ x.empty
           missing(x) == All \ (filled(x) \union unread(x))
           lacking(x) == UNION {Item("ML_DATA.binding_" \o f, IF f \in Mandatory THEN "fail" ELSE "warning", 1)
                                  : f \in missing(x)}
           hidden(x) == UNION {Item("ML_DATA.binding_" \o f, "info", 1) : f \in unread(x)}
           given(x) == UNION {Item("ML_DATA.binding_" \o f,
                                   IF f = "rcs" THEN ValidateRcs(x, filled(x)) ELSE "pass", 1)
                                : f \in filled(x)}
           found == Item("ML_DATA.widget_found", "pass", 1)
           items(x) == found \union LegalFields(x)
           f(x) == CountOf(items(x), "fail")
           w(x) == CountOf(items(x), "warning")
           note(x) == IF f(x) >= 3 THEN 0 ELSE IF f(x) >= 1 THEN 2
                      ELSE IF w(x) >= 5 THEN 3 ELSE IF w(x) > 0 THEN 4 ELSE 5
           Reads(x) == x.duda /\ x.legalPage /\ x.widget # "none"
<1>0. \/ q = [p EXCEPT !.unbound = {}]
      \/ q = [p EXCEPT !.empty = {}]
      \/ q = [p EXCEPT !.rcs = "good"]
    BY DEF Reworked
<1>1. /\ q.unbound \in {p.unbound, {}} /\ q.empty \in {p.empty, {}} /\ q.rcs \in {p.rcs, "good"}
      /\ q.duda = p.duda /\ q.legalPage = p.legalPage /\ q.widget = p.widget /\ q.unread = p.unread
    BY <1>0 DEF LegalDataPage
<1>2. \A x : LegalFields(x) = lacking(x) \union hidden(x) \union given(x)
    BY DEF LegalFields
<1>3. missing(q) \subseteq missing(p) /\ filled(p) \subseteq filled(q) \union unread(q)
      /\ filled(q) \subseteq filled(p) \union missing(p)
    BY <1>1
<1>4. Sub(lacking(q), lacking(p)) /\ Sub(hidden(q), hidden(p))
    <2>1. lacking(q) \subseteq lacking(p)
        <3> HIDE DEF missing
        <3> QED BY <1>3
    <2>2. Sub(hidden(q), hidden(p))
        <3> HIDE DEF unread
        <3> QED BY DEF Sub, Item
    <2> HIDE DEF lacking, hidden
    <2> QED BY <2>1, <2>2 DEF Sub
<1>5. \A x : \A i \in lacking(x) : \E g \in missing(x) :
          i = [key |-> "ML_DATA.binding_" \o g, status |-> IF g \in Mandatory THEN "fail" ELSE "warning", n |-> 1]
    <2> HIDE DEF missing
    <2> QED BY DEF Item
<1>6. \A x : \A g \in missing(x) \intersect Mandatory :
          [key |-> "ML_DATA.binding_" \o g, status |-> "fail", n |-> 1] \in lacking(x)
    <2> SUFFICES ASSUME NEW x, NEW g \in missing(x) \intersect Mandatory
                 PROVE  [key |-> "ML_DATA.binding_" \o g, status |-> "fail", n |-> 1] \in lacking(x)
        OBVIOUS
    <2> HIDE DEF missing
    <2>1. Item("ML_DATA.binding_" \o g, IF g \in Mandatory THEN "fail" ELSE "warning", 1) \subseteq lacking(x)
        OBVIOUS
    <2> HIDE DEF lacking
    <2> QED BY <2>1 DEF Item
<1>7. \A x : /\ \A i \in hidden(x) : i.status = "info"
             /\ \A i \in given(x) :
                   /\ i.status \in {"pass", "warning"}
                   /\ i.status = "warning" =>
                         /\ "rcs" \in filled(x) /\ ValidateRcs(x, filled(x)) = "warning"
                         /\ i = [key |-> "ML_DATA.binding_" \o "rcs", status |-> "warning", n |-> 1]
             /\ ("rcs" \in filled(x) /\ ValidateRcs(x, filled(x)) = "warning") =>
                   [key |-> "ML_DATA.binding_" \o "rcs", status |-> "warning", n |-> 1] \in given(x)
    <2> TAKE x
    <2>1. ValidateRcs(x, filled(x)) \in {"pass", "warning"}
        BY DEF ValidateRcs
    <2> HIDE DEF filled, unread
    <2>2. \A i \in hidden(x) : i.status = "info"
        BY DEF Item
    <2>3. \A i \in given(x) : \E g \in filled(x) :
             i = [key |-> "ML_DATA.binding_" \o g,
                  status |-> IF g = "rcs" THEN ValidateRcs(x, filled(x)) ELSE "pass", n |-> 1]
        BY DEF Item
    <2>4. "rcs" \in filled(x) =>
             [key |-> "ML_DATA.binding_" \o "rcs", status |-> ValidateRcs(x, filled(x)), n |-> 1] \in given(x)
        <3> SUFFICES ASSUME "rcs" \in filled(x)
                     PROVE  [key |-> "ML_DATA.binding_" \o "rcs",
                             status |-> ValidateRcs(x, filled(x)), n |-> 1] \in given(x)
            OBVIOUS
        <3>1. Item("ML_DATA.binding_" \o "rcs",
                   IF "rcs" = "rcs" THEN ValidateRcs(x, filled(x)) ELSE "pass", 1) \subseteq given(x)
            OBVIOUS
        <3> HIDE DEF given
        <3> QED BY <3>1 DEF Item
    <2>5. \A i \in given(x) :
             /\ i.status \in {"pass", "warning"}
             /\ i.status = "warning" =>
                   /\ "rcs" \in filled(x) /\ ValidateRcs(x, filled(x)) = "warning"
                   /\ i = [key |-> "ML_DATA.binding_" \o "rcs", status |-> "warning", n |-> 1]
        <3> HIDE DEF given, hidden
        <3> SUFFICES ASSUME NEW i \in given(x)
                     PROVE  /\ i.status \in {"pass", "warning"}
                            /\ i.status = "warning" =>
                                 /\ "rcs" \in filled(x) /\ ValidateRcs(x, filled(x)) = "warning"
                                 /\ i = [key |-> "ML_DATA.binding_" \o "rcs", status |-> "warning", n |-> 1]
            OBVIOUS
        <3>1. PICK g \in filled(x) :
                 i = [key |-> "ML_DATA.binding_" \o g,
                      status |-> IF g = "rcs" THEN ValidateRcs(x, filled(x)) ELSE "pass", n |-> 1]
            BY <2>3
        <3>2. CASE g = "rcs"
            BY <2>1, <3>1, <3>2
        <3>3. CASE g # "rcs"
            BY <3>1, <3>3
        <3> QED BY <3>2, <3>3
    <2> HIDE DEF given, hidden
    <2> QED BY <2>2, <2>4, <2>5
<1> HIDE DEF lacking, hidden, given
(* Either no warning is new, or a failure has gone.                         *)
<1>8. \/ Sub(given(q), given(p))
      \/ \E g \in Mandatory : g \in missing(p) /\ g \notin missing(q)
    <2>1. CASE ~("rcs" \in filled(q) /\ ValidateRcs(q, filled(q)) = "warning")
        <3> HIDE DEF filled, missing
        <3> QED BY <1>7, <2>1 DEF Sub
    <2>2. CASE /\ "rcs" \in filled(q) /\ ValidateRcs(q, filled(q)) = "warning"
               /\ "rcs" \in filled(p) /\ ValidateRcs(p, filled(p)) = "warning"
        <3> HIDE DEF filled, missing
        <3> QED BY <1>7, <2>2 DEF Sub
    <2>3. CASE "rcs" \in filled(q) /\ "rcs" \notin filled(p)
        <3>1. "rcs" \in missing(p) /\ "rcs" \notin missing(q)
            BY <1>3, <2>3
        <3>2. "rcs" \in Mandatory
            BY DEF Mandatory
        <3> HIDE DEF missing
        <3> QED BY <3>1, <3>2
    <2>4. CASE /\ "rcs" \in filled(q) /\ ValidateRcs(q, filled(q)) = "warning"
               /\ "rcs" \in filled(p) /\ ValidateRcs(p, filled(p)) # "warning"
        <3>1. "siret" \in filled(q) /\ "siret" \notin filled(p)
            <4> HIDE DEF filled
            <4> QED BY <1>1, <2>4 DEF ValidateRcs
        <3>2. "siret" \in missing(p) /\ "siret" \notin missing(q)
            BY <1>3, <3>1
        <3>3. "siret" \in Mandatory
            BY DEF Mandatory
        <3> HIDE DEF missing
        <3> QED BY <3>2, <3>3
    <2> HIDE DEF filled, missing
    <2> QED BY <2>1, <2>2, <2>3, <2>4
<1>9. \A x \in LegalDataPage :
          /\ ~x.duda \/ ~x.legalPage => MentionsLegalesData(x) = Na({})
          /\ x.duda /\ x.legalPage /\ x.widget = "none" =>
                MentionsLegalesData(x) = Fail(Item("ML_DATA.widget_missing", "fail", 1), 0)
          /\ Reads(x) =>
                MentionsLegalesData(x) = Result(StatusOf(f(x), w(x)), 10 * note(x), items(x))
    <2> HIDE DEF Mandatory
    <2> QED BY DEF MentionsLegalesData, Graded, LegalDataPage
<1>10. CASE ~Reads(p)
    <2>1. MentionsLegalesData(q) = MentionsLegalesData(p)
        BY <1>1, <1>9, <1>10
    <2>2. MentionsLegalesData(p).status \in Verdicts /\ MentionsLegalesData(p).score \in Int
        BY MentionsLegalesDataRight DEF Right, Founded, Full
    <2> QED BY <2>1, <2>2, Unchanged
<1>11. CASE Reads(p)
    <2>1. Reads(q)
        BY <1>1, <1>11
    <2> HIDE DEF Reads
    <2>2. MentionsLegalesData(p).items = items(p) /\ MentionsLegalesData(q).items = items(q)
        <3> HIDE DEF items, f, w, note
        <3> QED BY <1>9, <1>11, <2>1 DEF Result
    <2>3. Countable(items(p)) /\ Countable(items(q))
        <3> HIDE DEF items
        <3> QED BY <2>2, MentionsLegalesDataRight DEF Right, Founded
    <2>4. Milder(items(q), items(p))
        <3>1. CASE Sub(given(q), given(p))
            <4>1. Sub(items(q), items(p))
                BY <1>2, <1>4, <3>1 DEF Sub
            <4> HIDE DEF items
            <4> QED BY <2>3, <4>1, SubMilder
        <3>2. ASSUME NEW g \in Mandatory, g \in missing(p), g \notin missing(q)
              PROVE  Milder(items(q), items(p))
            <4> DEFINE x == [key |-> "ML_DATA.binding_" \o g, status |-> "fail", n |-> 1]
            <4>1. x \in items(p) /\ x.status = "fail"
                <5>1. g \in missing(p) \intersect Mandatory
                    BY <3>2
                <5> HIDE DEF missing, Mandatory
                <5>2. x \in lacking(p)
                    BY <1>6, <5>1
                <5> QED BY <1>2, <5>2
            <4>2. \A i \in items(q) : i.status = "fail" => i \in lacking(q)
                <5>1. \A i \in found : i.status = "pass"
                    BY DEF Item
                <5> HIDE DEF found, filled
                <5> QED BY <1>2, <1>7, <5>1
            <4>3. x \notin lacking(q)
                <5>1. SUFFICES ASSUME x \in lacking(q) PROVE FALSE
                    OBVIOUS
                <5>2. PICK h \in missing(q) : x = [key |-> "ML_DATA.binding_" \o h,
                                                   status |-> IF h \in Mandatory THEN "fail" ELSE "warning", n |-> 1]
                    <6> HIDE DEF x, missing, Mandatory
                    <6> QED BY <1>5, <5>1
                <5>3. "ML_DATA.binding_" \o g = "ML_DATA.binding_" \o h
                    BY <5>2
                <5>4. h \in All /\ g \in All
                    BY <5>2
                <5> HIDE DEF missing
                <5> QED BY <3>2, <5>2, <5>3, <5>4, KeysAssumption
            <4>4. \A i \in items(q) : i.status = "fail" => i \in items(p)
                BY <1>2, <1>4, <4>2 DEF Sub
            <4>5. x \in items(p) \ items(q)
                BY <4>1, <4>2, <4>3
            <4> HIDE DEF items, x, missing
            <4>6. CountOf(items(q), "fail") < CountOf(items(p), "fail")
                BY <2>3, <4>1, <4>4, <4>5, CountOfPart
            <4> QED BY <4>6 DEF Milder
        <3> HIDE DEF items, missing, Mandatory
        <3> QED BY <1>8, <3>1, <3>2
    <2>5. /\ f(q) < f(p) \/ (f(q) = f(p) /\ w(q) <= w(p))
          /\ f(p) \in Nat /\ w(p) \in Nat /\ f(q) \in Nat /\ w(q) \in Nat
        <3> HIDE DEF items
        <3> QED BY <2>3, <2>4, CountPositive DEF Milder
    <2>6. note(p) \in Int /\ note(q) \in Int /\ note(p) <= note(q)
        <3> HIDE DEF f, w
        <3> QED BY <2>5
    <2> HIDE DEF note, items
    <2> QED BY <1>9, <1>11, <2>1, <2>3, <2>4, <2>6, GradedNoWorse
<1> QED BY <1>10, <1>11

(****************************************************************************)
(* Links set right                                                          *)
(****************************************************************************)
(* One failing item and one warning item, among others that are neither.    *)
LEMMA TwoCounts ==
    ASSUME NEW C, Countable(C), \A i \in C : i.status \notin {"fail", "warning"},
           NEW key, NEW m \in Nat, NEW other, NEW n \in Nat
    PROVE  /\ CountOf(C \union Item(key, "fail", m) \union Item(other, "warning", n), "fail") = m
           /\ CountOf(C \union Item(key, "fail", m) \union Item(other, "warning", n), "warning") = n
<1> DEFINE D == C \union Item(key, "fail", m)
           E == D \union Item(other, "warning", n)
<1>1. CountOf(C, "fail") = 0 /\ CountOf(C, "warning") = 0
    BY CountPositive
<1>2. Countable(D) /\ CountOf(D, "fail") = 0 + m /\ CountOf(D, "warning") = 0
    <2>1. "fail" \in Status /\ \A i \in C : i.status = "fail" => i.key # key
        BY DEF Status
    <2> QED BY <1>1, <2>1, ItemAdds
<1>3. \A i \in D : i.status # "warning"
    <2>1. \A i \in Item(key, "fail", m) : i.status = "fail"
        BY ItemStatus
    <2> QED BY <2>1
<1> HIDE DEF D
<1>4. CountOf(E, "warning") = 0 + n /\ CountOf(E, "fail") = CountOf(D, "fail")
    <2>1. "warning" \in Status /\ \A i \in D : i.status = "warning" => i.key # other
        BY <1>3 DEF Status
    <2>2. /\ CountOf(E, "warning") = CountOf(D, "warning") + n
          /\ \A s : s # "warning" => CountOf(E, s) = CountOf(D, s)
        BY <1>2, <2>1, ItemAdds
    <2> HIDE DEF E
    <2> QED BY <1>2, <2>2
<1> QED BY <1>2, <1>4 DEF D

(* Fewer of the positions of a sequence.                                    *)
LEMMA FewerPositions ==
    ASSUME NEW T, NEW s \in Seq(T), NEW A \in SUBSET DOMAIN s, NEW B \in SUBSET A
    PROVE  /\ Cardinality(A) \in Nat /\ Cardinality(B) \in Nat /\ Cardinality(B) <= Cardinality(A)
           /\ Cardinality(A) = 0 <=> A = {}
<1>1. IsFiniteSet(A)
    BY PositionsFinite
<1> QED BY <1>1, FS_Subset, FS_CardinalityType, FS_EmptySet

LEMMA BrokenLinksEases ==
    ASSUME NEW p \in BrokenLinksPage, NEW q \in BrokenLinksPage,
           NEW i \in DOMAIN p.results, NEW e \in Better("BROKEN_LINKS", p.results[i]),
           q = [p EXCEPT !["results"][i] = e]
    PROVE  NoWorse(BrokenLinks(p), BrokenLinks(q))
<1> DEFINE Reply == [exhausted : BOOLEAN, status : Nat, social : BOOLEAN, moved : BOOLEAN]
           was == p.results[i]
           sorted(x, kind) == {k \in DOMAIN x.results : SortResult(x.results[k]) = kind}
<1>1. p.results \in Seq(Reply) /\ q.results = [p.results EXCEPT ![i] = e] /\ q.net = p.net
    BY DEF BrokenLinksPage
<1>2. /\ SortResult(e) = "healthy"
    <2>1. was \in Reply
        <3> HIDE DEF Reply
        <3> QED BY <1>1, ElementOf
    <2>2. ~was.exhausted /\ e = [was EXCEPT !.status = 200, !.moved = FALSE]
        BY DEF Better
    <2>3. e.exhausted = was.exhausted /\ e.status = 200 /\ e.moved = FALSE
        BY <2>1, <2>2
    <2> QED BY <2>2, <2>3 DEF SortResult
<1>3. DOMAIN q.results = DOMAIN p.results
      /\ sorted(q, "broken") \subseteq sorted(p, "broken")
      /\ sorted(q, "unreachable") \subseteq sorted(p, "unreachable")
    <2>1. "healthy" # "broken" /\ "healthy" # "unreachable"
        OBVIOUS
    <2>2. DOMAIN q.results = DOMAIN p.results
        BY <1>1
    <2>3. \A k \in DOMAIN p.results : q.results[k] = IF k = i THEN e ELSE p.results[k]
        BY <1>1
    <2> QED BY <1>2, <2>1, <2>2, <2>3
<1>4. \A kind \in {"broken", "unreachable"} :
         /\ Sorted(p, kind) \in Nat /\ Sorted(q, kind) \in Nat /\ Sorted(q, kind) <= Sorted(p, kind)
    <2> SUFFICES ASSUME NEW kind \in {"broken", "unreachable"}
                 PROVE  /\ Sorted(p, kind) \in Nat /\ Sorted(q, kind) \in Nat
                        /\ Sorted(q, kind) <= Sorted(p, kind)
        OBVIOUS
    <2>1. sorted(q, kind) \in SUBSET sorted(p, kind) /\ sorted(p, kind) \in SUBSET DOMAIN p.results
        BY <1>3
    <2> HIDE DEF Reply, sorted
    <2>2. Cardinality(sorted(p, kind)) \in Nat /\ Cardinality(sorted(q, kind)) \in Nat
          /\ Cardinality(sorted(q, kind)) <= Cardinality(sorted(p, kind))
        BY <1>1, <2>1, FewerPositions
    <2> QED BY <2>2 DEF Sorted, sorted
<1> DEFINE rest(x) == When(x.beyond > 0, NoKey, "info")
                      \union When(Sorted(x, "unverified") > 0, NoKey, "info")
                      \union Item("BROKEN.checked", "pass", 1)
                      \union When(Sorted(x, "broken") = 0, "BROKEN.no_broken", "pass")
                      \union Item("BROKEN.redirected", "info", Sorted(x, "redirected"))
                      \union When(Sorted(x, "refused") > 0, "BROKEN.rate_limited", "info")
                      \union Item("BROKEN.link_valid", "info", Sorted(x, "healthy"))
           items(x) == rest(x) \union Item("BROKEN.broken", "fail", Sorted(x, "broken"))
                       \union Item("BROKEN.timeout", "warning", Sorted(x, "unreachable"))
           f(x) == CountOf(items(x), "fail")
           w(x) == CountOf(items(x), "warning")
           note(x) == IF f(x) >= 3 THEN 0 ELSE IF f(x) >= 1 THEN 2
                      ELSE IF w(x) > 2 THEN 3 ELSE IF w(x) > 0 THEN 4 ELSE 5
<1>5. \A x \in {p, q} : /\ Countable(rest(x))
                        /\ \A j \in rest(x) : j.status \notin {"fail", "warning"}
    <2> SUFFICES ASSUME NEW x \in {p, q}
                 PROVE  /\ Countable(rest(x))
                        /\ \A j \in rest(x) : j.status \notin {"fail", "warning"}
        OBVIOUS
    <2>1. \A kind : Sorted(x, kind) \in Int
        <3>1. x \in BrokenLinksPage
            OBVIOUS
        <3>2. x.results \in Seq(Reply)
            BY <3>1 DEF BrokenLinksPage
        <3> QED BY <3>2, PositionsFinite DEF Sorted
    <2>2. /\ Countable(Item("BROKEN.redirected", "info", Sorted(x, "redirected")))
          /\ Countable(Item("BROKEN.link_valid", "info", Sorted(x, "healthy")))
        BY <2>1, ManyItems
    <2>3. Countable(rest(x))
        BY <2>2, AnyItem, Zenon
    <2>4. \A j \in rest(x) : j.status \notin {"fail", "warning"}
        BY DEF Item, When
    <2> QED BY <2>3, <2>4
<1>6. \A x \in {p, q} : BrokenLinks(x) =
        IF x.results = <<>> \/ ~x.net THEN Na({})
        ELSE Result(StatusOf(f(x), w(x)), 10 * note(x), items(x))
    <2> SUFFICES ASSUME NEW x \in {p, q}
                 PROVE  BrokenLinks(x) =
                            IF x.results = <<>> \/ ~x.net THEN Na({})
                            ELSE Result(StatusOf(f(x), w(x)), 10 * note(x), items(x))
        OBVIOUS
    <2>1. When(x.beyond > 0, NoKey, "info")
              \union When(Sorted(x, "unverified") > 0, NoKey, "info")
              \union Item("BROKEN.checked", "pass", 1)
              \union When(Sorted(x, "broken") = 0, "BROKEN.no_broken", "pass")
              \union BrokenItems(x) = items(x)
        BY Zenon DEF BrokenItems
    <2> HIDE DEF items
    <2> QED BY <2>1 DEF BrokenLinks, Graded
<1>7. \A x \in {p, q} : /\ f(x) = Sorted(x, "broken") /\ w(x) = Sorted(x, "unreachable")
                        /\ Countable(items(x))
    <2> SUFFICES ASSUME NEW x \in {p, q}
                 PROVE  /\ f(x) = Sorted(x, "broken") /\ w(x) = Sorted(x, "unreachable")
                        /\ Countable(items(x))
        OBVIOUS
    <2>1. Countable(rest(x)) /\ \A j \in rest(x) : j.status \notin {"fail", "warning"}
        BY <1>5
    <2>2. Sorted(x, "broken") \in Nat /\ Sorted(x, "unreachable") \in Nat
        BY <1>4
    <2> HIDE DEF rest
    <2>3. f(x) = Sorted(x, "broken") /\ w(x) = Sorted(x, "unreachable")
        BY <2>1, <2>2, TwoCounts
    <2>4. Countable(Item("BROKEN.broken", "fail", Sorted(x, "broken")))
          /\ Countable(Item("BROKEN.timeout", "warning", Sorted(x, "unreachable")))
        BY <2>2, ManyItems
    <2> QED BY <2>1, <2>3, <2>4, AnyItem, Zenon
<1> HIDE DEF items
<1>8. p.results # <<>> /\ q.results # <<>>
    BY <1>1, <1>3
<1>9. CASE ~p.net
    <2>1. BrokenLinks(p) = BrokenLinks(q) /\ BrokenLinks(p) = Na({})
        BY <1>1, <1>6, <1>9
    <2> QED BY <2>1, NotApplying
<1>10. CASE p.net
    <2>1. /\ BrokenLinks(p) = Result(StatusOf(f(p), w(p)), 10 * note(p), items(p))
          /\ BrokenLinks(q) = Result(StatusOf(f(q), w(q)), 10 * note(q), items(q))
        <3> HIDE DEF f, w, note
        <3> QED BY <1>1, <1>6, <1>8, <1>10
    <2>2. f(q) <= f(p) /\ w(q) <= w(p) /\ f(p) \in Nat /\ f(q) \in Nat /\ w(p) \in Nat /\ w(q) \in Nat
        BY <1>4, <1>7
    <2>3. Milder(items(q), items(p))
        BY <2>2 DEF Milder
    <2>4. note(p) \in Int /\ note(q) \in Int /\ note(p) <= note(q)
        <3> HIDE DEF f, w
        <3> QED BY <2>2
    <2>5. Countable(items(p)) /\ Countable(items(q))
        BY <1>7
    <2> HIDE DEF note
    <2> QED BY <2>1, <2>3, <2>4, <2>5, GradedNoWorse
<1> QED BY <1>1, <1>9, <1>10 DEF BrokenLinksPage

(* A chain of links begins with one that is not in it.                      *)
LEMMA ChainsBegin ==
    ASSUME NEW T, NEW links \in Seq(T)
    PROVE  Groups(links) # {} <=> \E k \in DOMAIN links : Chained(links, k)
<1>1. DOMAIN links = 1..Len(links) /\ Len(links) \in Nat
    OBVIOUS
<1>2. ASSUME NEW i \in Groups(links) PROVE \E k \in DOMAIN links : Chained(links, k)
    <2>1. i \in 1..Len(links) /\ i < Len(links) /\ Chained(links, i + 1)
        BY <1>1 DEF Groups
    <2>2. i + 1 \in DOMAIN links
        BY <1>1, <2>1
    <2> QED BY <2>1, <2>2
<1>3. ASSUME NEW k \in DOMAIN links, Chained(links, k) PROVE Groups(links) # {}
    <2> DEFINE S == {j \in DOMAIN links : Chained(links, j)}
    <2>1. S \in SUBSET Nat /\ IsFiniteSet(S) /\ S # {}
        BY <1>3, PositionsFinite
    <2>2. PICK n \in S : \A m \in S : n <= m
        BY <2>1, Smallest
    <2>3. n \in 1..Len(links) /\ Chained(links, n) /\ n > 1
        BY <1>1 DEF Chained
    <2>4. n - 1 \in DOMAIN links /\ n - 1 < Len(links) /\ (n - 1) + 1 = n
        BY <1>1, <2>3
    <2>5. ~Chained(links, n - 1)
        <3>1. n - 1 \notin S
            BY <1>1, <2>2, <2>3
        <3> QED BY <2>4, <3>1
    <2>6. Chained(links, (n - 1) + 1)
        BY <2>3, <2>4
    <2> QED BY <2>4, <2>5, <2>6 DEF Groups
<1> QED BY <1>2, <1>3

LEMMA SplitLinksEases ==
    ASSUME NEW p \in SplitLinksPage, NEW q \in SplitLinksPage,
           NEW i \in DOMAIN p.links, NEW e \in Better("SPLIT_LINKS", p.links[i]),
           q = [p EXCEPT !["links"][i] = e]
    PROVE  NoWorse(SplitLinks(p), SplitLinks(q))
<1> DEFINE Link == [to : STRING, glued : BOOLEAN, after : BOOLEAN]
           was == p.links[i]
           glued(x) == {k \in DOMAIN x.links : x.links[k].glued}
           split(x) == Cardinality(glued(x))
           twice(x) == Cardinality(Groups(x.links))
           cut(x) == Judge(split(x) = 0, "SPLIT.no_split", "pass", "SPLIT.split_found", "fail")
           cuts(x) == Item("SPLIT.split_item", "info", split(x))
           double(x) == Judge(twice(x) = 0, "SPLIT.no_duplicate", "pass",
                              "SPLIT.duplicate_found", "fail")
           doubles(x) == Item("SPLIT.duplicate_item", "info", twice(x))
           items(x) == cut(x) \union cuts(x) \union double(x) \union doubles(x)
<1>1. /\ p.links \in Seq(Link) /\ q.links \in Seq(Link)
      /\ q.links = [p.links EXCEPT ![i] = e] /\ q.blocks = p.blocks
    BY DEF SplitLinksPage
<1>2. e.to = was.to /\ (e.glued => was.glued) /\ (e.after => was.after)
    <2>1. was \in Link
        <3> HIDE DEF Link
        <3> QED BY <1>1, ElementOf
    <2>2. e = [was EXCEPT !.glued = FALSE] \/ e = [was EXCEPT !.after = FALSE]
        BY DEF Better
    <2> QED BY <2>1, <2>2
<1>3. DOMAIN q.links = DOMAIN p.links
      /\ \A k \in DOMAIN p.links : q.links[k] = IF k = i THEN e ELSE p.links[k]
    BY <1>1
<1>4. \A k \in DOMAIN p.links : /\ q.links[k].to = p.links[k].to
                                /\ q.links[k].glued => p.links[k].glued
                                /\ q.links[k].after => p.links[k].after
    BY <1>2, <1>3
<1> HIDE DEF was, Link
<1>5. glued(p) = {} => glued(q) = {}
    BY <1>3, <1>4
<1>6. Groups(p.links) = {} => Groups(q.links) = {}
    <2>1. ASSUME NEW k \in DOMAIN q.links, Chained(q.links, k) PROVE Chained(p.links, k)
        <3> DEFINE n == Len(p.links)
        <3>1. DOMAIN p.links = 1..n /\ n \in Nat
            BY <1>1
        <3>2. k \in DOMAIN p.links /\ k > 1
            BY <1>3, <2>1 DEF Chained
        <3> HIDE DEF n
        <3>3. k - 1 \in DOMAIN p.links
            BY <3>1, <3>2
        <3> QED BY <1>4, <2>1, <3>2, <3>3 DEF Chained
    <2> QED BY <1>1, <1>3, <2>1, ChainsBegin
<1>7. /\ split(p) \in Nat /\ split(q) \in Nat /\ twice(p) \in Nat /\ twice(q) \in Nat
      /\ split(p) = 0 => split(q) = 0
      /\ twice(p) = 0 => twice(q) = 0
    <2>1. /\ glued(p) \in SUBSET DOMAIN p.links /\ glued(q) \in SUBSET DOMAIN q.links
          /\ Groups(p.links) \in SUBSET DOMAIN p.links /\ Groups(q.links) \in SUBSET DOMAIN q.links
        BY DEF Groups
    <2> HIDE DEF glued
    <2>2. /\ split(p) \in Nat /\ split(q) \in Nat /\ twice(p) \in Nat /\ twice(q) \in Nat
          /\ split(p) = 0 <=> glued(p) = {}
          /\ split(q) = 0 <=> glued(q) = {}
          /\ twice(p) = 0 <=> Groups(p.links) = {}
          /\ twice(q) = 0 <=> Groups(q.links) = {}
        BY <1>1, <2>1, FewerPositions
    <2> QED BY <1>5, <1>6, <2>2
<1>8. \A x : SplitLinks(x) = IF ~x.blocks THEN Na({}) ELSE Graded(items(x), FaultScale)
    BY DEF SplitLinks
<1> HIDE DEF split, twice
<1>9. Countable(items(p)) /\ Countable(items(q))
    <2>1. \A n \in Nat : \A key : Countable(Item(key, "info", n))
        BY ManyItems
    <2>2. /\ Countable(cuts(p)) /\ Countable(doubles(p))
          /\ Countable(cuts(q)) /\ Countable(doubles(q))
        BY <1>7, <2>1, Zenon
    <2> HIDE DEF cuts, doubles
    <2> QED BY <2>2, AnyItem, Zenon
<1>10. Sub(items(q), items(p))
    <2>0. ASSUME NEW b, NEW c, b => c, NEW key, NEW other
          PROVE  Sub(Judge(c, key, "pass", other, "fail"), Judge(b, key, "pass", other, "fail"))
        BY <2>0 DEF Sub, Item, Judge
    <2>1. Sub(cut(q), cut(p)) /\ Sub(double(q), double(p))
        <3>1. (split(p) = 0 => split(q) = 0) /\ (twice(p) = 0 => twice(q) = 0)
            BY <1>7
        <3> QED BY <2>0, <3>1, Zenon
    <2>2. Sub(cuts(q), cuts(p)) /\ Sub(doubles(q), doubles(p))
        BY DEF Sub, Item
    <2> HIDE DEF cut, cuts, double, doubles
    <2> QED BY <2>1, <2>2 DEF Sub
<1> HIDE DEF items
<1>11. NoWorse(Graded(items(p), FaultScale), Graded(items(q), FaultScale))
    BY <1>9, <1>10, SubMilder, ScalesEase
<1> QED BY <1>1, <1>8, <1>11, NotApplying

(* A link set right has no fault that it had not, and leads to the same     *)
(* kind of place.                                                           *)
LEMMA LinkFaults ==
    ASSUME NEW x \in [to : Destinations, follow : BOOLEAN, button : BOOLEAN,
                      around : Seq(SUBSET STRING)],
           NEW e \in Better("LINKS", x)
    PROVE  /\ \A to \in {"bad phone", "bad mail", "nowhere", "self"} : e.to = to => x.to = to
           /\ SelfReference(e) => SelfReference(x)
           /\ e.to = "external" /\ e.follow => x.to = "external" /\ x.follow
           /\ x.to \in {"self", "section", "internal", "external"}
                 => e.to \in {"self", "section", "internal", "external"}
<1> DEFINE to == CASE x.to = "bad phone" -> "phone" [] x.to = "bad mail" -> "mail"
                   [] x.to \in {"nowhere", "self"} -> "internal" [] OTHER -> x.to
<1>0. Better("LINKS", x) = {[x EXCEPT !.to = to], [x EXCEPT !.follow = FALSE]}
    BY LinkMends, Zenon
<1>2. /\ \A t \in {"bad phone", "bad mail", "nowhere", "self"} : to # t
      /\ to = "external" => x.to = "external"
      /\ x.to \in {"self", "section", "internal", "external"}
            => to \in {"self", "section", "internal", "external"}
    OBVIOUS
<1> HIDE DEF to
<1>1. e = [x EXCEPT !.to = to] \/ e = [x EXCEPT !.follow = FALSE]
    BY <1>0
<1>3. CASE e = [x EXCEPT !.to = to]
    <2>1. e.to = to /\ e.follow = x.follow
        BY <1>3
    <2>2. ~SelfReference(e)
        BY <1>2, <2>1 DEF SelfReference
    <2> QED BY <1>2, <2>1, <2>2
<1>4. CASE e = [x EXCEPT !.follow = FALSE]
    <2>1. e.to = x.to /\ e.follow = FALSE /\ e.around = x.around /\ e.button = x.button
        BY <1>4
    <2>2. SelfReference(e) = SelfReference(x)
        BY <2>1 DEF SelfReference, Within, DetectLinkZone
    <2> QED BY <2>1, <2>2
<1> QED BY <1>1, <1>3, <1>4

LEMMA LinksEases ==
    ASSUME NEW p \in LinksPage, NEW q \in LinksPage,
           NEW i \in DOMAIN p.links, NEW e \in Better("LINKS", p.links[i]),
           q = [p EXCEPT !["links"][i] = e]
    PROVE  NoWorse(Links(p), Links(q))
<1> DEFINE Link == [to : Destinations, follow : BOOLEAN, button : BOOLEAN, around : Seq(SUBSET STRING)]
           http == {"self", "section", "internal", "external"}
           self(x) == {k \in DOMAIN x.links : SelfReference(x.links[k])}
           phones(x) == Cardinality(LinksTo(x, {"bad phone"}))
           mails(x) == Cardinality(LinksTo(x, {"bad mail"}))
           dangling(x) == Cardinality(LinksTo(x, {"nowhere"}))
           selves(x) == Cardinality(self(x))
           followed(x) == \E k \in LinksTo(x, {"external"}) : x.links[k].follow
           contacts(x) == Item("LINKS.ctc_invalid", "fail", phones(x))
                          \union Item("LINKS.ctm_invalid", "fail", mails(x))
           totals == Item("LINKS.total", "pass", 1) \union Item("LINKS.internal", "pass", 1)
                     \union Item("LINKS.external", "pass", 1)
           notes(x) == Item("LINKS.empty_anchors", "info", dangling(x))
                       \union Item("LINKS.self_reference", "info", selves(x))
           flags(x) == When(followed(x), "LINKS.external_nofollow", "warning")
                       \union When(dangling(x) > 0, "LINKS.empty_anchors", "warning")
                       \union When(selves(x) > 0, "LINKS.self_reference", "fail")
                       \union When(LinksTo(x, http) = {}, "LINKS.no_http", "warning")
           base(x) == totals \union notes(x) \union flags(x)
           mailed(x) == base(x) \union Item("LINKS.ctm_invalid", "fail", mails(x))
           items(x) == mailed(x) \union Item("LINKS.ctc_invalid", "fail", phones(x))
<1>1. /\ p.links \in Seq(Link) /\ q.links = [p.links EXCEPT ![i] = e] /\ p.links[i] \in Link
    <2>1. p.links \in Seq(Link) /\ q.links = [p.links EXCEPT ![i] = e]
        BY DEF LinksPage
    <2> HIDE DEF Link
    <2>2. p.links[i] \in Link
        BY <2>1, ElementOf
    <2> QED BY <2>1, <2>2
<1>2. DOMAIN q.links = DOMAIN p.links
      /\ \A k \in DOMAIN p.links : q.links[k] = IF k = i THEN e ELSE p.links[k]
    BY <1>1
<1>3. /\ \A to \in {"bad phone", "bad mail", "nowhere", "self"} : e.to = to => p.links[i].to = to
      /\ SelfReference(e) => SelfReference(p.links[i])
      /\ e.to = "external" /\ e.follow => p.links[i].to = "external" /\ p.links[i].follow
      /\ p.links[i].to \in http => e.to \in http
    BY <1>1, LinkFaults
<1>4. /\ LinksTo(q, {"bad phone"}) \subseteq LinksTo(p, {"bad phone"})
      /\ LinksTo(q, {"bad mail"}) \subseteq LinksTo(p, {"bad mail"})
      /\ LinksTo(q, {"nowhere"}) \subseteq LinksTo(p, {"nowhere"})
    BY <1>2, <1>3 DEF LinksTo
<1>5. self(q) \subseteq self(p)
    BY <1>2, <1>3
<1>6. followed(q) => followed(p)
    BY <1>2, <1>3 DEF LinksTo
<1>7. LinksTo(q, http) = {} => LinksTo(p, http) = {}
    <2>1. LinksTo(p, http) \subseteq LinksTo(q, http)
        BY <1>2, <1>3 DEF LinksTo
    <2> QED BY <2>1
<1>8. /\ phones(p) \in Nat /\ phones(q) \in Nat /\ phones(q) <= phones(p)
      /\ mails(p) \in Nat /\ mails(q) \in Nat /\ mails(q) <= mails(p)
      /\ dangling(p) \in Nat /\ dangling(q) \in Nat /\ dangling(q) <= dangling(p)
      /\ selves(p) \in Nat /\ selves(q) \in Nat /\ selves(q) <= selves(p)
    <2>1. self(p) \in SUBSET DOMAIN p.links /\ \A kinds : LinksTo(p, kinds) \in SUBSET DOMAIN p.links
        BY DEF LinksTo
    <2> HIDE DEF self, Link
    <2> QED BY <1>1, <1>4, <1>5, <2>1, FewerPositions
<1>9. \A x : Links(x) = Graded(items(x), FaultScale)
    <2>1. \A x : BadContacts(x) \union Summarize(x) = items(x)
        BY Zenon DEF BadContacts, Summarize
    <2> HIDE DEF items
    <2> QED BY <2>1 DEF Links
<1> HIDE DEF phones, mails, dangling, selves, followed, self, Link, http
<1>10. /\ Countable(base(p)) /\ Countable(base(q))
       /\ Sub(base(q), base(p))
    <2>1. \A n \in Nat : \A key : Countable(Item(key, "info", n))
        BY ManyItems
    <2>2. Countable(notes(p)) /\ Countable(notes(q))
        BY <1>8, <2>1, AnyItem, Zenon
    <2>3. Countable(totals) /\ Countable(flags(p)) /\ Countable(flags(q))
        BY AnyItem, Zenon
    <2>4. Sub(notes(q), notes(p)) /\ Sub(totals, totals)
        BY DEF Sub, Item
    <2>5. ASSUME NEW b, NEW c, b => c, NEW key, NEW status
          PROVE  Sub(When(b, key, status), When(c, key, status))
        BY <2>5 DEF Sub, Item, When
    <2>6. Sub(flags(q), flags(p))
        <3> DEFINE out(x) == When(followed(x), "LINKS.external_nofollow", "warning")
                   empty(x) == When(dangling(x) > 0, "LINKS.empty_anchors", "warning")
                   own(x) == When(selves(x) > 0, "LINKS.self_reference", "fail")
                   none(x) == When(LinksTo(x, http) = {}, "LINKS.no_http", "warning")
        <3>1. (dangling(q) > 0 => dangling(p) > 0) /\ (selves(q) > 0 => selves(p) > 0)
            BY <1>8
        <3>2. /\ Sub(out(q), out(p)) /\ Sub(empty(q), empty(p))
              /\ Sub(own(q), own(p)) /\ Sub(none(q), none(p))
            BY <1>6, <1>7, <2>5, <3>1, Zenon
        <3> HIDE DEF out, empty, own, none
        <3>3. Sub(out(q) \union empty(q) \union own(q) \union none(q),
                  out(p) \union empty(p) \union own(p) \union none(p))
            BY <3>2 DEF Sub
        <3> QED BY <3>3 DEF out, empty, own, none
    <2> HIDE DEF totals, notes, flags
    <2>7. Countable(base(p)) /\ Countable(base(q))
        BY <2>2, <2>3, UnionCountable
    <2>8. Sub(base(q), base(p))
        BY <2>4, <2>6 DEF Sub
    <2> QED BY <2>7, <2>8
<1>11. \A x : \A j \in base(x) : j.key \notin {"LINKS.ctc_invalid", "LINKS.ctm_invalid"}
    BY DEF Item, When
<1> HIDE DEF base
<1>12. \A x \in {p, q} : /\ Countable(items(x))
                         /\ CountOf(items(x), "fail") = CountOf(base(x), "fail") + mails(x) + phones(x)
                         /\ CountOf(items(x), "warning") = CountOf(base(x), "warning")
    <2> SUFFICES ASSUME NEW x \in {p, q}
                 PROVE  /\ Countable(items(x))
                        /\ CountOf(items(x), "fail") = CountOf(base(x), "fail") + mails(x) + phones(x)
                        /\ CountOf(items(x), "warning") = CountOf(base(x), "warning")
        OBVIOUS
    <2>0. mails(x) \in Nat /\ phones(x) \in Nat /\ Countable(base(x)) /\ "fail" \in Status
        BY <1>8, <1>10 DEF Status
    <2>4. \A j \in base(x) : j.status = "fail" => j.key # "LINKS.ctm_invalid"
        BY <1>11
    <2>1. /\ Countable(mailed(x))
          /\ CountOf(mailed(x), "fail") = CountOf(base(x), "fail") + mails(x)
          /\ \A s : s # "fail" => CountOf(mailed(x), s) = CountOf(base(x), s)
        <3> DEFINE C == base(x)
                   n == mails(x)
        <3>1. Countable(C) /\ n \in Nat /\ \A j \in C : j.status = "fail" => j.key # "LINKS.ctm_invalid"
            BY <2>0, <2>4
        <3> HIDE DEF C, n
        <3>2. /\ Countable(C \union Item("LINKS.ctm_invalid", "fail", n))
              /\ CountOf(C \union Item("LINKS.ctm_invalid", "fail", n), "fail") = CountOf(C, "fail") + n
              /\ \A s : s # "fail" =>
                    CountOf(C \union Item("LINKS.ctm_invalid", "fail", n), s) = CountOf(C, s)
            BY <2>0, <3>1, ItemAdds
        <3> QED BY <3>2 DEF C, n
    <2>2. \A j \in mailed(x) : j.status = "fail" => j.key # "LINKS.ctc_invalid"
        BY <1>11 DEF Item
    <2> HIDE DEF mailed
    <2>3. /\ Countable(items(x))
          /\ CountOf(items(x), "fail") = CountOf(mailed(x), "fail") + phones(x)
          /\ \A s : s # "fail" => CountOf(items(x), s) = CountOf(mailed(x), s)
        BY <2>0, <2>1, <2>2, ItemAdds
    <2> HIDE DEF items
    <2> QED BY <2>1, <2>3
<1> HIDE DEF items
<1>13. Milder(items(q), items(p))
    <2>1. CountOf(base(q), "fail") <= CountOf(base(p), "fail")
          /\ CountOf(base(q), "warning") <= CountOf(base(p), "warning")
        BY <1>10, SubMilder
    <2>2. /\ CountOf(base(q), "fail") \in Nat /\ CountOf(base(p), "fail") \in Nat
          /\ CountOf(base(q), "warning") \in Nat /\ CountOf(base(p), "warning") \in Nat
        BY <1>10, CountPositive
    <2> QED BY <1>8, <1>12, <2>1, <2>2 DEF Milder
<1> QED BY <1>9, <1>12, <1>13, ScalesEase

(* A navigation is judged by its stages: whether one is seen, whether it    *)
(* has links, and how many of the expected pages it names.                  *)
LEMMA NavStages ==
    ASSUME NEW p \in NavPage
    PROVE  \E x, y, z :
              NavStructure(p) =
                 IF ~p.header \/ p.navs = <<>> THEN Na({})
                 ELSE IF Visible(p.navs) = {} THEN Fail(x, 0)
                 ELSE IF p.navs[Min(Visible(p.navs))].links = 0 THEN Fail(y, 0)
                 ELSE NavVerdict(Cardinality(p.missing), z)
<1> DEFINE visible == Visible(p.navs)
           hidden  == Cardinality(DOMAIN p.navs \ visible)
           found   == Item("NAV_STRUCTURE.nav_role_found", "pass", 1)
                      \union Item("NAV_STRUCTURE.nav_hidden", "info", hidden)
           chosen  == found \union
                      (IF Cardinality(visible) > 1
                       THEN Item("NAV_STRUCTURE.nav_detail", "info", Cardinality(visible))
                            \union Item("NAV_STRUCTURE.primary_selection", "info", 1)
                       ELSE {})
<1>1. NavStructure(p) =
        IF ~p.header \/ p.navs = <<>> THEN Na({})
        ELSE IF Visible(p.navs) = {}
             THEN Fail(found \union Item("NAV_STRUCTURE.all_hidden", "fail", 1), 0)
        ELSE IF p.navs[Min(Visible(p.navs))].links = 0
             THEN Fail(chosen \union Item("NAV_STRUCTURE.no_links", "fail", 1), 0)
        ELSE NavVerdict(Cardinality(p.missing),
               chosen \union Item("NAV_STRUCTURE.links_count", "pass", 1)
               \union ExpectedItems(p.missing))
    BY DEF NavStructure
<1> HIDE DEF found, chosen
<1> QED BY <1>1

(* The fewer pages are missing, the better.                                 *)
LEMMA FewerMissing ==
    ASSUME NEW m \in 0..3, NEW n \in 0..m, NEW x, NEW z
    PROVE  /\ NoWorse(NavVerdict(m, x), NavVerdict(n, z))
           /\ NavVerdict(n, z).status \in {"pass", "warning", "fail"}
           /\ NavVerdict(n, z).score \in 0..Full
<1>1. Cardinality(Expected) = 3
    BY ThreeExpected
<1>2. \A t : /\ NavVerdict(0, t) = Pass(t)
             /\ NavVerdict(1, t) = Warn(t, 3)
             /\ NavVerdict(2, t) = Warn(t, 2)
             /\ NavVerdict(3, t) = Fail(t, 0)
    BY <1>1 DEF NavVerdict
<1>3. \A t : /\ NavVerdict(0, t).status = "pass" /\ NavVerdict(0, t).score = 50
             /\ NavVerdict(1, t).status = "warning" /\ NavVerdict(1, t).score = 30
             /\ NavVerdict(2, t).status = "warning" /\ NavVerdict(2, t).score = 20
             /\ NavVerdict(3, t).status = "fail" /\ NavVerdict(3, t).score = 0
    BY <1>2 DEF Pass, Warn, Fail, Result, Full
<1> DEFINE was == NavVerdict(m, x)
           now == NavVerdict(n, z)
<1>4. /\ m \in {0, 1, 2, 3} /\ n \in {0, 1, 2, 3} /\ n <= m
      /\ Full = 50
    BY DEF Full
<1>5. /\ m = 0 => was.status = "pass" /\ was.score = 50
      /\ m = 1 => was.status = "warning" /\ was.score = 30
      /\ m = 2 => was.status = "warning" /\ was.score = 20
      /\ m = 3 => was.status = "fail" /\ was.score = 0
    BY <1>3
<1>6. /\ n = 0 => now.status = "pass" /\ now.score = 50
      /\ n = 1 => now.status = "warning" /\ now.score = 30
      /\ n = 2 => now.status = "warning" /\ now.score = 20
      /\ n = 3 => now.status = "fail" /\ now.score = 0
    BY <1>3
<1> HIDE DEF was, now
<1>7. /\ was.status \in {"pass", "warning", "fail"} /\ was.score \in 0..Full
      /\ now.status \in {"pass", "warning", "fail"} /\ now.score \in 0..Full
    BY <1>4, <1>5, <1>6
<1>8. ASSUME n = 0 PROVE NoWorse(was, now)
    BY <1>4, <1>6, <1>7, <1>8, ToBest
<1>9. ASSUME m = 3 PROVE NoWorse(was, now)
    <2>1. was.status = "fail" /\ was.score \in Int /\ now.score \in Int /\ was.score <= now.score
        BY <1>4, <1>5, <1>7, <1>9
    <2> QED BY <1>7, <2>1, FromWorst
<1>10. ASSUME n \in {1, 2} /\ m \in {1, 2} PROVE NoWorse(was, now)
    <2>1. /\ was.status = "warning" /\ now.status = "warning"
          /\ was.score \in Int /\ now.score \in Int /\ was.score <= now.score
        BY <1>4, <1>5, <1>6, <1>10
    <2>2. "warning" \in Verdicts
        BY DEF Verdicts, Status
    <2>3. CompareStatus("warning", "warning") # "degraded"
        BY <2>2, Ranked
    <2> QED BY <2>1, <2>2, <2>3 DEF NoWorse
<1>11. NoWorse(was, now)
    BY <1>4, <1>8, <1>9, <1>10
<1> QED BY <1>7, <1>11 DEF was, now

LEMMA NavEases ==
    ASSUME NEW p \in NavPage, NEW q \in NavPage,
           \/ q \in Reworked("NAV_STRUCTURE", p)
           \/ \E i \in DOMAIN p.navs : \E e \in Better("NAV_STRUCTURE", p.navs[i]) :
                 q = [p EXCEPT !["navs"][i] = e]
    PROVE  NoWorse(NavStructure(p), NavStructure(q))
<1> DEFINE Nav == [hidden : BOOLEAN, links : Nat]
           first(x) == x.navs[Min(Visible(x.navs))].links
<1>1. /\ q.header = p.header /\ q.missing \subseteq p.missing
      /\ q.navs = <<>> <=> p.navs = <<>>
      /\ Visible(q.navs) = Visible(p.navs)
      /\ \A k \in Visible(p.navs) : q.navs[k].links = 0 => p.navs[k].links = 0
    <2>1. CASE q \in Reworked("NAV_STRUCTURE", p)
        <3>1. PICK e \in p.missing : q = [p EXCEPT !.missing = p.missing \ {e}]
            BY <2>1 DEF Reworked
        <3>2. q.header = p.header /\ q.missing \subseteq p.missing /\ q.navs = p.navs
            BY <3>1 DEF NavPage
        <3> QED BY <3>2
    <2>2. ASSUME NEW i \in DOMAIN p.navs, NEW e \in Better("NAV_STRUCTURE", p.navs[i]),
                 q = [p EXCEPT !["navs"][i] = e]
          PROVE  /\ q.header = p.header /\ q.missing \subseteq p.missing
                 /\ q.navs = <<>> <=> p.navs = <<>>
                 /\ Visible(q.navs) = Visible(p.navs)
                 /\ \A k \in Visible(p.navs) : q.navs[k].links = 0 => p.navs[k].links = 0
        <3>1. /\ p.navs \in Seq(Nav) /\ q.navs = [p.navs EXCEPT ![i] = e]
              /\ q.header = p.header /\ q.missing = p.missing
            BY <2>2 DEF NavPage
        <3>2. e.hidden = p.navs[i].hidden /\ e.links = 3
            <4>1. p.navs[i] \in Nav
                <5> HIDE DEF Nav
                <5> QED BY <3>1, ElementOf
            <4> QED BY <4>1 DEF Better
        <3>3. DOMAIN q.navs = DOMAIN p.navs
              /\ \A k \in DOMAIN p.navs : q.navs[k] = IF k = i THEN e ELSE p.navs[k]
            BY <3>1
        <3>4. Visible(q.navs) = Visible(p.navs)
            BY <3>2, <3>3 DEF Visible
        <3>5. \A k \in Visible(p.navs) : q.navs[k].links = 0 => p.navs[k].links = 0
            BY <3>2, <3>3 DEF Visible
        <3>6. q.navs # <<>> /\ p.navs # <<>>
            BY <3>1, <3>3
        <3> QED BY <3>1, <3>4, <3>5, <3>6
    <2> QED BY <2>1, <2>2
<1> DEFINE m == Cardinality(p.missing)
           n == Cardinality(q.missing)
<1>2. m \in 0..3 /\ n \in 0..m
    <2>1. p.missing \in SUBSET Expected
        BY DEF NavPage
    <2>2. IsFiniteSet(p.missing) /\ m <= 3 /\ n <= m
        BY <1>1, <2>1, ThreeExpected, FS_Subset
    <2>3. IsFiniteSet(q.missing)
        BY <1>1, <2>2, FS_Subset
    <2>4. m \in Nat /\ n \in Nat
        BY <2>2, <2>3, FS_CardinalityType
    <2> QED BY <2>2, <2>4
<1>3. Visible(p.navs) # {} => Min(Visible(p.navs)) \in Visible(p.navs)
    <2> DEFINE S == Visible(p.navs)
    <2>1. S \in SUBSET Nat /\ IsFiniteSet(S)
        <3>1. p.navs \in Seq(Nav) /\ S \in SUBSET DOMAIN p.navs
            BY DEF NavPage, Visible
        <3> HIDE DEF S, Nav
        <3> QED BY <3>1, PositionsFinite
    <2> HIDE DEF S
    <2>2. S # {} => \E x \in S : \A y \in S : x <= y
        BY <2>1, Smallest
    <2>3. S # {} => Min(S) \in S
        BY <2>2 DEF Min
    <2> QED BY <2>3 DEF S
<1>4. Visible(p.navs) # {} => (first(q) = 0 => first(p) = 0)
    BY <1>1, <1>3
<1>5. PICK x, y, z : NavStructure(p) =
                        IF ~p.header \/ p.navs = <<>> THEN Na({})
                        ELSE IF Visible(p.navs) = {} THEN Fail(x, 0)
                        ELSE IF first(p) = 0 THEN Fail(y, 0)
                        ELSE NavVerdict(m, z)
    BY NavStages
<1>6. PICK a, b, c : NavStructure(q) =
                        IF ~q.header \/ q.navs = <<>> THEN Na({})
                        ELSE IF Visible(q.navs) = {} THEN Fail(a, 0)
                        ELSE IF first(q) = 0 THEN Fail(b, 0)
                        ELSE NavVerdict(n, c)
    BY NavStages
<1> HIDE DEF first, m, n
<1>7. \A s, t, note : note \in Int /\ note >= 0 =>
         NoWorse(Fail(s, 0), Fail(t, note))
    BY FromWorst DEF Fail, Result
<1>8. \A s : NoWorse(Fail(s, 0), NavVerdict(n, c))
    <2>1. /\ NavVerdict(n, c).status \in {"pass", "warning", "fail"}
          /\ NavVerdict(n, c).score \in 0..Full
        BY <1>2, FewerMissing
    <2>2. \A s : Fail(s, 0).status = "fail" /\ Fail(s, 0).score = 0
        BY DEF Fail, Result
    <2> QED BY <2>1, <2>2, FromWorst DEF Full
<1>9. NoWorse(NavVerdict(m, z), NavVerdict(n, c))
    BY <1>2, FewerMissing
<1>10. CASE ~p.header \/ p.navs = <<>>
    <2>1. NavStructure(p) = Na({}) /\ NavStructure(q) = Na({})
        BY <1>1, <1>5, <1>6, <1>10
    <2> QED BY <2>1, NotApplying
<1>11. CASE ~(~p.header \/ p.navs = <<>>)
    <2>1. ~(~q.header \/ q.navs = <<>>)
        BY <1>1, <1>11
    <2>2. CASE Visible(p.navs) = {}
        <3>1. NavStructure(p) = Fail(x, 0) /\ NavStructure(q) = Fail(a, 0)
            BY <1>1, <1>5, <1>6, <1>11, <2>1, <2>2
        <3> QED BY <1>7, <3>1
    <2>3. CASE Visible(p.navs) # {} /\ first(p) = 0
        <3>1. NavStructure(p) = Fail(y, 0)
            BY <1>5, <1>11, <2>3
        <3>2. NavStructure(q) = Fail(b, 0) \/ NavStructure(q) = NavVerdict(n, c)
            BY <1>1, <1>6, <2>1, <2>3
        <3> QED BY <1>7, <1>8, <3>1, <3>2
    <2>4. CASE Visible(p.navs) # {} /\ first(p) # 0
        <3>1. NavStructure(p) = NavVerdict(m, z)
            BY <1>5, <1>11, <2>4
        <3>2. NavStructure(q) = NavVerdict(n, c)
            BY <1>1, <1>4, <1>6, <2>1, <2>4
        <3> QED BY <1>9, <3>1, <3>2
    <2> QED BY <2>2, <2>3, <2>4
<1> QED BY <1>10, <1>11

(****************************************************************************)
(* Resemblances                                                             *)
(****************************************************************************)
LEMMA ProductGrows ==
    ASSUME NEW a \in Nat, NEW b \in Nat, NEW c \in Nat, b <= c
    PROVE  a * b \in Nat /\ a * c \in Nat /\ a * b <= a * c /\ b * a <= c * a
<1> DEFINE S == {k \in Nat : k * b \in Nat /\ k * c \in Nat /\ k * b <= k * c}
<1>1. 0 \in S
    OBVIOUS
<1>2. \A m \in 0..(a - 1) : m \in S => m + 1 \in S
    <2> TAKE m \in 0..(a - 1)
    <2> HAVE m \in S
    <2>1. (m + 1) * b = m * b + b /\ (m + 1) * c = m * c + c
        OBVIOUS
    <2> QED BY <2>1
<1>3. a \in S
    <2> HIDE DEF S
    <2> QED BY <1>1, <1>2, Climb
<1>4. b * a = a * b /\ c * a = a * c
    OBVIOUS
<1> QED BY <1>3, <1>4

(* The quotients of two fractions are in the order of the fractions.        *)
LEMMA FractionGrows ==
    ASSUME NEW a \in Nat, NEW b \in Nat \ {0}, NEW c \in Nat, NEW d \in Nat \ {0},
           a * d <= c * b
    PROVE  a \div b \in Nat /\ c \div d \in Nat /\ a \div b <= c \div d
<1> DEFINE m == a \div b
           n == c \div d
<1>1. /\ m \in Nat /\ n \in Nat
      /\ \A k \in Nat : a < k * b + b => m <= k
      /\ \A k \in Nat : k * d <= c => k <= n
    BY Quotient
<1> HIDE DEF m, n
<1>2. m * b \in Nat /\ m * b <= a
    <2>1. CASE m = 0
        BY <2>1
    <2>2. CASE m # 0
        <3> DEFINE k == m - 1
        <3>1. k \in Nat /\ m = k + 1
            BY <1>1, <2>2
        <3> HIDE DEF k
        <3>2. ~(a < k * b + b)
            BY <1>1, <3>1
        <3>3. m * b = k * b + b /\ k * b \in Nat
            BY <3>1, ProductGrows
        <3> QED BY <3>2, <3>3
    <2> QED BY <2>1, <2>2
<1>3. m * d \in Nat /\ m * d <= c
    <2> DEFINE x == m * d
    <2>1. x \in Nat
        BY <1>1, ProductGrows
    <2>2. x * b = (m * b) * d /\ (m * b) * d <= a * d
        <3>1. x * b = (m * b) * d
            BY <1>1
        <3>2. (m * b) * d <= a * d
            BY <1>2, ProductGrows
        <3> QED BY <3>1, <3>2
    <2>3. x * b <= c * b
        <3>1. a * d \in Nat /\ c * b \in Nat /\ (m * b) * d \in Nat
            BY <1>2, ProductGrows
        <3> QED BY <2>2, <3>1
    <2> HIDE DEF x
    <2>4. x <= c
        <3> SUFFICES ASSUME c + 1 <= x PROVE FALSE
            BY <2>1
        <3>1. (c + 1) * b <= x * b
            BY <2>1, ProductGrows
        <3>2. (c + 1) * b = c * b + b /\ c * b \in Nat
            BY ProductGrows
        <3>3. x * b \in Nat
            BY <2>1, ProductGrows
        <3> QED BY <2>3, <3>1, <3>2, <3>3
    <2> QED BY <2>1, <2>4 DEF x
<1> QED BY <1>1, <1>3 DEF m, n

(* 5 f c / (f n + 4 c t) grows with f and with c.                           *)
LEMMA MeanGrows ==
    ASSUME NEW n \in Nat, NEW t \in Nat, NEW f \in Nat, NEW g \in Nat, f <= g,
           NEW c \in Nat, NEW d \in Nat, c <= d,
           f * n + 4 * c * t # 0
    PROVE  /\ g * n + 4 * d * t # 0
           /\ (5 * f * c) \div (f * n + 4 * c * t) \in Nat
           /\ (5 * g * d) \div (g * n + 4 * d * t) \in Nat
           /\ (5 * f * c) \div (f * n + 4 * c * t) <= (5 * g * d) \div (g * n + 4 * d * t)
<1> DEFINE fn == f * n
           gn == g * n
           ct == c * t
           dt == d * t
           fc == f * c
           gd == g * d
           below == fn + 4 * ct
           above == gn + 4 * dt
<1>1. /\ fn \in Nat /\ gn \in Nat /\ ct \in Nat /\ dt \in Nat /\ fc \in Nat /\ gd \in Nat
      /\ fn <= gn /\ ct <= dt
    BY ProductGrows
<1>2. /\ f * n + 4 * c * t = below /\ g * n + 4 * d * t = above
      /\ 5 * f * c = 5 * fc /\ 5 * g * d = 5 * gd
    OBVIOUS
<1>3. below \in Nat \ {0} /\ above \in Nat \ {0}
    <2>1. below # 0
        BY <1>2
    <2> HIDE DEF fn, gn, ct, dt
    <2> QED BY <1>1, <2>1
<1>4. fc * above <= gd * below
    <2>1. fc * above = fc * gn + 4 * (fc * dt) /\ gd * below = gd * fn + 4 * (gd * ct)
        <3> HIDE DEF fn, gn, ct, dt, fc, gd
        <3> QED BY <1>1
    <2>2. fc * gn <= gd * fn
        <3>1. fc * gn = (f * gn) * c /\ gd * fn = (f * gn) * d
            OBVIOUS
        <3>2. f * gn \in Nat
            BY <1>1, ProductGrows
        <3> HIDE DEF gn, fc, gd, fn
        <3> QED BY <3>1, <3>2, ProductGrows
    <2>3. fc * dt <= gd * ct
        <3>1. fc * dt = (c * dt) * f /\ gd * ct = (c * dt) * g
            OBVIOUS
        <3>2. c * dt \in Nat
            BY <1>1, ProductGrows
        <3> HIDE DEF dt, fc, gd, ct
        <3> QED BY <3>1, <3>2, ProductGrows
    <2>4. /\ fc * gn \in Nat /\ fc * dt \in Nat /\ gd * fn \in Nat /\ gd * ct \in Nat
        <3> HIDE DEF fn, gn, ct, dt, fc, gd
        <3> QED BY <1>1, ProductGrows
    <2> HIDE DEF fn, gn, ct, dt, fc, gd, below, above
    <2> QED BY <2>1, <2>2, <2>3, <2>4
<1> HIDE DEF fn, gn, ct, dt, fc, gd, below, above
<1>5. (5 * fc) * above <= (5 * gd) * below
    <2>1. fc * above \in Nat /\ gd * below \in Nat
        BY <1>1, <1>3, ProductGrows
    <2>2. (5 * fc) * above = 5 * (fc * above) /\ (5 * gd) * below = 5 * (gd * below)
        BY <1>1, <1>3
    <2> QED BY <1>4, <2>1, <2>2
<1>6. 5 * fc \in Nat /\ 5 * gd \in Nat
    BY <1>1
<1>7. /\ (5 * fc) \div below \in Nat /\ (5 * gd) \div above \in Nat
      /\ (5 * fc) \div below <= (5 * gd) \div above
    BY <1>3, <1>5, <1>6, FractionGrows
<1> QED BY <1>2, <1>3, <1>7

(* The best of no resemblance is 0; better ones have a better best.         *)
LEMMA BestOf ==
    ASSUME NEW S \in SUBSET (0..100)
    PROVE  /\ Max({0} \union S) \in 0..100
           /\ Max({0} \union S) \in {0} \union S
           /\ \A x \in {0} \union S : x <= Max({0} \union S)
<1> DEFINE T == {0} \union S
           D == {100 - x : x \in T}
<1>1. T \in SUBSET (0..100) /\ T # {}
    OBVIOUS
<1>2. D \in SUBSET (0..100) /\ D # {}
    BY <1>1
<1>3. IsFiniteSet(D)
    <2>1. 0 \in Int /\ 100 \in Int
        OBVIOUS
    <2>2. IsFiniteSet(0..100)
        BY <2>1, FS_Interval, Zenon
    <2> HIDE DEF D
    <2> QED BY <1>2, <2>2, FS_Subset
<1>4. PICK n \in D : \A m \in D : n <= m
    BY <1>2, <1>3, Smallest
<1>5. PICK x \in T : n = 100 - x
    BY <1>4
<1>6. \A y \in T : x >= y
    <2> TAKE y \in T
    <2>1. 100 - y \in D
        OBVIOUS
    <2>2. n <= 100 - y
        BY <1>4, <2>1
    <2> QED BY <1>1, <1>5, <2>2
<1>7. \E m \in T : \A y \in T : m >= y
    BY <1>6
<1> HIDE DEF T
<1>8. Max(T) \in T /\ \A y \in T : Max(T) >= y
    BY <1>7 DEF Max
<1> QED BY <1>1, <1>8 DEF T

LEMMA BestGrows ==
    ASSUME NEW S \in SUBSET (0..100), NEW R \in SUBSET (0..100), \A x \in S : \E y \in R : x <= y
    PROVE  Max({0} \union S) <= Max({0} \union R)
<1> DEFINE m == Max({0} \union S)
           n == Max({0} \union R)
<1>1. m \in {0} \union S /\ m \in 0..100
    BY BestOf
<1>2. n \in 0..100 /\ \A x \in {0} \union R : x <= n
    BY BestOf
<1> HIDE DEF m, n
<1>3. CASE m = 0
    BY <1>2, <1>3 DEF m, n
<1>4. CASE m \in S
    <2>1. PICK y \in R : m <= y
        BY <1>4
    <2>2. y <= n /\ y \in 0..100
        BY <1>2
    <2>3. m <= n
        BY <1>1, <1>2, <2>1, <2>2
    <2> QED BY <2>3 DEF m, n
<1> QED BY <1>1, <1>3, <1>4

(* The same link, of which the words resemble the address as much or more.  *)
Closer(x, e) ==
    /\ x \in Anchor /\ e \in Anchor
    /\ e.comparable = x.comparable /\ e.text = x.text /\ e.excluded = x.excluded
    /\ e.around = x.around /\ e.target = x.target /\ e.named = x.named
    /\ e.lengths = x.lengths /\ e.family = x.family
    /\ DOMAIN e.alike = DOMAIN x.alike
    /\ \A t \in DOMAIN x.alike :
          /\ DOMAIN e.alike[t] = DOMAIN x.alike[t]
          /\ \A s \in DOMAIN x.alike[t] : x.alike[t][s] <= e.alike[t][s]

LEMMA BetterCloser ==
    ASSUME NEW x \in Anchor, NEW e \in Better("ANCHOR_TEXT", x)
    PROVE  Closer(x, e)
<1> DEFINE T == 0..100
           Row == Seq(T)
<1>1. /\ e \in Anchor
      /\ \E t \in DOMAIN x.alike, s \in DOMAIN x.alike[1] :
            e = [x EXCEPT !.alike = [x.alike EXCEPT ![t] = [x.alike[t] EXCEPT ![s] = 100]]]
    BY MoreAlike
<1>2. PICK t \in DOMAIN x.alike, s \in DOMAIN x.alike[1] :
         e = [x EXCEPT !.alike = [x.alike EXCEPT ![t] = [x.alike[t] EXCEPT ![s] = 100]]]
    BY <1>1
<1> DEFINE row == [x.alike[t] EXCEPT ![s] = 100]
<1>3. /\ e.comparable = x.comparable /\ e.text = x.text /\ e.excluded = x.excluded
      /\ e.around = x.around /\ e.target = x.target /\ e.named = x.named
      /\ e.lengths = x.lengths /\ e.family = x.family
      /\ e.alike = [x.alike EXCEPT ![t] = row]
    <2> HIDE DEF row
    <2>1. e = [x EXCEPT !.alike = [x.alike EXCEPT ![t] = row]]
        BY <1>2 DEF row
    <2> QED BY <2>1 DEF Anchor
<1>4. \A k \in DOMAIN x.alike : \A j \in DOMAIN x.alike[k] : x.alike[k][j] \in T
    <2>1. x.alike \in Seq(Row)
        BY DEF Anchor
    <2> HIDE DEF Row
    <2>2. \A k \in DOMAIN x.alike : x.alike[k] \in Row
        BY <2>1
    <2> HIDE DEF T
    <2> QED BY <2>2 DEF Row
<1>5. /\ DOMAIN row = DOMAIN x.alike[t]
      /\ \A j \in DOMAIN x.alike[t] : x.alike[t][j] <= row[j]
    BY <1>4
<1> HIDE DEF row
<1>6. /\ DOMAIN e.alike = DOMAIN x.alike
      /\ \A k \in DOMAIN x.alike : e.alike[k] = IF k = t THEN row ELSE x.alike[k]
    BY <1>3
<1>7. \A k \in DOMAIN x.alike :
         /\ DOMAIN e.alike[k] = DOMAIN x.alike[k]
         /\ \A j \in DOMAIN x.alike[k] : x.alike[k][j] <= e.alike[k][j]
    <2> TAKE k \in DOMAIN x.alike
    <2>1. CASE k = t
        BY <1>5, <1>6, <2>1
    <2>2. CASE k # t
        BY <1>4, <1>6, <2>2
    <2> QED BY <2>1, <2>2
<1> QED BY <1>1, <1>3, <1>6, <1>7 DEF Closer

(* What its score is made of.                                               *)
LEMMA Resemblances ==
    ASSUME NEW x \in Anchor
    PROVE  /\ IsFiniteSet(DOMAIN x.alike) /\ IsFiniteSet(Segments(x))
           /\ Cardinality(Segments(x)) \in Nat
           /\ \A t \in DOMAIN x.alike : /\ x.lengths[t] \in Nat
                                        /\ DOMAIN x.alike[t] = Segments(x)
                                        /\ \A s \in Segments(x) : x.alike[t][s] \in 0..100
<1> DEFINE T == 0..100
           Row == Seq(T)
<1>1. /\ x.alike \in Seq(Row) /\ x.lengths \in Seq(0..10)
      /\ DOMAIN x.alike \subseteq DOMAIN x.lengths
      /\ \A t \in DOMAIN x.alike : Len(x.alike[t]) = Len(x.alike[1])
    BY DEF Anchor
<1>2. IsFiniteSet(DOMAIN x.alike)
    <2> HIDE DEF Row
    <2> QED BY <1>1, PositionsFinite
<1>3. \A t \in DOMAIN x.alike : x.lengths[t] \in Nat
    <2> DEFINE L == 0..10
    <2>1. x.lengths \in Seq(L) /\ \A n \in L : n \in Nat
        BY <1>1
    <2> HIDE DEF L
    <2>2. \A t \in DOMAIN x.lengths : x.lengths[t] \in L
        BY <2>1
    <2> QED BY <1>1, <2>1, <2>2
<1>4. \A t \in DOMAIN x.alike : x.alike[t] \in Row /\ 1 \in DOMAIN x.alike
    <2> HIDE DEF Row
    <2> QED BY <1>1
<1>5. \A t \in DOMAIN x.alike : /\ DOMAIN x.alike[t] = Segments(x)
                                /\ \A s \in Segments(x) : x.alike[t][s] \in T
    <2> TAKE t \in DOMAIN x.alike
    <2>1. x.alike[t] \in Row /\ x.alike[1] \in Row /\ x.alike # <<>>
        BY <1>4
    <2> HIDE DEF T
    <2>2. DOMAIN x.alike[t] = 1..Len(x.alike[t]) /\ DOMAIN x.alike[1] = 1..Len(x.alike[1])
          /\ \A s \in DOMAIN x.alike[t] : x.alike[t][s] \in T
        BY <2>1 DEF Row
    <2>3. Segments(x) = DOMAIN x.alike[1]
        BY <2>1 DEF Segments
    <2> QED BY <1>1, <2>2, <2>3
<1>6. IsFiniteSet(Segments(x)) /\ Cardinality(Segments(x)) \in Nat
    <2>1. CASE x.alike = <<>>
        BY <2>1, FS_EmptySet, FS_CardinalityType DEF Segments
    <2>2. CASE x.alike # <<>>
        <3>1. 1 \in DOMAIN x.alike
            <4> HIDE DEF Row
            <4> QED BY <1>1, <2>2
        <3>2. x.alike[1] \in Seq(T) /\ DOMAIN x.alike[1] = Segments(x)
            BY <1>4, <1>5, <3>1
        <3> HIDE DEF T
        <3> QED BY <3>2, PositionsFinite
    <2> QED BY <2>1, <2>2
<1> QED BY <1>2, <1>3, <1>5, <1>6

(* A sum of naturals is one.                                                *)
LEMMA SumNatural ==
    ASSUME NEW S, IsFiniteSet(S), NEW f, \A x \in S : f[x] \in Nat
    PROVE  SumFunctionOnSet(f, S) \in Nat
<1> DEFINE z == [x \in S |-> 0]
<1>1. SumFunctionOnSet(z, S) = 0
    BY SumZero
<1>2. \A x \in S : z[x] \in Int /\ f[x] \in Int /\ z[x] <= f[x]
    OBVIOUS
<1> HIDE DEF z
<1>3. SumFunctionOnSet(z, S) <= SumFunctionOnSet(f, S)
    BY <1>2, SumGrows
<1>4. SumFunctionOnSet(f, S) \in Int
    BY <1>2, SumStep
<1> QED BY <1>1, <1>3, <1>4

LEMMA BestsGrow ==
    ASSUME NEW x, NEW e, Closer(x, e)
    PROVE  /\ DOMAIN e.alike = DOMAIN x.alike /\ Segments(e) = Segments(x)
           /\ \A t \in DOMAIN x.alike : /\ BestToken(x, t) \in 0..100 /\ BestToken(e, t) \in 0..100
                                        /\ BestToken(x, t) <= BestToken(e, t)
           /\ \A s \in Segments(x) : /\ BestSegment(x, s) \in 0..100 /\ BestSegment(e, s) \in 0..100
                                     /\ BestSegment(x, s) <= BestSegment(e, s)
<1>1. /\ x \in Anchor /\ e \in Anchor /\ DOMAIN e.alike = DOMAIN x.alike
      /\ \A t \in DOMAIN x.alike :
            /\ DOMAIN e.alike[t] = DOMAIN x.alike[t]
            /\ \A s \in DOMAIN x.alike[t] : x.alike[t][s] <= e.alike[t][s]
    BY DEF Closer
<1>2. \A t \in DOMAIN x.alike : /\ DOMAIN x.alike[t] = Segments(x)
                                /\ \A s \in Segments(x) : x.alike[t][s] \in 0..100
    BY <1>1, Resemblances
<1>3. \A t \in DOMAIN x.alike : /\ DOMAIN e.alike[t] = Segments(e)
                                /\ \A s \in Segments(e) : e.alike[t][s] \in 0..100
    BY <1>1, Resemblances
<1>4. Segments(e) = Segments(x)
    <2>1. CASE DOMAIN x.alike = {}
        <3>1. Segments(x) = {} /\ Segments(e) = {}
            <4> DEFINE Row == Seq(0..100)
            <4>1. x.alike \in Seq(Row) /\ e.alike \in Seq(Row)
                BY <1>1 DEF Anchor
            <4> HIDE DEF Row
            <4>2. x.alike = <<>> /\ e.alike = <<>>
                BY <1>1, <2>1, <4>1
            <4> QED BY <4>2 DEF Segments
        <3> QED BY <3>1
    <2>2. CASE DOMAIN x.alike # {}
        <3>1. PICK t \in DOMAIN x.alike : TRUE
            BY <2>2
        <3> QED BY <1>1, <1>2, <1>3, <3>1
    <2> QED BY <2>1, <2>2
<1>5. ASSUME NEW t \in DOMAIN x.alike
      PROVE  /\ BestToken(x, t) \in 0..100 /\ BestToken(e, t) \in 0..100
             /\ BestToken(x, t) <= BestToken(e, t)
    <2> DEFINE S == {x.alike[t][s] : s \in DOMAIN x.alike[t]}
               R == {e.alike[t][s] : s \in DOMAIN e.alike[t]}
    <2>1. S \in SUBSET (0..100) /\ R \in SUBSET (0..100)
        BY <1>1, <1>2, <1>3, <1>4
    <2>2. \A a \in S : \E b \in R : a <= b
        BY <1>1
    <2>3. BestToken(x, t) = Max({0} \union S) /\ BestToken(e, t) = Max({0} \union R)
        BY DEF BestToken
    <2> HIDE DEF S, R
    <2> QED BY <2>1, <2>2, <2>3, BestOf, BestGrows
<1>6. ASSUME NEW s \in Segments(x)
      PROVE  /\ BestSegment(x, s) \in 0..100 /\ BestSegment(e, s) \in 0..100
             /\ BestSegment(x, s) <= BestSegment(e, s)
    <2> DEFINE S == {x.alike[t][s] : t \in DOMAIN x.alike}
               R == {e.alike[t][s] : t \in DOMAIN e.alike}
    <2>1. S \in SUBSET (0..100) /\ R \in SUBSET (0..100)
        BY <1>1, <1>2, <1>3, <1>4
    <2>2. \A a \in S : \E b \in R : a <= b
        BY <1>1, <1>2
    <2>3. BestSegment(x, s) = Max({0} \union S) /\ BestSegment(e, s) = Max({0} \union R)
        BY DEF BestSegment
    <2> HIDE DEF S, R
    <2> QED BY <2>1, <2>2, <2>3, BestOf, BestGrows
<1> QED BY <1>1, <1>4, <1>5, <1>6

LEMMA FBetaGrows ==
    ASSUME NEW x, NEW e, Closer(x, e)
    PROVE  /\ ComputeFBetaScore(x) \in Nat /\ ComputeFBetaScore(e) \in Nat
           /\ ComputeFBetaScore(x) <= ComputeFBetaScore(e)
<1> DEFINE words == DOMAIN x.alike
           parts == Segments(x)
           n == Cardinality(parts)
           hit(y) == [t \in words |-> y.lengths[t] * BestToken(y, t)]
           size == [t \in words |-> x.lengths[t]]
           near(y) == [s \in parts |-> BestSegment(y, s)]
           f(y) == SumFunctionOnSet(hit(y), words)
           t == SumFunctionOnSet(size, words)
           c(y) == SumFunctionOnSet(near(y), parts)
           below(y) == f(y) * n + 4 * c(y) * t
<1>1. /\ x \in Anchor /\ e.lengths = x.lengths
      /\ DOMAIN e.alike = words /\ Segments(e) = parts
      /\ \A k \in words : /\ BestToken(x, k) \in 0..100 /\ BestToken(e, k) \in 0..100
                          /\ BestToken(x, k) <= BestToken(e, k)
      /\ \A s \in parts : /\ BestSegment(x, s) \in 0..100 /\ BestSegment(e, s) \in 0..100
                          /\ BestSegment(x, s) <= BestSegment(e, s)
    BY BestsGrow DEF Closer
<1>2. IsFiniteSet(words) /\ IsFiniteSet(parts) /\ n \in Nat
      /\ \A k \in words : x.lengths[k] \in Nat
    BY <1>1, Resemblances
<1>3. \A y \in {x, e} : ComputeFBetaScore(y) =
                            IF below(y) = 0 THEN 0 ELSE (5 * f(y) * c(y)) \div below(y)
    BY <1>1 DEF ComputeFBetaScore
<1>4. \A k \in words : hit(x)[k] \in Nat /\ hit(e)[k] \in Nat /\ hit(x)[k] <= hit(e)[k]
    <2> TAKE k \in words
    <2>1. x.lengths[k] \in Nat /\ BestToken(x, k) \in Nat /\ BestToken(e, k) \in Nat
          /\ BestToken(x, k) <= BestToken(e, k)
        BY <1>1, <1>2
    <2>2. /\ x.lengths[k] * BestToken(x, k) \in Nat /\ x.lengths[k] * BestToken(e, k) \in Nat
          /\ x.lengths[k] * BestToken(x, k) <= x.lengths[k] * BestToken(e, k)
        BY <2>1, ProductGrows
    <2>3. hit(x)[k] = x.lengths[k] * BestToken(x, k) /\ hit(e)[k] = x.lengths[k] * BestToken(e, k)
        BY <1>1
    <2> QED BY <2>2, <2>3
<1>5. \A s \in parts : near(x)[s] \in Nat /\ near(e)[s] \in Nat /\ near(x)[s] <= near(e)[s]
    BY <1>1
<1>6. \A k \in words : size[k] \in Nat
    BY <1>2
<1> HIDE DEF hit, near, size, words, parts, n
<1>7. f(x) \in Nat /\ f(e) \in Nat /\ f(x) <= f(e)
    BY <1>2, <1>4, SumNatural, SumGrows
<1>8. c(x) \in Nat /\ c(e) \in Nat /\ c(x) <= c(e)
    BY <1>2, <1>5, SumNatural, SumGrows
<1>9. t \in Nat
    BY <1>2, <1>6, SumNatural
<1> HIDE DEF f, t, c
<1>10. CASE below(x) = 0
    <2>1. ComputeFBetaScore(x) = 0
        BY <1>3, <1>10
    <2>2. ComputeFBetaScore(e) \in Nat
        <3>1. CASE below(e) = 0
            BY <1>3, <3>1
        <3>2. CASE below(e) # 0
            <4>1. (5 * f(e) * c(e)) \div below(e) \in Nat
                BY <1>2, <1>7, <1>8, <1>9, <3>2, MeanGrows
            <4> QED BY <1>3, <3>2, <4>1
        <3> QED BY <3>1, <3>2
    <2> QED BY <2>1, <2>2
<1>11. CASE below(x) # 0
    <2>1. /\ below(e) # 0
          /\ (5 * f(x) * c(x)) \div below(x) \in Nat /\ (5 * f(e) * c(e)) \div below(e) \in Nat
          /\ (5 * f(x) * c(x)) \div below(x) <= (5 * f(e) * c(e)) \div below(e)
        <3> DEFINE a == f(x)
                   b == f(e)
                   k == c(x)
                   l == c(e)
        <3>1. /\ a \in Nat /\ b \in Nat /\ a <= b /\ k \in Nat /\ l \in Nat /\ k <= l
              /\ a * n + 4 * k * t # 0
            BY <1>7, <1>8, <1>11
        <3> HIDE DEF a, b, k, l
        <3>2. /\ b * n + 4 * l * t # 0
              /\ (5 * a * k) \div (a * n + 4 * k * t) \in Nat
              /\ (5 * b * l) \div (b * n + 4 * l * t) \in Nat
              /\ (5 * a * k) \div (a * n + 4 * k * t) <= (5 * b * l) \div (b * n + 4 * l * t)
            BY <1>2, <1>9, <3>1, MeanGrows
        <3> QED BY <3>2 DEF a, b, k, l
    <2> HIDE DEF below
    <2> QED BY <1>3, <1>11, <2>1
<1> QED BY <1>10, <1>11

(* A link whose words resemble the address more is judged as well or        *)
(* better: it only leaves "discordant" and "probable".                      *)
LEMMA LevelRises ==
    ASSUME NEW x, NEW e, Closer(x, e),
           NEW config, config.concordant \in 0..100, config.probable \in 0..100
    PROVE  LET was == JudgeAnchor(x, config)
               now == JudgeAnchor(e, config)
           IN \/ now = was
              \/ was = "discordant" /\ now \in {"probable", "concordant"}
              \/ was = "probable" /\ now = "concordant"
<1> DEFINE best(y) == Max({0} \union {BestToken(y, t) : t \in DOMAIN y.alike})
           whole(y) == \A s \in Segments(y) : BestSegment(y, s) >= 60
           raw(y) == Larger(ComputeFBetaScore(y), CategoryBonus(y))
           high == config.concordant
           low == config.probable
           moved(y) == IF whole(y)
                       THEN IF best(y) >= 90 THEN Larger(raw(y), high)
                            ELSE IF best(y) >= 85 THEN Larger(raw(y), low) ELSE raw(y)
                       ELSE raw(y)
           score(y) == IF raw(y) < high THEN moved(y) ELSE raw(y)
           scored(y) == IF score(y) >= high THEN "concordant"
                        ELSE IF score(y) >= low THEN "probable" ELSE "discordant"
<1>1. \A y : JudgeAnchor(y, config) =
                 IF y.text = "generic" THEN "generic"
                 ELSE IF config.excludeShop /\ y.target = "shop" THEN "ignored"
                 ELSE IF ClassifyByIntent(y) \/ ClassifyByCompany(y, config) THEN "concordant"
                 ELSE IF Segments(y) = {} THEN "ambiguous" ELSE scored(y)
    <2>1. \A y : score(y) = IF raw(y) < high THEN PromoteByDominantToken(raw(y), y, config) ELSE raw(y)
        BY DEF PromoteByDominantToken, PromoteAnyway
    <2> HIDE DEF score
    <2> QED BY <2>1 DEF JudgeAnchor
<1>2. /\ e.text = x.text /\ e.target = x.target /\ e.named = x.named /\ e.family = x.family
      /\ DOMAIN e.alike = DOMAIN x.alike /\ Segments(e) = Segments(x)
    BY BestsGrow DEF Closer
<1>3. /\ ClassifyByIntent(e) = ClassifyByIntent(x)
      /\ ClassifyByCompany(e, config) = ClassifyByCompany(x, config)
    BY <1>2 DEF ClassifyByIntent, ClassifyByCompany
<1>4. best(x) \in 0..100 /\ best(e) \in 0..100 /\ best(x) <= best(e)
    <2> DEFINE S == {BestToken(x, t) : t \in DOMAIN x.alike}
               R == {BestToken(e, t) : t \in DOMAIN e.alike}
    <2>1. \A t \in DOMAIN x.alike : /\ BestToken(x, t) \in 0..100 /\ BestToken(e, t) \in 0..100
                                    /\ BestToken(x, t) <= BestToken(e, t)
        BY BestsGrow
    <2>2. S \in SUBSET (0..100) /\ R \in SUBSET (0..100) /\ \A a \in S : \E b \in R : a <= b
        BY <1>2, <2>1
    <2> HIDE DEF S, R
    <2>3. /\ Max({0} \union S) \in 0..100 /\ Max({0} \union R) \in 0..100
          /\ Max({0} \union S) <= Max({0} \union R)
        BY <2>2, BestOf, BestGrows
    <2> QED BY <2>3 DEF S, R
<1>5. whole(x) => whole(e)
    <2>1. \A s \in Segments(x) : /\ BestSegment(x, s) \in 0..100 /\ BestSegment(e, s) \in 0..100
                                 /\ BestSegment(x, s) <= BestSegment(e, s)
        BY BestsGrow
    <2> QED BY <1>2, <2>1
<1>6. raw(x) \in Nat /\ raw(e) \in Nat /\ raw(x) <= raw(e)
    <2>1. /\ ComputeFBetaScore(x) \in Nat /\ ComputeFBetaScore(e) \in Nat
          /\ ComputeFBetaScore(x) <= ComputeFBetaScore(e)
        BY FBetaGrows
    <2>2. CategoryBonus(e) = CategoryBonus(x) /\ CategoryBonus(x) \in Nat
        BY <1>2 DEF CategoryBonus
    <2> QED BY <2>1, <2>2 DEF Larger
<1>7. high \in 0..100 /\ low \in 0..100
    OBVIOUS
<1>8. \/ scored(e) = scored(x)
      \/ scored(x) = "discordant" /\ scored(e) \in {"probable", "concordant"}
      \/ scored(x) = "probable" /\ scored(e) = "concordant"
    <2> HIDE DEF raw, best, whole, high, low
    <2>1. CASE score(e) >= high
        BY <2>1
    <2>2. CASE ~(score(e) >= high)
        <3>1. raw(x) < high /\ raw(e) < high
            BY <1>6, <1>7, <2>2
        <3>2. moved(x) <= moved(e) /\ moved(x) \in Nat /\ moved(e) \in Nat
            <4>1. ~(moved(e) >= high)
                BY <2>2, <3>1
            <4>2. ~(whole(e) /\ best(e) >= 90)
                BY <1>6, <1>7, <4>1 DEF Larger
            <4> QED BY <1>4, <1>5, <1>6, <1>7, <4>2 DEF Larger
        <3>3. score(x) = moved(x) /\ score(e) = moved(e)
            BY <3>1
        <3> HIDE DEF score, moved
        <3> QED BY <1>7, <2>2, <3>2, <3>3
    <2> QED BY <2>1, <2>2
<1> HIDE DEF scored
<1> QED BY <1>1, <1>2, <1>3, <1>8

LEMMA ExaminedAlike ==
    ASSUME NEW x, NEW e, Closer(x, e), NEW config
    PROVE  Examined(e, config) = Examined(x, config)
BY DEF Closer, Examined, AnchorZone

(* The levels of the links of a page.                                       *)
LevelSet(p, config, l) ==
    {i \in DOMAIN p.anchors :
        Examined(p.anchors[i], config) /\ JudgeAnchor(p.anchors[i], config) = l}

LEMMA LevelsMove ==
    ASSUME NEW p \in AnchorPage, NEW q \in AnchorPage,
           NEW i \in DOMAIN p.anchors, NEW e \in Better("ANCHOR_TEXT", p.anchors[i]),
           q = [p EXCEPT !["anchors"][i] = e],
           NEW config, config.concordant \in 0..100, config.probable \in 0..100
    PROVE  LET N(l) == Cardinality(LevelSet(p, config, l))
               M(l) == Cardinality(LevelSet(q, config, l))
           IN /\ \A l : N(l) \in Nat /\ M(l) \in Nat
              /\ M("generic") = N("generic") /\ M("ambiguous") = N("ambiguous")
              /\ M("discordant") <= N("discordant")
              /\ M("concordant") + M("probable") + M("discordant")
                    = N("concordant") + N("probable") + N("discordant")
<1> DEFINE x == p.anchors[i]
           S(l) == LevelSet(p, config, l)
           R(l) == LevelSet(q, config, l)
           was == JudgeAnchor(x, config)
           now == JudgeAnchor(e, config)
<1>1. /\ p.anchors \in Seq(Anchor) /\ q.anchors \in Seq(Anchor)
      /\ q.anchors = [p.anchors EXCEPT ![i] = e]
    BY DEF AnchorPage
<1>2. x \in Anchor
    BY <1>1, ElementOf
<1>3. Closer(x, e)
    BY <1>2, BetterCloser
<1>4. /\ DOMAIN q.anchors = DOMAIN p.anchors
      /\ \A k \in DOMAIN p.anchors : q.anchors[k] = IF k = i THEN e ELSE p.anchors[k]
    BY <1>1
<1>5. Examined(e, config) = Examined(x, config)
    BY <1>3, ExaminedAlike
<1>6. \/ now = was
      \/ was = "discordant" /\ now \in {"probable", "concordant"}
      \/ was = "probable" /\ now = "concordant"
    BY <1>3, LevelRises
<1>7. \A l : /\ IsFiniteSet(S(l)) /\ Cardinality(S(l)) \in Nat
             /\ IsFiniteSet(R(l)) /\ Cardinality(R(l)) \in Nat
    <2> TAKE l
    <2>1. S(l) \in SUBSET DOMAIN p.anchors /\ R(l) \in SUBSET DOMAIN q.anchors
        BY DEF LevelSet
    <2> HIDE DEF S, R
    <2> QED BY <1>1, <2>1, PositionsFinite
<1> HIDE DEF x, was, now
<1>8. CASE now = was \/ ~Examined(x, config)
    <2>1. \A l : R(l) = S(l)
        <3>1. CASE now = was
            BY <1>4, <1>5, <3>1 DEF LevelSet, x, was, now
        <3>2. CASE ~Examined(x, config)
            BY <1>4, <1>5, <3>2 DEF LevelSet, x
        <3> QED BY <1>8, <3>1, <3>2
    <2> DEFINE N(l) == Cardinality(S(l))
               M(l) == Cardinality(R(l))
    <2>2. \A l : N(l) \in Nat /\ M(l) \in Nat /\ M(l) = N(l)
        BY <1>7, <2>1
    <2> HIDE DEF N, M
    <2>3. /\ \A l : N(l) \in Nat /\ M(l) \in Nat
          /\ M("generic") = N("generic") /\ M("ambiguous") = N("ambiguous")
          /\ M("discordant") <= N("discordant")
          /\ M("concordant") + M("probable") + M("discordant")
                = N("concordant") + N("probable") + N("discordant")
        BY <2>2
    <2> QED BY <2>3 DEF N, M
<1>9. CASE now # was /\ Examined(x, config)
    <2>1. \A l : l \notin {was, now} => R(l) = S(l)
        BY <1>4, <1>5 DEF LevelSet, x, was, now
    <2>2. R(was) = S(was) \ {i} /\ i \in S(was)
        BY <1>4, <1>5, <1>9 DEF LevelSet, x, was, now
    <2>3. R(now) = S(now) \union {i} /\ i \notin S(now)
        BY <1>4, <1>5, <1>9 DEF LevelSet, x, was, now
    <2> DEFINE N(l) == Cardinality(S(l))
               M(l) == Cardinality(R(l))
    <2>4. /\ \A l : l \notin {was, now} => M(l) = N(l)
          /\ M(was) = N(was) - 1 /\ M(now) = N(now) + 1
        <3>1. \A l : l \notin {was, now} => M(l) = N(l)
            BY <2>1
        <3>2. M(now) = N(now) + 1
            <4> HIDE DEF S, R
            <4> QED BY <1>7, <2>3, FS_AddElement
        <3>3. M(was) = N(was) - 1
            <4> HIDE DEF S, R
            <4> QED BY <1>7, <2>2, FS_RemoveElement
        <3> QED BY <3>1, <3>2, <3>3
    <2>5. \A l : N(l) \in Nat /\ M(l) \in Nat
        BY <1>7
    <2> HIDE DEF N, M
    <2>6. CASE was = "discordant" /\ now = "probable"
        <3>1. /\ M("generic") = N("generic") /\ M("ambiguous") = N("ambiguous")
              /\ M("concordant") = N("concordant") /\ M("discordant") = N("discordant") - 1
              /\ M("probable") = N("probable") + 1
            BY <2>4, <2>6
        <3>2. /\ M("discordant") <= N("discordant")
              /\ M("concordant") + M("probable") + M("discordant")
                    = N("concordant") + N("probable") + N("discordant")
            BY <2>5, <3>1
        <3> QED BY <2>5, <3>1, <3>2 DEF N, M
    <2>7. CASE was = "discordant" /\ now = "concordant"
        <3>1. /\ M("generic") = N("generic") /\ M("ambiguous") = N("ambiguous")
              /\ M("probable") = N("probable") /\ M("discordant") = N("discordant") - 1
              /\ M("concordant") = N("concordant") + 1
            BY <2>4, <2>7
        <3>2. /\ M("discordant") <= N("discordant")
              /\ M("concordant") + M("probable") + M("discordant")
                    = N("concordant") + N("probable") + N("discordant")
            BY <2>5, <3>1
        <3> QED BY <2>5, <3>1, <3>2 DEF N, M
    <2>8. CASE was = "probable" /\ now = "concordant"
        <3>1. /\ M("generic") = N("generic") /\ M("ambiguous") = N("ambiguous")
              /\ M("discordant") = N("discordant") /\ M("probable") = N("probable") - 1
              /\ M("concordant") = N("concordant") + 1
            BY <2>4, <2>8
        <3>2. /\ M("discordant") <= N("discordant")
              /\ M("concordant") + M("probable") + M("discordant")
                    = N("concordant") + N("probable") + N("discordant")
            BY <2>5, <3>1
        <3> QED BY <2>5, <3>1, <3>2 DEF N, M
    <2> QED BY <1>6, <1>9, <2>6, <2>7, <2>8
<1> QED BY <1>8, <1>9

(* A warning more, and a summary.                                           *)
LEMMA WarningAdds ==
    ASSUME NEW A, Countable(A), NEW g \in Nat,
           \A j \in A : j.status \in {"fail", "warning"} => j.key # "ANCHOR_TEXT.generic"
    PROVE  LET B == A \union Item("ANCHOR_TEXT.generic", "warning", g)
           IN /\ Countable(B) /\ CountOf(B, "warning") = CountOf(A, "warning") + g
              /\ CountOf(B, "fail") = CountOf(A, "fail")
<1>1. "warning" \in Status /\ \A j \in A : j.status = "warning" => j.key # "ANCHOR_TEXT.generic"
    BY DEF Status
<1> QED BY <1>1, ItemAdds

LEMMA SummaryAdds ==
    ASSUME NEW B, Countable(B), NEW summary \in {"pass", "warning", "fail"},
           \A j \in B : j.status \in {"fail", "warning"} => j.key # "ANCHOR_TEXT.summary"
    PROVE  LET D == B \union Item("ANCHOR_TEXT.summary", summary, 1)
           IN /\ Countable(D)
              /\ CountOf(D, "fail") = CountOf(B, "fail") + (IF summary = "fail" THEN 1 ELSE 0)
              /\ CountOf(D, "warning") = CountOf(B, "warning") + (IF summary = "warning" THEN 1 ELSE 0)
<1> DEFINE D == B \union Item("ANCHOR_TEXT.summary", summary, 1)
<1>1. Countable(D)
    BY AnyItem, Zenon
<1>2. CountOf(B, "fail") \in Nat /\ CountOf(B, "warning") \in Nat
    BY CountPositive
<1>3. \A s : s # summary => CountOf(D, s) = CountOf(B, s)
    <2> TAKE s
    <2> HAVE s # summary
    <2>1. {j \in D : j.status = s} = {j \in B : j.status = s}
        BY DEF Item
    <2> HIDE DEF D
    <2> QED BY <2>1 DEF CountOf
<1>4. CASE summary = "pass"
    <2> HIDE DEF D
    <2> QED BY <1>1, <1>2, <1>3, <1>4 DEF D
<1>5. CASE summary \in {"warning", "fail"}
    <2>1. summary \in Status /\ \A j \in B : j.status = summary => j.key # "ANCHOR_TEXT.summary"
        BY <1>5 DEF Status
    <2>2. CountOf(D, summary) = CountOf(B, summary) + 1
        BY <2>1, ItemAdds
    <2>3. CASE summary = "fail"
        <3>1. CountOf(D, "fail") = CountOf(B, "fail") + 1 /\ CountOf(D, "warning") = CountOf(B, "warning")
            BY <1>3, <2>2, <2>3
        <3> HIDE DEF D
        <3> QED BY <1>1, <1>2, <2>3, <3>1 DEF D
    <2>4. CASE summary = "warning"
        <3>1. CountOf(D, "warning") = CountOf(B, "warning") + 1 /\ CountOf(D, "fail") = CountOf(B, "fail")
            BY <1>3, <2>2, <2>4
        <3> HIDE DEF D
        <3> QED BY <1>1, <1>2, <2>4, <3>1 DEF D
    <2> QED BY <1>5, <2>3, <2>4
<1> QED BY <1>4, <1>5

(* What the items of a page count.                                          *)
AnchorItems(summary, m, n, C, g) ==
    Item("ANCHOR_TEXT.summary", summary, 1)
    \union Item("ANCHOR_TEXT.discordant", "fail", m)
    \union Item("ANCHOR_TEXT.ambiguous", "warning", n)
    \union C
    \union Item("ANCHOR_TEXT.generic", "warning", g)

LEMMA AnchorCounts ==
    ASSUME NEW C, Countable(C), \A j \in C : j.status \notin {"fail", "warning"},
           NEW summary \in {"pass", "warning", "fail"}, NEW m \in Nat, NEW n \in Nat,
           NEW g \in Nat
    PROVE  /\ Countable(AnchorItems(summary, m, n, C, g))
           /\ CountOf(AnchorItems(summary, m, n, C, g), "fail")
                = m + (IF summary = "fail" THEN 1 ELSE 0)
           /\ CountOf(AnchorItems(summary, m, n, C, g), "warning")
                = n + g + (IF summary = "warning" THEN 1 ELSE 0)
<1> DEFINE A == C \union Item("ANCHOR_TEXT.discordant", "fail", m)
                  \union Item("ANCHOR_TEXT.ambiguous", "warning", n)
           B == A \union Item("ANCHOR_TEXT.generic", "warning", g)
           D == B \union Item("ANCHOR_TEXT.summary", summary, 1)
<1>1. AnchorItems(summary, m, n, C, g) = D
    BY DEF AnchorItems
<1>2. CountOf(A, "fail") = m /\ CountOf(A, "warning") = n
    BY TwoCounts
<1>3. Countable(A)
    <2>1. /\ Countable(Item("ANCHOR_TEXT.discordant", "fail", m))
          /\ Countable(Item("ANCHOR_TEXT.ambiguous", "warning", n))
        BY ManyItems
    <2> QED BY <2>1, UnionCountable
<1>4. \A j \in A : j.status \in {"fail", "warning"} =>
         j.key \notin {"ANCHOR_TEXT.generic", "ANCHOR_TEXT.summary"}
    BY DEF Item
<1> HIDE DEF A
<1>5. /\ Countable(B) /\ CountOf(B, "fail") = m /\ CountOf(B, "warning") = n + g
    <2>1. /\ Countable(B) /\ CountOf(B, "warning") = CountOf(A, "warning") + g
          /\ CountOf(B, "fail") = CountOf(A, "fail")
        BY <1>3, <1>4, WarningAdds
    <2> HIDE DEF B
    <2> QED BY <1>2, <2>1
<1>6. \A j \in B : j.status \in {"fail", "warning"} => j.key # "ANCHOR_TEXT.summary"
    BY <1>4 DEF Item
<1> HIDE DEF B
<1>7. /\ Countable(D)
      /\ CountOf(D, "fail") = CountOf(B, "fail") + (IF summary = "fail" THEN 1 ELSE 0)
      /\ CountOf(D, "warning") = CountOf(B, "warning") + (IF summary = "warning" THEN 1 ELSE 0)
    BY <1>5, <1>6, SummaryAdds
<1> HIDE DEF D
<1> QED BY <1>1, <1>5, <1>7

LEMMA AnchorTextEases ==
    ASSUME NEW p \in AnchorPage, NEW q \in AnchorPage,
           NEW i \in DOMAIN p.anchors, NEW e \in Better("ANCHOR_TEXT", p.anchors[i]),
           q = [p EXCEPT !["anchors"][i] = e],
           NEW config, config.concordant \in 0..100, config.probable \in 0..100,
           config.maxReported \in Nat
    PROVE  NoWorse(AnchorText(p, config), AnchorText(q, config))
<1> DEFINE N(x, l) == Cardinality(LevelSet(x, config, l))
           most == config.maxReported
           all(x) == N(x, "concordant") + N(x, "probable") + N(x, "ambiguous") + N(x, "discordant")
           told(x) == Smaller(N(x, "discordant"), most)
           room(x) == Smaller(N(x, "ambiguous"), most - told(x))
           shown(x, l) == Item("ANCHOR_TEXT." \o l, "info", Smaller(N(x, l), most))
           good(x) == shown(x, "concordant") \union shown(x, "probable")
           summary(x) == SummaryStatus(N(x, "discordant"), N(x, "generic"), all(x))
           items(x) == Item("ANCHOR_TEXT.summary", summary(x), 1)
                       \union Item("ANCHOR_TEXT.discordant", "fail", told(x))
                       \union Item("ANCHOR_TEXT.ambiguous", "warning", room(x))
                       \union good(x)
                       \union When(N(x, "generic") > 0, "ANCHOR_TEXT.generic", "warning")
           f(x) == CountOf(items(x), "fail")
           w(x) == CountOf(items(x), "warning")
           note(x) == IF f(x) >= 5 THEN 1 ELSE IF f(x) >= 3 THEN 2
                      ELSE IF f(x) >= 1 THEN 3 ELSE IF w(x) >= 3 THEN 4 ELSE 5
<1>1. \A x : AnchorText(x, config) =
        IF ~config.anchors THEN Na({})
        ELSE IF all(x) + N(x, "generic") = 0 THEN Pass(Item("ANCHOR_TEXT.no_links", "pass", 1))
        ELSE Result(StatusOf(f(x), w(x)), 10 * note(x), items(x))
    <2> SUFFICES ASSUME NEW x
                 PROVE  AnchorText(x, config) =
                            IF ~config.anchors THEN Na({})
                            ELSE IF all(x) + N(x, "generic") = 0
                                 THEN Pass(Item("ANCHOR_TEXT.no_links", "pass", 1))
                            ELSE Result(StatusOf(f(x), w(x)), 10 * note(x), items(x))
        OBVIOUS
    <2> DEFINE examined == {k \in DOMAIN x.anchors : Examined(x.anchors[k], config)}
               Level(l) == Cardinality({k \in examined : JudgeAnchor(x.anchors[k], config) = l})
    <2>1. \A l : Level(l) = N(x, l)
        <3> TAKE l
        <3>1. {k \in examined : JudgeAnchor(x.anchors[k], config) = l} = LevelSet(x, config, l)
            BY DEF LevelSet
        <3> QED BY <3>1
    <2> DEFINE analysed == Level("concordant") + Level("probable")
                           + Level("ambiguous") + Level("discordant")
               reported == Smaller(Level("discordant"), most)
               seen(l) == Item("ANCHOR_TEXT." \o l, "info", Smaller(Level(l), most))
               parts == Item("ANCHOR_TEXT.summary",
                             SummaryStatus(Level("discordant"), Level("generic"), analysed), 1)
                        \union Item("ANCHOR_TEXT.discordant", "fail", reported)
                        \union Item("ANCHOR_TEXT.ambiguous", "warning",
                                    Smaller(Level("ambiguous"), most - reported))
                        \union seen("concordant") \union seen("probable")
                        \union When(Level("generic") > 0, "ANCHOR_TEXT.generic", "warning")
               cf == CountOf(parts, "fail")
               cw == CountOf(parts, "warning")
    <2>2. AnchorText(x, config) =
            IF ~config.anchors THEN Na({})
            ELSE IF analysed + Level("generic") = 0
                 THEN Pass(Item("ANCHOR_TEXT.no_links", "pass", 1))
            ELSE Result(StatusOf(cf, cw),
                        10 * (IF cf >= 5 THEN 1 ELSE IF cf >= 3 THEN 2
                              ELSE IF cf >= 1 THEN 3 ELSE IF cw >= 3 THEN 4 ELSE 5), parts)
        BY DEF AnchorText, Graded
    <2> HIDE DEF Level, N
    <2>3. analysed = all(x) /\ Level("generic") = N(x, "generic")
        BY <2>1
    <2>4. parts = items(x)
        <3>1. /\ Level("concordant") = N(x, "concordant") /\ Level("probable") = N(x, "probable")
              /\ Level("ambiguous") = N(x, "ambiguous") /\ Level("discordant") = N(x, "discordant")
            BY <2>1
        <3>2. reported = told(x) /\ seen("concordant") = shown(x, "concordant")
              /\ seen("probable") = shown(x, "probable")
              /\ Smaller(Level("ambiguous"), most - reported) = room(x)
            BY <3>1
        <3>3. SummaryStatus(Level("discordant"), Level("generic"), analysed) = summary(x)
            BY <2>3, <3>1
        <3> HIDE DEF reported, seen, shown, told, room, analysed, summary
        <3> QED BY <2>3, <3>2, <3>3
    <2> HIDE DEF parts, items, analysed, all
    <2> QED BY <2>2, <2>3, <2>4
<1>2. /\ \A l : N(p, l) \in Nat /\ N(q, l) \in Nat
      /\ N(q, "generic") = N(p, "generic") /\ N(q, "ambiguous") = N(p, "ambiguous")
      /\ N(q, "discordant") <= N(p, "discordant")
      /\ N(q, "concordant") + N(q, "probable") + N(q, "discordant")
            = N(p, "concordant") + N(p, "probable") + N(p, "discordant")
    BY LevelsMove
<1> HIDE DEF N
<1>3. all(q) = all(p) /\ all(p) \in Nat
    <2>1. /\ N(p, "concordant") \in Nat /\ N(p, "probable") \in Nat
          /\ N(p, "ambiguous") \in Nat /\ N(p, "discordant") \in Nat
          /\ N(q, "concordant") \in Nat /\ N(q, "probable") \in Nat /\ N(q, "discordant") \in Nat
        BY <1>2
    <2> QED BY <1>2, <2>1
<1>4. /\ most \in Nat /\ told(p) \in Nat /\ told(q) \in Nat /\ told(q) <= told(p)
      /\ room(p) \in Nat /\ room(q) \in Nat
      /\ told(q) = told(p) => room(q) = room(p)
    <2>0. ASSUME NEW a \in Nat, NEW b \in Nat, b <= a, NEW k \in Nat, NEW m \in Nat
          PROVE  /\ Smaller(a, m) \in Nat /\ Smaller(b, m) \in Nat /\ Smaller(b, m) <= Smaller(a, m)
                 /\ Smaller(k, m - Smaller(a, m)) \in Nat /\ Smaller(k, m - Smaller(b, m)) \in Nat
        BY <2>0 DEF Smaller
    <2> DEFINE d == N(p, "discordant")
               b == N(q, "discordant")
               k == N(p, "ambiguous")
    <2>1. /\ d \in Nat /\ b \in Nat /\ b <= d /\ k \in Nat /\ most \in Nat
        BY <1>2
    <2>2. /\ told(p) = Smaller(d, most) /\ told(q) = Smaller(b, most)
          /\ room(p) = Smaller(k, most - told(p)) /\ room(q) = Smaller(k, most - told(q))
        BY <1>2
    <2> HIDE DEF d, b, k, most, told, room
    <2>3. /\ Smaller(d, most) \in Nat /\ Smaller(b, most) \in Nat
          /\ Smaller(b, most) <= Smaller(d, most)
          /\ Smaller(k, most - Smaller(d, most)) \in Nat
          /\ Smaller(k, most - Smaller(b, most)) \in Nat
        BY <2>0, <2>1
    <2> QED BY <2>1, <2>2, <2>3
<1>5. /\ \A x \in {p, q} : summary(x) \in {"pass", "warning", "fail"}
      /\ summary(q) = "fail" => summary(p) = "fail"
      /\ summary(q) = "warning" => summary(p) \in {"warning", "fail"}
    <2> DEFINE d == N(p, "discordant")
               b == N(q, "discordant")
               g == N(p, "generic")
               top == Larger(all(p), 1)
    <2>1. d \in Nat /\ b \in Nat /\ g \in Nat /\ b <= d /\ top \in Nat
        BY <1>2, <1>3 DEF Larger
    <2>2. /\ summary(p) = IF d = 0 /\ g = 0 THEN "pass" ELSE IF 10 * d > 3 * top THEN "fail" ELSE "warning"
          /\ summary(q) = IF b = 0 /\ g = 0 THEN "pass" ELSE IF 10 * b > 3 * top THEN "fail" ELSE "warning"
        BY <1>2, <1>3 DEF SummaryStatus
    <2> HIDE DEF d, b, g, top, summary
    <2> QED BY <2>1, <2>2
<1>6. \A x \in {p, q} : /\ Countable(good(x))
                        /\ \A j \in good(x) : j.status \notin {"fail", "warning"}
    <2> SUFFICES ASSUME NEW x \in {p, q}
                 PROVE  /\ Countable(good(x))
                        /\ \A j \in good(x) : j.status \notin {"fail", "warning"}
        OBVIOUS
    <2>1. Smaller(N(x, "concordant"), most) \in Int /\ Smaller(N(x, "probable"), most) \in Int
        <3>1. N(x, "concordant") \in Nat /\ N(x, "probable") \in Nat /\ most \in Nat
            BY <1>2
        <3> HIDE DEF most
        <3> QED BY <3>1 DEF Smaller
    <2>2. Countable(shown(x, "concordant")) /\ Countable(shown(x, "probable"))
        BY <2>1, ManyItems
    <2>3. \A key, n : \A j \in Item(key, "info", n) : j.status = "info"
        BY ItemStatus
    <2>4. \A j \in good(x) : j.status = "info"
        BY <2>3, Zenon
    <2> HIDE DEF shown
    <2> QED BY <2>2, <2>4, UnionCountable
<1> HIDE DEF told, room, good, summary, all
<1>7. \A x \in {p, q} :
         /\ Countable(items(x))
         /\ f(x) = told(x) + (IF summary(x) = "fail" THEN 1 ELSE 0)
         /\ w(x) = room(x) + (IF N(x, "generic") > 0 THEN 1 ELSE 0)
                           + (IF summary(x) = "warning" THEN 1 ELSE 0)
    <2> SUFFICES ASSUME NEW x \in {p, q}
                 PROVE  /\ Countable(items(x))
                        /\ f(x) = told(x) + (IF summary(x) = "fail" THEN 1 ELSE 0)
                        /\ w(x) = room(x) + (IF N(x, "generic") > 0 THEN 1 ELSE 0)
                                          + (IF summary(x) = "warning" THEN 1 ELSE 0)
        OBVIOUS
    <2> DEFINE m == told(x)
               n == room(x)
               C == good(x)
               verdict == summary(x)
               g == IF N(x, "generic") > 0 THEN 1 ELSE 0
    <2>1. /\ m \in Nat /\ n \in Nat /\ verdict \in {"pass", "warning", "fail"}
          /\ Countable(C) /\ \A j \in C : j.status \notin {"fail", "warning"}
        BY <1>4, <1>5, <1>6
    <2>2. g \in Nat
        OBVIOUS
    <2> HIDE DEF m, n, C, verdict, g
    <2> DEFINE these == AnchorItems(verdict, m, n, C, g)
    <2>3. /\ Countable(these)
          /\ CountOf(these, "fail") = m + (IF verdict = "fail" THEN 1 ELSE 0)
          /\ CountOf(these, "warning") = n + g + (IF verdict = "warning" THEN 1 ELSE 0)
        BY <2>1, <2>2, AnchorCounts
    <2>4. items(x) = these
        BY DEF When, AnchorItems, m, n, C, verdict, g
    <2> HIDE DEF items, these
    <2> QED BY <2>3, <2>4 DEF m, n, verdict, g
<1> HIDE DEF items
<1>8. /\ f(p) \in Nat /\ f(q) \in Nat /\ w(p) \in Nat /\ w(q) \in Nat
      /\ f(q) < f(p) \/ (f(q) = f(p) /\ w(q) <= w(p))
    <2>1. /\ f(p) = told(p) + (IF summary(p) = "fail" THEN 1 ELSE 0)
          /\ w(p) = room(p) + (IF N(p, "generic") > 0 THEN 1 ELSE 0)
                            + (IF summary(p) = "warning" THEN 1 ELSE 0)
          /\ f(q) = told(q) + (IF summary(q) = "fail" THEN 1 ELSE 0)
          /\ w(q) = room(q) + (IF N(p, "generic") > 0 THEN 1 ELSE 0)
                            + (IF summary(q) = "warning" THEN 1 ELSE 0)
        BY <1>2, <1>7
    <2> HIDE DEF f, w
    <2> QED BY <1>4, <1>5, <2>1
<1>9. CASE ~config.anchors
    <2>1. AnchorText(p, config) = Na({}) /\ AnchorText(q, config) = Na({})
        BY <1>1, <1>9
    <2> QED BY <2>1, NotApplying
<1>10. CASE config.anchors /\ all(p) + N(p, "generic") = 0
    <2>1. /\ AnchorText(p, config) = Pass(Item("ANCHOR_TEXT.no_links", "pass", 1))
          /\ AnchorText(q, config) = Pass(Item("ANCHOR_TEXT.no_links", "pass", 1))
        BY <1>1, <1>2, <1>3, <1>10
    <2>2. \A s : Pass(s).status = "pass" /\ Pass(s).score = Full /\ Full \in 0..Full
        BY DEF Pass, Result, Full
    <2> QED BY <2>1, <2>2, ToBest
<1>11. CASE config.anchors /\ all(p) + N(p, "generic") # 0
    <2>1. /\ AnchorText(p, config) = Result(StatusOf(f(p), w(p)), 10 * note(p), items(p))
          /\ AnchorText(q, config) = Result(StatusOf(f(q), w(q)), 10 * note(q), items(q))
        <3> HIDE DEF f, w, note
        <3> QED BY <1>1, <1>2, <1>3, <1>11
    <2>2. Milder(items(q), items(p)) /\ Countable(items(p)) /\ Countable(items(q))
        BY <1>7, <1>8 DEF Milder
    <2>3. note(p) \in Int /\ note(q) \in Int /\ note(p) <= note(q)
        <3> HIDE DEF f, w
        <3> QED BY <1>8
    <2> HIDE DEF note
    <2> QED BY <2>1, <2>2, <2>3, GradedNoWorse
<1> QED BY <1>9, <1>10, <1>11

(****************************************************************************)
(* Whatever is set right                                                    *)
(****************************************************************************)
LEMMA ReworkEases ==
    ASSUME NEW c, NEW p \in PageType(c), NEW q \in PageType(c), q \in Reworked(c, p),
           NEW s, s.words \in Thresholds, ~(c = "TRACKING" /\ q.noConsent > 0)
    PROVE  NoWorse(Analyse(c, p, s), Analyse(c, q, s))
<1>1. CASE c = "CTA"
    BY <1>1, CtaEases DEF PageType, Analyse
<1>2. CASE c = "MENTIONS_LEGALES"
    BY <1>2, LegalEases DEF PageType, Analyse
<1>3. CASE c = "MENTIONS_LEGALES_DATA"
    BY <1>3, LegalDataEases DEF PageType, Analyse
<1>4. CASE c = "DATA_BINDING"
    BY <1>4, DataBindingEases DEF PageType, Analyse
<1>5. CASE c = "METAS"
    BY <1>5, MetasEases DEF PageType, Analyse
<1>6. CASE c = "CANONICAL"
    BY <1>6, CanonicalEases DEF PageType, Analyse
<1>7. CASE c = "ROBOTS_META"
    BY <1>7, RobotsMetaEases DEF PageType, Analyse
<1>8. CASE c = "OPEN_GRAPH"
    BY <1>8, OpenGraphEases DEF PageType, Analyse
<1>9. CASE c = "LANG"
    BY <1>9, LangEases DEF PageType, Analyse
<1>10. CASE c = "FAVICON"
    BY <1>10, FaviconEases DEF PageType, Analyse
<1>11. CASE c = "REDIRECTS"
    BY <1>11, RedirectsEases DEF PageType, Analyse
<1>12. CASE c = "HN_STRUCTURE"
    BY <1>12, HnEases DEF PageType, Analyse
<1>13. CASE c = "HN_LENGTH"
    BY <1>13, HnLengthEases DEF PageType, Analyse
<1>14. CASE c = "BOLD"
    BY <1>14, BoldEases DEF PageType, Analyse
<1>15. CASE c = "IMAGES"
    BY <1>15, ImagesEases DEF PageType, Analyse
<1>16. CASE c = "DUPLICATE_IMAGES"
    BY <1>16, DuplicateImagesEases DEF PageType, Analyse
<1>17. CASE c = "LOGO"
    BY <1>17, LogoEases DEF PageType, Analyse
<1>18. CASE c = "PICTOGRAM"
    BY <1>18, PictogramEases DEF PageType, Analyse
<1>19. CASE c = "ACCESSIBILITY"
    BY <1>19, AccessibilityEases DEF PageType, Analyse
<1>20. CASE c = "CONTRAST_V2"
    BY <1>20, ContrastEases DEF PageType, Analyse
<1>21. CASE c = "STRUCTURED_DATA"
    BY <1>21, StructuredDataEases DEF PageType, Analyse
<1>22. CASE c = "NAV_STRUCTURE"
    BY <1>22, NavEases DEF PageType, Analyse
<1>23. CASE c = "TRACKING"
    <2>1. p \in TrackingPage /\ q \in TrackingPage
        BY <1>23 DEF PageType
    <2>2. q.noConsent = 0
        BY <1>23, <2>1 DEF TrackingPage
    <2> QED BY <1>23, <2>1, <2>2, TrackingEases DEF Analyse
<1>24. CASE c = "CONTENT_LENGTH"
    BY <1>24, ContentEases DEF PageType, Analyse
<1> QED
    BY <1>1, <1>2, <1>3, <1>4, <1>5, <1>6, <1>7, <1>8, <1>9, <1>10, <1>11, <1>12, <1>13, <1>14, <1>15, <1>16, <1>17, <1>18, <1>19, <1>20, <1>21, <1>22, <1>23, <1>24
       DEF Reworked

LEMMA ElementEases ==
    ASSUME NEW c, NEW p \in PageType(c), NEW q \in PageType(c),
           NEW f \in Elements(c), NEW i \in DOMAIN p[f], NEW e \in Better(c, p[f][i]),
           q = [p EXCEPT ![f][i] = e],
           NEW s, s.concordant \in 0..100, s.probable \in 0..100, s.maxReported \in Nat
    PROVE  NoWorse(Analyse(c, p, s), Analyse(c, q, s))
<1>1. CASE c = "LINKS"
    <2>1. p \in LinksPage /\ q \in LinksPage /\ f = "links"
        BY <1>1 DEF PageType, Elements
    <2>2. i \in DOMAIN p.links /\ e \in Better("LINKS", p.links[i]) /\ q = [p EXCEPT !["links"][i] = e]
        BY <1>1, <2>1
    <2>3. NoWorse(Analyse("LINKS", p, s), Analyse("LINKS", q, s))
        BY <2>1, <2>2, LinksEases DEF Analyse
    <2> QED BY <1>1, <2>3
<1>2. CASE c = "SPLIT_LINKS"
    <2>1. p \in SplitLinksPage /\ q \in SplitLinksPage /\ f = "links"
        BY <1>2 DEF PageType, Elements
    <2>2. i \in DOMAIN p.links /\ e \in Better("SPLIT_LINKS", p.links[i]) /\ q = [p EXCEPT !["links"][i] = e]
        BY <1>2, <2>1
    <2>3. NoWorse(Analyse("SPLIT_LINKS", p, s), Analyse("SPLIT_LINKS", q, s))
        BY <2>1, <2>2, SplitLinksEases DEF Analyse
    <2> QED BY <1>2, <2>3
<1>3. CASE c = "BROKEN_LINKS"
    <2>1. p \in BrokenLinksPage /\ q \in BrokenLinksPage /\ f = "results"
        BY <1>3 DEF PageType, Elements
    <2>2. i \in DOMAIN p.results /\ e \in Better("BROKEN_LINKS", p.results[i]) /\ q = [p EXCEPT !["results"][i] = e]
        BY <1>3, <2>1
    <2>3. NoWorse(Analyse("BROKEN_LINKS", p, s), Analyse("BROKEN_LINKS", q, s))
        BY <2>1, <2>2, BrokenLinksEases DEF Analyse
    <2> QED BY <1>3, <2>3
<1>4. CASE c = "NAV_STRUCTURE"
    <2>1. p \in NavPage /\ q \in NavPage /\ f = "navs"
        BY <1>4 DEF PageType, Elements
    <2>2. i \in DOMAIN p.navs /\ e \in Better("NAV_STRUCTURE", p.navs[i]) /\ q = [p EXCEPT !["navs"][i] = e]
        BY <1>4, <2>1
    <2>3. NoWorse(Analyse("NAV_STRUCTURE", p, s), Analyse("NAV_STRUCTURE", q, s))
        BY <2>1, <2>2, NavEases DEF Analyse
    <2> QED BY <1>4, <2>3
<1>5. CASE c = "STRUCTURED_DATA"
    <2>1. p \in StructuredDataPage /\ q \in StructuredDataPage /\ f = "nodes"
        BY <1>5 DEF PageType, Elements
    <2>2. i \in DOMAIN p.nodes /\ e \in Better("STRUCTURED_DATA", p.nodes[i]) /\ q = [p EXCEPT !["nodes"][i] = e]
        BY <1>5, <2>1
    <2>3. NoWorse(Analyse("STRUCTURED_DATA", p, s), Analyse("STRUCTURED_DATA", q, s))
        BY <2>1, <2>2, StructuredDataEases DEF Analyse
    <2> QED BY <1>5, <2>3
<1>6. CASE c = "ANCHOR_TEXT"
    <2>1. p \in AnchorPage /\ q \in AnchorPage /\ f = "anchors"
        BY <1>6 DEF PageType, Elements
    <2>2. i \in DOMAIN p.anchors /\ e \in Better("ANCHOR_TEXT", p.anchors[i]) /\ q = [p EXCEPT !["anchors"][i] = e]
        BY <1>6, <2>1
    <2>3. NoWorse(Analyse("ANCHOR_TEXT", p, s), Analyse("ANCHOR_TEXT", q, s))
        BY <2>1, <2>2, AnchorTextEases DEF Analyse
    <2> QED BY <1>6, <2>3
<1> QED BY <1>1, <1>2, <1>3, <1>4, <1>5, <1>6 DEF Elements

LEMMA AnalysisEases ==
    ASSUME NEW c, NEW p \in PageType(c), NEW q \in Mended(c, p),
           ~(c = "TRACKING" /\ q.noConsent > 0), NEW s, s.words \in Thresholds,
           s.concordant \in 0..100, s.probable \in 0..100, s.maxReported \in Nat
    PROVE  NoWorse(Analyse(c, p, s), Analyse(c, q, s))
<1>1. q \in PageType(c)
    BY MendedPage
<1>2. CASE q \in Reworked(c, p)
    BY <1>1, <1>2, ReworkEases
<1>3. CASE \E f \in Elements(c) : \E i \in DOMAIN p[f] : \E e \in Better(c, p[f][i]) :
              q = [p EXCEPT ![f][i] = e]
    <2>1. PICK f \in Elements(c) : \E i \in DOMAIN p[f] : \E e \in Better(c, p[f][i]) :
              q = [p EXCEPT ![f][i] = e]
        BY <1>3, Zenon
    <2>2. PICK i \in DOMAIN p[f] : \E e \in Better(c, p[f][i]) : q = [p EXCEPT ![f][i] = e]
        BY <2>1, Zenon
    <2>3. PICK e \in Better(c, p[f][i]) : q = [p EXCEPT ![f][i] = e]
        BY <2>2, Zenon
    <2> QED BY <1>1, <2>3, ElementEases
<1> QED BY <1>2, <1>3, MendedForms

(****************************************************************************)
(* The page with one thing set right                                        *)
(****************************************************************************)
LEMMA Greatest ==
    ASSUME NEW S, IsFiniteSet(S), S \in SUBSET Int, S # {}
    PROVE  Max(S) \in S
<1> DEFINE Q == {T \in SUBSET S : T = {} \/ \E x \in T : \A y \in T : x >= y}
<1>1. {} \in Q
    OBVIOUS
<1>2. ASSUME NEW T \in SUBSET S, NEW a \in S \ T, T \in Q PROVE T \union {a} \in Q
    <2>1. CASE T = {}
        BY <2>1
    <2>2. CASE \E x \in T : \A y \in T : x >= y
        <3>1. PICK x \in T : \A y \in T : x >= y
            BY <2>2
        <3>2. CASE x >= a
            BY <3>1, <3>2
        <3>3. CASE a > x
            <4>1. \A y \in T \union {a} : a >= y
                BY <3>1, <3>3
            <4> QED BY <4>1
        <3> QED BY <3>1, <3>2, <3>3
    <2> QED BY <1>2, <2>1, <2>2
<1>3. S \in Q
    <2> HIDE DEF Q
    <2> QED BY <1>1, <1>2, Gather
<1> QED BY <1>3 DEF Max

(* Page rules leave a profile its thresholds, and the settings that the     *)
(* analysers read.                                                          *)
LEMMA RulesReadable ==
    ASSUME NEW s, IsProfile(s), NEW a
    PROVE  LET t == ApplyPageRules(a, s)
           IN /\ t.words \in Thresholds
              /\ t.concordant \in 0..100 /\ t.probable \in 0..100 /\ t.maxReported \in Nat
              /\ t.absent = s.absent /\ t.weights = s.weights
<1> DEFINE rules == s.rules
           matching == {i \in DOMAIN rules : a.readable /\ RuleMatches(rules[i].patterns, a.path)}
           giving == {i \in matching : rules[i].words # <<>>}
           d == s.disabled \union (UNION {rules[i].disabled : i \in matching})
           w == IF giving = {} THEN s.words ELSE rules[Max(giving)].words
<1>1. /\ DOMAIN s = {"disabled", "enabled", "informational", "absent", "weights", "words", "rules",
                     "anchors", "concordant", "probable", "maxReported", "ignoreZones",
                     "excludeShop", "distinctive"}
      /\ s.maxReported \in Nat /\ s.concordant \in 0..100 /\ s.probable \in 0..100
      /\ s.words \in Thresholds
      /\ rules \in Seq([patterns : SUBSET STRING, disabled : SUBSET STRING,
                        words : Thresholds \union {<<>>}])
    BY DEF IsProfile
<1>2. ApplyPageRules(a, s) = [s EXCEPT !.disabled = d, !.words = w]
    BY DEF ApplyPageRules
<1>3. w \in Thresholds
    <2>1. CASE giving = {}
        BY <1>1, <2>1
    <2>2. CASE giving # {}
        <3>1. giving \in SUBSET (1..Len(rules)) /\ Len(rules) \in Nat
            BY <1>1
        <3>2. IsFiniteSet(giving) /\ giving \in SUBSET Int
            <4> HIDE DEF giving, rules
            <4>1. IsFiniteSet(1..Len(rules))
                BY <3>1, FS_Interval
            <4>2. IsFiniteSet(giving)
                BY <3>1, <4>1, FS_Subset
            <4>3. \A n : 1..n \in SUBSET Int
                OBVIOUS
            <4> QED BY <3>1, <4>2, <4>3
        <3>3. Max(giving) \in giving
            <4> HIDE DEF giving
            <4> QED BY <2>2, <3>2, Greatest
        <3> DEFINE last == Max(giving)
        <3>4. last \in DOMAIN rules /\ rules[last].words # <<>> /\ w = rules[last].words
            BY <2>2, <3>3
        <3> HIDE DEF last, w, giving, matching
        <3>5. rules[last].words \in Thresholds \union {<<>>}
            <4> HIDE DEF rules
            <4> DEFINE R == [patterns : SUBSET STRING, disabled : SUBSET STRING,
                             words : Thresholds \union {<<>>}]
            <4>1. rules[last] \in R
                <5> HIDE DEF R
                <5> QED BY <1>1, <3>4, ElementOf DEF R
            <4> QED BY <4>1
        <3> QED BY <3>4, <3>5
    <2> QED BY <2>1, <2>2
<1> HIDE DEF d, w
<1> QED BY <1>1, <1>2, <1>3

LEMMA RunEases ==
    ASSUME NEW c, NEW p \in PageType(c), NEW q \in Mended(c, p),
           ~(c = "TRACKING" /\ q.noConsent > 0), NEW s, s.words \in Thresholds, s.absent = {},
           s.concordant \in 0..100, s.probable \in 0..100, s.maxReported \in Nat
    PROVE  NoWorse(RunOne(c, p, s), RunOne(c, q, s))
<1>1. \A r : ApplyPolarity(r, {}) = r
    BY DEF ApplyPolarity
<1>2. \A x : RunOne(c, x, s) = IF IsEnabled(c, s) THEN Analyse(c, x, s) ELSE Na({})
    BY <1>1 DEF RunOne
<1>3. NoWorse(Analyse(c, p, s), Analyse(c, q, s))
    BY AnalysisEases
<1>4. CASE IsEnabled(c, s)
    <2>1. RunOne(c, p, s) = Analyse(c, p, s) /\ RunOne(c, q, s) = Analyse(c, q, s)
        BY <1>2, <1>4
    <2> QED BY <1>3, <2>1
<1>5. CASE ~IsEnabled(c, s)
    <2>1. RunOne(c, p, s) = Na({}) /\ RunOne(c, q, s) = Na({})
        BY <1>2, <1>5
    <2> QED BY <2>1, NotApplying
<1> QED BY <1>4, <1>5

(* The score of a page follows those of its criteria.                       *)
LEMMA GlobalGrows ==
    ASSUME NEW D, IsFiniteSet(D), NEW was, NEW now, DOMAIN was = D, DOMAIN now = D,
           \A c \in D : /\ was[c].score \in 0..Full /\ now[c].score \in 0..Full
                        /\ was[c].score <= now[c].score
                        /\ was[c].status = "na" <=> now[c].status = "na",
           NEW s, \A c \in DOMAIN s.weights : s.weights[c] \in Int
    PROVE  WeightedGlobalScore(was, s) <= WeightedGlobalScore(now, s)
<1> DEFINE counted == Weighted(was, s)
           weights == [c \in counted |-> ResolveCheckWeight(c, s)]
           low == [c \in counted |-> was[c].score * weights[c]]
           high == [c \in counted |-> now[c].score * weights[c]]
           sum == SumFunctionOnSet(weights, counted)
           less == SumFunctionOnSet(low, counted)
           more == SumFunctionOnSet(high, counted)
<1>1. IsFiniteSet(counted) /\ counted \subseteq D
    BY FS_Subset DEF Weighted
<1>2. Weighted(now, s) = counted
    BY DEF Weighted
<1>3. \A c \in counted : weights[c] \in Nat \ {0}
    <2>1. \A c : ResolveCheckWeight(c, s) \in Int
        BY WeightAssumption DEF ResolveCheckWeight, Smaller, Larger
    <2> QED BY <2>1 DEF Weighted
<1>4. WeightedGlobalScore(was, s) = IF counted = {} THEN Full ELSE (2 * less + sum) \div (2 * sum)
    BY DEF WeightedGlobalScore
<1>5. WeightedGlobalScore(now, s) = IF counted = {} THEN Full ELSE (2 * more + sum) \div (2 * sum)
    <2> DEFINE all == Weighted(now, s)
               parts == [c \in all |-> ResolveCheckWeight(c, s)]
               whole == SumFunctionOnSet(parts, all)
               marks == SumFunctionOnSet([c \in all |-> now[c].score * parts[c]], all)
    <2>1. WeightedGlobalScore(now, s) = IF all = {} THEN Full ELSE (2 * marks + whole) \div (2 * whole)
        BY DEF WeightedGlobalScore
    <2>2. all = counted
        BY <1>2
    <2>3. whole = sum /\ marks = more
        <3> HIDE DEF all, counted
        <3> QED BY <2>2
    <2> HIDE DEF all, counted, whole, marks, sum, more
    <2> QED BY <2>1, <2>2, <2>3
<1>6. CASE counted = {}
    BY <1>4, <1>5, <1>6 DEF Full
<1>7. CASE counted # {}
    <2>1. sum \in Nat \ {0}
        <3> HIDE DEF counted, weights
        <3> QED BY <1>1, <1>3, <1>7, SumPositive
    <2>2. ASSUME NEW c \in counted
          PROVE  low[c] \in Nat /\ high[c] \in Nat /\ low[c] <= high[c]
        <3> DEFINE a == was[c].score
                   b == now[c].score
                   m == weights[c]
        <3>1. a \in Nat /\ b \in Nat /\ a <= b /\ m \in Nat
            BY <1>1, <1>3 DEF Full
        <3>2. low[c] = a * m /\ high[c] = b * m
            OBVIOUS
        <3> HIDE DEF a, b, m, low, high
        <3>3. a * m \in Nat /\ b * m \in Nat /\ a * m <= b * m
            BY <3>1, SMTT(30)
        <3> QED BY <3>2, <3>3
    <2>3. less <= more
        <3> HIDE DEF counted, low, high
        <3> QED BY <1>1, <2>2, SumGrows
    <2>4. less \in Nat /\ more \in Nat
        <3> HIDE DEF counted, low, high
        <3> QED BY <1>1, <2>2, SumNatural
    <2> HIDE DEF counted, sum, less, more
    <2>5. 2 * less + sum \in Nat /\ 2 * more + sum \in Nat /\ 2 * sum \in Nat \ {0}
          /\ 2 * less + sum <= 2 * more + sum
        BY <2>1, <2>3, <2>4
    <2>6. (2 * less + sum) \div (2 * sum) <= (2 * more + sum) \div (2 * sum)
        BY <2>5, QuotientGrows
    <2> QED BY <1>4, <1>5, <1>7, <2>6
<1> QED BY <1>6, <1>7

(* A report, as a function of what it is made from.                         *)
Told(c, k, r, s, others) ==
    LET checks == [x \in {c, Rest} |-> IF x = c THEN r ELSE k.rest]
        global == WeightedGlobalScore(checks, s)
    IN [result |-> r,
        global |-> global,
        side   |-> [u \in DOMAIN others \union {Here} |->
                      IF u = Here
                      THEN [score |-> global, summary |-> [x \in {c, Rest} |-> checks[x].status]]
                      ELSE others[u]]]

(* The report of a page p judged with the profile s.                        *)
Seen(c, k, p, s, others) ==
    Told(c, k, RunOne(c, p, ApplyPageRules(k.address, s)), ApplyPageRules(k.address, s), others)

LEMMA ReportTold ==
    ASSUME NEW r, NEW s, NEW others
    PROVE  Report(r, s, others) = Told(criterion, company, r, s, others)
<1> DEFINE checks == [x \in {criterion, Rest} |-> IF x = criterion THEN r ELSE company.rest]
<1>1. Checks(r) = checks
    BY DEF Checks
<1>2. ToCheckSummary(checks) = [x \in {criterion, Rest} |-> checks[x].status]
    BY DEF ToCheckSummary
<1>3. Report(r, s, others) =
        [result |-> r,
         global |-> WeightedGlobalScore(checks, s),
         side   |-> [u \in DOMAIN others \union {Here} |->
                       IF u = Here THEN [score |-> WeightedGlobalScore(checks, s),
                                         summary |-> ToCheckSummary(checks)]
                       ELSE others[u]]]
    BY <1>1 DEF Report
<1>4. Told(criterion, company, r, s, others) =
        [result |-> r,
         global |-> WeightedGlobalScore(checks, s),
         side   |-> [u \in DOMAIN others \union {Here} |->
                       IF u = Here THEN [score |-> WeightedGlobalScore(checks, s),
                                         summary |-> [x \in {criterion, Rest} |-> checks[x].status]]
                       ELSE others[u]]]
    BY DEF Told
<1> HIDE DEF checks
<1> QED BY <1>2, <1>3, <1>4

(* What the two reports are those of, when something was set right between. *)
FixInv ==
    /\ SituationOK
    /\ past = NoScan /\ present # NoScan /\ present.result # InternalError =>
          present = Seen(criterion, company, page, settings, company.before)
    /\ change = "mended" /\ past # NoScan =>
          \E p \in PageType(criterion) :
             /\ page \in Mended(criterion, p)
             /\ past = Seen(criterion, company, p, settings, company.before)
    /\ change = "mended" /\ past # NoScan /\ present # NoScan =>
          present = Seen(criterion, company, page, settings, company.after)

LEMMA FixStep == FixInv /\ [Next]_vars => FixInv'
<1> SUFFICES ASSUME FixInv, [Next]_vars PROVE FixInv'
    OBVIOUS
<1>1. SituationOK /\ SituationOK'
    BY SituationStep DEF FixInv
<1>2. CASE Scan
    <2>1. present' = Seen(criterion, company, page, settings, Others)
        <3>1. present' = Report(RunOne(criterion, page, Effective), Effective, Others)
            BY <1>2 DEF Scan
        <3>2. Report(RunOne(criterion, page, Effective), Effective, Others)
                = Told(criterion, company, RunOne(criterion, page, Effective), Effective, Others)
            BY ReportTold
        <3> QED BY <3>1, <3>2 DEF Seen, Effective
    <2>2. UNCHANGED <<criterion, page, settings, company, past, change>>
        BY <1>2 DEF Scan
    <2>3. Others = IF past = NoScan THEN company.before ELSE company.after
        BY DEF Others
    <2> QED BY <1>1, <2>1, <2>2, <2>3 DEF FixInv
<1>3. CASE ScanThrows
    <2>1. present'.result = InternalError
        BY <1>3 DEF ScanThrows, Report
    <2>2. UNCHANGED <<criterion, page, settings, company, past, change>> /\ past = NoScan
        BY <1>3 DEF ScanThrows
    <2> QED BY <1>1, <2>1, <2>2 DEF FixInv
<1>4. CASE Mend
    <2>1. /\ present # NoScan /\ past = NoScan /\ present.result # InternalError
          /\ page' \in Mended(criterion, page) /\ past' = present /\ present' = NoScan
          /\ UNCHANGED <<criterion, settings, company>>
        BY <1>4 DEF Mend
    <2>2. past' = Seen(criterion, company, page, settings, company.before)
        BY <2>1 DEF FixInv
    <2>3. page \in PageType(criterion)
        BY <1>1 DEF SituationOK
    <2> QED BY <1>1, <2>1, <2>2, <2>3 DEF FixInv
<1>5. CASE Retune
    <2>1. past' # NoScan /\ change' = "retuned"
        BY <1>5 DEF Retune
    <2> QED BY <1>1, <2>1 DEF FixInv
<1>6. CASE UNCHANGED vars
    BY <1>1, <1>6 DEF vars, FixInv
<1> QED BY <1>2, <1>3, <1>4, <1>5, <1>6 DEF Next

LEMMA NotLost ==
    ASSUME NEW c, NEW k, k.rest.status \in Verdicts, k.rest.score \in 0..Full,
           NEW r, NEW t, Founded(r), Founded(t), NoWorse(r, t),
           NEW s, \A x \in DOMAIN s.weights : s.weights[x] \in Int, NEW o, NEW u
    PROVE  LET was == Told(c, k, r, s, o)
               now == Told(c, k, t, s, u)
           IN /\ was.result = r /\ now.result = t /\ now.global >= was.global
              /\ PageChange(was.side[Here], now.side[Here]) # "degraded"
<1> DEFINE D == {c, Rest}
           before == [x \in D |-> IF x = c THEN r ELSE k.rest]
           after == [x \in D |-> IF x = c THEN t ELSE k.rest]
           low == WeightedGlobalScore(before, s)
           high == WeightedGlobalScore(after, s)
           was == Told(c, k, r, s, o)
           now == Told(c, k, t, s, u)
           base == [score |-> low, summary |-> [x \in D |-> before[x].status]]
           target == [score |-> high, summary |-> [x \in D |-> after[x].status]]
<1>1. /\ was.result = r /\ was.global = low /\ was.side[Here] = base
      /\ now.result = t /\ now.global = high /\ now.side[Here] = target
    BY DEF Told
<1>2. /\ r.score \in 0..Full /\ t.score \in 0..Full /\ r.score <= t.score
      /\ r.status = "na" <=> t.status = "na"
      /\ CompareStatus(r.status, t.status) # "degraded"
    BY DEF Founded, NoWorse
<1>3. \A x \in D : /\ before[x].score \in 0..Full /\ after[x].score \in 0..Full
                   /\ before[x].score <= after[x].score
                   /\ before[x].status = "na" <=> after[x].status = "na"
                   /\ CompareStatus(before[x].status, after[x].status) # "degraded"
    <2> TAKE x \in D
    <2>1. CASE x = c
        BY <1>2, <2>1
    <2>2. CASE x # c
        <3>1. CompareStatus(k.rest.status, k.rest.status) # "degraded" /\ k.rest.score <= k.rest.score
            BY Ranked DEF Full
        <3> QED BY <2>2, <3>1
    <2> QED BY <2>1, <2>2
<1>4. DOMAIN before = D /\ DOMAIN after = D /\ IsFiniteSet(D)
    BY FewFinite
<1> HIDE DEF before, after, D
<1>5. low <= high
    BY <1>3, <1>4, GlobalGrows
<1>6. low \in 0..Full /\ high \in 0..Full
    BY <1>3, <1>4, GlobalCounts
<1> HIDE DEF low, high
<1>7. PageChange(base, target) # "degraded"
    <2>1. Trend(base.summary, target.summary, "degraded") = {}
        BY <1>3 DEF Trend
    <2>2. ScoreDelta(base, target) \in Int /\ ScoreDelta(base, target) >= 0
        BY <1>5, <1>6 DEF ScoreDelta, NoScore, Full
    <2> HIDE DEF base, target
    <2> QED BY <2>1, <2>2 DEF PageChange
<1> HIDE DEF base, target, was, now
<1>8. now.global >= was.global
    BY <1>1, <1>5, <1>6 DEF Full
<1> QED BY <1>1, <1>7, <1>8 DEF was, now

LEMMA FixImplied == FixInv => FixingNeverCosts
<1> SUFFICES ASSUME FixInv, Compared, change = "mended", settings.absent = {},
                    ~(criterion = "TRACKING" /\ page.noConsent > 0)
             PROVE  /\ present.result.score >= past.result.score
                    /\ CompareStatus(past.result.status, present.result.status) # "degraded"
                    /\ present.global >= past.global
                    /\ ComparePages([u \in {Here} |-> past.side[u]],
                                    [u \in {Here} |-> present.side[u]])[Here] # "degraded"
    BY DEF FixingNeverCosts
<1> DEFINE s == ApplyPageRules(company.address, settings)
<1>1. PICK p \in PageType(criterion) :
        /\ page \in Mended(criterion, p)
        /\ past = Seen(criterion, company, p, settings, company.before)
    BY DEF FixInv, Compared
<1>2. present = Seen(criterion, company, page, settings, company.after)
    BY DEF FixInv, Compared
<1>3. /\ s.words \in Thresholds
      /\ s.concordant \in 0..100 /\ s.probable \in 0..100 /\ s.maxReported \in Nat
      /\ s.absent = {} /\ s.weights = settings.weights
    BY RulesReadable DEF FixInv, SituationOK
<1>4. \A x \in DOMAIN s.weights : s.weights[x] \in Int
    BY <1>3 DEF FixInv, SituationOK, IsProfile
<1>5. page \in PageType(criterion)
    BY DEF FixInv, SituationOK
<1>6. company.rest.status \in Verdicts /\ company.rest.score \in 0..Full
    BY CompaniesAssumption DEF FixInv, SituationOK
<1> DEFINE r == RunOne(criterion, p, s)
           t == RunOne(criterion, page, s)
<1>7. /\ past = Told(criterion, company, r, s, company.before)
      /\ present = Told(criterion, company, t, s, company.after)
    BY <1>1, <1>2 DEF Seen
<1> HIDE DEF s
<1>8. NoWorse(r, t)
    BY <1>1, <1>3, RunEases
<1>9. Founded(r) /\ Founded(t)
    BY <1>1, <1>3, <1>5, RunFairly
<1> HIDE DEF r, t
<1>10. /\ past.result = r /\ present.result = t /\ present.global >= past.global
       /\ PageChange(past.side[Here], present.side[Here]) # "degraded"
    BY <1>4, <1>6, <1>7, <1>8, <1>9, NotLost
<1>11. present.result.score >= past.result.score
       /\ CompareStatus(past.result.status, present.result.status) # "degraded"
    BY <1>8, <1>10 DEF NoWorse
<1>12. ComparePages([u \in {Here} |-> past.side[u]], [u \in {Here} |-> present.side[u]])[Here]
         = PageChange(past.side[Here], present.side[Here])
    BY DEF ComparePages
<1> QED BY <1>10, <1>11, <1>12

(* Whatever the criterion, the page, the profile, its page rules and the    *)
(* rest of the site: an author who sets one thing right never loses a       *)
(* point, a verdict nor the trend of the page, unless it is the first       *)
(* tracking tool of a page that does not ask for consent (the scales of the *)
(* analysers, computeGlobalScore, comparePages).                            *)
THEOREM FixingIsFree == Spec => []FixingNeverCosts
<1>1. Init => FixInv
    BY SituationStart DEF FixInv, Init
<1>2. FixInv /\ [Next]_vars => FixInv'
    BY FixStep
<1>3. FixInv => FixingNeverCosts
    BY FixImplied
<1> QED BY <1>1, <1>2, <1>3, PTL DEF Spec
=============================================================================
