--------------------------------- MODULE Sums ---------------------------------
(***************************************************************************)
(* What a sum over a finite set is, whichever element the fold of the      *)
(* community modules takes first.                                          *)
(***************************************************************************)
EXTENDS Integers, FiniteSets, Functions, FiniteSetTheorems, WellFoundedInduction, TLAPS

First(s) == CHOOSE x \in s : TRUE

(* g adds f up over every subset of S, as the fold does.                   *)
Adds(g, f, S) == g = [s \in SUBSET S |-> IF s = {} THEN 0 ELSE f[First(s)] + g[s \ {First(s)}]]

LEMMA FirstIsIn == \A s : s # {} => First(s) \in s
BY DEF First

(* A set without a least counterexample has none.                          *)
LEMMA LeastCounterexample ==
    ASSUME NEW T \in SUBSET Nat, \A n \in Nat : (\A m \in 0..n - 1 : m \notin T) => n \notin T
    PROVE  T = {}
<1> SUFFICES ASSUME T # {}
             PROVE  FALSE
  OBVIOUS
<1>1. IsWellFoundedOn(OpToRel(<, Nat), Nat)
  BY NatLessThanWellFounded
<1>2. PICK n \in T : \A m \in T : ~ (<<m, n>> \in OpToRel(<, Nat))
  BY <1>1, WFMin
<1>3. \A m \in T : ~ (m < n)
  BY <1>2 DEF OpToRel
<1> QED
  BY <1>3

LEMMA LeastNatural ==
    ASSUME NEW T \in SUBSET Nat, T # {}
    PROVE  \E m \in T : \A n \in T : m <= n
<1> SUFFICES ASSUME \A m \in T : \E n \in T : n < m
             PROVE  FALSE
  OBVIOUS
<1>1. \A n \in Nat : (\A m \in 0..n - 1 : m \notin T) => n \notin T
  OBVIOUS
<1> QED
  BY <1>1, LeastCounterexample

(* The fold has a value.                                                   *)
LEMMA FoldExists ==
    ASSUME NEW f, NEW S, IsFiniteSet(S)
    PROVE  \E g : Adds(g, f, S)
<1> DEFINE Upto(n) == {s \in SUBSET S : Cardinality(s) <= n}
           Partial(g, n) == g = [s \in Upto(n) |-> IF s = {} THEN 0 ELSE f[First(s)] + g[s \ {First(s)}]]
           T == {n \in Nat : ~ \E g : Partial(g, n)}
<1>1. \A s \in SUBSET S : IsFiniteSet(s) /\ Cardinality(s) \in Nat /\ Cardinality(s) <= Cardinality(S)
  BY FS_Subset, FS_CardinalityType
<1>2. \A s \in SUBSET S : s # {} => Cardinality(s \ {First(s)}) = Cardinality(s) - 1
  BY <1>1, FirstIsIn, FS_RemoveElement
<1>3. ASSUME NEW n \in Nat, \A m \in 0..n - 1 : m \notin T
      PROVE  \E g : Partial(g, n)
  <2>1. CASE n = 0
    <3>1. ASSUME NEW s \in Upto(0)
          PROVE  s = {}
      <4>1. IsFiniteSet(s) /\ Cardinality(s) = 0
        BY <1>1
      <4> QED
        BY <4>1, FS_EmptySet
    <3>2. Partial([s \in Upto(0) |-> 0], 0)
      BY <3>1
    <3> QED
      BY <2>1, <3>2
  <2>2. CASE n # 0
    <3>1. PICK g : Partial(g, n - 1)
      <4>1. n - 1 \in Nat /\ n - 1 \in 0..n - 1
        BY <2>2
      <4>2. n - 1 \notin T
        BY <1>3, <4>1
      <4> QED
        BY <4>1, <4>2
    <3> DEFINE h == [s \in Upto(n) |-> IF s = {} THEN 0 ELSE f[First(s)] + g[s \ {First(s)}]]
    <3>2. \A s \in Upto(n) : s # {} => s \ {First(s)} \in Upto(n - 1)
      BY <1>1, <1>2, <2>2
    <3>3. \A s \in Upto(n - 1) : s \in Upto(n)
      BY <1>1
    <3>4. \A s \in Upto(n - 1) : g[s] = h[s]
      BY <3>1, <3>3
    <3>5. Partial(h, n)
      BY <3>2, <3>4
    <3> QED
      BY <3>5
  <2> QED
    BY <2>1, <2>2
<1>4. T = {}
  <2>1. ASSUME NEW n \in Nat, \A m \in 0..n - 1 : m \notin T
        PROVE  n \notin T
    <3> HIDE DEF Partial
    <3> QED
      BY <1>3, <2>1 DEF T
  <2>2. T \in SUBSET Nat
    OBVIOUS
  <2> HIDE DEF T
  <2> QED
    BY <2>1, <2>2, LeastCounterexample
<1>5. PICK g : Partial(g, Cardinality(S))
  BY <1>1, <1>4
<1>6. Upto(Cardinality(S)) = SUBSET S
  BY <1>1
<1> QED
  BY <1>5, <1>6 DEF Adds

LEMMA SumIsFold ==
    ASSUME NEW f, NEW S, IsFiniteSet(S)
    PROVE  \E g : Adds(g, f, S) /\ SumFunctionOnSet(f, S) = g[S]
<1> DEFINE g == CHOOSE h : Adds(h, f, S)
<1>1. Adds(g, f, S)
  BY FoldExists
<1>2. SumFunctionOnSet(f, S) = g[S]
  BY DEF Adds, First, SumFunctionOnSet, FoldFunctionOnSet, MapThenFoldSet
<1> QED
  BY <1>1, <1>2

(* Two folds agree where what they add agrees.                             *)
LEMMA FoldsAgree ==
    ASSUME NEW f, NEW g, NEW S, Adds(g, f, S), NEW e, NEW h, NEW T, Adds(h, e, T),
           NEW U, IsFiniteSet(U), U \subseteq S, U \subseteq T, \A x \in U : f[x] = e[x]
    PROVE  g[U] = h[U]
<1> DEFINE Differ == {s \in SUBSET U : g[s] # h[s]}
           D == {n \in Nat : \E s \in Differ : Cardinality(s) = n}
<1>1. \A s \in SUBSET U : IsFiniteSet(s) /\ Cardinality(s) \in Nat
  BY FS_Subset, FS_CardinalityType
<1>2. ASSUME NEW n \in Nat, \A m \in 0..n - 1 : m \notin D, NEW s \in SUBSET U, Cardinality(s) = n
      PROVE  g[s] = h[s]
  <2>1. s \in SUBSET S /\ s \in SUBSET T
    OBVIOUS
  <2>2. CASE s = {}
    BY <2>1, <2>2 DEF Adds
  <2>3. CASE s # {}
    <3> DEFINE r == s \ {First(s)}
    <3>1. First(s) \in U /\ First(s) \in s
      BY <2>3, FirstIsIn
    <3>2. Cardinality(r) = n - 1 /\ Cardinality(r) \in Nat /\ r \in SUBSET U
      BY <1>1, <1>2, <3>1, FS_RemoveElement
    <3>3. g[r] = h[r]
      <4>1. Cardinality(r) \in 0..n - 1
        BY <3>2
      <4>2. Cardinality(r) \notin D
        BY <1>2, <4>1
      <4> QED
        BY <3>2, <4>2
    <3>4. g[s] = f[First(s)] + g[r] /\ h[s] = e[First(s)] + h[r]
      BY <2>1, <2>3 DEF Adds
    <3> QED
      BY <3>1, <3>3, <3>4
  <2> QED
    BY <2>2, <2>3
<1>3. \A n \in Nat : (\A m \in 0..n - 1 : m \notin D) => n \notin D
  BY <1>2
<1>4. D = {}
  BY <1>3, LeastCounterexample
<1> QED
  BY <1>1, <1>4

LEMMA SumsAgree ==
    ASSUME NEW f, NEW e, NEW S, IsFiniteSet(S), \A x \in S : f[x] = e[x]
    PROVE  SumFunctionOnSet(f, S) = SumFunctionOnSet(e, S)
<1>1. PICK g : Adds(g, f, S) /\ SumFunctionOnSet(f, S) = g[S]
  BY SumIsFold
<1>2. PICK h : Adds(h, e, S) /\ SumFunctionOnSet(e, S) = h[S]
  BY SumIsFold
<1> QED
  BY <1>1, <1>2, FoldsAgree

LEMMA SumUnfolds ==
    ASSUME NEW f, NEW S, IsFiniteSet(S)
    PROVE  SumFunctionOnSet(f, S) = IF S = {} THEN 0
                                    ELSE f[First(S)] + SumFunctionOnSet(f, S \ {First(S)})
<1>1. PICK g : Adds(g, f, S) /\ SumFunctionOnSet(f, S) = g[S]
  BY SumIsFold
<1>2. IsFiniteSet(S \ {First(S)})
  BY FS_Subset
<1>3. PICK h : Adds(h, f, S \ {First(S)})
               /\ SumFunctionOnSet(f, S \ {First(S)}) = h[S \ {First(S)}]
  BY <1>2, SumIsFold
<1>4. g[S \ {First(S)}] = h[S \ {First(S)}]
  BY <1>1, <1>2, <1>3, FoldsAgree
<1>5. g[S] = IF S = {} THEN 0 ELSE f[First(S)] + g[S \ {First(S)}]
  BY <1>1 DEF Adds
<1> QED
  BY <1>1, <1>3, <1>4, <1>5

(* Any element may be taken out first.                                     *)
LEMMA SumTakesOut ==
    ASSUME NEW f, NEW S, IsFiniteSet(S), \A x \in S : f[x] \in Int
    PROVE  /\ SumFunctionOnSet(f, {}) = 0
           /\ SumFunctionOnSet(f, S) \in Int
           /\ \A x \in S : SumFunctionOnSet(f, S \ {x}) \in Int
           /\ \A x \in S : SumFunctionOnSet(f, S) = f[x] + SumFunctionOnSet(f, S \ {x})
<1> DEFINE Sum(s) == SumFunctionOnSet(f, s)
           Fine(s) == /\ Sum(s) \in Int
                      /\ \A x \in s : Sum(s) = f[x] + Sum(s \ {x})
           D == {n \in Nat : \E s \in SUBSET S : Cardinality(s) = n /\ ~ Fine(s)}
<1>1. \A s \in SUBSET S : IsFiniteSet(s) /\ Cardinality(s) \in Nat
  BY FS_Subset, FS_CardinalityType
<1>2. \A s \in SUBSET S : Sum(s) = IF s = {} THEN 0 ELSE f[First(s)] + Sum(s \ {First(s)})
  BY <1>1, SumUnfolds
<1>3. Sum({}) = 0
  BY <1>2
<1> HIDE DEF Sum
<1>4. \A s \in SUBSET S : \A x \in s : Cardinality(s \ {x}) = Cardinality(s) - 1
  BY <1>1, FS_RemoveElement
<1>5. ASSUME NEW n \in Nat, \A m \in 0..n - 1 : m \notin D, NEW s \in SUBSET S, Cardinality(s) = n
      PROVE  Fine(s)
  <2>1. ASSUME NEW r \in SUBSET S, Cardinality(r) = n - 1
        PROVE  Fine(r)
    <3>1. Cardinality(r) \in 0..n - 1
      BY <1>1, <2>1
    <3> QED
      BY <1>1, <1>5, <2>1, <3>1
  <2>2. CASE s = {}
    BY <1>3, <2>2
  <2>3. CASE s # {}
    <3> DEFINE c == First(s)
    <3>1. c \in s
      BY <2>3, FirstIsIn
    <3> HIDE DEF c
    <3>2. Sum(s) = f[c] + Sum(s \ {c})
      BY <1>2, <2>3 DEF c
    <3>3. Fine(s \ {c})
      BY <1>4, <1>5, <2>1, <3>1
    <3>4. f[c] \in Int /\ Sum(s) \in Int
      BY <3>1, <3>2, <3>3
    <3>5. ASSUME NEW x \in s, x # c
          PROVE  Sum(s) = f[x] + Sum(s \ {x})
      <4>1. Fine(s \ {x})
        BY <1>4, <1>5, <2>1
      <4>2. (s \ {x}) \ {c} = (s \ {c}) \ {x}
        OBVIOUS
      <4>3. Sum(s \ {c}) = f[x] + Sum((s \ {c}) \ {x}) /\ Sum(s \ {x}) = f[c] + Sum((s \ {x}) \ {c})
        BY <3>1, <3>3, <3>5, <4>1
      <4>4. f[x] \in Int /\ Sum(s \ {x}) \in Int /\ Sum(s \ {c}) \in Int
        BY <3>3, <4>1
      <4>5. Sum((s \ {c}) \ {x}) \in Int
        <5> DEFINE r == (s \ {c}) \ {x}
        <5>1. r \in SUBSET S /\ s \ {c} \in SUBSET S /\ x \in s \ {c}
          BY <3>5
        <5>2. Cardinality(s \ {c}) = n - 1 /\ Cardinality(r) = Cardinality(s \ {c}) - 1
          BY <1>4, <1>5, <3>1, <5>1
        <5> HIDE DEF r
        <5>3. IsFiniteSet(r) /\ Cardinality(r) \in Nat
          BY <1>1, <5>1
        <5>4. Cardinality(r) \in 0..n - 1
          BY <5>2, <5>3
        <5>5. Cardinality(r) \notin D
          BY <1>5, <5>4
        <5>6. Fine(r)
          <6> HIDE DEF Fine
          <6> QED
            BY <5>1, <5>3, <5>5
        <5> QED
          BY <5>6 DEF r
      <4>6. Sum((s \ {x}) \ {c}) = Sum((s \ {c}) \ {x})
        BY <4>2
      <4>7. f[x] \in Int
        OBVIOUS
      <4> HIDE DEF Fine, D
      <4> QED
        BY <3>2, <3>4, <4>3, <4>4, <4>5, <4>6, <4>7
    <3> QED
      BY <3>2, <3>4, <3>5
  <2> QED
    BY <2>2, <2>3
<1>6. \A n \in Nat : (\A m \in 0..n - 1 : m \notin D) => n \notin D
  BY <1>5
<1>7. D = {}
  BY <1>6, LeastCounterexample
<1>8. \A s \in SUBSET S : Fine(s)
  BY <1>1, <1>7
<1>9. S \in SUBSET S /\ \A x \in S : S \ {x} \in SUBSET S
  OBVIOUS
<1> QED
  BY <1>3, <1>8, <1>9 DEF Sum

(* A sum stays where adding does: among the naturals, or at 0.             *)
LEMMA SumStaysIn ==
    ASSUME NEW f, NEW S, IsFiniteSet(S), NEW Z, 0 \in Z, \A a, b \in Z : a + b \in Z,
           \A x \in S : f[x] \in Z
    PROVE  SumFunctionOnSet(f, S) \in Z
<1> DEFINE Sum(s) == SumFunctionOnSet(f, s)
           D == {n \in Nat : \E s \in SUBSET S : Cardinality(s) = n /\ Sum(s) \notin Z}
<1>1. \A s \in SUBSET S : IsFiniteSet(s) /\ Cardinality(s) \in Nat
  BY FS_Subset, FS_CardinalityType
<1>2. \A s \in SUBSET S : Sum(s) = IF s = {} THEN 0 ELSE f[First(s)] + Sum(s \ {First(s)})
  BY <1>1, SumUnfolds
<1> HIDE DEF Sum
<1>3. ASSUME NEW n \in Nat, \A m \in 0..n - 1 : m \notin D, NEW s \in SUBSET S, Cardinality(s) = n
      PROVE  Sum(s) \in Z
  <2>1. CASE s = {}
    BY <1>2, <2>1
  <2>2. CASE s # {}
    <3> DEFINE r == s \ {First(s)}
    <3>1. First(s) \in s
      BY <2>2, FirstIsIn
    <3>2. r \in SUBSET S /\ Cardinality(r) = n - 1 /\ Cardinality(r) \in Nat
      BY <1>1, <1>3, <3>1, FS_RemoveElement
    <3>3. Cardinality(r) \in 0..n - 1
      BY <3>2
    <3>4. Sum(r) \in Z
      BY <1>3, <3>2, <3>3
    <3> QED
      BY <1>2, <2>2, <3>1, <3>4
  <2> QED
    BY <2>1, <2>2
<1>4. \A n \in Nat : (\A m \in 0..n - 1 : m \notin D) => n \notin D
  BY <1>3
<1>5. D = {}
  BY <1>4, LeastCounterexample
<1> QED
  BY <1>1, <1>5 DEF Sum

LEMMA SumChangesAt ==
    ASSUME NEW f, NEW e, NEW S, IsFiniteSet(S), NEW k \in S,
           \A x \in S : f[x] \in Int /\ e[x] \in Int,
           \A x \in S : x # k => e[x] = f[x]
    PROVE  SumFunctionOnSet(e, S) = SumFunctionOnSet(f, S) + (e[k] - f[k])
<1>1. /\ SumFunctionOnSet(f, S \ {k}) \in Int
      /\ SumFunctionOnSet(f, S) = f[k] + SumFunctionOnSet(f, S \ {k})
  BY SumTakesOut
<1>2. SumFunctionOnSet(e, S) = e[k] + SumFunctionOnSet(e, S \ {k})
  BY SumTakesOut
<1>3. SumFunctionOnSet(e, S \ {k}) = SumFunctionOnSet(f, S \ {k})
  <2>1. IsFiniteSet(S \ {k})
    BY FS_Subset
  <2> QED
    BY <2>1, SumsAgree
<1>4. f[k] \in Int /\ e[k] \in Int
  OBVIOUS
<1> QED
  BY <1>1, <1>2, <1>3, <1>4

LEMMA SumGrowsAt ==
    ASSUME NEW f, NEW e, NEW S, IsFiniteSet(S), NEW k, k \notin S,
           \A x \in S : f[x] \in Int /\ e[x] = f[x], e[k] \in Int
    PROVE  SumFunctionOnSet(e, S \cup {k}) = SumFunctionOnSet(f, S) + e[k]
<1>1. IsFiniteSet(S \cup {k}) /\ \A x \in S \cup {k} : e[x] \in Int
  BY FS_AddElement
<1>2. SumFunctionOnSet(e, S \cup {k}) = e[k] + SumFunctionOnSet(e, (S \cup {k}) \ {k})
  BY <1>1, SumTakesOut
<1>3. (S \cup {k}) \ {k} = S
  OBVIOUS
<1>4. SumFunctionOnSet(e, S) = SumFunctionOnSet(f, S) /\ SumFunctionOnSet(f, S) \in Int
  BY SumsAgree, SumTakesOut
<1>5. SumFunctionOnSet(e, S \cup {k}) = e[k] + SumFunctionOnSet(f, S)
  BY <1>2, <1>3, <1>4
<1> QED
  BY <1>4, <1>5

(* As many times d more as there are elements that got it.                 *)
LEMMA SumGrowsBy ==
    ASSUME NEW S, IsFiniteSet(S), NEW f, NEW d \in Nat, NEW W \in SUBSET S,
           \A x \in S : f[x] \in Int,
           NEW e, \A x \in S : e[x] = IF x \in W THEN f[x] + d ELSE f[x]
    PROVE  /\ Cardinality(W) \in Nat
           /\ SumFunctionOnSet(e, S) = SumFunctionOnSet(f, S) + d * Cardinality(W)
<1> DEFINE with(V) == [x \in S |-> IF x \in V THEN f[x] + d ELSE f[x]]
           Fine(V) == SumFunctionOnSet(with(V), S) = SumFunctionOnSet(f, S) + d * Cardinality(V)
           D == {n \in Nat : \E V \in SUBSET S : Cardinality(V) = n /\ ~ Fine(V)}
<1>1. \A V \in SUBSET S : IsFiniteSet(V) /\ Cardinality(V) \in Nat
  BY FS_Subset, FS_CardinalityType
<1>2. \A V \in SUBSET S : \A x \in S : with(V)[x] \in Int
  OBVIOUS
<1>3. SumFunctionOnSet(f, S) \in Int
  BY SumTakesOut
<1>4. ASSUME NEW n \in Nat, \A m \in 0..n - 1 : m \notin D, NEW V \in SUBSET S, Cardinality(V) = n
      PROVE  Fine(V)
  <2>1. CASE V = {}
    <3>1. SumFunctionOnSet(with(V), S) = SumFunctionOnSet(f, S)
      BY <2>1, SumsAgree
    <3>2. Cardinality(V) = 0
      BY <2>1, FS_EmptySet
    <3> QED
      BY <1>3, <3>1, <3>2
  <2>2. CASE V # {}
    <3>1. PICK k \in V : TRUE
      BY <2>2
    <3> DEFINE U == V \ {k}
    <3>2. U \in SUBSET S /\ Cardinality(U) = n - 1
      BY <1>1, <1>4, <3>1, FS_RemoveElement
    <3>3. Fine(U)
      <4> HIDE DEF U, Fine
      <4>1. Cardinality(U) \in 0..n - 1
        BY <1>1, <3>2
      <4>2. Cardinality(U) \notin D
        BY <1>4, <4>1
      <4> QED
        BY <1>1, <3>2, <4>2
    <3>4. /\ \A x \in S : x # k => with(V)[x] = with(U)[x]
          /\ with(V)[k] = f[k] + d /\ with(U)[k] = f[k] /\ k \in S
      OBVIOUS
    <3>5. SumFunctionOnSet(with(V), S)
            = SumFunctionOnSet(with(U), S) + (with(V)[k] - with(U)[k])
      <4> DEFINE g == with(U)
                 h == with(V)
      <4>1. /\ k \in S
            /\ \A x \in S : g[x] \in Int /\ h[x] \in Int
            /\ \A x \in S : x # k => h[x] = g[x]
        BY <1>2, <3>2, <3>4
      <4> HIDE DEF g, h
      <4>2. SumFunctionOnSet(h, S) = SumFunctionOnSet(g, S) + (h[k] - g[k])
        BY <4>1, SumChangesAt
      <4> QED
        BY <4>2 DEF g, h
    <3>6. with(V)[k] - with(U)[k] = d
      <4>1. f[k] \in Int
        BY <3>4
      <4> HIDE DEF with, U
      <4> QED
        BY <3>4, <4>1
    <3>7. d * (n - 1) + d = d * n /\ d * (n - 1) \in Int
      BY <1>4
    <3>8. SumFunctionOnSet(with(U), S) = SumFunctionOnSet(f, S) + d * (n - 1)
      BY <3>2, <3>3
    <3> HIDE DEF with, U
    <3> QED
      BY <1>3, <1>4, <3>5, <3>6, <3>7, <3>8
  <2> QED
    BY <2>1, <2>2
<1>5. \A n \in Nat : (\A m \in 0..n - 1 : m \notin D) => n \notin D
  BY <1>4
<1>6. D = {}
  BY <1>5, LeastCounterexample
<1>7. Fine(W)
  BY <1>1, <1>6
<1>8. SumFunctionOnSet(e, S) = SumFunctionOnSet(with(W), S)
  BY SumsAgree
<1> QED
  BY <1>1, <1>7, <1>8

(* What holds of {} and grows by any element holds of every subset.        *)
LEMMA SubsetsAreReached ==
    ASSUME NEW S, IsFiniteSet(S), NEW T, {} \in T,
           \A s \in SUBSET S : \A x \in S \ s : s \in T => s \cup {x} \in T
    PROVE  \A s \in SUBSET S : s \in T
<1> DEFINE D == {n \in Nat : \E s \in SUBSET S : Cardinality(s) = n /\ s \notin T}
<1>1. \A s \in SUBSET S : IsFiniteSet(s) /\ Cardinality(s) \in Nat
  BY FS_Subset, FS_CardinalityType
<1>2. ASSUME NEW n \in Nat, \A m \in 0..n - 1 : m \notin D, NEW s \in SUBSET S, Cardinality(s) = n
      PROVE  s \in T
  <2> SUFFICES ASSUME NEW x \in s
               PROVE  s \in T
    OBVIOUS
  <2> DEFINE r == s \ {x}
  <2>1. r \in SUBSET S /\ x \in S \ r /\ s = r \cup {x}
    OBVIOUS
  <2>2. Cardinality(r) = n - 1
    BY <1>1, <1>2, FS_RemoveElement
  <2> HIDE DEF r
  <2>3. Cardinality(r) \in 0..n - 1 /\ Cardinality(r) \in Nat
    BY <1>1, <2>1, <2>2
  <2>4. r \in T
    BY <1>2, <2>1, <2>3
  <2> QED
    BY <2>1, <2>4
<1>3. \A n \in Nat : (\A m \in 0..n - 1 : m \notin D) => n \notin D
  BY <1>2
<1>4. D = {}
  BY <1>3, LeastCounterexample
<1> QED
  BY <1>1, <1>4

(* Sums over disjoint sets add up to the sum over both.                    *)
LEMMA SumsJoin ==
    ASSUME NEW v, NEW X, IsFiniteSet(X), NEW Y, IsFiniteSet(Y), X \cap Y = {},
           \A x \in X \cup Y : v[x] \in Int
    PROVE  SumFunctionOnSet(v, X \cup Y) = SumFunctionOnSet(v, X) + SumFunctionOnSet(v, Y)
<1> DEFINE Sum(s) == SumFunctionOnSet(v, s)
           T == {s \in SUBSET Y : Sum(X \cup s) = Sum(X) + Sum(s)}
<1>1. \A s \in SUBSET Y : IsFiniteSet(s) /\ IsFiniteSet(X \cup s)
  BY FS_Subset, FS_Union
<1>2. \A s \in SUBSET Y : /\ Sum({}) = 0
                          /\ Sum(s) \in Int
                          /\ \A x \in s : Sum(s) = v[x] + Sum(s \ {x})
  <2> SUFFICES ASSUME NEW s \in SUBSET Y
               PROVE  /\ Sum({}) = 0
                      /\ Sum(s) \in Int
                      /\ \A x \in s : Sum(s) = v[x] + Sum(s \ {x})
    OBVIOUS
  <2>1. IsFiniteSet(s) /\ \A x \in s : v[x] \in Int
    BY <1>1
  <2> QED
    BY <2>1, SumTakesOut
<1>3. \A s \in SUBSET Y : \A x \in s : Sum(X \cup s) = v[x] + Sum((X \cup s) \ {x})
  <2> SUFFICES ASSUME NEW s \in SUBSET Y, NEW x \in s
               PROVE  Sum(X \cup s) = v[x] + Sum((X \cup s) \ {x})
    OBVIOUS
  <2> DEFINE U == X \cup s
  <2>1. IsFiniteSet(U) /\ x \in U /\ \A y \in U : v[y] \in Int
    BY <1>1
  <2> HIDE DEF U
  <2>2. Sum(U) = v[x] + Sum(U \ {x})
    BY <2>1, SumTakesOut
  <2> QED
    BY <2>2 DEF U
<1>4. Sum(X) \in Int
  BY SumTakesOut
<1> HIDE DEF Sum
<1>5. {} \in T
  <2>1. X \cup {} = X
    OBVIOUS
  <2> QED
    BY <1>2, <1>4, <2>1
<1>6. ASSUME NEW s \in SUBSET Y, NEW x \in Y \ s, s \in T
      PROVE  s \cup {x} \in T
  <2>1. /\ s \cup {x} \in SUBSET Y
        /\ (s \cup {x}) \ {x} = s
        /\ (X \cup (s \cup {x})) \ {x} = X \cup s
    BY <1>6
  <2>2. Sum(s \cup {x}) = v[x] + Sum(s) /\ Sum(X \cup (s \cup {x})) = v[x] + Sum(X \cup s)
    BY <1>2, <1>3, <2>1
  <2>3. Sum(X \cup s) = Sum(X) + Sum(s) /\ Sum(s) \in Int /\ v[x] \in Int
    BY <1>2, <1>6
  <2>4. Sum(X \cup (s \cup {x})) = Sum(X) + Sum(s \cup {x})
    <3> DEFINE a == Sum(X \cup (s \cup {x}))
               b == Sum(s \cup {x})
    <3>1. a = v[x] + Sum(X \cup s) /\ b = v[x] + Sum(s)
      BY <2>2
    <3> HIDE DEF a, b
    <3>2. a = Sum(X) + b
      BY <1>4, <2>3, <3>1
    <3> QED
      BY <3>2 DEF a, b
  <2> QED
    BY <2>1, <2>4
<1>7. \A s \in SUBSET Y : s \in T
  <2> HIDE DEF T
  <2> QED
    BY <1>5, <1>6, SubsetsAreReached
<1> QED
  BY <1>7 DEF Sum

(* A sum over what stands, one for one, for others is the sum over these.  *)
LEMMA SumOfImage ==
    ASSUME NEW v, NEW S, IsFiniteSet(S), NEW m, \A i, j \in S : m[i] = m[j] => i = j,
           NEW e, \A i \in S : v[i] \in Int /\ e[m[i]] = v[i]
    PROVE  SumFunctionOnSet(e, {m[i] : i \in S}) = SumFunctionOnSet(v, S)
<1> DEFINE Of(s) == {m[i] : i \in s}
           Sum(s) == SumFunctionOnSet(v, s)
           Other(s) == SumFunctionOnSet(e, s)
           T == {s \in SUBSET S : IsFiniteSet(Of(s)) /\ Other(Of(s)) = Sum(s)}
<1>1. {} \in T
  <2>1. Of({}) = {} /\ IsFiniteSet({})
    BY FS_EmptySet
  <2>2. Sum({}) = 0 /\ Other({}) = 0
    BY <2>1, SumTakesOut
  <2> HIDE DEF Of, Sum, Other
  <2> QED
    BY <2>1, <2>2
<1>2. ASSUME NEW s \in SUBSET S, NEW x \in S \ s, s \in T
      PROVE  s \cup {x} \in T
  <2>1. Of(s \cup {x}) = Of(s) \cup {m[x]} /\ m[x] \notin Of(s)
    BY <1>2
  <2>2. (s \cup {x}) \ {x} = s /\ (Of(s) \cup {m[x]}) \ {m[x]} = Of(s)
    BY <1>2, <2>1
  <2>3. IsFiniteSet(s) /\ IsFiniteSet(s \cup {x})
    BY FS_Subset
  <2>4. Sum(s \cup {x}) = v[x] + Sum(s)
    <3>1. Sum(s \cup {x}) = v[x] + Sum((s \cup {x}) \ {x})
      BY <2>3, SumTakesOut
    <3> QED
      BY <2>2, <3>1
  <2>5. IsFiniteSet(Of(s) \cup {m[x]})
    <3> HIDE DEF Of
    <3> QED
      BY <1>2, FS_AddElement
  <2>6. Other(Of(s) \cup {m[x]}) = e[m[x]] + Other(Of(s))
    <3> DEFINE U == Of(s) \cup {m[x]}
    <3>1. \A y \in U : e[y] \in Int
      BY <1>2
    <3>2. m[x] \in U
      OBVIOUS
    <3> HIDE DEF U
    <3>3. Other(U) = e[m[x]] + Other(U \ {m[x]})
      BY <2>5, <3>1, <3>2, SumTakesOut DEF U
    <3> QED
      BY <2>2, <3>3 DEF U
  <2> HIDE DEF Of, Sum, Other
  <2> QED
    BY <1>2, <2>1, <2>4, <2>5, <2>6
<1>3. \A s \in SUBSET S : s \in T
  <2> HIDE DEF T
  <2> QED
    BY <1>1, <1>2, SubsetsAreReached
<1> QED
  BY <1>3

(* As many that are each worth as much are worth as much together.         *)
LEMMA SumsCompare ==
    ASSUME NEW v, NEW S, IsFiniteSet(S), \A x \in S : v[x] \in Int,
           NEW A \in SUBSET S, NEW B \in SUBSET S, Cardinality(A) = Cardinality(B),
           \A x \in A \ B, y \in B \ A : v[x] >= v[y]
    PROVE  SumFunctionOnSet(v, A) >= SumFunctionOnSet(v, B)
<1> DEFINE Sum(s) == SumFunctionOnSet(v, s)
           Above(X, Y) == \A x \in X \ Y, y \in Y \ X : v[x] >= v[y]
           D == {n \in Nat : \E X, Y \in SUBSET S :
                    /\ Cardinality(X) = n /\ Cardinality(Y) = n
                    /\ Above(X, Y) /\ ~ (Sum(X) >= Sum(Y))}
<1>1. \A s \in SUBSET S : IsFiniteSet(s) /\ Cardinality(s) \in Nat
  BY FS_Subset, FS_CardinalityType
<1>2. \A s \in SUBSET S : Sum(s) \in Int /\ \A x \in s : Sum(s) = v[x] + Sum(s \ {x})
  BY <1>1, SumTakesOut
<1> HIDE DEF Sum
<1>3. \A s \in SUBSET S : \A x \in s : Cardinality(s \ {x}) = Cardinality(s) - 1
  BY <1>1, FS_RemoveElement
<1>4. ASSUME NEW n \in Nat, \A m \in 0..n - 1 : m \notin D,
             NEW X \in SUBSET S, NEW Y \in SUBSET S,
             Cardinality(X) = n, Cardinality(Y) = n, Above(X, Y)
      PROVE  Sum(X) >= Sum(Y)
  <2>1. CASE X = Y
    BY <1>2, <2>1
  <2>2. CASE X # Y
    <3>1. X \ Y # {} /\ Y \ X # {}
      <4>1. X \subseteq Y => X = Y
        BY <1>1, <1>4, FS_Subset
      <4>2. Y \subseteq X => X = Y
        BY <1>1, <1>4, FS_Subset
      <4> QED
        BY <2>2, <4>1, <4>2
    <3>2. PICK x \in X \ Y, y \in Y \ X : TRUE
      BY <3>1
    <3> DEFINE U == X \ {x}
               W == Y \ {y}
    <3>3. U \in SUBSET S /\ W \in SUBSET S /\ Above(U, W)
      BY <1>4, <3>2
    <3>4. Cardinality(U) = n - 1 /\ Cardinality(W) = n - 1
      BY <1>3, <1>4, <3>2
    <3>5. Sum(X) = v[x] + Sum(U) /\ Sum(Y) = v[y] + Sum(W)
      BY <1>2, <3>2
    <3>6. v[x] >= v[y] /\ v[x] \in Int /\ v[y] \in Int
      BY <1>4, <3>2
    <3> HIDE DEF U, W, Above
    <3>7. n - 1 \in 0..n - 1 /\ n - 1 \in Nat
      BY <1>1, <3>3, <3>4
    <3>8. n - 1 \notin D
      BY <1>4, <3>7
    <3>9. Sum(U) >= Sum(W)
      BY <3>3, <3>4, <3>7, <3>8
    <3>10. Sum(U) \in Int /\ Sum(W) \in Int
      BY <1>2, <3>3
    <3> QED
      BY <3>5, <3>6, <3>9, <3>10
  <2> QED
    BY <2>1, <2>2
<1>5. \A n \in Nat : (\A m \in 0..n - 1 : m \notin D) => n \notin D
  <2> SUFFICES ASSUME NEW n \in Nat, \A m \in 0..n - 1 : m \notin D, n \in D
               PROVE  FALSE
    OBVIOUS
  <2>1. PICK X, Y \in SUBSET S : /\ Cardinality(X) = n /\ Cardinality(Y) = n
                                 /\ Above(X, Y) /\ ~ (Sum(X) >= Sum(Y))
    OBVIOUS
  <2> HIDE DEF D, Above
  <2> QED
    BY <1>4, <2>1
<1>6. D = {}
  <2>1. D \in SUBSET Nat
    OBVIOUS
  <2> HIDE DEF D
  <2> QED
    BY <1>5, <2>1, LeastCounterexample
<1>7. Cardinality(A) \in Nat /\ Cardinality(A) \notin D
  BY <1>1, <1>6
<1> QED
  BY <1>7 DEF Sum
=============================================================================
