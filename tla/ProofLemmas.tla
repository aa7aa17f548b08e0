------------------------------ MODULE ProofLemmas ------------------------------
(***************************************************************************)
(* What the proofs about several components need.                          *)
(*                                                                         *)
(* The first part is induction in the form the provers can use: a set of   *)
(* counterexamples that is not empty has a least one.  The theorems of the *)
(* library take a predicate as a parameter; these take the set of what     *)
(* satisfies it.                                                           *)
(*                                                                         *)
(* The second part is about OvalEnum: its functions follow the charts of   *)
(* the schema for every tally, negation is De Morgan's, and nesting        *)
(* changes nothing.  A tally is all the functions read.  CountsOfResults   *)
(* reduces a vector to its tally; from there on the proofs are case        *)
(* analyses over six numbers, each of which names the row of the chart     *)
(* that applies.                                                           *)
(***************************************************************************)
EXTENDS OvalEnum, SchemaTables, Sequences, Integers, FiniteSets, FiniteSetTheorems, TLAPS

\* Every family of subsets of a finite set that is not empty has a minimal member.
LEMMA MinimalSubset ==
  ASSUME NEW S, IsFiniteSet(S), NEW F, F \subseteq SUBSET S, F # {}
  PROVE  \E A \in F : \A B \in F : B \subseteq A => B = A
<1>1. IsWellFoundedOn(StrictSubsetOrdering(S), FiniteSubsetsOf(S))
  BY FS_StrictSubsetOrderingWellFounded
<1>2. F \subseteq FiniteSubsetsOf(S)
  BY FS_FiniteSubsetsOfFinite
<1>3. \E A \in F : \A B \in F : <<B, A>> \notin StrictSubsetOrdering(S)
  BY <1>1, <1>2, WFMin
<1> QED
  BY <1>3 DEF StrictSubsetOrdering

\* Every set of natural numbers that is not empty has a least member: of the
\* intervals from 1 to its members the smallest is that of the least.
LEMMA LeastNatural ==
  ASSUME NEW T, T \subseteq Nat, T # {}
  PROVE  \E n \in T : \A m \in T : n <= m
<1>1. PICK k \in T : TRUE
  OBVIOUS
<1> DEFINE F == {1..n : n \in {m \in T : m <= k}}
           S == 1..k
<1>2. F \subseteq SUBSET S /\ F # {}
  BY <1>1
<1>3. IsFiniteSet(S)
  BY <1>1, FS_Interval
<1>4. PICK A \in F : \A B \in F : B \subseteq A => B = A
  <2> HIDE DEF F, S
  <2> QED
    BY <1>2, <1>3, MinimalSubset
<1>5. PICK n \in T : n <= k /\ A = 1..n
  BY <1>4
<1>6. \A m \in T : n <= m
  <2> SUFFICES ASSUME NEW m \in T, m < n PROVE FALSE
    BY <1>5
  <2>1. 1..m \in F /\ 1..m \subseteq 1..n
    BY <1>5, <1>1
  <2>2. 1..m = 1..n
    BY <2>1, <1>4, <1>5
  <2>3. n \in 1..n /\ n \notin 1..m
    BY <1>5
  <2> QED
    BY <2>2, <2>3
<1> QED
  BY <1>5, <1>6

\* Induction over the numbers up to k: Q is the set of those that are shown.
LEMMA UpTo ==
  ASSUME NEW k \in Nat, NEW Q, 0 \in Q, \A n \in 0..(k - 1) : n \in Q => n + 1 \in Q
  PROVE  0..k \subseteq Q
<1> DEFINE T == (0..k) \ Q
<1> SUFFICES ASSUME T # {} PROVE FALSE
  OBVIOUS
<1>1. T \subseteq Nat
  OBVIOUS
<1>2. PICK n \in T : \A m \in T : n <= m
  <2> HIDE DEF T
  <2> QED
    BY <1>1, LeastNatural
<1>3. n # 0 /\ n \in 0..k
  OBVIOUS
<1>4. n - 1 \in 0..(k - 1) /\ n - 1 \notin T
  BY <1>2, <1>3
<1>5. n - 1 \in Q /\ (n - 1) + 1 = n
  BY <1>3, <1>4
<1> QED
  BY <1>4, <1>5

-----------------------------------------------------------------------------
\* F applied to s up to k times: the sequences of what it gives.
Iterations(V, F, s, k) ==
  {g \in [0..k -> V] : g[0] = s /\ \A m \in 1..k : g[m] = F[g[m - 1]]}

\* A function may be applied to what it gives as often as one wants.
LEMMA IterationExists ==
  ASSUME NEW V, NEW F \in [V -> V], NEW s \in V, NEW k \in Nat
  PROVE  Iterations(V, F, s, k) # {}
<1> DEFINE Iterates(n) == Iterations(V, F, s, n)
           Q == {n \in 0..k : Iterates(n) # {}}
<1>1. 0 \in Q
  <2>1. [m \in 0..0 |-> s] \in Iterates(0)
    BY DEF Iterations
  <2> QED
    BY <2>1
<1>2. ASSUME NEW n \in 0..(k - 1), n \in Q PROVE n + 1 \in Q
  <2>1. PICK g \in Iterates(n) : TRUE
    BY <1>2
  <2> DEFINE h == [m \in 0..(n + 1) |-> IF m = n + 1 THEN F[g[n]] ELSE g[m]]
  <2>2. h \in [0..(n + 1) -> V] /\ h[0] = s
    BY <2>1 DEF Iterations
  <2>3. ASSUME NEW m \in 1..(n + 1) PROVE h[m] = F[h[m - 1]]
    <3>1. m - 1 \in 0..n /\ h[m - 1] = g[m - 1]
      OBVIOUS
    <3>2. CASE m = n + 1
      BY <3>1, <3>2
    <3>3. CASE m # n + 1
      BY <3>1, <3>3, <2>1 DEF Iterations
    <3> QED
      BY <3>2, <3>3
  <2>4. h \in Iterates(n + 1)
    BY <2>2, <2>3 DEF Iterations
  <2>5. n + 1 \in 0..k
    OBVIOUS
  <2> HIDE DEF Iterates, h
  <2> QED
    BY <2>4, <2>5
<1>3. 0..k \subseteq Q
  <2> HIDE DEF Q
  <2> QED
    BY <1>1, <1>2, UpTo
<1> QED
  BY <1>3

\* What holds of the start and is kept by F holds of all iterates.
LEMMA IteratesKeep ==
  ASSUME NEW k \in Nat, NEW F, NEW g, \A m \in 1..k : g[m] = F[g[m - 1]],
         NEW P, g[0] \in P, \A v \in P : F[v] \in P
  PROVE  \A m \in 0..k : g[m] \in P
<1> DEFINE Q == {m \in 0..k : g[m] \in P}
<1>1. 0 \in Q
  OBVIOUS
<1>2. ASSUME NEW n \in 0..(k - 1), n \in Q PROVE n + 1 \in Q
  <2>1. n + 1 \in 1..k /\ (n + 1) - 1 = n
    OBVIOUS
  <2> QED
    BY <2>1, <1>2
<1>3. 0..k \subseteq Q
  <2> HIDE DEF Q
  <2> QED
    BY <1>1, <1>2, UpTo
<1> QED
  BY <1>3

\* A set that only grows within a finite one has stopped growing after as many
\* steps as that has elements.
LEMMA GrowthStops ==
  ASSUME NEW I, IsFiniteSet(I), NEW F \in [SUBSET I -> SUBSET I],
         \A X \in SUBSET I : X \subseteq F[X],
         NEW g \in [0..Cardinality(I) -> SUBSET I],
         \A m \in 1..Cardinality(I) : g[m] = F[g[m - 1]]
  PROVE  F[g[Cardinality(I)]] = g[Cardinality(I)]
<1> DEFINE k == Cardinality(I)
<1>1. k \in Nat
  BY FS_CardinalityType
<1> DEFINE Fixed(n) == F[g[n]] = g[n]
           Q == {n \in 0..k : Fixed(n) \/ Cardinality(g[n]) >= n}
<1>2. \A n \in 0..k : IsFiniteSet(g[n]) /\ Cardinality(g[n]) \in Nat
  BY FS_Subset, FS_CardinalityType
<1>3. 0 \in Q
  BY <1>1, <1>2
<1>4. ASSUME NEW n \in 0..(k - 1), n \in Q PROVE n + 1 \in Q
  <2>1. n \in 0..k /\ n + 1 \in 1..k /\ n + 1 \in 0..k /\ g[n + 1] = F[g[n]]
    BY <1>1
  <2>2. CASE Fixed(n)
    BY <2>1, <2>2
  <2>3. CASE ~Fixed(n) /\ Cardinality(g[n]) >= n
    <3>1. g[n] \in SUBSET g[n + 1] /\ g[n] # g[n + 1]
      BY <2>1, <2>3
    <3>2. Cardinality(g[n]) < Cardinality(g[n + 1])
      <4> HIDE DEF k
      <4> QED
        BY <3>1, <2>1, <1>2, FS_Subset
    <3> QED
      BY <3>2, <2>1, <2>3, <1>1, <1>2
  <2> QED
    BY <1>4, <2>2, <2>3
<1>5. 0..k \subseteq Q
  <2> HIDE DEF Q, k
  <2> QED
    BY <1>1, <1>3, <1>4, UpTo
<1>6. CASE Cardinality(g[k]) >= k
  <2>1. g[k] \in SUBSET I /\ F[g[k]] \in SUBSET I /\ g[k] \subseteq F[g[k]]
    BY <1>1
  <2>2. g[k] = I
    BY <2>1, <1>1, <1>2, <1>6, FS_Subset
  <2> QED
    BY <2>1, <2>2
<1> QED
  BY <1>1, <1>5, <1>6

-----------------------------------------------------------------------------
(***************************************************************************)
(* Recursion over heights: the value at n is G[n][f], where G[n] reads f   *)
(* at lower heights only.  Then a function is defined by it.               *)
(***************************************************************************)
\* Induction over heights: P is the set of those that are shown.
LEMMA ByHeight ==
  ASSUME NEW N, NEW h \in [N -> Nat], NEW P,
         \A n \in N : (\A m \in N : h[m] < h[n] => m \in P) => n \in P
  PROVE  N \subseteq P
<1> DEFINE Heights == {h[n] : n \in N \ P}
<1> SUFFICES ASSUME ~(N \subseteq P) PROVE FALSE
  OBVIOUS
<1>1. Heights \subseteq Nat /\ Heights # {}
  OBVIOUS
<1>2. PICK least \in Heights : \A i \in Heights : least <= i
  <2> HIDE DEF Heights
  <2> QED
    BY <1>1, LeastNatural
<1>3. PICK n \in N \ P : h[n] = least
  BY <1>2
<1>4. ASSUME NEW m \in N, h[m] < h[n] PROVE m \in P
  <2> SUFFICES ASSUME m \notin P PROVE FALSE
    OBVIOUS
  <2>1. h[n] <= h[m] /\ h[m] \in Nat /\ h[n] \in Nat
    BY <1>2, <1>3
  <2> QED
    BY <2>1, <1>4
<1> QED
  BY <1>3, <1>4

\* The functions that follow G below height k.
Approximations(N, V, h, G, k) ==
  {f \in [N -> V] : \A n \in N : h[n] < k => f[n] = G[n][f]}

\* G[n] reads its argument at lower heights only.
ReadsBelow(N, V, h, G) ==
  \A n \in N : \A f, g \in [N -> V] :
    (\A m \in N : h[m] < h[n] => f[m] = g[m]) => G[n][f] = G[n][g]

\* G defines a function from N to V by recursion over h.
Recursion(N, V, h, G) ==
  /\ V # {} /\ h \in [N -> Nat] /\ G \in [N -> [[N -> V] -> V]]
  /\ ReadsBelow(N, V, h, G)

\* Two functions that follow G below height k are the same there.
LEMMA ApproximationsAgree ==
  ASSUME NEW N, NEW V, NEW h \in [N -> Nat], NEW G, ReadsBelow(N, V, h, G),
         NEW k \in Nat, NEW f \in Approximations(N, V, h, G, k),
         NEW g \in Approximations(N, V, h, G, k)
  PROVE  \A n \in N : h[n] < k => f[n] = g[n]
<1> DEFINE P == {n \in N : h[n] < k => f[n] = g[n]}
<1>1. ASSUME NEW n \in N, \A m \in N : h[m] < h[n] => m \in P PROVE n \in P
  <2> SUFFICES ASSUME h[n] < k PROVE f[n] = g[n]
    OBVIOUS
  <2>1. ASSUME NEW m \in N, h[m] < h[n] PROVE f[m] = g[m]
    <3>1. h[m] \in Nat /\ h[n] \in Nat
      OBVIOUS
    <3>2. h[m] < k
      BY <3>1, <2>1
    <3> QED
      BY <3>2, <2>1, <1>1
  <2>2. G[n][f] = G[n][g]
    BY <2>1 DEF Approximations, ReadsBelow
  <2> QED
    BY <2>2 DEF Approximations
<1>2. N \subseteq P
  <2> HIDE DEF P
  <2> QED
    BY <1>1, ByHeight
<1> QED
  BY <1>2

\* There is one for every height.
LEMMA ApproximationExists ==
  ASSUME NEW N, NEW V, V # {}, NEW h \in [N -> Nat], NEW G \in [N -> [[N -> V] -> V]],
         ReadsBelow(N, V, h, G), NEW k \in Nat
  PROVE  Approximations(N, V, h, G, k) # {}
<1> DEFINE A(n) == Approximations(N, V, h, G, n)
           Q == {n \in 0..k : A(n) # {}}
<1>1. 0 \in Q
  <2>1. PICK v \in V : TRUE
    OBVIOUS
  <2>2. [n \in N |-> v] \in A(0)
    BY DEF Approximations
  <2> QED
    BY <2>2
<1>2. ASSUME NEW i \in 0..(k - 1), i \in Q PROVE i + 1 \in Q
  <2>1. PICK f \in A(i) : TRUE
    BY <1>2
  <2> DEFINE g == [n \in N |-> G[n][f]]
  <2>2. f \in [N -> V] /\ g \in [N -> V]
    BY <2>1 DEF Approximations
  <2>3. ASSUME NEW n \in N, h[n] < i + 1 PROVE g[n] = G[n][g]
    <3>1. ASSUME NEW m \in N, h[m] < h[n] PROVE f[m] = g[m]
      <4>1. h[m] \in Nat /\ h[n] \in Nat /\ i \in Nat
        OBVIOUS
      <4>2. h[m] < i
        BY <4>1, <2>3, <3>1
      <4> QED
        BY <4>2, <2>1 DEF Approximations
    <3>2. G[n][f] = G[n][g]
      <4> HIDE DEF g
      <4> QED
        BY <2>2, <3>1 DEF ReadsBelow
    <3> QED
      BY <3>2
  <2>4. g \in A(i + 1)
    <3> HIDE DEF g
    <3> QED
      BY <2>2, <2>3 DEF Approximations
  <2>5. i + 1 \in 0..k
    OBVIOUS
  <2> HIDE DEF A, g
  <2> QED
    BY <2>4, <2>5
<1>3. 0..k \subseteq Q
  <2> HIDE DEF Q
  <2> QED
    BY <1>1, <1>2, UpTo
<1>4. k \in Q
  <2> HIDE DEF Q
  <2> QED
    BY <1>3
<1> QED
  BY <1>4

\* The function the recursion defines.
LEMMA RecursionByHeight ==
  ASSUME NEW N, NEW V, NEW h, NEW G, Recursion(N, V, h, G)
  PROVE  \E f \in [N -> V] : \A n \in N : f[n] = G[n][f]
<1>. V # {} /\ h \in [N -> Nat] /\ G \in [N -> [[N -> V] -> V]] /\ ReadsBelow(N, V, h, G)
  BY DEF Recursion
<1> DEFINE A(k) == Approximations(N, V, h, G, k)
           at == [n \in N |-> CHOOSE f \in A(h[n] + 1) : TRUE]
           result == [n \in N |-> at[n][n]]
<1>1. \A n \in N : at[n] \in A(h[n] + 1)
  <2> TAKE n \in N
  <2>1. h[n] + 1 \in Nat
    OBVIOUS
  <2>2. A(h[n] + 1) # {}
    BY <2>1, ApproximationExists
  <2>3. at[n] = CHOOSE f \in A(h[n] + 1) : TRUE
    OBVIOUS
  <2> HIDE DEF A, at
  <2> QED
    BY <2>2, <2>3
<1>2. \A n \in N : at[n] \in [N -> V] /\ at[n][n] = G[n][at[n]]
  <2> TAKE n \in N
  <2>1. h[n] < h[n] + 1
    OBVIOUS
  <2> HIDE DEF at
  <2> QED
    BY <1>1, <2>1 DEF Approximations
<1>3. result \in [N -> V]
  <2> HIDE DEF at
  <2> QED
    BY <1>2
<1>4. ASSUME NEW n \in N PROVE result[n] = G[n][result]
  <2>1. ASSUME NEW m \in N, h[m] < h[n] PROVE at[n][m] = result[m]
    <3>1. h[m] + 1 \in Nat /\ h[n] \in Nat /\ h[m] \in Nat
      OBVIOUS
    <3>2. at[n] \in A(h[m] + 1)
      <4>1. \A j \in N : h[j] < h[m] + 1 => h[j] < h[n] + 1
        BY <3>1, <2>1
      <4> HIDE DEF at
      <4> QED
        BY <1>1, <4>1 DEF Approximations
    <3>3. at[n][m] = at[m][m]
      <4>1. h[m] < h[m] + 1 /\ at[m] \in A(h[m] + 1)
        BY <3>1, <1>1
      <4> HIDE DEF at, A
      <4>2. \A j \in N : h[j] < h[m] + 1 => at[n][j] = at[m][j]
        BY <3>1, <3>2, <4>1, ApproximationsAgree DEF A
      <4> QED
        BY <4>1, <4>2
    <3> QED
      BY <3>3
  <2>2. G[n][at[n]] = G[n][result]
    <3> HIDE DEF at, result
    <3> QED
      BY <1>2, <1>3, <2>1 DEF ReadsBelow
  <2>3. result[n] = at[n][n]
    OBVIOUS
  <2> HIDE DEF at, result
  <2> QED
    BY <2>2, <2>3, <1>2
<1> HIDE DEF result
<1> QED
  BY <1>3, <1>4

-----------------------------------------------------------------------------
(***************************************************************************)
(* The functions of OvalEnum.                                              *)
(***************************************************************************)
Counts == {c \in [ResultEnumeration -> Nat] : ~Empty(c)}

-----------------------------------------------------------------------------
(***************************************************************************)
(* Tallies.                                                                *)
(***************************************************************************)
\* The places of a sequence that hold v are finitely many (the counting loops
\* of OvalEnum.cpp run over a vector).
LEMMA PlacesAreFinite ==
  ASSUME NEW s \in Seq(ResultEnumeration), NEW v
  PROVE  IsFiniteSet({i \in DOMAIN s : s[i] = v})
<1>1. IsFiniteSet(1..Len(s)) BY FS_Interval
<1>2. {i \in DOMAIN s : s[i] = v} \subseteq 1..Len(s) OBVIOUS
<1> QED BY <1>1, <1>2, FS_Subset

\* A vector with elements has a tally that is not empty (OvalEnum.cpp: the test
\* of results->size()).
LEMMA CountsOfResults ==
  ASSUME NEW s \in Seq(ResultEnumeration), s # << >>
  PROVE  ResultTally(s) \in Counts
<1> DEFINE places(v) == {i \in DOMAIN s : s[i] = v}
<1>1. \A v \in ResultEnumeration : Cardinality(places(v)) \in Nat
  BY PlacesAreFinite, FS_CardinalityType
<1>2. ResultTally(s) = [v \in ResultEnumeration |-> Cardinality(places(v))]
  BY DEF ResultTally, Tally
<1>3. ResultTally(s) \in [ResultEnumeration -> Nat] BY <1>1, <1>2
<1>4. 1 \in DOMAIN s /\ s[1] \in ResultEnumeration OBVIOUS
<1>5. places(s[1]) # {} BY <1>4
<1>6. Cardinality(places(s[1])) # 0
  BY <1>5, PlacesAreFinite, FS_EmptySet
<1>7. ResultTally(s)[s[1]] # 0 BY <1>2, <1>4, <1>6
<1>8. s[1] \in DOMAIN ResultTally(s) BY <1>2, <1>4
<1>9. ~Empty(ResultTally(s)) BY <1>7, <1>8 DEF Empty
<1> QED BY <1>3, <1>9 DEF Counts

\* push_back counts its result once more.
LEMMA TallyOfAppend ==
  ASSUME NEW s \in Seq(ResultEnumeration), NEW x \in ResultEnumeration,
         NEW v \in ResultEnumeration
  PROVE  /\ ResultTally(s)[v] \in Nat
         /\ ResultTally(Append(s, x))[v]
              = ResultTally(s)[v] + (IF v = x THEN 1 ELSE 0)
<1> DEFINE m == Append(s, x)
           at(q) == {i \in DOMAIN q : q[i] = v}
<1>1. m \in Seq(ResultEnumeration) /\ Len(m) = Len(s) + 1
      /\ m[Len(s) + 1] = x /\ \A i \in 1..Len(s) : m[i] = s[i]
  OBVIOUS
<1>2. DOMAIN s = 1..Len(s) /\ DOMAIN m = 1..(Len(s) + 1) /\ Len(s) \in Nat
  BY <1>1
<1>3. /\ ResultTally(s)[v] = Cardinality(at(s))
      /\ ResultTally(m)[v] = Cardinality(at(m))
  BY DEF ResultTally, Tally
<1>4. IsFiniteSet(at(s)) /\ Cardinality(at(s)) \in Nat
  BY PlacesAreFinite, FS_CardinalityType
<1> HIDE DEF m
<1>5. CASE v = x
  <2>1. at(m) = at(s) \cup {Len(s) + 1} BY <1>1, <1>2, <1>5
  <2>2. Len(s) + 1 \notin at(s) BY <1>2
  <2>3. Cardinality(at(m)) = Cardinality(at(s)) + 1
    BY <1>4, <2>1, <2>2, FS_AddElement
  <2> QED BY <1>3, <1>4, <1>5, <2>3 DEF m
<1>6. CASE v # x
  <2>1. at(m) = at(s) BY <1>1, <1>2, <1>6
  <2>2. ResultTally(m)[v] = ResultTally(s)[v] BY <1>3, <2>1
  <2>3. (IF v = x THEN 1 ELSE 0) = 0 BY <1>6
  <2>4. \A k \in Nat : k = k + 0 OBVIOUS
  <2> QED BY <1>3, <1>4, <2>2, <2>3, <2>4 DEF m
<1> QED BY <1>5, <1>6

\* The tally of two results.
LEMMA TallyOfPair ==
  ASSUME NEW r \in ResultEnumeration, NEW x \in ResultEnumeration,
         NEW v \in ResultEnumeration
  PROVE  ResultTally(<<r, x>>)[v]
           = (IF v = r THEN 1 ELSE 0) + (IF v = x THEN 1 ELSE 0)
<1> DEFINE m == <<r, x>>
           at == {i \in DOMAIN m : m[i] = v}
<1>1. DOMAIN m = 1..2 /\ m[1] = r /\ m[2] = x OBVIOUS
<1>2. ResultTally(m)[v] = Cardinality(at) BY DEF ResultTally, Tally
<1> HIDE DEF m
<1>3. \A i : i \in at <=> (i = 1 /\ v = r) \/ (i = 2 /\ v = x) BY <1>1
<1> HIDE DEF at
<1>4. /\ Cardinality({}) = 0 /\ Cardinality({1}) = 1 /\ Cardinality({2}) = 1
      /\ Cardinality({1, 2}) = 2
  <2>1. Cardinality({}) = 0 BY FS_EmptySet
  <2>2. /\ IsFiniteSet({1}) /\ Cardinality({1}) = 1
        /\ Cardinality({2}) = 1
    BY FS_Singleton
  <2>3. {1, 2} = {1} \cup {2} /\ 2 \notin {1} OBVIOUS
  <2>4. Cardinality({1, 2}) = 1 + 1 BY <2>2, <2>3, FS_AddElement
  <2> QED BY <2>1, <2>2, <2>4
<1>5. CASE v = r /\ v = x
  <2>1. at = {1, 2} BY <1>3, <1>5
  <2> QED BY <1>2, <1>4, <1>5, <2>1 DEF m
<1>6. CASE v = r /\ v # x
  <2>1. at = {1} BY <1>3, <1>6
  <2> QED BY <1>2, <1>4, <1>6, <2>1 DEF m
<1>7. CASE v # r /\ v = x
  <2>1. at = {2} BY <1>3, <1>7
  <2> QED BY <1>2, <1>4, <1>7, <2>1 DEF m
<1>8. CASE v # r /\ v # x
  <2>1. at = {} BY <1>3, <1>8
  <2> QED BY <1>2, <1>4, <1>8, <2>1 DEF m
<1> QED BY <1>5, <1>6, <1>7, <1>8

-----------------------------------------------------------------------------
(***************************************************************************)
(* Charts.                                                                 *)
(***************************************************************************)
\* What the patterns of a chart allow, and that a count is zero or positive.
LEMMA Cells ==
  ASSUME NEW n \in Nat
  PROVE  /\ n = 0 => Cell("0", n) /\ Cell("0,1", n) /\ ~(n > 0) /\ n # 1
         /\ n = 1 => Cell("1", n) /\ Cell("0,1", n) /\ ~(n > 1)
         /\ n > 0 => Cell("1+", n)
         /\ n > 1 => Cell("2+", n)
         /\ n % 2 = 1 => Cell("odd", n)
         /\ n % 2 # 1 => Cell("even", n)
         /\ Cell("0+", n)
         /\ n = 0 \/ n > 0
         /\ n = 0 \/ n = 1 \/ n > 1
         /\ n >= 2 <=> n > 1
<1>1. Cell("0+", n) BY DEF Cell
<1>2. n = 0 => Cell("0", n) BY DEF Cell
<1>3. n = 0 \/ n = 1 => Cell("0,1", n) BY DEF Cell
<1>4. n = 1 => Cell("1", n) BY DEF Cell
<1>5. n > 0 => Cell("1+", n) BY DEF Cell
<1>6. n > 1 => Cell("2+", n) BY DEF Cell
<1>7. n % 2 = 1 => Cell("odd", n) BY DEF Cell
<1>8. n % 2 # 1 => Cell("even", n)
  <2>1. n % 2 = 0 \/ n % 2 = 1 OBVIOUS
  <2> QED BY <2>1 DEF Cell
<1>9. (n = 0 \/ n > 0) /\ (n = 0 \/ n = 1 \/ n > 1) /\ (n >= 2 <=> n > 1)
  OBVIOUS
<1>10. (n = 0 => ~(n > 0) /\ n # 1) /\ (n = 1 => ~(n > 1)) OBVIOUS
<1> QED BY <1>1, <1>2, <1>3, <1>4, <1>5, <1>6, <1>7, <1>8, <1>9, <1>10

\* The positions of the columns.
LEMMA OneToSix ==
  \A i \in 1..6 : i = 1 \/ i = 2 \/ i = 3 \/ i = 4 \/ i = 5 \/ i = 6
OBVIOUS

\* The columns of a chart of results.
LEMMA SixColumns ==
  /\ DOMAIN ResultColumns = 1..6 /\ Len(ResultColumns) + 1 = 7
  /\ ResultColumns[1] = "true" /\ ResultColumns[2] = "false"
  /\ ResultColumns[3] = "error" /\ ResultColumns[4] = "unknown"
  /\ ResultColumns[5] = "not evaluated"
  /\ ResultColumns[6] = "not applicable"
<1>1. Len(ResultColumns) = 6 BY DEF ResultColumns
<1>2. DOMAIN ResultColumns = 1..6 BY DEF ResultColumns
<1> QED BY <1>1, <1>2 DEF ResultColumns

\* A row whose six cells fit makes its last cell a result the chart allows.
LEMMA RowApplies ==
  ASSUME NEW chart, NEW c, NEW p1, NEW p2, NEW p3, NEW p4, NEW p5, NEW p6,
         NEW r, <<p1, p2, p3, p4, p5, p6, r>> \in chart,
         Cell(p1, c["true"]), Cell(p2, c["false"]), Cell(p3, c["error"]),
         Cell(p4, c["unknown"]), Cell(p5, c["not evaluated"]),
         Cell(p6, c["not applicable"])
  PROVE  r \in ChartResults(chart, ResultColumns, c)
<1> DEFINE row == <<p1, p2, p3, p4, p5, p6, r>>
<1>3. /\ row[1] = p1 /\ row[2] = p2 /\ row[3] = p3 /\ row[4] = p4
      /\ row[5] = p5 /\ row[6] = p6 /\ row[7] = r
  OBVIOUS
<1> HIDE DEF row
<1>4. ASSUME NEW i \in 1..6 PROVE Cell(row[i], c[ResultColumns[i]])
  <2>1. i = 1 \/ i = 2 \/ i = 3 \/ i = 4 \/ i = 5 \/ i = 6 BY OneToSix
  <2> QED BY SixColumns, <1>3, <2>1
<1>5. Matches(row, ResultColumns, c) BY SixColumns, <1>4 DEF Matches
<1>6. row[Len(ResultColumns) + 1] = r BY SixColumns, <1>3
<1>7. row \in chart BY DEF row
<1> QED BY <1>5, <1>6, <1>7 DEF ChartResults

\* The six counts.
LEMMA SixCounts ==
  ASSUME NEW c \in Counts
  PROVE  /\ c["true"] \in Nat /\ c["false"] \in Nat /\ c["error"] \in Nat
         /\ c["unknown"] \in Nat /\ c["not evaluated"] \in Nat
         /\ c["not applicable"] \in Nat
         /\ \/ c["true"] > 0 \/ c["false"] > 0 \/ c["error"] > 0
            \/ c["unknown"] > 0 \/ c["not evaluated"] > 0
            \/ c["not applicable"] > 0
<1>1. c \in [ResultEnumeration -> Nat] /\ DOMAIN c = ResultEnumeration
  BY DEF Counts
<1>2. \E v \in ResultEnumeration : c[v] # 0 BY <1>1 DEF Counts, Empty
<1>3. \A v \in ResultEnumeration : c[v] \in Nat BY <1>1
<1>4. PICK v \in ResultEnumeration : c[v] # 0 BY <1>2
<1>5. c[v] > 0 BY <1>3, <1>4
<1>6. \/ v = "true" \/ v = "false" \/ v = "error" \/ v = "unknown"
      \/ v = "not evaluated" \/ v = "not applicable"
  BY DEF ResultEnumeration
<1>7. /\ c["true"] \in Nat /\ c["false"] \in Nat /\ c["error"] \in Nat
      /\ c["unknown"] \in Nat /\ c["not evaluated"] \in Nat
      /\ c["not applicable"] \in Nat
  BY <1>3 DEF ResultEnumeration
<1> QED BY <1>5, <1>6, <1>7

-----------------------------------------------------------------------------
(***************************************************************************)
(* The functions, one by one.  Mixed are the counts that are not all not   *)
(* applicable.                                                             *)
(***************************************************************************)
\* Only with the sets that occur in OvalEnum, as numbers.
LEMMA OnlySome ==
  ASSUME NEW c \in Counts
  PROVE  /\ Only(c, {"not applicable"}) <=>
              /\ c["true"] = 0 /\ c["false"] = 0 /\ c["error"] = 0
              /\ c["unknown"] = 0 /\ c["not evaluated"] = 0
         /\ Only(c, {"true", "not applicable"}) <=>
              /\ c["false"] = 0 /\ c["error"] = 0
              /\ c["unknown"] = 0 /\ c["not evaluated"] = 0
         /\ Only(c, {"false", "not applicable"}) <=>
              /\ c["true"] = 0 /\ c["error"] = 0
              /\ c["unknown"] = 0 /\ c["not evaluated"] = 0
         /\ Only(c, {"true", "false", "not applicable"}) <=>
              /\ c["error"] = 0 /\ c["unknown"] = 0 /\ c["not evaluated"] = 0
<1>1. Only(c, {"not applicable"}) <=>
        /\ c["true"] = 0 /\ c["false"] = 0 /\ c["error"] = 0
        /\ c["unknown"] = 0 /\ c["not evaluated"] = 0
  BY DEF Only, ResultEnumeration
<1>2. Only(c, {"true", "not applicable"}) <=>
        /\ c["false"] = 0 /\ c["error"] = 0
        /\ c["unknown"] = 0 /\ c["not evaluated"] = 0
  BY DEF Only, ResultEnumeration
<1>3. Only(c, {"false", "not applicable"}) <=>
        /\ c["true"] = 0 /\ c["error"] = 0
        /\ c["unknown"] = 0 /\ c["not evaluated"] = 0
  BY DEF Only, ResultEnumeration
<1>4. Only(c, {"true", "false", "not applicable"}) <=>
        /\ c["error"] = 0 /\ c["unknown"] = 0 /\ c["not evaluated"] = 0
  BY DEF Only, ResultEnumeration
<1> QED BY <1>1, <1>2, <1>3, <1>4

Mixed == {c \in Counts : ~AllNotApplicable(c)}

\* Counts that are mixed have a result other than not applicable.
LEMMA MixedCounts ==
  ASSUME NEW c \in Mixed
  PROVE  /\ c \in Counts
         /\ \/ c["true"] > 0 \/ c["false"] > 0 \/ c["error"] > 0
            \/ c["unknown"] > 0 \/ c["not evaluated"] > 0
<1>1. c \in Counts /\ ~AllNotApplicable(c) BY DEF Mixed
<1>2. c["not applicable"] > 0 =>
        ~(/\ c["true"] = 0 /\ c["false"] = 0 /\ c["error"] = 0
          /\ c["unknown"] = 0 /\ c["not evaluated"] = 0)
  BY <1>1, OnlySome, Zenon DEF AllNotApplicable
<1>3. /\ c["true"] \in Nat /\ c["false"] \in Nat /\ c["error"] \in Nat
      /\ c["unknown"] \in Nat /\ c["not evaluated"] \in Nat
      /\ \/ c["true"] > 0 \/ c["false"] > 0 \/ c["error"] > 0
         \/ c["unknown"] > 0 \/ c["not evaluated"] > 0
         \/ c["not applicable"] > 0
  BY <1>1, SixCounts
<1> QED BY <1>1, <1>2, <1>3, Cells, Zenon

\* AND and check="all" (OvalEnum.cpp: CombineResultsByOperator).
LEMMA AllFollowsItsChart ==
  ASSUME NEW c \in Mixed
  PROVE  CombineAll(c) \in ChartResults(ChartAll, ResultColumns, c)
<1> DEFINE t == c["true"]    f == c["false"]         e == c["error"]
           u == c["unknown"] n == c["not evaluated"] na == c["not applicable"]
           Fits(r) == r \in ChartResults(ChartAll, ResultColumns, c)
<1>1. /\ t \in Nat /\ f \in Nat /\ e \in Nat /\ u \in Nat /\ n \in Nat
      /\ na \in Nat
      /\ t > 0 \/ f > 0 \/ e > 0 \/ u > 0 \/ n > 0
  BY MixedCounts, SixCounts
<1>2. Only(c, {"true", "not applicable"}) <=>
        f = 0 /\ e = 0 /\ u = 0 /\ n = 0
  BY MixedCounts, OnlySome
<1>3. t > 0 /\ f = 0 /\ e = 0 /\ u = 0 /\ n = 0 => Fits("true")
  <2>1. <<"1+", "0", "0", "0", "0", "0+", "true">> \in ChartAll
    BY DEF ChartAll
  <2>2. ASSUME t > 0 /\ f = 0 /\ e = 0 /\ u = 0 /\ n = 0
        PROVE  Cell("1+", t) /\ Cell("0", f) /\ Cell("0", e)
               /\ Cell("0", u) /\ Cell("0", n) /\ Cell("0+", na)
    BY <1>1, <2>2, Cells, Zenon
  <2> QED BY <2>1, <2>2, RowApplies
<1>4. f > 0 => Fits("false")
  <2>1. <<"0+", "1+", "0+", "0+", "0+", "0+", "false">> \in ChartAll
    BY DEF ChartAll
  <2>2. ASSUME f > 0
        PROVE  Cell("0+", t) /\ Cell("1+", f) /\ Cell("0+", e)
               /\ Cell("0+", u) /\ Cell("0+", n) /\ Cell("0+", na)
    BY <1>1, <2>2, Cells, Zenon
  <2> QED BY <2>1, <2>2, RowApplies
<1>5. f = 0 /\ e > 0 => Fits("error")
  <2>1. <<"0+", "0", "1+", "0+", "0+", "0+", "error">> \in ChartAll
    BY DEF ChartAll
  <2>2. ASSUME f = 0 /\ e > 0
        PROVE  Cell("0+", t) /\ Cell("0", f) /\ Cell("1+", e)
               /\ Cell("0+", u) /\ Cell("0+", n) /\ Cell("0+", na)
    BY <1>1, <2>2, Cells, Zenon
  <2> QED BY <2>1, <2>2, RowApplies
<1>6. f = 0 /\ e = 0 /\ u > 0 => Fits("unknown")
  <2>1. <<"0+", "0", "0", "1+", "0+", "0+", "unknown">> \in ChartAll
    BY DEF ChartAll
  <2>2. ASSUME f = 0 /\ e = 0 /\ u > 0
        PROVE  Cell("0+", t) /\ Cell("0", f) /\ Cell("0", e)
               /\ Cell("1+", u) /\ Cell("0+", n) /\ Cell("0+", na)
    BY <1>1, <2>2, Cells, Zenon
  <2> QED BY <2>1, <2>2, RowApplies
<1>7. f = 0 /\ e = 0 /\ u = 0 /\ n > 0 => Fits("not evaluated")
  <2>1. <<"0+", "0", "0", "0", "1+", "0+", "not evaluated">> \in ChartAll
    BY DEF ChartAll
  <2>2. ASSUME f = 0 /\ e = 0 /\ u = 0 /\ n > 0
        PROVE  Cell("0+", t) /\ Cell("0", f) /\ Cell("0", e)
               /\ Cell("0", u) /\ Cell("1+", n) /\ Cell("0+", na)
    BY <1>1, <2>2, Cells, Zenon
  <2> QED BY <2>1, <2>2, RowApplies
<1> HIDE DEF Fits
<1>8. Fits(CombineAll(c))
  BY <1>1, <1>2, <1>3, <1>4, <1>5, <1>6, <1>7,
     Cells, Zenon DEF CombineAll, Undecided
<1> QED BY <1>8 DEF Fits

\* OR and check="at least one".
LEMMA AnyFollowsItsChart ==
  ASSUME NEW c \in Mixed
  PROVE  CombineAny(c) \in ChartResults(ChartAny, ResultColumns, c)
<1> DEFINE t == c["true"]    f == c["false"]         e == c["error"]
           u == c["unknown"] n == c["not evaluated"] na == c["not applicable"]
           Fits(r) == r \in ChartResults(ChartAny, ResultColumns, c)
<1>1. /\ t \in Nat /\ f \in Nat /\ e \in Nat /\ u \in Nat /\ n \in Nat
      /\ na \in Nat
      /\ t > 0 \/ f > 0 \/ e > 0 \/ u > 0 \/ n > 0
  BY MixedCounts, SixCounts
<1>2. Only(c, {"false", "not applicable"}) <=>
        t = 0 /\ e = 0 /\ u = 0 /\ n = 0
  BY MixedCounts, OnlySome
<1>3. t > 0 => Fits("true")
  <2>1. <<"1+", "0+", "0+", "0+", "0+", "0+", "true">> \in ChartAny
    BY DEF ChartAny
  <2>2. ASSUME t > 0
        PROVE  Cell("1+", t) /\ Cell("0+", f) /\ Cell("0+", e)
               /\ Cell("0+", u) /\ Cell("0+", n) /\ Cell("0+", na)
    BY <1>1, <2>2, Cells, Zenon
  <2> QED BY <2>1, <2>2, RowApplies
<1>4. t = 0 /\ f > 0 /\ e = 0 /\ u = 0 /\ n = 0 => Fits("false")
  <2>1. <<"0", "1+", "0", "0", "0", "0+", "false">> \in ChartAny
    BY DEF ChartAny
  <2>2. ASSUME t = 0 /\ f > 0 /\ e = 0 /\ u = 0 /\ n = 0
        PROVE  Cell("0", t) /\ Cell("1+", f) /\ Cell("0", e)
               /\ Cell("0", u) /\ Cell("0", n) /\ Cell("0+", na)
    BY <1>1, <2>2, Cells, Zenon
  <2> QED BY <2>1, <2>2, RowApplies
<1>5. t = 0 /\ e > 0 => Fits("error")
  <2>1. <<"0", "0+", "1+", "0+", "0+", "0+", "error">> \in ChartAny
    BY DEF ChartAny
  <2>2. ASSUME t = 0 /\ e > 0
        PROVE  Cell("0", t) /\ Cell("0+", f) /\ Cell("1+", e)
               /\ Cell("0+", u) /\ Cell("0+", n) /\ Cell("0+", na)
    BY <1>1, <2>2, Cells, Zenon
  <2> QED BY <2>1, <2>2, RowApplies
<1>6. t = 0 /\ e = 0 /\ u > 0 => Fits("unknown")
  <2>1. <<"0", "0+", "0", "1+", "0+", "0+", "unknown">> \in ChartAny
    BY DEF ChartAny
  <2>2. ASSUME t = 0 /\ e = 0 /\ u > 0
        PROVE  Cell("0", t) /\ Cell("0+", f) /\ Cell("0", e)
               /\ Cell("1+", u) /\ Cell("0+", n) /\ Cell("0+", na)
    BY <1>1, <2>2, Cells, Zenon
  <2> QED BY <2>1, <2>2, RowApplies
<1>7. t = 0 /\ e = 0 /\ u = 0 /\ n > 0 => Fits("not evaluated")
  <2>1. <<"0", "0+", "0", "0", "1+", "0+", "not evaluated">> \in ChartAny
    BY DEF ChartAny
  <2>2. ASSUME t = 0 /\ e = 0 /\ u = 0 /\ n > 0
        PROVE  Cell("0", t) /\ Cell("0+", f) /\ Cell("0", e)
               /\ Cell("0", u) /\ Cell("1+", n) /\ Cell("0+", na)
    BY <1>1, <2>2, Cells, Zenon
  <2> QED BY <2>1, <2>2, RowApplies
<1> HIDE DEF Fits
<1>8. Fits(CombineAny(c))
  BY <1>1, <1>2, <1>3, <1>4, <1>5, <1>6, <1>7,
     Cells, Zenon DEF CombineAny, Undecided
<1> QED BY <1>8 DEF Fits

\* check="none satisfy" (OvalEnum.cpp: CombineResultsByCheck).
LEMMA NoneFollowsItsChart ==
  ASSUME NEW c \in Mixed
  PROVE  CombineNone(c) \in ChartResults(ChartNone, ResultColumns, c)
<1> DEFINE t == c["true"]    f == c["false"]         e == c["error"]
           u == c["unknown"] n == c["not evaluated"] na == c["not applicable"]
           Fits(r) == r \in ChartResults(ChartNone, ResultColumns, c)
<1>1. /\ t \in Nat /\ f \in Nat /\ e \in Nat /\ u \in Nat /\ n \in Nat
      /\ na \in Nat
      /\ t > 0 \/ f > 0 \/ e > 0 \/ u > 0 \/ n > 0
  BY MixedCounts, SixCounts
<1>2. Only(c, {"false", "not applicable"}) <=>
        t = 0 /\ e = 0 /\ u = 0 /\ n = 0
  BY MixedCounts, OnlySome
<1>3. t > 0 => Fits("false")
  <2>1. <<"1+", "0+", "0+", "0+", "0+", "0+", "false">> \in ChartNone
    BY DEF ChartNone
  <2>2. ASSUME t > 0
        PROVE  Cell("1+", t) /\ Cell("0+", f) /\ Cell("0+", e)
               /\ Cell("0+", u) /\ Cell("0+", n) /\ Cell("0+", na)
    BY <1>1, <2>2, Cells, Zenon
  <2> QED BY <2>1, <2>2, RowApplies
<1>4. t = 0 /\ f > 0 /\ e = 0 /\ u = 0 /\ n = 0 => Fits("true")
  <2>1. <<"0", "1+", "0", "0", "0", "0+", "true">> \in ChartNone
    BY DEF ChartNone
  <2>2. ASSUME t = 0 /\ f > 0 /\ e = 0 /\ u = 0 /\ n = 0
        PROVE  Cell("0", t) /\ Cell("1+", f) /\ Cell("0", e)
               /\ Cell("0", u) /\ Cell("0", n) /\ Cell("0+", na)
    BY <1>1, <2>2, Cells, Zenon
  <2> QED BY <2>1, <2>2, RowApplies
<1>5. t = 0 /\ e > 0 => Fits("error")
  <2>1. <<"0", "0+", "1+", "0+", "0+", "0+", "error">> \in ChartNone
    BY DEF ChartNone
  <2>2. ASSUME t = 0 /\ e > 0
        PROVE  Cell("0", t) /\ Cell("0+", f) /\ Cell("1+", e)
               /\ Cell("0+", u) /\ Cell("0+", n) /\ Cell("0+", na)
    BY <1>1, <2>2, Cells, Zenon
  <2> QED BY <2>1, <2>2, RowApplies
<1>6. t = 0 /\ e = 0 /\ u > 0 => Fits("unknown")
  <2>1. <<"0", "0+", "0", "1+", "0+", "0+", "unknown">> \in ChartNone
    BY DEF ChartNone
  <2>2. ASSUME t = 0 /\ e = 0 /\ u > 0
        PROVE  Cell("0", t) /\ Cell("0+", f) /\ Cell("0", e)
               /\ Cell("1+", u) /\ Cell("0+", n) /\ Cell("0+", na)
    BY <1>1, <2>2, Cells, Zenon
  <2> QED BY <2>1, <2>2, RowApplies
<1>7. t = 0 /\ e = 0 /\ u = 0 /\ n > 0 => Fits("not evaluated")
  <2>1. <<"0", "0+", "0", "0", "1+", "0+", "not evaluated">> \in ChartNone
    BY DEF ChartNone
  <2>2. ASSUME t = 0 /\ e = 0 /\ u = 0 /\ n > 0
        PROVE  Cell("0", t) /\ Cell("0+", f) /\ Cell("0", e)
               /\ Cell("0", u) /\ Cell("1+", n) /\ Cell("0+", na)
    BY <1>1, <2>2, Cells, Zenon
  <2> QED BY <2>1, <2>2, RowApplies
<1> HIDE DEF Fits
<1>8. Fits(CombineNone(c))
  BY <1>1, <1>2, <1>3, <1>4, <1>5, <1>6, <1>7,
     Cells, Zenon DEF CombineNone, Undecided
<1> QED BY <1>8 DEF Fits

\* ONE.
LEMMA OneFollowsItsChart ==
  ASSUME NEW c \in Mixed
  PROVE  CombineOne(c) \in ChartResults(ChartOne, ResultColumns, c)
<1> DEFINE t == c["true"]    f == c["false"]         e == c["error"]
           u == c["unknown"] n == c["not evaluated"] na == c["not applicable"]
           Fits(r) == r \in ChartResults(ChartOne, ResultColumns, c)
<1>1. /\ t \in Nat /\ f \in Nat /\ e \in Nat /\ u \in Nat /\ n \in Nat
      /\ na \in Nat
      /\ t > 0 \/ f > 0 \/ e > 0 \/ u > 0 \/ n > 0
  BY MixedCounts, SixCounts
<1>2. Only(c, {"true", "false", "not applicable"}) <=> e = 0 /\ u = 0 /\ n = 0
  BY MixedCounts, OnlySome
<1>3. t = 1 /\ e = 0 /\ u = 0 /\ n = 0 => Fits("true")
  <2>1. <<"1", "0+", "0", "0", "0", "0+", "true">> \in ChartOne
    BY DEF ChartOne
  <2>2. ASSUME t = 1 /\ e = 0 /\ u = 0 /\ n = 0
        PROVE  Cell("1", t) /\ Cell("0+", f) /\ Cell("0", e)
               /\ Cell("0", u) /\ Cell("0", n) /\ Cell("0+", na)
    BY <1>1, <2>2, Cells, Zenon
  <2> QED BY <2>1, <2>2, RowApplies
<1>4. t > 1 => Fits("false")
  <2>1. <<"2+", "0+", "0+", "0+", "0+", "0+", "false">> \in ChartOne
    BY DEF ChartOne
  <2>2. ASSUME t > 1
        PROVE  Cell("2+", t) /\ Cell("0+", f) /\ Cell("0+", e)
               /\ Cell("0+", u) /\ Cell("0+", n) /\ Cell("0+", na)
    BY <1>1, <2>2, Cells, Zenon
  <2> QED BY <2>1, <2>2, RowApplies
<1>5. t = 0 /\ f > 0 /\ e = 0 /\ u = 0 /\ n = 0 => Fits("false")
  <2>1. <<"0", "1+", "0", "0", "0", "0+", "false">> \in ChartOne
    BY DEF ChartOne
  <2>2. ASSUME t = 0 /\ f > 0 /\ e = 0 /\ u = 0 /\ n = 0
        PROVE  Cell("0", t) /\ Cell("1+", f) /\ Cell("0", e)
               /\ Cell("0", u) /\ Cell("0", n) /\ Cell("0+", na)
    BY <1>1, <2>2, Cells, Zenon
  <2> QED BY <2>1, <2>2, RowApplies
<1>6. (t = 0 \/ t = 1) /\ e > 0 => Fits("error")
  <2>1. <<"0,1", "0+", "1+", "0+", "0+", "0+", "error">> \in ChartOne
    BY DEF ChartOne
  <2>2. ASSUME (t = 0 \/ t = 1) /\ e > 0
        PROVE  Cell("0,1", t) /\ Cell("0+", f) /\ Cell("1+", e)
               /\ Cell("0+", u) /\ Cell("0+", n) /\ Cell("0+", na)
    BY <1>1, <2>2, Cells, Zenon
  <2> QED BY <2>1, <2>2, RowApplies
<1>7. (t = 0 \/ t = 1) /\ e = 0 /\ u > 0 => Fits("unknown")
  <2>1. <<"0,1", "0+", "0", "1+", "0+", "0+", "unknown">> \in ChartOne
    BY DEF ChartOne
  <2>2. ASSUME (t = 0 \/ t = 1) /\ e = 0 /\ u > 0
        PROVE  Cell("0,1", t) /\ Cell("0+", f) /\ Cell("0", e)
               /\ Cell("1+", u) /\ Cell("0+", n) /\ Cell("0+", na)
    BY <1>1, <2>2, Cells, Zenon
  <2> QED BY <2>1, <2>2, RowApplies
<1>8. (t = 0 \/ t = 1) /\ e = 0 /\ u = 0 /\ n > 0 => Fits("not evaluated")
  <2>1. <<"0,1", "0+", "0", "0", "1+", "0+", "not evaluated">> \in ChartOne
    BY DEF ChartOne
  <2>2. ASSUME (t = 0 \/ t = 1) /\ e = 0 /\ u = 0 /\ n > 0
        PROVE  Cell("0,1", t) /\ Cell("0+", f) /\ Cell("0", e)
               /\ Cell("0", u) /\ Cell("1+", n) /\ Cell("0+", na)
    BY <1>1, <2>2, Cells, Zenon
  <2> QED BY <2>1, <2>2, RowApplies
<1> HIDE DEF Fits
<1>9. Fits(CombineOne(c))
  BY <1>1, <1>2, <1>3, <1>4, <1>5, <1>6, <1>7, <1>8,
     Cells, Zenon DEF CombineOne, Undecided
<1> QED BY <1>9 DEF Fits

\* check="only one", whose branches come in another order.
LEMMA OnlyOneFollowsItsChart ==
  ASSUME NEW c \in Mixed
  PROVE  CombineOnlyOne(c) \in ChartResults(ChartOne, ResultColumns, c)
<1> DEFINE t == c["true"]    f == c["false"]         e == c["error"]
           u == c["unknown"] n == c["not evaluated"] na == c["not applicable"]
           Fits(r) == r \in ChartResults(ChartOne, ResultColumns, c)
<1>1. /\ t \in Nat /\ f \in Nat /\ e \in Nat /\ u \in Nat /\ n \in Nat
      /\ na \in Nat
      /\ t > 0 \/ f > 0 \/ e > 0 \/ u > 0 \/ n > 0
  BY MixedCounts, SixCounts
<1>2. Only(c, {"true", "false", "not applicable"}) <=> e = 0 /\ u = 0 /\ n = 0
  BY MixedCounts, OnlySome
<1>3. t = 1 /\ e = 0 /\ u = 0 /\ n = 0 => Fits("true")
  <2>1. <<"1", "0+", "0", "0", "0", "0+", "true">> \in ChartOne
    BY DEF ChartOne
  <2>2. ASSUME t = 1 /\ e = 0 /\ u = 0 /\ n = 0
        PROVE  Cell("1", t) /\ Cell("0+", f) /\ Cell("0", e)
               /\ Cell("0", u) /\ Cell("0", n) /\ Cell("0+", na)
    BY <1>1, <2>2, Cells, Zenon
  <2> QED BY <2>1, <2>2, RowApplies
<1>4. t > 1 => Fits("false")
  <2>1. <<"2+", "0+", "0+", "0+", "0+", "0+", "false">> \in ChartOne
    BY DEF ChartOne
  <2>2. ASSUME t > 1
        PROVE  Cell("2+", t) /\ Cell("0+", f) /\ Cell("0+", e)
               /\ Cell("0+", u) /\ Cell("0+", n) /\ Cell("0+", na)
    BY <1>1, <2>2, Cells, Zenon
  <2> QED BY <2>1, <2>2, RowApplies
<1>5. t = 0 /\ f > 0 /\ e = 0 /\ u = 0 /\ n = 0 => Fits("false")
  <2>1. <<"0", "1+", "0", "0", "0", "0+", "false">> \in ChartOne
    BY DEF ChartOne
  <2>2. ASSUME t = 0 /\ f > 0 /\ e = 0 /\ u = 0 /\ n = 0
        PROVE  Cell("0", t) /\ Cell("1+", f) /\ Cell("0", e)
               /\ Cell("0", u) /\ Cell("0", n) /\ Cell("0+", na)
    BY <1>1, <2>2, Cells, Zenon
  <2> QED BY <2>1, <2>2, RowApplies
<1>6. (t = 0 \/ t = 1) /\ e > 0 => Fits("error")
  <2>1. <<"0,1", "0+", "1+", "0+", "0+", "0+", "error">> \in ChartOne
    BY DEF ChartOne
  <2>2. ASSUME (t = 0 \/ t = 1) /\ e > 0
        PROVE  Cell("0,1", t) /\ Cell("0+", f) /\ Cell("1+", e)
               /\ Cell("0+", u) /\ Cell("0+", n) /\ Cell("0+", na)
    BY <1>1, <2>2, Cells, Zenon
  <2> QED BY <2>1, <2>2, RowApplies
<1>7. (t = 0 \/ t = 1) /\ e = 0 /\ u > 0 => Fits("unknown")
  <2>1. <<"0,1", "0+", "0", "1+", "0+", "0+", "unknown">> \in ChartOne
    BY DEF ChartOne
  <2>2. ASSUME (t = 0 \/ t = 1) /\ e = 0 /\ u > 0
        PROVE  Cell("0,1", t) /\ Cell("0+", f) /\ Cell("0", e)
               /\ Cell("1+", u) /\ Cell("0+", n) /\ Cell("0+", na)
    BY <1>1, <2>2, Cells, Zenon
  <2> QED BY <2>1, <2>2, RowApplies
<1>8. (t = 0 \/ t = 1) /\ e = 0 /\ u = 0 /\ n > 0 => Fits("not evaluated")
  <2>1. <<"0,1", "0+", "0", "0", "1+", "0+", "not evaluated">> \in ChartOne
    BY DEF ChartOne
  <2>2. ASSUME (t = 0 \/ t = 1) /\ e = 0 /\ u = 0 /\ n > 0
        PROVE  Cell("0,1", t) /\ Cell("0+", f) /\ Cell("0", e)
               /\ Cell("0", u) /\ Cell("1+", n) /\ Cell("0+", na)
    BY <1>1, <2>2, Cells, Zenon
  <2> QED BY <2>1, <2>2, RowApplies
<1> HIDE DEF Fits
<1>9. Fits(CombineOnlyOne(c))
  BY <1>1, <1>2, <1>3, <1>4, <1>5, <1>6, <1>7, <1>8,
     Cells, Zenon DEF CombineOnlyOne, Undecided
<1> QED BY <1>9 DEF Fits

\* XOR.
LEMMA XorFollowsItsChart ==
  ASSUME NEW c \in Mixed
  PROVE  CombineXor(c) \in ChartResults(ChartXor, ResultColumns, c)
<1> DEFINE t == c["true"]    f == c["false"]         e == c["error"]
           u == c["unknown"] n == c["not evaluated"] na == c["not applicable"]
           Fits(r) == r \in ChartResults(ChartXor, ResultColumns, c)
<1>1. /\ t \in Nat /\ f \in Nat /\ e \in Nat /\ u \in Nat /\ n \in Nat
      /\ na \in Nat
      /\ t > 0 \/ f > 0 \/ e > 0 \/ u > 0 \/ n > 0
  BY MixedCounts, SixCounts
<1>2. Only(c, {"true", "false", "not applicable"}) <=> e = 0 /\ u = 0 /\ n = 0
  BY MixedCounts, OnlySome
<1>3. t % 2 = 1 /\ e = 0 /\ u = 0 /\ n = 0 => Fits("true")
  <2>1. <<"odd", "0+", "0", "0", "0", "0+", "true">> \in ChartXor
    BY DEF ChartXor
  <2>2. ASSUME t % 2 = 1 /\ e = 0 /\ u = 0 /\ n = 0
        PROVE  Cell("odd", t) /\ Cell("0+", f) /\ Cell("0", e)
               /\ Cell("0", u) /\ Cell("0", n) /\ Cell("0+", na)
    BY <1>1, <2>2, Cells, Zenon
  <2> QED BY <2>1, <2>2, RowApplies
<1>4. t % 2 # 1 /\ e = 0 /\ u = 0 /\ n = 0 => Fits("false")
  <2>1. <<"even", "0+", "0", "0", "0", "0+", "false">> \in ChartXor
    BY DEF ChartXor
  <2>2. ASSUME t % 2 # 1 /\ e = 0 /\ u = 0 /\ n = 0
        PROVE  Cell("even", t) /\ Cell("0+", f) /\ Cell("0", e)
               /\ Cell("0", u) /\ Cell("0", n) /\ Cell("0+", na)
    BY <1>1, <2>2, Cells, Zenon
  <2> QED BY <2>1, <2>2, RowApplies
<1>5. e > 0 => Fits("error")
  <2>1. <<"0+", "0+", "1+", "0+", "0+", "0+", "error">> \in ChartXor
    BY DEF ChartXor
  <2>2. ASSUME e > 0
        PROVE  Cell("0+", t) /\ Cell("0+", f) /\ Cell("1+", e)
               /\ Cell("0+", u) /\ Cell("0+", n) /\ Cell("0+", na)
    BY <1>1, <2>2, Cells, Zenon
  <2> QED BY <2>1, <2>2, RowApplies
<1>6. e = 0 /\ u > 0 => Fits("unknown")
  <2>1. <<"0+", "0+", "0", "1+", "0+", "0+", "unknown">> \in ChartXor
    BY DEF ChartXor
  <2>2. ASSUME e = 0 /\ u > 0
        PROVE  Cell("0+", t) /\ Cell("0+", f) /\ Cell("0", e)
               /\ Cell("1+", u) /\ Cell("0+", n) /\ Cell("0+", na)
    BY <1>1, <2>2, Cells, Zenon
  <2> QED BY <2>1, <2>2, RowApplies
<1>7. e = 0 /\ u = 0 /\ n > 0 => Fits("not evaluated")
  <2>1. <<"0+", "0+", "0", "0", "1+", "0+", "not evaluated">> \in ChartXor
    BY DEF ChartXor
  <2>2. ASSUME e = 0 /\ u = 0 /\ n > 0
        PROVE  Cell("0+", t) /\ Cell("0+", f) /\ Cell("0", e)
               /\ Cell("0", u) /\ Cell("1+", n) /\ Cell("0+", na)
    BY <1>1, <2>2, Cells, Zenon
  <2> QED BY <2>1, <2>2, RowApplies
<1> HIDE DEF Fits
<1>8. Fits(CombineXor(c))
  BY <1>1, <1>2, <1>3, <1>4, <1>5, <1>6, <1>7,
     Cells, Zenon DEF CombineXor, Undecided
<1> QED BY <1>8 DEF Fits

-----------------------------------------------------------------------------
(***************************************************************************)
(* All functions together.                                                 *)
(***************************************************************************)
\* Counts that are all not applicable have one row in every chart.
LEMMA NotApplicableFollowsTheCharts ==
  ASSUME NEW c \in Counts, AllNotApplicable(c),
         NEW chart, AllNA \in chart
  PROVE  "not applicable" \in ChartResults(chart, ResultColumns, c)
<1>1. <<"0", "0", "0", "0", "0", "1+", "not applicable">> \in chart BY DEF AllNA
<1>2. /\ c["true"] \in Nat /\ c["false"] \in Nat /\ c["error"] \in Nat
      /\ c["unknown"] \in Nat /\ c["not evaluated"] \in Nat
      /\ c["not applicable"] \in Nat
  BY SixCounts
<1>3. /\ c["true"] = 0 /\ c["false"] = 0 /\ c["error"] = 0
      /\ c["unknown"] = 0 /\ c["not evaluated"] = 0 /\ c["not applicable"] > 0
  BY OnlySome, Zenon DEF AllNotApplicable
<1>4. /\ Cell("0", c["true"]) /\ Cell("0", c["false"]) /\ Cell("0", c["error"])
      /\ Cell("0", c["unknown"]) /\ Cell("0", c["not evaluated"])
      /\ Cell("1+", c["not applicable"])
  BY <1>2, <1>3, Cells, Zenon
<1> QED BY <1>1, <1>4, RowApplies

\* For every tally that is not empty CombineResultsByOperator returns a result
\* that a row of the schema's chart for the operator gives.
THEOREM OperatorsMeetTheirCharts ==
  ASSUME NEW c \in Counts, NEW op \in OperatorEnumeration
  PROVE  CombineResultsByOperator(c, op)
           \in ChartResults(OperatorChart(op), ResultColumns, c)
<1>1. ~Empty(c) BY DEF Counts
<1>2. op = "AND" \/ op = "ONE" \/ op = "OR" \/ op = "XOR"
  BY DEF OperatorEnumeration
<1>3. /\ OperatorChart("AND") = ChartAll /\ OperatorChart("ONE") = ChartOne
      /\ OperatorChart("OR") = ChartAny /\ OperatorChart("XOR") = ChartXor
  BY DEF OperatorChart
<1>4. CASE AllNotApplicable(c)
  <2>1. AllNA \in OperatorChart(op)
    BY <1>2, <1>3 DEF ChartAll, ChartOne, ChartAny, ChartXor
  <2>2. CombineResultsByOperator(c, op) = "not applicable"
    BY <1>1, <1>4 DEF CombineResultsByOperator
  <2> QED BY <1>4, <2>1, <2>2, NotApplicableFollowsTheCharts
<1>5. CASE ~AllNotApplicable(c)
  <2>1. c \in Mixed BY <1>5 DEF Mixed
  <2>2. /\ CombineResultsByOperator(c, "AND") = CombineAll(c)
        /\ CombineResultsByOperator(c, "ONE") = CombineOne(c)
        /\ CombineResultsByOperator(c, "OR") = CombineAny(c)
        /\ CombineResultsByOperator(c, "XOR") = CombineXor(c)
    BY <1>1, <1>5 DEF CombineResultsByOperator
  <2>3. CASE op = "AND" BY <1>3, <2>1, <2>2, <2>3, AllFollowsItsChart
  <2>4. CASE op = "ONE" BY <1>3, <2>1, <2>2, <2>4, OneFollowsItsChart
  <2>5. CASE op = "OR" BY <1>3, <2>1, <2>2, <2>5, AnyFollowsItsChart
  <2>6. CASE op = "XOR" BY <1>3, <2>1, <2>2, <2>6, XorFollowsItsChart
  <2> QED BY <1>2, <2>3, <2>4, <2>5, <2>6
<1> QED BY <1>4, <1>5

\* The same for CombineResultsByCheck.
THEOREM ChecksMeetTheirCharts ==
  ASSUME NEW c \in Counts, NEW check \in CheckEnumeration
  PROVE  CombineResultsByCheck(c, check)
           \in ChartResults(CheckChart(check), ResultColumns, c)
<1>1. ~Empty(c) BY DEF Counts
<1>2. \/ check = "all" \/ check = "at least one" \/ check = "none satisfy"
      \/ check = "only one"
  BY DEF CheckEnumeration
<1>3. /\ CheckChart("all") = ChartAll /\ CheckChart("at least one") = ChartAny
      /\ CheckChart("none satisfy") = ChartNone
      /\ CheckChart("only one") = ChartOne
  BY DEF CheckChart
<1>4. CASE AllNotApplicable(c)
  <2>1. AllNA \in CheckChart(check)
    BY <1>2, <1>3 DEF ChartAll, ChartOne, ChartAny, ChartNone
  <2>2. CombineResultsByCheck(c, check) = "not applicable"
    BY <1>1, <1>4 DEF CombineResultsByCheck
  <2> QED BY <1>4, <2>1, <2>2, NotApplicableFollowsTheCharts
<1>5. CASE ~AllNotApplicable(c)
  <2>1. c \in Mixed BY <1>5 DEF Mixed
  <2>2. /\ CombineResultsByCheck(c, "all") = CombineAll(c)
        /\ CombineResultsByCheck(c, "at least one") = CombineAny(c)
        /\ CombineResultsByCheck(c, "none satisfy") = CombineNone(c)
        /\ CombineResultsByCheck(c, "only one") = CombineOnlyOne(c)
    BY <1>1, <1>5 DEF CombineResultsByCheck
  <2>3. CASE check = "all" BY <1>3, <2>1, <2>2, <2>3, AllFollowsItsChart
  <2>4. CASE check = "at least one"
    BY <1>3, <2>1, <2>2, <2>4, AnyFollowsItsChart
  <2>5. CASE check = "none satisfy"
    BY <1>3, <2>1, <2>2, <2>5, NoneFollowsItsChart
  <2>6. CASE check = "only one"
    BY <1>3, <2>1, <2>2, <2>6, OnlyOneFollowsItsChart
  <2> QED BY <1>2, <2>3, <2>4, <2>5, <2>6
<1> QED BY <1>4, <1>5

-----------------------------------------------------------------------------
(***************************************************************************)
(* Negation.                                                               *)
(***************************************************************************)
\* NegateResult exchanges true and false and keeps the rest.
LEMMA NegatedValue ==
  ASSUME NEW r
  PROVE  /\ NegateResult(r) = "true" <=> r = "false"
         /\ NegateResult(r) = "false" <=> r = "true"
         /\ \A v \in {"error", "unknown", "not evaluated", "not applicable"} :
              NegateResult(r) = v <=> r = v
<1>1. CASE r = "true" BY <1>1 DEF NegateResult
<1>2. CASE r = "false" BY <1>2 DEF NegateResult
<1>3. CASE r # "true" /\ r # "false"
  <2>1. NegateResult(r) = r BY <1>3 DEF NegateResult
  <2> QED BY <1>3, <2>1
<1> QED BY <1>1, <1>2, <1>3

\* The tally of a vector of negated results.
LEMMA NegatedTally ==
  ASSUME NEW s \in Seq(ResultEnumeration)
  PROVE  LET c == ResultTally(s)
             d == ResultTally([i \in DOMAIN s |-> NegateResult(s[i])])
         IN  /\ DOMAIN c = ResultEnumeration /\ DOMAIN d = ResultEnumeration
             /\ d["true"] = c["false"] /\ d["false"] = c["true"]
             /\ \A v \in {"error", "unknown", "not evaluated", "not applicable"} :
                  d[v] = c[v]
<1> DEFINE m == [i \in DOMAIN s |-> NegateResult(s[i])]
           c == ResultTally(s)
           d == ResultTally(m)
           at(q, v) == {i \in DOMAIN q : q[i] = v}
<1>1. /\ DOMAIN c = ResultEnumeration /\ DOMAIN d = ResultEnumeration
      /\ \A v \in ResultEnumeration : c[v] = Cardinality(at(s, v))
      /\ \A v \in ResultEnumeration : d[v] = Cardinality(at(m, v))
  BY DEF ResultTally, Tally
<1>2. DOMAIN m = DOMAIN s /\ \A i \in DOMAIN s : m[i] = NegateResult(s[i])
  OBVIOUS
<1> HIDE DEF c, d, m
<1>3. ASSUME NEW i \in DOMAIN s
      PROVE  /\ m[i] = "true" <=> s[i] = "false"
             /\ m[i] = "false" <=> s[i] = "true"
             /\ \A v \in {"error", "unknown", "not evaluated", "not applicable"} :
                  m[i] = v <=> s[i] = v
  <2>1. m[i] = NegateResult(s[i]) BY <1>2
  <2>2. /\ NegateResult(s[i]) = "true" <=> s[i] = "false"
        /\ NegateResult(s[i]) = "false" <=> s[i] = "true"
    BY NegatedValue
  <2>3. ASSUME NEW v \in {"error", "unknown", "not evaluated", "not applicable"}
        PROVE  NegateResult(s[i]) = v <=> s[i] = v
    BY NegatedValue
  <2> QED BY <2>1, <2>2, <2>3
<1>4. at(m, "true") = at(s, "false") /\ at(m, "false") = at(s, "true")
  BY <1>2, <1>3, Zenon
<1>5. ASSUME NEW v \in {"error", "unknown", "not evaluated", "not applicable"}
      PROVE  at(m, v) = at(s, v)
  BY <1>2, <1>3, Zenon
<1> HIDE DEF at
<1>6. d["true"] = c["false"] /\ d["false"] = c["true"]
  <2>1. "true" \in ResultEnumeration /\ "false" \in ResultEnumeration
    BY DEF ResultEnumeration
  <2> QED BY <1>1, <1>4, <2>1, Zenon
<1>7. \A v \in {"error", "unknown", "not evaluated", "not applicable"} :
        d[v] = c[v]
  <2>1. {"error", "unknown", "not evaluated", "not applicable"}
          \subseteq ResultEnumeration
    BY DEF ResultEnumeration
  <2> QED BY <1>1, <1>5, <2>1, Zenon
<1> QED BY <1>1, <1>6, <1>7 DEF c, d, m

\* Negating every result turns AND into the negation of OR, whatever the counts.
LEMMA DualOfCounts ==
  ASSUME NEW c, NEW d, DOMAIN c = ResultEnumeration, DOMAIN d = ResultEnumeration,
         d["true"] = c["false"], d["false"] = c["true"],
         \A v \in {"error", "unknown", "not evaluated", "not applicable"} :
           d[v] = c[v],
         \A v \in ResultEnumeration : c[v] \in Nat
  PROVE  NegateResult(CombineResultsByOperator(c, "AND"))
           = CombineResultsByOperator(d, "OR")
<1>1. /\ d["error"] = c["error"] /\ d["unknown"] = c["unknown"]
      /\ d["not evaluated"] = c["not evaluated"]
      /\ d["not applicable"] = c["not applicable"]
  OBVIOUS
<1>2. Empty(c) <=> Empty(d) BY <1>1 DEF Empty, ResultEnumeration
<1>3. AllNotApplicable(c) <=> AllNotApplicable(d)
  BY <1>1 DEF AllNotApplicable, Only, ResultEnumeration
<1>4. Undecided(c) = Undecided(d) /\ NegateResult(Undecided(c)) = Undecided(c)
  BY <1>1 DEF Undecided, NegateResult
<1>5. Only(c, {"true", "not applicable"}) <=> Only(d, {"false", "not applicable"})
  BY <1>1 DEF Only, ResultEnumeration
<1>6. c["false"] \in Nat /\ Only(c, {"true", "not applicable"}) => c["false"] = 0
  BY DEF Only, ResultEnumeration
<1>7. c["false"] = 0 => ~(c["false"] > 0) BY Cells, Zenon
<1>8. NegateResult(CombineAll(c)) = CombineAny(d)
  BY <1>1, <1>4, <1>5, <1>6, <1>7 DEF CombineAll, CombineAny, NegateResult,
                                        ResultEnumeration
<1>9. NegateResult("unknown") = "unknown"
      /\ NegateResult("not applicable") = "not applicable"
  BY DEF NegateResult
<1> QED BY <1>2, <1>3, <1>8, <1>9 DEF CombineResultsByOperator

-----------------------------------------------------------------------------
(***************************************************************************)
(* Nesting.  AND and OR return, of the results that were counted, the one  *)
(* that comes first in an order; XOR does so while something is undecided, *)
(* and counts what is true otherwise.  Replacing some of the counts by the *)
(* one result they are combined to changes neither.                        *)
(***************************************************************************)
Counted(c, r) == r \in ResultEnumeration /\ c[r] > 0

\* r is the counted result that comes first.
First(c, rank, r) ==
  Counted(c, r) /\ \A k \in ResultEnumeration : c[k] > 0 => rank[r] <= rank[k]

AndRank == [k \in ResultEnumeration |->
              CASE k = "false" -> 1 [] k = "error" -> 2 [] k = "unknown" -> 3
                [] k = "not evaluated" -> 4 [] k = "true" -> 5
                [] k = "not applicable" -> 6]

OrRank == [k \in ResultEnumeration |->
             CASE k = "true" -> 1 [] k = "error" -> 2 [] k = "unknown" -> 3
               [] k = "not evaluated" -> 4 [] k = "false" -> 5
               [] k = "not applicable" -> 6]

XorRank == [k \in ResultEnumeration |->
              CASE k = "error" -> 1 [] k = "unknown" -> 2
                [] k = "not evaluated" -> 3 [] OTHER -> 4]

Unsettled == {"error", "unknown", "not evaluated"}

\* Names for the strings that hold a space, which the SMT backend cannot read.
NotEvaluated == "not evaluated"
NotApplying == "not applicable"

\* The orders as numbers.
LEMMA Ranks ==
  /\ AndRank["false"] = 1 /\ AndRank["error"] = 2 /\ AndRank["unknown"] = 3
  /\ AndRank[NotEvaluated] = 4 /\ AndRank["true"] = 5
  /\ AndRank[NotApplying] = 6
  /\ OrRank["true"] = 1 /\ OrRank["error"] = 2 /\ OrRank["unknown"] = 3
  /\ OrRank[NotEvaluated] = 4 /\ OrRank["false"] = 5
  /\ OrRank[NotApplying] = 6
  /\ XorRank["error"] = 1 /\ XorRank["unknown"] = 2
  /\ XorRank[NotEvaluated] = 3 /\ XorRank["true"] = 4
  /\ XorRank["false"] = 4 /\ XorRank[NotApplying] = 4
<1>1. /\ AndRank["false"] = 1 /\ AndRank["error"] = 2 /\ AndRank["unknown"] = 3
      /\ AndRank[NotEvaluated] = 4 /\ AndRank["true"] = 5
      /\ AndRank[NotApplying] = 6
  BY DEF AndRank, ResultEnumeration, NotEvaluated, NotApplying
<1>2. /\ OrRank["true"] = 1 /\ OrRank["error"] = 2 /\ OrRank["unknown"] = 3
      /\ OrRank[NotEvaluated] = 4 /\ OrRank["false"] = 5
      /\ OrRank[NotApplying] = 6
  BY DEF OrRank, ResultEnumeration, NotEvaluated, NotApplying
<1>3. /\ XorRank["error"] = 1 /\ XorRank["unknown"] = 2
      /\ XorRank[NotEvaluated] = 3 /\ XorRank["true"] = 4
      /\ XorRank["false"] = 4 /\ XorRank[NotApplying] = 4
  BY DEF XorRank, ResultEnumeration, NotEvaluated, NotApplying
<1> QED BY <1>1, <1>2, <1>3

\* The results one by one.
LEMMA SixResults ==
  ASSUME NEW r \in ResultEnumeration
  PROVE  \/ r = "true" \/ r = "false" \/ r = "error" \/ r = "unknown"
         \/ r = NotEvaluated \/ r = NotApplying
BY DEF ResultEnumeration, NotEvaluated, NotApplying

\* The unsettled ones one by one.
LEMMA ThreeUnsettled ==
  ASSUME NEW r
  PROVE  r \in Unsettled <=> r = "error" \/ r = "unknown" \/ r = NotEvaluated
BY DEF Unsettled, NotEvaluated

\* Two results with the same place in one of the orders are the same result;
\* in that of XOR this holds for those that are unsettled.
LEMMA RanksDiffer ==
  ASSUME NEW k \in ResultEnumeration, NEW l \in ResultEnumeration
  PROVE  /\ AndRank[k] \in Nat /\ OrRank[k] \in Nat /\ XorRank[k] \in Nat
         /\ AndRank[k] = AndRank[l] => k = l
         /\ OrRank[k] = OrRank[l] => k = l
         /\ XorRank[k] = XorRank[l] /\ k \in Unsettled => k = l
         /\ XorRank[k] < 4 <=> k \in Unsettled
<1>1. /\ k = "true" \/ k = "false" \/ k = "error" \/ k = "unknown"
         \/ k = NotEvaluated \/ k = NotApplying
      /\ l = "true" \/ l = "false" \/ l = "error" \/ l = "unknown"
         \/ l = NotEvaluated \/ l = NotApplying
  BY SixResults
<1>2. AndRank[k] = AndRank[l] => k = l BY <1>1, Ranks
<1>3. OrRank[k] = OrRank[l] => k = l BY <1>1, Ranks
<1>4. XorRank[k] = XorRank[l] /\ k \in Unsettled => k = l
  BY <1>1, Ranks, ThreeUnsettled
<1>5. k \notin Unsettled => ~(XorRank[k] < 4)
  BY <1>1, Ranks, ThreeUnsettled
<1>6. k \in Unsettled => XorRank[k] < 4
  BY Ranks, ThreeUnsettled
<1>7. AndRank[k] \in Nat /\ OrRank[k] \in Nat /\ XorRank[k] \in Nat
  BY <1>1, Ranks
<1> QED BY <1>2, <1>3, <1>4, <1>5, <1>6, <1>7

\* OvalEnum.cpp, CombineResultsByOperator: AND returns the first counted result
\* of false, error, unknown, not evaluated, true, not applicable.
LEMMA AndIsFirst ==
  ASSUME NEW c \in Counts
  PROVE  First(c, AndRank, CombineResultsByOperator(c, "AND"))
<1> DEFINE t == c["true"]    f == c["false"]         e == c["error"]
           u == c["unknown"] n == c["not evaluated"] na == c["not applicable"]
           r == CombineResultsByOperator(c, "AND")
<1>1. /\ t \in Nat /\ f \in Nat /\ e \in Nat /\ u \in Nat /\ n \in Nat
      /\ na \in Nat
      /\ t > 0 \/ f > 0 \/ e > 0 \/ u > 0 \/ n > 0 \/ na > 0
  BY SixCounts
<1>2. Only(c, {"true", "not applicable"}) <=>
        f = 0 /\ e = 0 /\ u = 0 /\ n = 0
  BY OnlySome
<1>3. AllNotApplicable(c) <=>
        na > 0 /\ t = 0 /\ f = 0 /\ e = 0 /\ u = 0 /\ n = 0
  BY OnlySome, Zenon DEF AllNotApplicable
<1>4. r = IF AllNotApplicable(c) THEN "not applicable" ELSE CombineAll(c)
  BY DEF Counts, CombineResultsByOperator
<1>5. CombineAll(c) = IF t > 0 /\ f = 0 /\ e = 0 /\ u = 0 /\ n = 0 THEN "true"
                      ELSE IF f > 0 THEN "false"
                      ELSE IF e > 0 THEN "error"
                      ELSE IF u > 0 THEN "unknown"
                      ELSE IF n > 0 THEN "not evaluated" ELSE "unknown"
  BY <1>2, Zenon DEF CombineAll, Undecided
<1> HIDE DEF t, f, e, u, n, na, r
<1>6. \/ r = "false" /\ f > 0
      \/ r = "error" /\ f = 0 /\ e > 0
      \/ r = "unknown" /\ f = 0 /\ e = 0 /\ u > 0
      \/ r = "not evaluated" /\ f = 0 /\ e = 0 /\ u = 0 /\ n > 0
      \/ r = "true" /\ f = 0 /\ e = 0 /\ u = 0 /\ n = 0 /\ t > 0
      \/ r = "not applicable" /\ f = 0 /\ e = 0 /\ u = 0 /\ n = 0 /\ t = 0
         /\ na > 0
  BY <1>1, <1>3, <1>4, <1>5, Cells, Zenon
<1>6a. \/ r = "false" /\ f > 0
       \/ r = "error" /\ f = 0 /\ e > 0
       \/ r = "unknown" /\ f = 0 /\ e = 0 /\ u > 0
       \/ r = NotEvaluated /\ f = 0 /\ e = 0 /\ u = 0 /\ n > 0
       \/ r = "true" /\ f = 0 /\ e = 0 /\ u = 0 /\ n = 0 /\ t > 0
       \/ r = NotApplying /\ f = 0 /\ e = 0 /\ u = 0 /\ n = 0 /\ t = 0
  BY <1>6 DEF NotEvaluated, NotApplying
<1>7. Counted(c, r)
  BY <1>6 DEF Counted, ResultEnumeration, t, f, e, u, n, na
<1>8. ASSUME NEW k \in ResultEnumeration, c[k] > 0
      PROVE  AndRank[r] <= AndRank[k]
  <2>1. CASE k = "true"
    <3>1. t > 0 BY <1>8, <2>1 DEF t
    <3>2. t # 0 BY <1>1, <3>1
    <3> QED BY <1>6a, <2>1, <3>2, Ranks
  <2>2. CASE k = "false"
    <3>1. f > 0 BY <1>8, <2>2 DEF f
    <3>2. f # 0 BY <1>1, <3>1
    <3> QED BY <1>6a, <2>2, <3>2, Ranks
  <2>3. CASE k = "error"
    <3>1. e > 0 BY <1>8, <2>3 DEF e
    <3>2. e # 0 BY <1>1, <3>1
    <3> QED BY <1>6a, <2>3, <3>2, Ranks
  <2>4. CASE k = "unknown"
    <3>1. u > 0 BY <1>8, <2>4 DEF u
    <3>2. u # 0 BY <1>1, <3>1
    <3> QED BY <1>6a, <2>4, <3>2, Ranks
  <2>5. CASE k = NotEvaluated
    <3>1. n > 0 BY <1>8, <2>5 DEF n, NotEvaluated
    <3>2. n # 0 BY <1>1, <3>1
    <3> QED BY <1>6a, <2>5, <3>2, Ranks
  <2>6. CASE k = NotApplying
    <3>1. na > 0 BY <1>8, <2>6 DEF na, NotApplying
    <3>2. na # 0 BY <1>1, <3>1
    <3> QED BY <1>6a, <2>6, <3>2, Ranks
  <2> QED BY <2>1, <2>2, <2>3, <2>4, <2>5, <2>6, SixResults
<1> QED BY <1>7, <1>8 DEF First, r

\* OR returns the first one of true, error, unknown, not evaluated, false, not
\* applicable.
LEMMA OrIsFirst ==
  ASSUME NEW c \in Counts
  PROVE  First(c, OrRank, CombineResultsByOperator(c, "OR"))
<1> DEFINE t == c["true"]    f == c["false"]         e == c["error"]
           u == c["unknown"] n == c["not evaluated"] na == c["not applicable"]
           r == CombineResultsByOperator(c, "OR")
<1>1. /\ t \in Nat /\ f \in Nat /\ e \in Nat /\ u \in Nat /\ n \in Nat
      /\ na \in Nat
      /\ t > 0 \/ f > 0 \/ e > 0 \/ u > 0 \/ n > 0 \/ na > 0
  BY SixCounts
<1>2. Only(c, {"false", "not applicable"}) <=>
        t = 0 /\ e = 0 /\ u = 0 /\ n = 0
  BY OnlySome
<1>3. AllNotApplicable(c) <=>
        na > 0 /\ t = 0 /\ f = 0 /\ e = 0 /\ u = 0 /\ n = 0
  BY OnlySome, Zenon DEF AllNotApplicable
<1>4. r = IF AllNotApplicable(c) THEN "not applicable" ELSE CombineAny(c)
  BY DEF Counts, CombineResultsByOperator
<1>5. CombineAny(c) = IF t > 0 THEN "true"
                      ELSE IF f > 0 /\ t = 0 /\ e = 0 /\ u = 0 /\ n = 0
                             THEN "false"
                      ELSE IF e > 0 THEN "error"
                      ELSE IF u > 0 THEN "unknown"
                      ELSE IF n > 0 THEN "not evaluated" ELSE "unknown"
  BY <1>2, Zenon DEF CombineAny, Undecided
<1> HIDE DEF t, f, e, u, n, na, r
<1>6. \/ r = "true" /\ t > 0
      \/ r = "error" /\ t = 0 /\ e > 0
      \/ r = "unknown" /\ t = 0 /\ e = 0 /\ u > 0
      \/ r = "not evaluated" /\ t = 0 /\ e = 0 /\ u = 0 /\ n > 0
      \/ r = "false" /\ t = 0 /\ e = 0 /\ u = 0 /\ n = 0 /\ f > 0
      \/ r = "not applicable" /\ f = 0 /\ e = 0 /\ u = 0 /\ n = 0 /\ t = 0
         /\ na > 0
  BY <1>1, <1>3, <1>4, <1>5, Cells, Zenon
<1>6a. \/ r = "true" /\ t > 0
       \/ r = "error" /\ t = 0 /\ e > 0
       \/ r = "unknown" /\ t = 0 /\ e = 0 /\ u > 0
       \/ r = NotEvaluated /\ t = 0 /\ e = 0 /\ u = 0 /\ n > 0
       \/ r = "false" /\ t = 0 /\ e = 0 /\ u = 0 /\ n = 0 /\ f > 0
       \/ r = NotApplying /\ f = 0 /\ e = 0 /\ u = 0 /\ n = 0 /\ t = 0
  BY <1>6 DEF NotEvaluated, NotApplying
<1>7. Counted(c, r)
  BY <1>6 DEF Counted, ResultEnumeration, t, f, e, u, n, na
<1>8. ASSUME NEW k \in ResultEnumeration, c[k] > 0
      PROVE  OrRank[r] <= OrRank[k]
  <2>1. CASE k = "true"
    <3>1. t > 0 BY <1>8, <2>1 DEF t
    <3>2. t # 0 BY <1>1, <3>1
    <3> QED BY <1>6a, <2>1, <3>2, Ranks
  <2>2. CASE k = "false"
    <3>1. f > 0 BY <1>8, <2>2 DEF f
    <3>2. f # 0 BY <1>1, <3>1
    <3> QED BY <1>6a, <2>2, <3>2, Ranks
  <2>3. CASE k = "error"
    <3>1. e > 0 BY <1>8, <2>3 DEF e
    <3>2. e # 0 BY <1>1, <3>1
    <3> QED BY <1>6a, <2>3, <3>2, Ranks
  <2>4. CASE k = "unknown"
    <3>1. u > 0 BY <1>8, <2>4 DEF u
    <3>2. u # 0 BY <1>1, <3>1
    <3> QED BY <1>6a, <2>4, <3>2, Ranks
  <2>5. CASE k = NotEvaluated
    <3>1. n > 0 BY <1>8, <2>5 DEF n, NotEvaluated
    <3>2. n # 0 BY <1>1, <3>1
    <3> QED BY <1>6a, <2>5, <3>2, Ranks
  <2>6. CASE k = NotApplying
    <3>1. na > 0 BY <1>8, <2>6 DEF na, NotApplying
    <3>2. na # 0 BY <1>1, <3>1
    <3> QED BY <1>6a, <2>6, <3>2, Ranks
  <2> QED BY <2>1, <2>2, <2>3, <2>4, <2>5, <2>6, SixResults
<1> QED BY <1>7, <1>8 DEF First, r

\* XOR returns the first unsettled result if one was counted, and otherwise
\* whether the number of true ones is odd.
LEMMA XorIsFirstOrParity ==
  ASSUME NEW c \in Counts
  PROVE  LET r == CombineResultsByOperator(c, "XOR")
             t == c["true"]
             f == c["false"]
         IN  /\ (\E k \in Unsettled : c[k] > 0)
                  => r \in Unsettled /\ First(c, XorRank, r)
             /\ ~(\E k \in Unsettled : c[k] > 0)
                  => \/ r = "not applicable" /\ t = 0 /\ f = 0
                     \/ r = "true" /\ t % 2 = 1
                     \/ r = "false" /\ t % 2 = 0 /\ (t > 0 \/ f > 0)
<1> DEFINE t == c["true"]    f == c["false"]         e == c["error"]
           u == c["unknown"] n == c["not evaluated"] na == c["not applicable"]
           r == CombineResultsByOperator(c, "XOR")
           odd == t % 2 = 1
<1>1. /\ t \in Nat /\ f \in Nat /\ e \in Nat /\ u \in Nat /\ n \in Nat
      /\ na \in Nat
      /\ t > 0 \/ f > 0 \/ e > 0 \/ u > 0 \/ n > 0 \/ na > 0
  BY SixCounts
<1>2. Only(c, {"true", "false", "not applicable"}) <=>
        e = 0 /\ u = 0 /\ n = 0
  BY OnlySome
<1>3. AllNotApplicable(c) <=>
        na > 0 /\ t = 0 /\ f = 0 /\ e = 0 /\ u = 0 /\ n = 0
  BY OnlySome, Zenon DEF AllNotApplicable
<1>4. r = IF AllNotApplicable(c) THEN "not applicable" ELSE CombineXor(c)
  BY DEF Counts, CombineResultsByOperator
<1>5. CombineXor(c) = IF e = 0 /\ u = 0 /\ n = 0
                        THEN IF odd THEN "true" ELSE "false"
                      ELSE IF e > 0 THEN "error"
                      ELSE IF u > 0 THEN "unknown"
                      ELSE IF n > 0 THEN "not evaluated" ELSE "unknown"
  BY <1>2, Zenon DEF CombineXor, Undecided
<1>o. odd \/ t % 2 = 0
  <2>1. \A m \in Nat : m % 2 = 1 \/ m % 2 = 0 OBVIOUS
  <2> QED BY <1>1, <2>1
<1>p. (\E k \in Unsettled : c[k] > 0) <=> (e > 0 \/ u > 0 \/ n > 0)
  BY DEF Unsettled
<1> HIDE DEF t, f, e, u, n, na, r, odd
<1>6. \/ r = "error" /\ e > 0
      \/ r = "unknown" /\ e = 0 /\ u > 0
      \/ r = "not evaluated" /\ e = 0 /\ u = 0 /\ n > 0
      \/ e = 0 /\ u = 0 /\ n = 0 /\ t = 0 /\ f = 0 /\ r = "not applicable"
      \/ e = 0 /\ u = 0 /\ n = 0 /\ (t > 0 \/ f > 0)
         /\ r = IF odd THEN "true" ELSE "false"
  BY <1>1, <1>3, <1>4, <1>5, Cells, Zenon
<1>7. ASSUME e > 0 \/ u > 0 \/ n > 0
      PROVE  r \in Unsettled /\ First(c, XorRank, r)
  <2>1. \/ r = "error" /\ e > 0
        \/ r = "unknown" /\ e = 0 /\ u > 0
        \/ r = NotEvaluated /\ e = 0 /\ u = 0 /\ n > 0
    BY <1>1, <1>6, <1>7, Cells, Zenon DEF NotEvaluated
  <2>2. r \in Unsettled /\ Counted(c, r)
    BY <2>1 DEF Unsettled, Counted, ResultEnumeration, NotEvaluated, e, u, n
  <2>3. ASSUME NEW k \in ResultEnumeration, c[k] > 0
        PROVE  XorRank[r] <= XorRank[k]
    <3>1. CASE k = "error"
      <4>1. e > 0 BY <2>3, <3>1 DEF e
      <4>2. e # 0 BY <1>1, <4>1
      <4> QED BY <2>1, <3>1, <4>2, Ranks
    <3>2. CASE k = "unknown"
      <4>1. u > 0 BY <2>3, <3>2 DEF u
      <4>2. u # 0 BY <1>1, <4>1
      <4> QED BY <2>1, <3>2, <4>2, Ranks
    <3>3. CASE k = NotEvaluated
      <4>1. n > 0 BY <2>3, <3>3 DEF n, NotEvaluated
      <4>2. n # 0 BY <1>1, <4>1
      <4> QED BY <2>1, <3>3, <4>2, Ranks
    <3>4. CASE k \notin Unsettled
      <4>1. XorRank[k] = 4 BY <3>4, SixResults, Ranks, ThreeUnsettled
      <4> QED BY <2>1, <4>1, Ranks
    <3> QED BY <3>1, <3>2, <3>3, <3>4, ThreeUnsettled
  <2> QED BY <2>2, <2>3 DEF First
<1>8. ASSUME ~(e > 0 \/ u > 0 \/ n > 0)
      PROVE  \/ r = "not applicable" /\ t = 0 /\ f = 0
             \/ r = "true" /\ odd
             \/ r = "false" /\ t % 2 = 0 /\ (t > 0 \/ f > 0)
  BY <1>6, <1>8, <1>o, Zenon
<1> QED BY <1>7, <1>8, <1>p DEF t, f, r, odd

\* d counts x besides what c counts, and p counts x besides r alone.
Merged(c, d, p, r, x) ==
  \A v \in ResultEnumeration :
    /\ c[v] \in Nat
    /\ d[v] = c[v] + (IF v = x THEN 1 ELSE 0)
    /\ p[v] = (IF v = r THEN 1 ELSE 0) + (IF v = x THEN 1 ELSE 0)

\* What is counted in d and in p.
LEMMA MergedCounts ==
  ASSUME NEW c, NEW d, NEW p, NEW r, NEW x, Merged(c, d, p, r, x),
         NEW v \in ResultEnumeration
  PROVE  /\ c[v] \in Nat /\ d[v] \in Nat /\ p[v] \in Nat
         /\ d[v] > 0 <=> c[v] > 0 \/ v = x
         /\ p[v] > 0 <=> v = r \/ v = x
<1>1. /\ c[v] \in Nat
      /\ d[v] = c[v] + (IF v = x THEN 1 ELSE 0)
      /\ p[v] = (IF v = r THEN 1 ELSE 0) + (IF v = x THEN 1 ELSE 0)
  BY DEF Merged
<1> QED BY <1>1

\* The first result of counts, put in their place, leaves what is first of all.
LEMMA FirstOfMerged ==
  ASSUME NEW c, NEW d, NEW p, NEW r, NEW x \in ResultEnumeration,
         Merged(c, d, p, r, x), NEW rank, NEW v, NEW w,
         First(c, rank, r), First(d, rank, v), First(p, rank, w),
         \A k \in ResultEnumeration : rank[k] \in Nat,
         \A k, l \in ResultEnumeration : rank[k] = rank[l] => k = l
  PROVE  v = w
<1>1. /\ r \in ResultEnumeration /\ c[r] > 0 /\ v \in ResultEnumeration
      /\ d[v] > 0 /\ w \in ResultEnumeration /\ p[w] > 0
  BY DEF First, Counted
<1>2. d[w] > 0 BY <1>1, MergedCounts
<1>3. rank[v] <= rank[w] BY <1>1, <1>2 DEF First
<1>4. rank[w] <= rank[v]
  <2>1. CASE v = x
    <3>1. p[v] > 0 BY <1>1, <2>1, MergedCounts
    <3> QED BY <1>1, <3>1 DEF First
  <2>2. CASE c[v] > 0
    <3>1. p[r] > 0 BY <1>1, MergedCounts
    <3>2. rank[w] <= rank[r] /\ rank[r] <= rank[v]
      BY <1>1, <2>2, <3>1 DEF First
    <3> QED BY <1>1, <3>2
  <2> QED BY <1>1, <2>1, <2>2, MergedCounts
<1> QED BY <1>1, <1>3, <1>4

\* The same for XOR: among what is unsettled the order decides, and without
\* that the parity of a sum is that of the parity of a part and the rest.
LEMMA XorOfMerged ==
  ASSUME NEW c \in Counts, NEW d \in Counts, NEW p \in Counts,
         NEW x \in ResultEnumeration,
         Merged(c, d, p, CombineResultsByOperator(c, "XOR"), x)
  PROVE  CombineResultsByOperator(p, "XOR") = CombineResultsByOperator(d, "XOR")
<1> DEFINE Xor(q) == CombineResultsByOperator(q, "XOR")
           Open(q) == \E k \in Unsettled : q[k] > 0
<1>1. ASSUME NEW q \in Counts
      PROVE  /\ Open(q) => Xor(q) \in Unsettled /\ First(q, XorRank, Xor(q))
             /\ ~Open(q) =>
                  \/ Xor(q) = NotApplying /\ q["true"] = 0 /\ q["false"] = 0
                  \/ Xor(q) = "true" /\ q["true"] % 2 = 1
                  \/ /\ Xor(q) = "false" /\ q["true"] % 2 = 0
                     /\ q["true"] > 0 \/ q["false"] > 0
  BY XorIsFirstOrParity DEF NotApplying
<1>2. Merged(c, d, p, Xor(c), x) OBVIOUS
<1>3. Unsettled \subseteq ResultEnumeration
  BY DEF Unsettled, ResultEnumeration
<1>4. /\ "true" \in ResultEnumeration /\ "false" \in ResultEnumeration
      /\ "true" \notin Unsettled /\ "false" \notin Unsettled
      /\ NotApplying \notin Unsettled
      /\ NotApplying # "true" /\ NotApplying # "false"
  BY DEF ResultEnumeration, Unsettled, NotApplying
<1> HIDE DEF Xor
<1>5. \A k \in ResultEnumeration :
        /\ d[k] > 0 <=> c[k] > 0 \/ k = x
        /\ p[k] > 0 <=> k = Xor(c) \/ k = x
  BY <1>2, MergedCounts
<1>6. ~Open(c) => Xor(c) \notin Unsettled BY <1>1, <1>4
<1>7. Open(c) => Xor(c) \in Unsettled BY <1>1
<1>8. /\ Open(d) <=> Open(c) \/ x \in Unsettled
      /\ Open(p) <=> Xor(c) \in Unsettled \/ x \in Unsettled
  BY <1>3, <1>5
<1> HIDE DEF Open
<1>9. CASE Open(d)
  <2> DEFINE v == Xor(d)
             w == Xor(p)
             r == Xor(c)
  <2>1. Open(p) BY <1>6, <1>7, <1>8, <1>9
  <2>2. /\ v \in Unsettled /\ First(d, XorRank, v)
        /\ w \in Unsettled /\ First(p, XorRank, w)
    BY <1>1, <1>9, <2>1
  <2>3. Open(c) => First(c, XorRank, r) BY <1>1
  <2> HIDE DEF v, w
  <2>4. /\ v \in ResultEnumeration /\ d[v] > 0
        /\ w \in ResultEnumeration /\ p[w] > 0
    BY <2>2 DEF First, Counted
  <2>5. d[w] > 0
    <3>1. CASE w = x BY <1>5, <2>4, <3>1
    <3>2. CASE w = r
      <4>1. Open(c) BY <1>6, <2>2, <3>2
      <4>2. c[r] > 0 BY <2>3, <4>1 DEF First, Counted
      <4> QED BY <1>5, <2>4, <3>2, <4>2
    <3> QED BY <1>5, <2>4, <3>1, <3>2
  <2>6. XorRank[v] <= XorRank[w] BY <2>2, <2>4, <2>5 DEF First
  <2>7. XorRank[w] <= XorRank[v]
    <3>1. CASE v = x
      <4>1. p[v] > 0 BY <1>5, <2>4, <3>1
      <4> QED BY <2>2, <2>4, <4>1 DEF First
    <3>2. CASE c[v] > 0
      <4>1. Open(c) BY <2>2, <3>2 DEF Open
      <4>2. r \in ResultEnumeration /\ XorRank[r] <= XorRank[v]
        BY <2>3, <2>4, <3>2, <4>1 DEF First, Counted
      <4>3. p[r] > 0 BY <1>5, <4>2
      <4>4. XorRank[w] <= XorRank[r] BY <2>2, <4>2, <4>3 DEF First
      <4>5. XorRank[w] \in Nat /\ XorRank[r] \in Nat /\ XorRank[v] \in Nat
        BY <2>4, <4>2, RanksDiffer
      <4> QED BY <4>2, <4>4, <4>5
    <3> QED BY <1>5, <2>4, <3>1, <3>2
  <2>8. XorRank[v] = XorRank[w]
    <3>1. XorRank[w] \in Nat /\ XorRank[v] \in Nat BY <2>4, RanksDiffer
    <3> QED BY <2>6, <2>7, <3>1
  <2>9. v = w BY <2>2, <2>4, <2>8, RanksDiffer
  <2> QED BY <2>9 DEF v, w, Xor
<1>10. CASE ~Open(d)
  <2> DEFINE t == c["true"]
             f == c["false"]
             one(k) == IF x = k THEN 1 ELSE 0
  <2>1. ~Open(c) /\ ~Open(p) BY <1>6, <1>7, <1>8, <1>10
  <2>2. /\ t \in Nat /\ f \in Nat
        /\ d["true"] = t + one("true") /\ d["false"] = f + one("false")
        /\ p["true"] = (IF Xor(c) = "true" THEN 1 ELSE 0) + one("true")
        /\ p["false"] = (IF Xor(c) = "false" THEN 1 ELSE 0) + one("false")
    BY <1>2, <1>4 DEF Merged
  <2>3. /\ \/ Xor(c) = NotApplying /\ t = 0 /\ f = 0
           \/ Xor(c) = "true" /\ t % 2 = 1
           \/ Xor(c) = "false" /\ t % 2 = 0 /\ (t > 0 \/ f > 0)
        /\ \/ Xor(d) = NotApplying /\ d["true"] = 0 /\ d["false"] = 0
           \/ Xor(d) = "true" /\ d["true"] % 2 = 1
           \/ Xor(d) = "false" /\ d["true"] % 2 = 0
              /\ (d["true"] > 0 \/ d["false"] > 0)
        /\ \/ Xor(p) = NotApplying /\ p["true"] = 0 /\ p["false"] = 0
           \/ Xor(p) = "true" /\ p["true"] % 2 = 1
           \/ Xor(p) = "false" /\ p["true"] % 2 = 0
              /\ (p["true"] > 0 \/ p["false"] > 0)
    BY <1>1, <1>10, <2>1
  <2> HIDE DEF t, f
  <2>4. CASE x = "true"
    <3>1. one("true") = 1 /\ one("false") = 0 BY <2>4
    <3>2. (t + 1) % 2 = 1 <=> t % 2 = 0 BY <2>2
    <3>3. (t + 1) % 2 = 0 <=> t % 2 = 1 BY <2>2
    <3> HIDE DEF one
    <3> QED BY <1>4, <2>2, <2>3, <3>1, <3>2, <3>3 DEF Xor
  <2>5. CASE x = "false"
    <3>1. one("true") = 0 /\ one("false") = 1 BY <2>5
    <3> HIDE DEF one
    <3> QED BY <1>4, <2>2, <2>3, <3>1 DEF Xor
  <2>6. CASE x # "true" /\ x # "false"
    <3>1. one("true") = 0 /\ one("false") = 0 BY <2>6
    <3> HIDE DEF one
    <3> QED BY <1>4, <2>2, <2>3, <3>1 DEF Xor
  <2> QED BY <2>4, <2>5, <2>6
<1> QED BY <1>9, <1>10

\* Combining counts to a result and that with another one is combining the
\* counts with that one added, for AND, OR and XOR.
LEMMA CombiningIsAssociative ==
  ASSUME NEW c \in Counts, NEW d \in Counts, NEW p \in Counts,
         NEW x \in ResultEnumeration, NEW op \in {"AND", "OR", "XOR"},
         Merged(c, d, p, CombineResultsByOperator(c, op), x)
  PROVE  CombineResultsByOperator(p, op) = CombineResultsByOperator(d, op)
<1>1. CASE op = "AND"
  <2>1. \A q \in Counts : First(q, AndRank, CombineResultsByOperator(q, op))
    BY <1>1, AndIsFirst
  <2> QED BY <2>1, FirstOfMerged, RanksDiffer
<1>2. CASE op = "OR"
  <2>1. \A q \in Counts : First(q, OrRank, CombineResultsByOperator(q, op))
    BY <1>2, OrIsFirst
  <2> QED BY <2>1, FirstOfMerged, RanksDiffer
<1>3. CASE op = "XOR" BY <1>3, XorOfMerged
<1> QED BY <1>1, <1>2, <1>3
================================================================================
