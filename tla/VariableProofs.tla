---------------------------- MODULE VariableProofs ----------------------------
(***************************************************************************)
(* Circular references end in errors and what is complete is computed from *)
(* what is complete, for all documents and all ways in which collecting an *)
(* object may come out.                                                    *)
(*                                                                         *)
(* The first part is about documents: the recursive functions over         *)
(* components solve their equations, and what refers only to things that   *)
(* lead to no cycle leads to none.  The second is about values: a local    *)
(* variable is an error unless all its object components have read a       *)
(* complete or incomplete object.  The third is the invariant of the stack *)
(* of calls, and one lemma for each thing an action does to it; the fourth *)
(* does the same for the invariant of what is complete.                    *)
(***************************************************************************)
EXTENDS VariableProperties, ProofLemmas

-----------------------------------------------------------------------------
(***************************************************************************)
(* Sequences put one after the other.                                      *)
(***************************************************************************)
\* The result up to element i, from that up to the one before.
FlattenedAt(s, f, i) == IF i = 1 THEN s[i] ELSE f[i - 1] \o s[i]

Solution(s, f) == f = [i \in 1..Len(s) |-> FlattenedAt(s, f, i)]

\* A function on the first natural numbers is a sequence.
LEMMA IsSequence ==
  ASSUME NEW S, NEW n \in Nat, NEW f \in [1..n -> S]
  PROVE  f \in Seq(S) /\ Len(f) = n /\ DOMAIN f = 1..n
OBVIOUS

\* What two sequences hold one after the other.
LEMMA JoinedHolds ==
  ASSUME NEW V, NEW s \in Seq(V), NEW t \in Seq(V)
  PROVE  s \o t \in Seq(V) /\ ToSet(s \o t) = ToSet(s) \cup ToSet(t)
<1>1. s \o t \in Seq(V) /\ Len(s \o t) = Len(s) + Len(t)
  OBVIOUS
<1>2. ASSUME NEW x \in ToSet(s \o t) PROVE x \in ToSet(s) \cup ToSet(t)
  <2>1. PICK i \in 1..(Len(s) + Len(t)) : x = (s \o t)[i]
    BY <1>1, <1>2 DEF ToSet
  <2>2. CASE i <= Len(s)
    BY <2>1, <2>2 DEF ToSet
  <2>3. CASE i > Len(s)
    <3>1. i - Len(s) \in 1..Len(t) /\ x = t[i - Len(s)]
      BY <2>1, <2>3
    <3> QED
      BY <3>1 DEF ToSet
  <2> QED
    BY <2>1, <2>2, <2>3
<1>3. ASSUME NEW x \in ToSet(s) PROVE x \in ToSet(s \o t)
  <2>1. PICK i \in 1..Len(s) : x = s[i]
    BY <1>3 DEF ToSet
  <2>2. i \in 1..(Len(s) + Len(t)) /\ (s \o t)[i] = x
    BY <2>1
  <2> QED
    BY <2>2, <1>1 DEF ToSet
<1>4. ASSUME NEW x \in ToSet(t) PROVE x \in ToSet(s \o t)
  <2>1. PICK i \in 1..Len(t) : x = t[i]
    BY <1>4 DEF ToSet
  <2>2. Len(s) + i \in 1..(Len(s) + Len(t)) /\ (s \o t)[Len(s) + i] = x
    BY <2>1
  <2> QED
    BY <2>2, <1>1 DEF ToSet
<1> QED
  BY <1>1, <1>2, <1>3, <1>4

\* There is a sequence of results up to each element.
LEMMA SolutionExists ==
  ASSUME NEW V, NEW s \in Seq(Seq(V))
  PROVE  \E f \in [1..Len(s) -> Seq(V)] : Solution(s, f)
<1> DEFINE N == 1..Len(s)
           W == Seq(V)
           h == [i \in N |-> i]
           G == [i \in N |-> [f \in [N -> W] |-> FlattenedAt(s, f, i)]]
<1>1. ASSUME NEW i \in N, NEW f \in [N -> W] PROVE FlattenedAt(s, f, i) \in W
  <2>1. i = 1 \/ i - 1 \in N
    OBVIOUS
  <2>2. s[i] \in W
    OBVIOUS
  <2>3. i - 1 \in N => f[i - 1] \in W
    OBVIOUS
  <2> QED
    BY <2>1, <2>2, <2>3 DEF FlattenedAt
<1>2. W # {} /\ h \in [N -> Nat] /\ G \in [N -> [[N -> W] -> W]]
  <2>1. << >> \in W
    OBVIOUS
  <2> HIDE DEF W
  <2> QED
    BY <2>1, <1>1
<1>3. ReadsBelow(N, W, h, G)
  <2> SUFFICES ASSUME NEW i \in N, NEW f \in [N -> W], NEW g \in [N -> W],
                      \A j \in N : h[j] < h[i] => f[j] = g[j]
               PROVE  G[i][f] = G[i][g]
    BY DEF ReadsBelow
  <2>1. i = 1 \/ (i - 1 \in N /\ h[i - 1] < h[i])
    OBVIOUS
  <2>2. FlattenedAt(s, f, i) = FlattenedAt(s, g, i)
    BY <2>1 DEF FlattenedAt
  <2> QED
    BY <2>2
<1>4. Recursion(N, W, h, G)
  <2> HIDE DEF W, h, G, N
  <2> QED
    BY <1>2, <1>3 DEF Recursion
<1>5. PICK f \in [N -> W] : \A i \in N : f[i] = G[i][f]
  <2> HIDE DEF W, h, G, N
  <2> QED
    BY <1>4, RecursionByHeight
<1>6. Solution(s, f)
  BY <1>5 DEF Solution
<1> QED
  BY <1>5, <1>6

\* A concatenation of sequences holds what they hold.
LEMMA Flattened ==
  ASSUME NEW V, NEW s \in Seq(Seq(V))
  PROVE  /\ FlattenSeq(s) \in Seq(V)
         /\ ToSet(FlattenSeq(s)) = UNION {ToSet(s[i]) : i \in DOMAIN s}
<1>1. CASE Len(s) = 0
  <2>1. s = << >> /\ FlattenSeq(s) = s
    BY <1>1 DEF FlattenSeq
  <2>2. DOMAIN s = {}
    BY <2>1
  <2>3. ToSet(s) = {} /\ UNION {ToSet(s[i]) : i \in DOMAIN s} = {}
    BY <2>2 DEF ToSet
  <2>4. s \in Seq(V)
    BY <2>1
  <2> QED
    BY <2>1, <2>3, <2>4, Zenon
<1>2. CASE Len(s) # 0
  <2> DEFINE f == CHOOSE f : Solution(s, f)
             n == Len(s)
             Holds(i) == /\ f[i] \in Seq(V)
                         /\ ToSet(f[i]) = UNION {ToSet(s[j]) : j \in 1..i}
             Q == {i \in 0..n : i = 0 \/ Holds(i)}
  <2>1. FlattenSeq(s) = f[n]
    BY <1>2 DEF FlattenSeq, Solution, FlattenedAt
  <2>2. Solution(s, f)
    BY SolutionExists
  <2>3. \A i \in 1..n : f[i] = FlattenedAt(s, f, i)
    <3> HIDE DEF f
    <3> QED
      BY <2>2 DEF Solution
  <2>4. n \in Nat /\ n # 0 /\ \A i \in 1..n : s[i] \in Seq(V)
    BY <1>2
  <2>5. ASSUME NEW i \in 0..(n - 1), i \in Q PROVE i + 1 \in Q
    <3>1. i + 1 \in 1..n /\ i + 1 \in 0..n /\ 1..(i + 1) = 1..i \cup {i + 1}
      BY <2>4
    <3>2. CASE i = 0
      <4>1. f[1] = s[1] /\ 1 \in 1..n
        BY <2>3, <2>4 DEF FlattenedAt
      <4>2. Holds(1)
        <5>1. s[1] \in Seq(V) /\ 1..1 = {1}
          BY <2>4, <4>1
        <5>2. UNION {ToSet(s[j]) : j \in {1}} = ToSet(s[1])
          OBVIOUS
        <5> HIDE DEF f, n
        <5> QED
          BY <4>1, <5>1, <5>2
      <4> HIDE DEF f, Holds
      <4> QED
        BY <3>1, <3>2, <4>2
    <3>3. CASE i # 0
      <4>1. f[i + 1] = f[i] \o s[i + 1]
        <5>1. i + 1 # 1 /\ (i + 1) - 1 = i
          BY <3>3
        <5> HIDE DEF f, n
        <5> QED
          BY <2>3, <3>1, <5>1 DEF FlattenedAt
      <4>2. Holds(i)
        BY <2>5, <3>3
      <4>3. f[i + 1] \in Seq(V) /\ ToSet(f[i + 1]) = ToSet(f[i]) \cup ToSet(s[i + 1])
        <5> HIDE DEF f, n
        <5> QED
          BY <4>1, <4>2, <2>4, <3>1, JoinedHolds
      <4>4. Holds(i + 1)
        <5> HIDE DEF f, n
        <5> QED
          BY <4>2, <4>3, <3>1
      <4> HIDE DEF f, Holds
      <4> QED
        BY <3>1, <4>4
    <3> QED
      BY <3>2, <3>3
  <2>6. 0..n \subseteq Q
    <3>1. 0 \in Q
      BY <2>4
    <3> HIDE DEF Q, n
    <3> QED
      BY <3>1, <2>4, <2>5, UpTo
  <2>7. Holds(n)
    <3> HIDE DEF f, Holds
    <3> QED
      BY <2>4, <2>6
  <2>8. DOMAIN s = 1..n
    OBVIOUS
  <2> HIDE DEF f, n
  <2> QED
    BY <2>1, <2>7, <2>8
<1> QED
  BY <1>1, <1>2
-----------------------------------------------------------------------------
(***************************************************************************)
(* Documents.                                                              *)
(***************************************************************************)
Parts(d) == DOMAIN d.components

\* What the schema says of a document.
LEMMA DocumentFacts ==
  ASSUME NEW d \in Documents
  PROVE  /\ d.objects \in Seq(Object) /\ ToSet(d.objects) = Object
         /\ d.needs \in [Object -> Seq(Variable)] /\ d.states \in Seq(Seq(Variable))
         /\ DOMAIN d.variables \subseteq Variable
         /\ \A v \in DOMAIN d.variables :
              d.variables[v].kind = "local" => d.variables[v].component \in Parts(d)
         /\ d.height \in [Parts(d) -> Nat]
         /\ \A c \in Parts(d) : IsComponent(d, c)
BY VariablesAssumption DEF IsDocument, Parts

\* What the schema says of a component.
LEMMA ComponentFacts ==
  ASSUME NEW d \in Documents, NEW c \in Parts(d)
  PROVE  /\ d.components[c].kind \in ComponentKind
         /\ d.components[c].kids \in Seq(Parts(d))
         /\ \A i \in DOMAIN d.components[c].kids :
              /\ d.components[c].kids[i] \in Parts(d)
              /\ d.height[d.components[c].kids[i]] < d.height[c]
         /\ d.components[c].kind = "object_component" => d.components[c].object \in Object
         /\ d.components[c].kind = "variable_component" =>
              d.components[c].variable \in Variable
<1>1. IsComponent(d, c)
  BY DocumentFacts
<1> QED
  BY <1>1 DEF IsComponent, Parts

\* The kinds are different.
LEMMA KindsDiffer ==
  /\ UnsupportedFunction \notin FunctionKind
  /\ UnsupportedFunction # "variable_component" /\ UnsupportedFunction # "object_component"
  /\ "variable_component" \notin FunctionKind /\ "object_component" \notin FunctionKind
  /\ "literal_component" \notin FunctionKind
BY Zenon DEF UnsupportedFunction, FunctionKind

Kids(d, c) == d.components[c].kids
Order(d, c) == EvaluationOrder(d.components[c])

\* What the sequences f gives the components of a component hold.
Holdings(d, f, c) == UNION {ToSet(f[Kids(d, c)[i]]) : i \in DOMAIN Kids(d, c)}

\* These sequences one after the other, in order and in the order of evaluation.
InOrder(d, f, c) == FlattenSeq([i \in DOMAIN Kids(d, c) |-> f[Kids(d, c)[i]]])
Evaluated(d, f, c) == FlattenSeq([i \in DOMAIN Order(d, c) |-> f[Kids(d, c)[Order(d, c)[i]]]])

\* f gives sequences of members of V to the components of a component.
Gives(d, f, c, V) == \A i \in DOMAIN Kids(d, c) : f[Kids(d, c)[i]] \in Seq(V)

\* The positions of a sequence reversed.
LEMMA ReversedFacts ==
  ASSUME NEW n \in Nat, NEW r, r = [i \in 1..n |-> (n - i) + 1]
  PROVE  /\ r \in [1..n -> 1..n]
         /\ \A i \in 1..n : \E j \in 1..n : r[j] = i
<1>1. \A i \in 1..n : (n - i) + 1 \in 1..n /\ (n - ((n - i) + 1)) + 1 = i
  OBVIOUS
<1>2. \A i \in 1..n : r[(n - i) + 1] = i
  BY <1>1
<1> QED
  BY <1>1, <1>2

\* A component's components are evaluated from the first to the last or the
\* other way round.
LEMMA OrderFacts ==
  ASSUME NEW d \in Documents, NEW c \in Parts(d)
  PROVE  /\ DOMAIN Order(d, c) = DOMAIN Kids(d, c)
         /\ DOMAIN Kids(d, c) = 1..Len(Kids(d, c)) /\ Len(Kids(d, c)) \in Nat
         /\ \A i \in DOMAIN Kids(d, c) : Order(d, c)[i] \in DOMAIN Kids(d, c)
         /\ \A i \in DOMAIN Kids(d, c) : \E j \in DOMAIN Kids(d, c) : Order(d, c)[j] = i
<1> DEFINE n == Len(Kids(d, c))
           inOrder == [i \in 1..n |-> i]
           reversed == [i \in 1..n |-> (n - i) + 1]
<1>1. n \in Nat /\ DOMAIN Kids(d, c) = 1..n
  BY ComponentFacts DEF Kids
<1>2. Reverse(inOrder) = reversed
  <2>1. Len(inOrder) = n
    BY <1>1
  <2>2. \A i \in 1..n : inOrder[(n - i) + 1] = (n - i) + 1
    BY <1>1
  <2> QED
    BY <2>1, <2>2 DEF Reverse
<1>3. Order(d, c) = inOrder \/ Order(d, c) = reversed
  BY <1>1, <1>2 DEF EvaluationOrder, Order, Kids
<1>4. reversed \in [1..n -> 1..n] /\ \A i \in 1..n : \E j \in 1..n : reversed[j] = i
  <2> HIDE DEF n
  <2> QED
    BY <1>1, ReversedFacts
<1>5. inOrder \in [1..n -> 1..n] /\ \A i \in 1..n : \E j \in 1..n : inOrder[j] = i
  OBVIOUS
<1> HIDE DEF inOrder, reversed, n
<1> QED
  BY <1>1, <1>3, <1>4, <1>5 DEF n

\* Going over a component's components in either order, what they hold is put
\* together.
LEMMA KidsFlattened ==
  ASSUME NEW d \in Documents, NEW c \in Parts(d), NEW V, NEW f, Gives(d, f, c, V)
  PROVE  /\ InOrder(d, f, c) \in Seq(V) /\ ToSet(InOrder(d, f, c)) = Holdings(d, f, c)
         /\ Evaluated(d, f, c) \in Seq(V) /\ ToSet(Evaluated(d, f, c)) = Holdings(d, f, c)
<1> DEFINE n == Len(Kids(d, c))
           s == [i \in DOMAIN Kids(d, c) |-> f[Kids(d, c)[i]]]
           t == [i \in DOMAIN Order(d, c) |-> f[Kids(d, c)[Order(d, c)[i]]]]
<1>1. /\ DOMAIN Order(d, c) = 1..n /\ DOMAIN Kids(d, c) = 1..n /\ n \in Nat
      /\ \A i \in 1..n : Order(d, c)[i] \in 1..n
      /\ \A i \in 1..n : \E j \in 1..n : Order(d, c)[j] = i
  <2>1. /\ DOMAIN Order(d, c) = DOMAIN Kids(d, c) /\ DOMAIN Kids(d, c) = 1..n /\ n \in Nat
    BY OrderFacts
  <2>2. /\ \A i \in DOMAIN Kids(d, c) : Order(d, c)[i] \in DOMAIN Kids(d, c)
        /\ \A i \in DOMAIN Kids(d, c) : \E j \in DOMAIN Kids(d, c) : Order(d, c)[j] = i
    BY OrderFacts
  <2> HIDE DEF n
  <2> QED
    BY <2>1, <2>2
<1>2. /\ \A i \in 1..n : s[i] = f[Kids(d, c)[i]] /\ s[i] \in Seq(V)
      /\ \A i \in 1..n : t[i] = f[Kids(d, c)[Order(d, c)[i]]] /\ t[i] \in Seq(V)
  BY <1>1 DEF Gives
<1>3. s \in [1..n -> Seq(V)] /\ t \in [1..n -> Seq(V)]
  BY <1>1, <1>2
<1>4. /\ s \in Seq(Seq(V)) /\ DOMAIN s = 1..n /\ t \in Seq(Seq(V)) /\ DOMAIN t = 1..n
  <2> HIDE DEF s, t, n
  <2> QED
    BY <1>1, <1>3, IsSequence
<1>5. InOrder(d, f, c) = FlattenSeq(s) /\ Evaluated(d, f, c) = FlattenSeq(t)
  BY DEF InOrder, Evaluated
<1> HIDE DEF s, t, n
<1>6. /\ FlattenSeq(s) \in Seq(V) /\ ToSet(FlattenSeq(s)) = UNION {ToSet(s[i]) : i \in DOMAIN s}
      /\ FlattenSeq(t) \in Seq(V) /\ ToSet(FlattenSeq(t)) = UNION {ToSet(t[i]) : i \in DOMAIN t}
  BY <1>4, Flattened
<1>7. UNION {ToSet(s[i]) : i \in DOMAIN s} = Holdings(d, f, c)
  BY <1>1, <1>2, <1>4 DEF Holdings
<1>8. UNION {ToSet(t[i]) : i \in DOMAIN t} = Holdings(d, f, c)
  <2>1. ASSUME NEW i \in 1..n PROVE \E j \in 1..n : t[i] = f[Kids(d, c)[j]]
    BY <1>1, <1>2
  <2>2. ASSUME NEW j \in 1..n PROVE \E i \in 1..n : t[i] = f[Kids(d, c)[j]]
    <3>1. PICK i \in 1..n : Order(d, c)[i] = j
      BY <1>1
    <3> QED
      BY <3>1, <1>2
  <2>3. Holdings(d, f, c) = UNION {ToSet(f[Kids(d, c)[i]]) : i \in 1..n}
    BY <1>1 DEF Holdings
  <2>4. ASSUME NEW x PROVE x \in UNION {ToSet(t[i]) : i \in 1..n} <=> x \in Holdings(d, f, c)
    BY ZenonT(40), <2>1, <2>2, <2>3
  <2> QED
    BY <1>4, <2>4
<1> QED
  BY <1>5, <1>6, <1>7, <1>8

\* What LeavesAt puts together.
LEMMA LeavesAtFacts ==
  ASSUME NEW d \in Documents, NEW c \in Parts(d), NEW f, Gives(d, f, c, Parts(d))
  PROVE  /\ LeavesAt(d, f, c) \in Seq(Parts(d))
         /\ d.components[c].kind = "object_component" => ToSet(LeavesAt(d, f, c)) = {c}
         /\ d.components[c].kind \in FunctionKind =>
              ToSet(LeavesAt(d, f, c)) = Holdings(d, f, c)
<1>1. CASE d.components[c].kind = "object_component"
  <2>1. LeavesAt(d, f, c) = <<c>> /\ d.components[c].kind \notin FunctionKind
    BY <1>1, KindsDiffer DEF LeavesAt
  <2>2. <<c>> \in Seq(Parts(d)) /\ ToSet(<<c>>) = {c}
    BY DEF ToSet
  <2> QED
    BY <2>1, <2>2
<1>2. CASE d.components[c].kind \in FunctionKind
  <2>1. /\ LeavesAt(d, f, c) = Evaluated(d, f, c)
        /\ d.components[c].kind # "object_component"
    BY <1>2, KindsDiffer DEF LeavesAt, Evaluated, Kids, Order
  <2> QED
    BY <2>1, <1>2, KidsFlattened
<1>3. CASE d.components[c].kind \notin FunctionKind \cup {"object_component"}
  <2>1. LeavesAt(d, f, c) = << >>
    BY <1>3 DEF LeavesAt
  <2> QED
    BY <2>1, <1>3
<1> QED
  BY <1>1, <1>2, <1>3

Referenced == Variable \cup {UnsupportedFunction}

\* What ReferencesAt puts together.
LEMMA ReferencesAtFacts ==
  ASSUME NEW d \in Documents, NEW c \in Parts(d), NEW f, Gives(d, f, c, Referenced)
  PROVE  /\ ReferencesAt(d, f, c) \in Seq(Referenced)
         /\ d.components[c].kind = "variable_component" =>
              ToSet(ReferencesAt(d, f, c)) = {d.components[c].variable}
         /\ d.components[c].kind = UnsupportedFunction =>
              ToSet(ReferencesAt(d, f, c)) = {UnsupportedFunction}
         /\ d.components[c].kind \in FunctionKind =>
              ToSet(ReferencesAt(d, f, c)) = Holdings(d, f, c)
<1>1. CASE d.components[c].kind = "variable_component"
  <2>1. /\ ReferencesAt(d, f, c) = <<d.components[c].variable>>
        /\ d.components[c].kind \notin FunctionKind \cup {UnsupportedFunction}
    BY <1>1, KindsDiffer DEF ReferencesAt
  <2>2. d.components[c].variable \in Variable
    BY <1>1, ComponentFacts
  <2> QED
    BY <2>1, <2>2 DEF ToSet, Referenced
<1>2. CASE d.components[c].kind = UnsupportedFunction
  <2>1. /\ ReferencesAt(d, f, c) = <<UnsupportedFunction>>
        /\ d.components[c].kind \notin FunctionKind \cup {"variable_component"}
    BY <1>2, KindsDiffer DEF ReferencesAt
  <2> QED
    BY <2>1, <1>2 DEF ToSet, Referenced
<1>3. CASE d.components[c].kind \in FunctionKind
  <2>1. /\ ReferencesAt(d, f, c) = InOrder(d, f, c)
        /\ d.components[c].kind \notin {"variable_component", UnsupportedFunction}
    BY <1>3, KindsDiffer DEF ReferencesAt, InOrder, Kids
  <2> QED
    BY <2>1, <1>3, KidsFlattened
<1>4. CASE d.components[c].kind \notin FunctionKind \cup {"variable_component", UnsupportedFunction}
  <2>1. ReferencesAt(d, f, c) = << >>
    BY <1>4 DEF ReferencesAt
  <2> QED
    BY <2>1, <1>4
<1> QED
  BY <1>1, <1>2, <1>3, <1>4

\* Both only read what f gives the components inside.
LEMMA AtReadsBelow ==
  ASSUME NEW d \in Documents, NEW c \in Parts(d), NEW f, NEW g,
         \A m \in Parts(d) : d.height[m] < d.height[c] => f[m] = g[m]
  PROVE  LeavesAt(d, f, c) = LeavesAt(d, g, c) /\ ReferencesAt(d, f, c) = ReferencesAt(d, g, c)
<1>1. \A i \in DOMAIN Kids(d, c) : f[Kids(d, c)[i]] = g[Kids(d, c)[i]]
  BY ComponentFacts DEF Kids
<1>2. InOrder(d, f, c) = InOrder(d, g, c)
  <2>1. [i \in DOMAIN Kids(d, c) |-> f[Kids(d, c)[i]]] = [i \in DOMAIN Kids(d, c) |-> g[Kids(d, c)[i]]]
    BY <1>1
  <2> QED
    BY <2>1, Zenon DEF InOrder
<1>3. Evaluated(d, f, c) = Evaluated(d, g, c)
  <2>1. \A i \in DOMAIN Order(d, c) :
          f[Kids(d, c)[Order(d, c)[i]]] = g[Kids(d, c)[Order(d, c)[i]]]
    BY <1>1, OrderFacts
  <2>2. [i \in DOMAIN Order(d, c) |-> f[Kids(d, c)[Order(d, c)[i]]]]
          = [i \in DOMAIN Order(d, c) |-> g[Kids(d, c)[Order(d, c)[i]]]]
    BY <2>1
  <2> QED
    BY <2>2, Zenon DEF Evaluated
<1>4. LeavesAt(d, f, c) = LeavesAt(d, g, c)
  BY <1>3, Zenon DEF LeavesAt, Evaluated, Kids, Order
<1>5. ReferencesAt(d, f, c) = ReferencesAt(d, g, c)
  BY <1>2, Zenon DEF ReferencesAt, InOrder, Kids
<1> QED
  BY <1>4, <1>5

\* ObjectLeaves solves its equation.
LEMMA LeavesSolve ==
  ASSUME NEW d \in Documents
  PROVE  /\ ObjectLeaves(d) \in [Parts(d) -> Seq(Parts(d))]
         /\ \A c \in Parts(d) : ObjectLeaves(d)[c] = LeavesAt(d, ObjectLeaves(d), c)
<1> DEFINE N == Parts(d)
           V == Seq(Parts(d))
           h == d.height
           G == [c \in N |-> [f \in [N -> V] |-> LeavesAt(d, f, c)]]
           Solves(f) == f = [c \in N |-> LeavesAt(d, f, c)]
<1>1. ASSUME NEW c \in N, NEW f \in [N -> V] PROVE LeavesAt(d, f, c) \in V
  <2>1. Gives(d, f, c, Parts(d))
    BY ComponentFacts DEF Gives, Kids
  <2> QED
    BY <2>1, LeavesAtFacts
<1>2. V # {} /\ h \in [N -> Nat] /\ G \in [N -> [[N -> V] -> V]]
  <2>1. << >> \in V /\ h \in [N -> Nat]
    BY DocumentFacts
  <2> HIDE DEF V, N
  <2> QED
    BY <2>1, <1>1
<1>3. ReadsBelow(N, V, h, G)
  <2> HIDE DEF V
  <2> SUFFICES ASSUME NEW c \in N, NEW f \in [N -> V], NEW g \in [N -> V],
                      \A m \in N : h[m] < h[c] => f[m] = g[m]
               PROVE  G[c][f] = G[c][g]
    BY DEF ReadsBelow
  <2>1. LeavesAt(d, f, c) = LeavesAt(d, g, c)
    BY AtReadsBelow
  <2> QED
    BY <2>1
<1>4. PICK f \in [N -> V] : \A c \in N : f[c] = G[c][f]
  <2> HIDE DEF G, V, N, h
  <2>1. Recursion(N, V, h, G)
    BY <1>2, <1>3 DEF Recursion
  <2> QED
    BY <2>1, RecursionByHeight
<1>5. Solves(f)
  BY <1>4
<1>6. ObjectLeaves(d) = CHOOSE g : Solves(g)
  BY DEF ObjectLeaves, Parts
<1> DEFINE g == CHOOSE g : Solves(g)
<1>7. Solves(g)
  <2> HIDE DEF Solves
  <2> QED
    BY <1>5
<1> HIDE DEF g
<1>8. \A c \in N : g[c] = LeavesAt(d, g, c)
  BY <1>7
<1>9. \A c \in N : g[c] \in V
  <2> DEFINE P == {c \in N : g[c] \in V}
  <2>1. ASSUME NEW c \in N, \A m \in N : h[m] < h[c] => m \in P PROVE c \in P
    <3>1. Gives(d, g, c, Parts(d))
      BY <2>1, ComponentFacts DEF Gives, Kids
    <3>2. LeavesAt(d, g, c) \in V
      BY <3>1, LeavesAtFacts
    <3> QED
      BY <3>2, <1>8
  <2>2. N \subseteq P
    <3> HIDE DEF P, V, N, h
    <3> QED
      BY <1>2, <2>1, ByHeight
  <2> QED
    BY <2>2
<1>10. g \in [N -> V]
  <2> HIDE DEF V
  <2> QED
    BY <1>7, <1>9
<1> QED
  BY <1>6, <1>8, <1>10 DEF g

\* References solves its equation.
LEMMA ReferencesSolve ==
  ASSUME NEW d \in Documents
  PROVE  /\ References(d) \in [Parts(d) -> Seq(Referenced)]
         /\ \A c \in Parts(d) : References(d)[c] = ReferencesAt(d, References(d), c)
<1> DEFINE N == Parts(d)
           V == Seq(Referenced)
           h == d.height
           G == [c \in N |-> [f \in [N -> V] |-> ReferencesAt(d, f, c)]]
           Solves(f) == f = [c \in N |-> ReferencesAt(d, f, c)]
<1>1. ASSUME NEW c \in N, NEW f \in [N -> V] PROVE ReferencesAt(d, f, c) \in V
  <2>1. Gives(d, f, c, Referenced)
    BY ComponentFacts DEF Gives, Kids
  <2> QED
    BY <2>1, ReferencesAtFacts
<1>2. V # {} /\ h \in [N -> Nat] /\ G \in [N -> [[N -> V] -> V]]
  <2>1. << >> \in V /\ h \in [N -> Nat]
    BY DocumentFacts
  <2> HIDE DEF V, N
  <2> QED
    BY <2>1, <1>1
<1>3. ReadsBelow(N, V, h, G)
  <2> HIDE DEF V
  <2> SUFFICES ASSUME NEW c \in N, NEW f \in [N -> V], NEW g \in [N -> V],
                      \A m \in N : h[m] < h[c] => f[m] = g[m]
               PROVE  G[c][f] = G[c][g]
    BY DEF ReadsBelow
  <2>1. ReferencesAt(d, f, c) = ReferencesAt(d, g, c)
    BY AtReadsBelow
  <2> QED
    BY <2>1
<1>4. PICK f \in [N -> V] : \A c \in N : f[c] = G[c][f]
  <2> HIDE DEF G, V, N, h
  <2>1. Recursion(N, V, h, G)
    BY <1>2, <1>3 DEF Recursion
  <2> QED
    BY <2>1, RecursionByHeight
<1>5. Solves(f)
  BY <1>4
<1>6. References(d) = CHOOSE g : Solves(g)
  BY DEF References, Parts
<1> DEFINE g == CHOOSE g : Solves(g)
<1>7. Solves(g)
  <2> HIDE DEF Solves
  <2> QED
    BY <1>5
<1> HIDE DEF g
<1>8. \A c \in N : g[c] = ReferencesAt(d, g, c)
  BY <1>7
<1>9. \A c \in N : g[c] \in V
  <2> DEFINE P == {c \in N : g[c] \in V}
  <2>1. ASSUME NEW c \in N, \A m \in N : h[m] < h[c] => m \in P PROVE c \in P
    <3>1. Gives(d, g, c, Referenced)
      BY <2>1, ComponentFacts DEF Gives, Kids
    <3>2. ReferencesAt(d, g, c) \in V
      BY <3>1, ReferencesAtFacts
    <3> QED
      BY <3>2, <1>8
  <2>2. N \subseteq P
    <3> HIDE DEF P, V, N, h
    <3> QED
      BY <1>2, <2>1, ByHeight
  <2> QED
    BY <2>2
<1>10. g \in [N -> V]
  <2> HIDE DEF V
  <2> QED
    BY <1>7, <1>9
<1> QED
  BY <1>6, <1>8, <1>10 DEF g

\* What the object components under a component are.
LEMMA LeavesFacts ==
  ASSUME NEW d \in Documents, NEW c \in Parts(d)
  PROVE  /\ ObjectLeaves(d)[c] \in Seq(Parts(d))
         /\ d.components[c].kind = "object_component" => ToSet(ObjectLeaves(d)[c]) = {c}
         /\ d.components[c].kind \in FunctionKind =>
              ToSet(ObjectLeaves(d)[c]) = Holdings(d, ObjectLeaves(d), c)
         /\ d.components[c].kind \notin FunctionKind \cup {"object_component"} =>
              ToSet(ObjectLeaves(d)[c]) = {}
<1>1. /\ ObjectLeaves(d) \in [Parts(d) -> Seq(Parts(d))]
      /\ ObjectLeaves(d)[c] = LeavesAt(d, ObjectLeaves(d), c)
  BY LeavesSolve
<1>2. Gives(d, ObjectLeaves(d), c, Parts(d))
  BY <1>1, ComponentFacts DEF Gives, Kids
<1>3. d.components[c].kind \notin FunctionKind \cup {"object_component"} =>
        ToSet(ObjectLeaves(d)[c]) = {}
  <2> SUFFICES ASSUME d.components[c].kind \notin FunctionKind \cup {"object_component"}
               PROVE  ToSet(ObjectLeaves(d)[c]) = {}
    OBVIOUS
  <2>1. LeavesAt(d, ObjectLeaves(d), c) = << >>
    BY DEF LeavesAt
  <2> QED
    BY <1>1, <2>1 DEF ToSet
<1> QED
  BY <1>1, <1>2, <1>3, LeavesAtFacts

\* What the references of a component are.
LEMMA ReferencesFacts ==
  ASSUME NEW d \in Documents, NEW c \in Parts(d)
  PROVE  /\ References(d)[c] \in Seq(Referenced)
         /\ d.components[c].kind = "variable_component" =>
              ToSet(References(d)[c]) = {d.components[c].variable}
         /\ d.components[c].kind = UnsupportedFunction =>
              ToSet(References(d)[c]) = {UnsupportedFunction}
         /\ d.components[c].kind \in FunctionKind =>
              ToSet(References(d)[c]) = Holdings(d, References(d), c)
<1>1. /\ References(d) \in [Parts(d) -> Seq(Referenced)]
      /\ References(d)[c] = ReferencesAt(d, References(d), c)
  BY ReferencesSolve
<1>2. Gives(d, References(d), c, Referenced)
  BY <1>1, ComponentFacts DEF Gives, Kids
<1> QED
  BY <1>1, <1>2, ReferencesAtFacts

-----------------------------------------------------------------------------
(***************************************************************************)
(* What a variable or an object refers to, by way of others.               *)
(***************************************************************************)
Nodes == Variable \cup Object

IsLocal(d, v) == v \in DOMAIN d.variables /\ d.variables[v].kind = "local"
RootOf(d, v) == d.variables[v].component
VariablesOf(d, c) == ToSet(References(d)[c]) \ {UnsupportedFunction}
ObjectsUnder(d, c) == {d.components[m].object : m \in ToSet(ObjectLeaves(d)[c])}

On(d, n) ==
  CASE n \in Object -> ToSet(d.needs[n])
    [] IsLocal(d, n) -> VariablesOf(d, RootOf(d, n)) \cup ObjectsUnder(d, RootOf(d, n))
    [] OTHER -> {}

Closed(d, S) == \A n \in S : On(d, n) \subseteq S

\* The least set that has what n refers to and what its members refer to.
Reach(d, n) == {m \in Nodes : \A S \in SUBSET Nodes :
                                On(d, n) \subseteq S /\ Closed(d, S) => m \in S}

\* n is not on a cycle, nor is anything it leads to.
Acyclic(d, n) ==
  /\ n \notin Reach(d, n)
  /\ \A m \in Reach(d, n) : m \notin Reach(d, m)

\* All object components are components with an object.
LEMMA LeavesAreObjects ==
  ASSUME NEW d \in Documents, NEW c \in Parts(d), NEW m \in ToSet(ObjectLeaves(d)[c])
  PROVE  m \in Parts(d) /\ d.components[m].kind = "object_component"
         /\ d.components[m].object \in Object
<1> DEFINE h == d.height
           N == Parts(d)
           Leafy(b) == \A l \in ToSet(ObjectLeaves(d)[b]) :
                         l \in Parts(d) /\ d.components[l].kind = "object_component"
           P == {b \in N : Leafy(b)}
<1>1. ASSUME NEW b \in N, \A l \in N : h[l] < h[b] => l \in P PROVE b \in P
  <2>1. CASE d.components[b].kind = "object_component"
    <3>1. ToSet(ObjectLeaves(d)[b]) = {b}
      BY <2>1, LeavesFacts
    <3>2. Leafy(b)
      BY <3>1, <2>1
    <3> QED
      BY <3>2
  <2>2. CASE d.components[b].kind \in FunctionKind
    <3>1. \A i \in DOMAIN Kids(d, b) : Leafy(Kids(d, b)[i])
      BY <1>1, ComponentFacts DEF Kids
    <3>2. ToSet(ObjectLeaves(d)[b]) = Holdings(d, ObjectLeaves(d), b)
      BY <2>2, LeavesFacts
    <3> QED
      BY <3>1, <3>2 DEF Holdings
  <2>3. CASE d.components[b].kind \notin FunctionKind \cup {"object_component"}
    BY <2>3, LeavesFacts
  <2> QED
    BY <2>1, <2>2, <2>3
<1>2. N \subseteq P
  <2>1. h \in [N -> Nat]
    BY DocumentFacts
  <2> HIDE DEF P, N, h
  <2> QED
    BY <1>1, <2>1, ByHeight
<1> QED
  BY <1>2, ComponentFacts

\* An object is not a variable.
LEMMA OnFacts ==
  ASSUME NEW d \in Documents, NEW n
  PROVE  /\ n \in Object => On(d, n) = ToSet(d.needs[n])
         /\ IsLocal(d, n) =>
              On(d, n) = VariablesOf(d, RootOf(d, n)) \cup ObjectsUnder(d, RootOf(d, n))
         /\ n \notin Object /\ ~IsLocal(d, n) => On(d, n) = {}
<1>1. ~(n \in Object /\ IsLocal(d, n))
  BY VariablesAssumption, DocumentFacts DEF IsLocal
<1>2. CASE n \in Object
  BY <1>1, <1>2 DEF On
<1>3. CASE IsLocal(d, n)
  BY <1>1, <1>3 DEF On
<1>4. CASE n \notin Object /\ ~IsLocal(d, n)
  BY <1>4 DEF On
<1> QED
  BY <1>1, <1>2, <1>3, <1>4

\* What something refers to are variables and objects.
LEMMA OnNodes ==
  ASSUME NEW d \in Documents, NEW n
  PROVE  On(d, n) \subseteq Nodes
<1>1. CASE n \in Object
  BY <1>1, DocumentFacts, OnFacts DEF Nodes, ToSet
<1>2. CASE IsLocal(d, n)
  <2>1. RootOf(d, n) \in Parts(d)
    BY <1>2, DocumentFacts DEF IsLocal, RootOf
  <2>2. VariablesOf(d, RootOf(d, n)) \subseteq Variable
    <3>1. References(d)[RootOf(d, n)] \in Seq(Referenced)
      BY <2>1, ReferencesFacts
    <3> QED
      BY <3>1 DEF VariablesOf, Referenced, ToSet
  <2>3. ObjectsUnder(d, RootOf(d, n)) \subseteq Object
    BY <2>1, LeavesAreObjects DEF ObjectsUnder
  <2> QED
    BY <1>2, <2>2, <2>3, OnFacts DEF Nodes
<1>3. CASE n \notin Object /\ ~IsLocal(d, n)
  BY <1>3, OnFacts
<1> QED
  BY <1>1, <1>2, <1>3

\* The way to something leads there at once or by way of a first reference.
LEMMA ReachByFirst ==
  ASSUME NEW d \in Documents, NEW n
  PROVE  Reach(d, n) \subseteq On(d, n) \cup UNION {Reach(d, m) : m \in On(d, n)}
<1> DEFINE S == On(d, n) \cup UNION {Reach(d, m) : m \in On(d, n)}
<1>1. S \subseteq Nodes
  BY OnNodes DEF Reach
<1>2. ASSUME NEW k \in S PROVE On(d, k) \subseteq S
  <2>1. CASE k \in On(d, n)
    <3>1. On(d, k) \subseteq Reach(d, k)
      BY OnNodes DEF Reach
    <3> QED
      BY <2>1, <3>1
  <2>2. ASSUME NEW m \in On(d, n), k \in Reach(d, m) PROVE On(d, k) \subseteq S
    <3>1. On(d, k) \subseteq Reach(d, m)
      BY <2>2, OnNodes DEF Reach, Closed
    <3> QED
      BY <3>1
  <2> QED
    BY <2>1, <2>2
<1>3. Closed(d, S) /\ On(d, n) \subseteq S
  BY <1>2 DEF Closed
<1> HIDE DEF S
<1>4. Reach(d, n) \subseteq S
  BY <1>1, <1>3 DEF Reach
<1> QED
  BY <1>4 DEF S

\* What only refers to things that are not on a cycle is not on one.
LEMMA AcyclicByFirst ==
  ASSUME NEW d \in Documents, NEW n, \A m \in On(d, n) : Acyclic(d, m)
  PROVE  Acyclic(d, n)
<1>1. Reach(d, n) \subseteq On(d, n) \cup UNION {Reach(d, m) : m \in On(d, n)}
  BY ReachByFirst
<1>2. ASSUME NEW k \in Reach(d, n) PROVE k \notin Reach(d, k)
  BY <1>1, <1>2 DEF Acyclic
<1>3. n \notin Reach(d, n)
  BY <1>2
<1> QED
  BY <1>2, <1>3 DEF Acyclic

\* The steps of DependsOn from n.
WithinAt(d, n, f, k) ==
  IF k = 0 THEN On(d, n) ELSE f[k - 1] \cup UNION {On(d, m) : m \in f[k - 1]}

Within(d, n, f) == f = [k \in Nat |-> WithinAt(d, n, f, k)]

\* There is a function of the steps.
LEMMA WithinExists ==
  ASSUME NEW d \in Documents, NEW n
  PROVE  \E f \in [Nat -> SUBSET Nodes] : Within(d, n, f)
<1> DEFINE V == SUBSET Nodes
           h == [k \in Nat |-> k]
           G == [k \in Nat |-> [f \in [Nat -> V] |-> WithinAt(d, n, f, k)]]
<1>1. ASSUME NEW k \in Nat, NEW f \in [Nat -> V] PROVE WithinAt(d, n, f, k) \in V
  <2>1. k = 0 \/ k - 1 \in Nat
    OBVIOUS
  <2> QED
    BY <2>1, OnNodes DEF WithinAt
<1>2. V # {} /\ h \in [Nat -> Nat] /\ G \in [Nat -> [[Nat -> V] -> V]]
  <2> HIDE DEF V
  <2>1. {} \in V
    BY DEF V
  <2> QED
    BY <2>1, <1>1
<1>3. ReadsBelow(Nat, V, h, G)
  <2> HIDE DEF V
  <2> SUFFICES ASSUME NEW k \in Nat, NEW f \in [Nat -> V], NEW g \in [Nat -> V],
                      \A m \in Nat : h[m] < h[k] => f[m] = g[m]
               PROVE  G[k][f] = G[k][g]
    BY DEF ReadsBelow
  <2>1. k = 0 \/ (k - 1 \in Nat /\ h[k - 1] < h[k])
    OBVIOUS
  <2>2. WithinAt(d, n, f, k) = WithinAt(d, n, g, k)
    <3> HIDE DEF h
    <3> QED
      BY <2>1 DEF WithinAt
  <2> QED
    BY <2>2
<1>4. PICK f \in [Nat -> V] : \A k \in Nat : f[k] = G[k][f]
  <2> HIDE DEF G, V, h
  <2>1. Recursion(Nat, V, h, G)
    BY <1>2, <1>3 DEF Recursion
  <2> QED
    BY <2>1, RecursionByHeight
<1>5. Within(d, n, f)
  BY <1>4 DEF Within
<1> QED
  BY <1>4, <1>5

\* What something depends on can be reached from it.
LEMMA DependsOnReaches ==
  ASSUME doc \in Documents, NEW n
  PROVE  DependsOn(n) \subseteq Reach(doc, n)
<1> DEFINE f == CHOOSE f : Within(doc, n, f)
           k == Cardinality(Variable) + Cardinality(Object)
           Q == {i \in 0..k : f[i] \subseteq Reach(doc, n)}
<1>1. k \in Nat
  BY VariablesAssumption, FS_CardinalityType
<1>2. DependsOn(n) = f[k]
  BY Zenon DEF DependsOn, Within, WithinAt, DirectlyOn, On, IsLocal, RootOf, Root,
               VariablesOf, ReferredTo, ObjectsUnder, Leaves
<1>3. Within(doc, n, f)
  BY WithinExists
<1>4. \A i \in Nat : f[i] = WithinAt(doc, n, f, i)
  <2> HIDE DEF f
  <2> QED
    BY <1>3 DEF Within
<1> HIDE DEF f, k
<1>5. 0 \in Q
  <2>1. f[0] = On(doc, n)
    BY <1>4 DEF WithinAt
  <2>2. On(doc, n) \subseteq Reach(doc, n)
    BY OnNodes DEF Reach
  <2> QED
    BY <1>1, <2>1, <2>2
<1>6. ASSUME NEW i \in 0..(k - 1), i \in Q PROVE i + 1 \in Q
  <2>1. i + 1 \in Nat /\ i + 1 # 0 /\ (i + 1) - 1 = i /\ i + 1 \in 0..k
    BY <1>1
  <2>2. f[i + 1] = f[i] \cup UNION {On(doc, m) : m \in f[i]}
    BY <1>4, <2>1 DEF WithinAt
  <2>3. \A m \in Reach(doc, n) : On(doc, m) \subseteq Reach(doc, n)
    BY OnNodes DEF Reach, Closed
  <2> QED
    BY <1>6, <2>1, <2>2, <2>3
<1>7. 0..k \subseteq Q
  <2> HIDE DEF Q
  <2> QED
    BY <1>1, <1>5, <1>6, UpTo
<1>8. k \in 0..k
  BY <1>1
<1> QED
  BY <1>2, <1>7, <1>8

-----------------------------------------------------------------------------
(***************************************************************************)
(* Flags.                                                                  *)
(***************************************************************************)
GoodFlags == {"complete", "incomplete"}

\* How often a flag is counted.
LEMMA FlagCount ==
  ASSUME NEW n \in Nat, NEW s, DOMAIN s = 1..n, NEW v \in FlagEnumeration
  PROVE  /\ FlagTally(s)[v] \in Nat
         /\ FlagTally(s)[v] > 0 <=> \E i \in 1..n : s[i] = v
<1> DEFINE places == {i \in DOMAIN s : s[i] = v}
<1>1. FlagTally(s)[v] = Cardinality(places)
  BY Zenon DEF FlagTally, Tally
<1>2. IsFiniteSet(places)
  <2>1. IsFiniteSet(1..n)
    BY FS_Interval
  <2> QED
    BY <2>1, FS_Subset
<1>3. Cardinality(places) \in Nat /\ (Cardinality(places) = 0 <=> places = {})
  <2> HIDE DEF places
  <2> QED
    BY <1>2, FS_CardinalityType, FS_EmptySet
<1>4. places = {} <=> ~\E i \in 1..n : s[i] = v
  OBVIOUS
<1>5. \A m \in Nat : m > 0 <=> m # 0
  OBVIOUS
<1> HIDE DEF places
<1> QED
  BY <1>1, <1>3, <1>4, <1>5

\* One error makes an error, and what is incomplete comes from one that is.
LEMMA CombinedFlagFacts ==
  ASSUME NEW n \in Nat, NEW args, DOMAIN args = 1..n
  PROVE  /\ \A i \in 1..n : args[i].flag = "error" => CombinedFlag(args) = "error"
         /\ CombinedFlag(args) = "incomplete" => \E i \in 1..n : args[i].flag = "incomplete"
<1> DEFINE s == [i \in DOMAIN args |-> args[i].flag]
           c == FlagTally(s)
<1>1. CombinedFlag(args) = CombineFlags(c)
  BY DEF CombinedFlag
<1>2. "error" \in FlagEnumeration /\ "incomplete" \in FlagEnumeration
  BY Zenon DEF FlagEnumeration
<1>3. /\ c["error"] > 0 <=> \E i \in 1..n : s[i] = "error"
      /\ c["incomplete"] > 0 <=> \E i \in 1..n : s[i] = "incomplete"
  <2>1. DOMAIN s = 1..n
    OBVIOUS
  <2> HIDE DEF s
  <2> QED
    BY <1>2, <2>1, FlagCount
<1>4. c["error"] > 0 => CombineFlags(c) = "error"
  BY Zenon DEF CombineFlags
<1>5. CombineFlags(c) = "incomplete" => c["incomplete"] > 0
  <2> HIDE DEF c
  <2> QED
    BY Zenon DEF CombineFlags
<1>6. \A i \in 1..n : s[i] = args[i].flag
  OBVIOUS
<1> HIDE DEF s, c
<1> QED
  BY <1>1, <1>3, <1>4, <1>5, <1>6

-----------------------------------------------------------------------------
(***************************************************************************)
(* ComputeValue of components.                                             *)
(***************************************************************************)
\* What a component comes to, from what those inside it come to.
At(f, read, time, c) == ComputeValue(Arguments(f, c), read, time, c)

OutcomesOf(f, read, time) == f = [c \in Parts(doc) |-> At(f, read, time, c)]

\* f does so below height k.
FollowsBelow(f, read, time, k) ==
  /\ f = [c \in Parts(doc) |-> f[c]]
  /\ \A c \in Parts(doc) : doc.height[c] < k => f[c] = At(f, read, time, c)

\* It only depends on what is inside.
LEMMA AtLocal ==
  ASSUME doc \in Documents, NEW c \in Parts(doc), NEW read, NEW time, NEW f, NEW g,
         \A m \in Parts(doc) : doc.height[m] < doc.height[c] => f[m] = g[m]
  PROVE  At(f, read, time, c) = At(g, read, time, c)
<1>1. \A i \in DOMAIN doc.components[c].kids :
        f[doc.components[c].kids[i]] = g[doc.components[c].kids[i]]
  BY ComponentFacts
<1>2. Arguments(f, c) = Arguments(g, c)
  BY <1>1 DEF Arguments
<1> QED
  BY <1>2, Zenon DEF At

\* Two of these functions are the same below k.
LEMMA FollowersAgree ==
  ASSUME doc \in Documents, NEW read, NEW time, NEW k \in Nat,
         NEW f, FollowsBelow(f, read, time, k), NEW g, FollowsBelow(g, read, time, k)
  PROVE  \A c \in Parts(doc) : doc.height[c] < k => f[c] = g[c]
<1> DEFINE N == Parts(doc)
           h == doc.height
           P == {c \in N : h[c] < k => f[c] = g[c]}
<1>1. h \in [N -> Nat]
  BY DocumentFacts
<1>2. ASSUME NEW c \in N, \A m \in N : h[m] < h[c] => m \in P PROVE c \in P
  <2> SUFFICES ASSUME h[c] < k PROVE f[c] = g[c]
    OBVIOUS
  <2>1. ASSUME NEW m \in N, h[m] < h[c] PROVE f[m] = g[m]
    <3>1. h[m] \in Nat /\ h[c] \in Nat
      BY <1>1
    <3>2. h[m] < k
      BY <3>1, <2>1
    <3> QED
      BY <3>2, <2>1, <1>2
  <2>2. At(f, read, time, c) = At(g, read, time, c)
    BY <2>1, AtLocal
  <2> QED
    BY <2>2 DEF FollowsBelow
<1>3. N \subseteq P
  <2> HIDE DEF P, N, h
  <2> QED
    BY <1>1, <1>2, ByHeight
<1> QED
  BY <1>3

\* There is one for every k.
LEMMA FollowerExists ==
  ASSUME doc \in Documents, NEW read, NEW time, NEW k \in Nat
  PROVE  \E f : FollowsBelow(f, read, time, k)
<1> DEFINE Q == {n \in 0..k : \E f : FollowsBelow(f, read, time, n)}
<1>1. doc.height \in [Parts(doc) -> Nat]
  BY DocumentFacts
<1>2. 0 \in Q
  <2> DEFINE f == [c \in Parts(doc) |-> 0]
  <2>1. FollowsBelow(f, read, time, 0)
    BY <1>1 DEF FollowsBelow
  <2> HIDE DEF f
  <2> QED
    BY <2>1
<1>3. ASSUME NEW i \in 0..(k - 1), i \in Q PROVE i + 1 \in Q
  <2>1. PICK f : FollowsBelow(f, read, time, i)
    BY <1>3
  <2> DEFINE g == [c \in Parts(doc) |-> At(f, read, time, c)]
  <2>2. g = [c \in Parts(doc) |-> g[c]]
    OBVIOUS
  <2>3. ASSUME NEW c \in Parts(doc), doc.height[c] < i + 1 PROVE g[c] = At(g, read, time, c)
    <3>1. ASSUME NEW m \in Parts(doc), doc.height[m] < doc.height[c] PROVE f[m] = g[m]
      <4>1. doc.height[m] \in Nat /\ doc.height[c] \in Nat /\ i \in Nat
        BY <1>1
      <4>2. doc.height[m] < i
        BY <4>1, <2>3, <3>1
      <4> QED
        BY <4>2, <2>1 DEF FollowsBelow
    <3>2. At(f, read, time, c) = At(g, read, time, c)
      <4> HIDE DEF g
      <4> QED
        BY <3>1, AtLocal
    <3> QED
      BY <3>2
  <2>4. FollowsBelow(g, read, time, i + 1)
    <3> HIDE DEF g
    <3> QED
      BY <2>2, <2>3 DEF FollowsBelow
  <2>5. i + 1 \in 0..k
    OBVIOUS
  <2> HIDE DEF g
  <2> QED
    BY <2>4, <2>5
<1>4. 0..k \subseteq Q
  <2> HIDE DEF Q
  <2> QED
    BY <1>2, <1>3, UpTo
<1> QED
  BY <1>4

\* There is a function of the outcomes of all components.
LEMMA OutcomesExist ==
  ASSUME doc \in Documents, NEW read, NEW time
  PROVE  \E f : OutcomesOf(f, read, time)
<1> DEFINE N == Parts(doc)
           h == doc.height
           at == [c \in N |-> CHOOSE f : FollowsBelow(f, read, time, h[c] + 1)]
           result == [c \in N |-> at[c][c]]
<1>1. h \in [N -> Nat]
  BY DocumentFacts
<1>2. \A c \in N : FollowsBelow(at[c], read, time, h[c] + 1)
  <2> TAKE c \in N
  <2>1. h[c] + 1 \in Nat
    BY <1>1
  <2>2. \E f : FollowsBelow(f, read, time, h[c] + 1)
    BY <2>1, FollowerExists
  <2>3. at[c] = CHOOSE f : FollowsBelow(f, read, time, h[c] + 1)
    OBVIOUS
  <2> HIDE DEF at, h
  <2> QED
    BY <2>2, <2>3
<1>3. \A c \in N : result[c] = at[c][c]
  OBVIOUS
<1>4. result = [c \in N |-> result[c]]
  OBVIOUS
<1> HIDE DEF at, result
<1>5. ASSUME NEW c \in N PROVE result[c] = At(result, read, time, c)
  <2>1. ASSUME NEW m \in N, h[m] < h[c] PROVE at[c][m] = result[m]
    <3>1. h[m] + 1 \in Nat /\ h[c] \in Nat /\ h[m] \in Nat
      BY <1>1
    <3>2. FollowsBelow(at[c], read, time, h[m] + 1)
      <4>1. \A j \in N : h[j] < h[m] + 1 => h[j] < h[c] + 1
        BY <1>1, <3>1, <2>1
      <4> QED
        BY <1>2, <4>1 DEF FollowsBelow
    <3>3. FollowsBelow(at[m], read, time, h[m] + 1) /\ h[m] < h[m] + 1
      BY <1>2, <3>1
    <3>4. at[c][m] = at[m][m]
      BY SMTT(30), <3>1, <3>2, <3>3, FollowersAgree
    <3> QED
      BY <1>3, <3>4
  <2>2. At(at[c], read, time, c) = At(result, read, time, c)
    BY <2>1, AtLocal
  <2>3. at[c][c] = At(at[c], read, time, c)
    <3>1. h[c] \in Nat
      BY <1>1
    <3>2. h[c] < h[c] + 1
      BY <3>1
    <3> QED
      BY <3>2, <1>2 DEF FollowsBelow
  <2> QED
    BY <1>3, <2>2, <2>3
<1>6. OutcomesOf(result, read, time)
  BY <1>4, <1>5, Zenon DEF OutcomesOf
<1> QED
  BY <1>6

LeavesRead(c, read) ==
  \A l \in ToSet(ObjectLeaves(doc)[c]) :
    l \in DOMAIN read /\ read[l].flag \in GoodFlags /\ read[l].items # << >>

LeafMissing(c, read) == \E l \in ToSet(ObjectLeaves(doc)[c]) : l \notin DOMAIN read

IsValue(out) == \E flag, values : out = Value(flag, values)

\* What a component may come to: a component with values has read all its objects.
SoundOutcome(out, c, read) ==
  \/ out = Pending /\ LeafMissing(c, read)
  \/ out = Thrown
  \/ IsValue(out) /\ out.flag # "incomplete" /\ (out.flag # "error" => LeavesRead(c, read))

\* A function's values are not there when those of a component are in error.
FunctionOutcome(out, args) ==
  \/ out = Thrown
  \/ /\ IsValue(out) /\ out.flag # "incomplete"
     /\ out.flag # "error" => \A i \in DOMAIN args : args[i].flag # "error"

\* A record of values has a flag.
LEMMA ValueFacts ==
  ASSUME NEW flag, NEW values
  PROVE  /\ IsValue(Value(flag, values)) /\ Value(flag, values).flag = flag
         /\ Value(flag, values).state = "value"
<1>1. IsValue(Value(flag, values))
  BY Zenon DEF IsValue
<1> QED
  BY <1>1 DEF Value

\* The functions that combine the flags of all components.
LEMMA CombiningOutcome ==
  ASSUME NEW n \in Nat, NEW args, DOMAIN args = 1..n,
         \A i \in 1..n : args[i].flag # "incomplete", NEW values
  PROVE  FunctionOutcome(Value(CombinedFlag(args), values), args)
BY CombinedFlagFacts, ValueFacts DEF FunctionOutcome

\* The functions of one component, which hand on its flag.
LEMMA HandingOutcome ==
  ASSUME NEW args, DOMAIN args = 1..1, args[1].flag # "incomplete", NEW values
  PROVE  /\ FunctionOutcome(OfComplete(args[1], values), args)
         /\ FunctionOutcome(UnlessError(args[1], values), args)
<1>1. \A i \in DOMAIN args : args[i] = args[1]
  OBVIOUS
<1>2. \A vals : FunctionOutcome(Value(args[1].flag, vals), args)
  BY <1>1, ValueFacts DEF FunctionOutcome
<1> QED
  BY <1>2, Zenon DEF OfComplete, UnlessError

\* A time difference has one component or two.
LEMMA TimeDifferenceOutcome ==
  ASSUME NEW n \in {1, 2}, NEW args, DOMAIN args = 1..n, Len(args) = n,
         \A i \in 1..n : args[i].flag # "incomplete", NEW time
  PROVE  FunctionOutcome(TimeDifferenceValue(args, time), args)
<1> DEFINE second == Last(args)
           first == IF Len(args) = 2 THEN Head(args)
                    ELSE Value("complete", <<Decimal(time)>>)
           pair == <<first, second>>
<1>1. Last(args) = args[n] /\ n \in 1..n /\ Head(args) = args[1]
  BY DEF Last
<1>2. /\ first.flag # "incomplete" /\ second.flag # "incomplete"
      /\ \A i \in 1..n : args[i] = first \/ args[i] = second
  <2>1. CASE n = 1
    BY <1>1, <2>1, ValueFacts
  <2>2. CASE n = 2
    BY <1>1, <2>2
  <2> QED
    BY <2>1, <2>2
<1> HIDE DEF first, second
<1>3. DOMAIN pair = 1..2 /\ \A i \in 1..2 : pair[i].flag # "incomplete"
  BY <1>2
<1>4. \A values : FunctionOutcome(Value(CombinedFlag(pair), values), pair)
  <2> HIDE DEF pair
  <2> QED
    BY <1>3, CombiningOutcome
<1>5. \A values : FunctionOutcome(Value(CombinedFlag(pair), values), args)
  <2>1. pair[1] = first /\ pair[2] = second /\ 1 \in DOMAIN pair /\ 2 \in DOMAIN pair
    OBVIOUS
  <2> HIDE DEF pair
  <2> QED
    BY <1>2, <1>4, <2>1 DEF FunctionOutcome
<1>6. \/ TimeDifferenceValue(args, time) = Thrown
      \/ \E values : TimeDifferenceValue(args, time) = Value(CombinedFlag(pair), values)
  BY Zenon DEF TimeDifferenceValue, first, second
<1> HIDE DEF pair
<1> QED
  BY <1>5, <1>6 DEF FunctionOutcome

Single == {"begin", "end", "escape_regex", "regex_capture", "split", "substring"}
Combining == {"arithmetic", "concat", "count", "unique"}

\* A kind of function is one of these.
LEMMA FunctionKinds ==
  ASSUME NEW kind \in FunctionKind
  PROVE  kind \in Single \/ kind \in Combining \/ kind = "time_difference"
BY DEF FunctionKind, Single, Combining

\* Whatever the function, given the values of its components.
LEMMA FunctionFacts ==
  ASSUME doc \in Documents, NEW c \in Parts(doc), doc.components[c].kind \in FunctionKind,
         NEW args, DOMAIN args = 1..Len(Kids(doc, c)), Len(args) = Len(Kids(doc, c)),
         \A i \in DOMAIN args : args[i].flag # "incomplete", NEW time
  PROVE  FunctionOutcome(FunctionValue(doc.components[c], args, time), args)
<1> DEFINE node == doc.components[c]
           n == Len(Kids(doc, c))
<1>1. /\ n \in Nat /\ n # 0 /\ (node.kind \in Single => n = 1)
      /\ node.kind = "time_difference" => n \in {1, 2}
  BY SMTT(30), ComponentFacts, DocumentFacts DEF IsComponent, Kids, Single
<1>2. Head(args) = args[1]
  BY <1>1
<1>3. CASE node.kind \in Combining
  <2>1. \E values : FunctionValue(node, args, time) = Value(CombinedFlag(args), values)
    <3>1. CASE node.kind = "arithmetic"
      BY <3>1, Zenon DEF FunctionValue, ArithmeticValue
    <3>2. CASE node.kind = "concat"
      BY <3>2, Zenon DEF FunctionValue
    <3>3. CASE node.kind = "count"
      BY <3>3, Zenon DEF FunctionValue
    <3>4. CASE node.kind = "unique"
      BY <3>4, Zenon DEF FunctionValue
    <3> QED
      BY <1>3, <3>1, <3>2, <3>3, <3>4 DEF Combining
  <2>2. \A values : FunctionOutcome(Value(CombinedFlag(args), values), args)
    BY <1>1, CombiningOutcome
  <2> QED
    BY <2>1, <2>2, Zenon
<1>4. CASE node.kind \in Single
  <2>1. \/ FunctionValue(node, args, time) = Thrown
        \/ \E values : FunctionValue(node, args, time) = OfComplete(Head(args), values)
        \/ \E values : FunctionValue(node, args, time) = UnlessError(Head(args), values)
    <3>1. CASE node.kind = "begin"
      BY <3>1, Zenon DEF FunctionValue
    <3>2. CASE node.kind = "end"
      BY <3>2, Zenon DEF FunctionValue
    <3>3. CASE node.kind = "escape_regex"
      BY <3>3, Zenon DEF FunctionValue
    <3>4. CASE node.kind = "regex_capture"
      BY <3>4, Zenon DEF FunctionValue
    <3>5. CASE node.kind = "split"
      BY <3>5, Zenon DEF FunctionValue
    <3>6. CASE node.kind = "substring"
      BY <3>6, Zenon DEF FunctionValue, SubstringValue
    <3> QED
      BY <1>4, <3>1, <3>2, <3>3, <3>4, <3>5, <3>6 DEF Single
  <2>2. DOMAIN args = 1..1 /\ args[1].flag # "incomplete"
    BY <1>1, <1>4
  <2>3. \A values : /\ FunctionOutcome(OfComplete(args[1], values), args)
                    /\ FunctionOutcome(UnlessError(args[1], values), args)
    BY <2>2, HandingOutcome
  <2>4. FunctionOutcome(Thrown, args)
    BY DEF FunctionOutcome
  <2> QED
    BY <2>1, <2>3, <2>4, <1>2, Zenon
<1>5. CASE node.kind = "time_difference"
  <2>1. FunctionValue(node, args, time) = TimeDifferenceValue(args, time)
    BY <1>5, Zenon DEF FunctionValue
  <2> HIDE DEF n, node
  <2> QED
    BY <2>1, <1>1, <1>5, TimeDifferenceOutcome DEF n, node
<1> QED
  BY <1>3, <1>4, <1>5, FunctionKinds

\* The flags of the cache: no variable is incomplete.
CacheFlags == \A v \in DOMAIN cache : cache[v].flag # "incomplete"

\* The objects that were read.
IsRead(read) == \A c \in DOMAIN read : read[c].items \in Seq(Item)

\* The entities of the items of an object.
EntitiesOf(object, node) ==
  FlattenSeq([i \in DOMAIN object.items |-> Fields[object.items[i]][node.field]])

\* ObjectComponent::ComputeValue is never incomplete, and an error unless the
\* object could be read and had items.
LEMMA ObjectFacts ==
  ASSUME NEW object, object.items \in Seq(Item), NEW node, node.field \in ItemField
  PROVE  /\ IsValue(ObjectValue(object, node))
         /\ ObjectValue(object, node).flag # "incomplete"
         /\ ObjectValue(object, node).flag # "error" =>
              object.flag \in GoodFlags /\ object.items # << >>
<1> DEFINE entities == EntitiesOf(object, node)
           s == [i \in DOMAIN object.items |-> Fields[object.items[i]][node.field]]
           out == ObjectValue(object, node)
<1>1. entities \in Seq(ItemEntity)
  <2>1. DOMAIN object.items = 1..Len(object.items) /\ Len(object.items) \in Nat
    OBVIOUS
  <2>2. s \in [1..Len(object.items) -> Seq(ItemEntity)]
    BY <2>1, VariablesAssumption
  <2>3. s \in Seq(Seq(ItemEntity))
    <3> HIDE DEF s
    <3> QED
      BY <2>1, <2>2, IsSequence
  <2>4. FlattenSeq(s) \in Seq(ItemEntity)
    <3> HIDE DEF s
    <3> QED
      BY <2>3, Flattened
  <2> QED
    BY <2>4 DEF EntitiesOf
<1>4. object.items = << >> => entities = << >>
  <2> SUFFICES ASSUME object.items = << >> PROVE entities = << >>
    OBVIOUS
  <2>1. DOMAIN object.items = {}
    OBVIOUS
  <2>2. s \in Seq(Seq(ItemEntity)) /\ DOMAIN s = {}
    <3>1. s \in [1..0 -> Seq(ItemEntity)]
      BY <2>1
    <3> HIDE DEF s
    <3> QED
      BY <3>1, IsSequence
  <2>3. ToSet(FlattenSeq(s)) = {} /\ FlattenSeq(s) \in Seq(ItemEntity)
    <3> HIDE DEF s
    <3>1. /\ FlattenSeq(s) \in Seq(ItemEntity)
          /\ ToSet(FlattenSeq(s)) = UNION {ToSet(s[i]) : i \in DOMAIN s}
      BY <2>2, Flattened
    <3>2. UNION {ToSet(s[i]) : i \in DOMAIN s} = {}
      BY <2>2
    <3> QED
      BY <3>1, <3>2
  <2>4. FlattenSeq(s) = << >>
    <3> DEFINE flat == FlattenSeq(s)
    <3> HIDE DEF flat
    <3>1. ToSet(flat) = {} /\ flat \in Seq(ItemEntity)
      BY <2>3 DEF flat
    <3>2. Len(flat) \in Nat /\ DOMAIN flat = 1..Len(flat)
      BY <3>1
    <3>3. 1 \notin DOMAIN flat
      BY <3>1 DEF ToSet
    <3>4. Len(flat) = 0
      BY <3>2, <3>3
    <3>5. flat = << >>
      BY <3>1, <3>4
    <3> QED
      BY <3>5 DEF flat
  <2> QED
    BY <2>4 DEF EntitiesOf
<1>2. \/ out = Value("error", << >>)
      \/ /\ object.flag \in {"complete", "incomplete"} /\ entities # << >>
         /\ \E values : out = Value(StatusFlag(Last(entities).status), values)
  BY Zenon DEF ObjectValue, EntitiesOf
<1> HIDE DEF entities, out
<1>3. entities # << >> => StatusFlag(Last(entities).status) # "incomplete"
  <2> SUFFICES ASSUME entities # << >> PROVE StatusFlag(Last(entities).status) # "incomplete"
    OBVIOUS
  <2>1. Last(entities) \in ItemEntity
    BY <1>1 DEF Last
  <2>2. Last(entities).status \in SCStatus
    BY <2>1 DEF ItemEntity
  <2> QED
    BY <2>2, Zenon DEF StatusFlag, SCStatus
<1> QED
  BY <1>2, <1>3, <1>4, ValueFacts DEF GoodFlags, out

\* What an object component comes to.
LEMMA ObjectOutcome ==
  ASSUME doc \in Documents, NEW c \in Parts(doc), doc.components[c].kind = "object_component",
         NEW read, IsRead(read)
  PROVE  SoundOutcome(IF c \in DOMAIN read THEN ObjectValue(read[c], doc.components[c])
                      ELSE Pending, c, read)
<1>1. ToSet(ObjectLeaves(doc)[c]) = {c} /\ doc.components[c].field \in ItemField
  BY LeavesFacts, DocumentFacts DEF IsComponent
<1>2. CASE c \in DOMAIN read
  <2>1. read[c].items \in Seq(Item)
    BY <1>2 DEF IsRead
  <2>2. /\ IsValue(ObjectValue(read[c], doc.components[c]))
        /\ ObjectValue(read[c], doc.components[c]).flag # "incomplete"
        /\ ObjectValue(read[c], doc.components[c]).flag # "error" =>
             read[c].flag \in GoodFlags /\ read[c].items # << >>
    BY <2>1, <1>1, ObjectFacts
  <2>3. read[c].flag \in GoodFlags /\ read[c].items # << >> => LeavesRead(c, read)
    BY <1>1, <1>2 DEF LeavesRead
  <2> QED
    BY <1>2, <2>2, <2>3 DEF SoundOutcome
<1>3. CASE c \notin DOMAIN read
  BY <1>1, <1>3 DEF SoundOutcome, LeafMissing
<1> QED
  BY <1>2, <1>3

\* The outcomes of a component's components, in the order of evaluation.
Open(args, c) == {i \in DOMAIN Order(doc, c) : args[Order(doc, c)[i]].state # "value"}

\* What a function comes to.
LEMMA FunctionSound ==
  ASSUME doc \in Documents, NEW c \in Parts(doc), doc.components[c].kind \in FunctionKind,
         NEW args, DOMAIN args = DOMAIN Kids(doc, c), Len(args) = Len(Kids(doc, c)), NEW read,
         \A i \in DOMAIN Kids(doc, c) : SoundOutcome(args[i], Kids(doc, c)[i], read), NEW time
  PROVE  SoundOutcome(IF Open(args, c) # {} THEN args[Order(doc, c)[Min(Open(args, c))]]
                      ELSE FunctionValue(doc.components[c], args, time), c, read)
<1> DEFINE n == Len(Kids(doc, c))
           open == Open(args, c)
           order == Order(doc, c)
           kid(i) == Kids(doc, c)[i]
<1>1. /\ DOMAIN order = 1..n /\ DOMAIN Kids(doc, c) = 1..n /\ n \in Nat
      /\ \A i \in 1..n : order[i] \in 1..n
      /\ \A i \in 1..n : \E j \in 1..n : order[j] = i
  <2>1. /\ DOMAIN order = DOMAIN Kids(doc, c) /\ DOMAIN Kids(doc, c) = 1..n /\ n \in Nat
    BY OrderFacts
  <2>2. /\ \A i \in DOMAIN Kids(doc, c) : order[i] \in DOMAIN Kids(doc, c)
        /\ \A i \in DOMAIN Kids(doc, c) : \E j \in DOMAIN Kids(doc, c) : order[j] = i
    BY OrderFacts
  <2> HIDE DEF n
  <2> QED
    BY <2>1, <2>2
<1>2. ToSet(ObjectLeaves(doc)[c]) = UNION {ToSet(ObjectLeaves(doc)[kid(i)]) : i \in 1..n}
  <2>1. ToSet(ObjectLeaves(doc)[c]) = Holdings(doc, ObjectLeaves(doc), c)
    BY LeavesFacts
  <2> QED
    BY <1>1, <2>1 DEF Holdings
<1>3. \A i \in 1..n : SoundOutcome(args[i], kid(i), read)
  BY <1>1
<1>4. ASSUME NEW i \in 1..n, args[i].state # "value" PROVE SoundOutcome(args[i], c, read)
  <2>1. ~IsValue(args[i])
    BY <1>4, ValueFacts DEF IsValue
  <2>2. LeafMissing(kid(i), read) => LeafMissing(c, read)
    BY <1>2 DEF LeafMissing
  <2> QED
    BY <1>3, <2>1, <2>2 DEF SoundOutcome
<1>5. CASE open # {}
  <2>1. Min(open) \in open
    <3>1. open \subseteq Nat
      BY <1>1 DEF Open
    <3>2. \E x \in open : \A y \in open : x <= y
      <4> HIDE DEF open
      <4> QED
        BY <1>5, <3>1, LeastNatural
    <3> QED
      BY <3>2 DEF Min
  <2>2. Min(open) \in 1..n /\ args[order[Min(open)]].state # "value"
    BY <1>1, <2>1 DEF Open
  <2>3. SoundOutcome(args[order[Min(open)]], c, read)
    <3> HIDE DEF open, order
    <3> QED
      BY <1>1, <1>4, <2>2
  <2> QED
    BY <1>5, <2>3
<1>6. CASE open = {}
  <2>1. \A i \in 1..n : args[i].state = "value"
    BY <1>1, <1>6 DEF Open
  <2>2. \A i \in 1..n : /\ IsValue(args[i]) /\ args[i].flag # "incomplete"
                        /\ args[i].flag # "error" => LeavesRead(kid(i), read)
    BY <1>3, <2>1 DEF SoundOutcome, Pending, Thrown
  <2> DEFINE out == FunctionValue(doc.components[c], args, time)
  <2>3. FunctionOutcome(out, args)
    BY <1>1, <2>2, FunctionFacts
  <2> HIDE DEF out, n
  <2>4. (\A i \in 1..n : args[i].flag # "error") => LeavesRead(c, read)
    BY <1>2, <2>2 DEF LeavesRead
  <2>5. SoundOutcome(out, c, read)
    BY <1>1, <2>3, <2>4 DEF FunctionOutcome, SoundOutcome
  <2> QED
    BY <1>6, <2>5 DEF out
<1> QED
  BY <1>5, <1>6

\* All references of a component are in the cache.
Resolved(c) == \A w \in ToSet(References(doc)[c]) : w \in DOMAIN cache

\* The step of the induction: the components inside a component are sound.
LEMMA AtIsSound ==
  ASSUME doc \in Documents, DOMAIN cache \subseteq Variable, CacheFlags,
         NEW c \in Parts(doc), Resolved(c), NEW read, IsRead(read), NEW time, NEW f,
         \A i \in DOMAIN Kids(doc, c) :
           Resolved(Kids(doc, c)[i]) => SoundOutcome(f[Kids(doc, c)[i]], Kids(doc, c)[i], read)
  PROVE  SoundOutcome(At(f, read, time, c), c, read)
<1> DEFINE node == doc.components[c]
           args == Arguments(f, c)
<1>1. node.kind \in ComponentKind
  BY ComponentFacts
<1>2. CASE node.kind = "literal_component"
  <2>1. At(f, read, time, c) = Value("complete", <<node.value>>)
    BY <1>2, Zenon DEF At, ComputeValue
  <2>2. LeavesRead(c, read)
    <3>1. node.kind \notin FunctionKind \cup {"object_component"}
      BY <1>2, KindsDiffer
    <3> QED
      BY <3>1, LeavesFacts DEF LeavesRead
  <2> HIDE DEF node
  <2> QED
    BY <2>1, <2>2, ValueFacts DEF SoundOutcome
<1>3. CASE node.kind = "variable_component"
  <2>1. At(f, read, time, c) = Value(cache[node.variable].flag, cache[node.variable].values)
    BY <1>3, Zenon DEF At, ComputeValue
  <2>2. LeavesRead(c, read)
    <3>1. node.kind \notin FunctionKind \cup {"object_component"}
      BY <1>3, KindsDiffer
    <3> QED
      BY <3>1, LeavesFacts DEF LeavesRead
  <2>3. cache[node.variable].flag # "incomplete"
    BY <1>3, ReferencesFacts DEF Resolved, CacheFlags
  <2> HIDE DEF node
  <2> QED
    BY <2>1, <2>2, <2>3, ValueFacts DEF SoundOutcome
<1>4. CASE node.kind = "object_component"
  <2>1. At(f, read, time, c) = IF c \in DOMAIN read THEN ObjectValue(read[c], node) ELSE Pending
    BY <1>4, Zenon DEF At, ComputeValue
  <2> QED
    BY <2>1, <1>4, ObjectOutcome
<1>5. CASE node.kind \in FunctionKind
  <2>1. At(f, read, time, c)
          = IF Open(args, c) # {} THEN args[Order(doc, c)[Min(Open(args, c))]]
            ELSE FunctionValue(node, args, time)
    <3>1. node.kind \notin {"literal_component", "variable_component", "object_component"}
      BY <1>5, KindsDiffer
    <3> QED
      BY <3>1 DEF At, ComputeValue, Open, Order
  <2>2. args = [i \in DOMAIN Kids(doc, c) |-> f[Kids(doc, c)[i]]]
    BY DEF Arguments, Kids
  <2>3. DOMAIN Kids(doc, c) = 1..Len(Kids(doc, c)) /\ Len(Kids(doc, c)) \in Nat
    BY OrderFacts
  <2>4. DOMAIN args = DOMAIN Kids(doc, c) /\ Len(args) = Len(Kids(doc, c))
    BY <2>2, <2>3
  <2>5. \A i \in DOMAIN Kids(doc, c) : Resolved(Kids(doc, c)[i])
    <3>1. ToSet(References(doc)[c]) = Holdings(doc, References(doc), c)
      BY <1>5, ReferencesFacts
    <3> QED
      BY <3>1 DEF Holdings, Resolved
  <2>6. \A i \in DOMAIN Kids(doc, c) : SoundOutcome(args[i], Kids(doc, c)[i], read)
    BY <2>2, <2>5
  <2> HIDE DEF args
  <2> QED
    BY <2>1, <2>4, <2>6, <1>5, FunctionSound
<1>6. CASE node.kind = UnsupportedFunction
  <2>1. UnsupportedFunction \in DOMAIN cache
    BY <1>6, ReferencesFacts DEF Resolved
  <2> QED
    BY <2>1, VariablesAssumption
<1> QED
  BY <1>1, <1>2, <1>3, <1>4, <1>5, <1>6 DEF ComponentKind

\* What LocalVariable::ComputeValue comes to once Parse has all variables: it lacks
\* an object, has thrown, or has read every object when it is not an error.
LEMMA ComputedIsSound ==
  ASSUME doc \in Documents, DOMAIN cache \subseteq Variable, CacheFlags,
         NEW root \in Parts(doc), Resolved(root), NEW read, IsRead(read), NEW time
  PROVE  SoundOutcome(Computed(root, read, time), root, read)
<1> DEFINE f == CHOOSE f : OutcomesOf(f, read, time)
           N == Parts(doc)
           h == doc.height
           P == {c \in N : Resolved(c) => SoundOutcome(f[c], c, read)}
<1>1. Computed(root, read, time) = f[root]
  BY Zenon DEF Computed, OutcomesOf, At, Parts
<1>2. OutcomesOf(f, read, time)
  BY OutcomesExist
<1> HIDE DEF f
<1>3. \A c \in N : f[c] = At(f, read, time, c)
  BY <1>2 DEF OutcomesOf
<1>4. ASSUME NEW c \in N, \A m \in N : h[m] < h[c] => m \in P PROVE c \in P
  <2> SUFFICES ASSUME Resolved(c) PROVE SoundOutcome(f[c], c, read)
    OBVIOUS
  <2>1. \A i \in DOMAIN Kids(doc, c) :
          Resolved(Kids(doc, c)[i]) => SoundOutcome(f[Kids(doc, c)[i]], Kids(doc, c)[i], read)
    BY <1>4, ComponentFacts DEF Kids
  <2>2. SoundOutcome(At(f, read, time, c), c, read)
    BY <2>1, AtIsSound
  <2> QED
    BY <1>3, <2>2
<1>5. N \subseteq P
  <2>1. h \in [N -> Nat]
    BY DocumentFacts
  <2> HIDE DEF P, N, h
  <2> QED
    BY <1>4, <2>1, ByHeight
<1> QED
  BY <1>1, <1>5

-----------------------------------------------------------------------------
(***************************************************************************)
(* The references of an object, each once.                                 *)
(***************************************************************************)
OnceAt(items, f, i) ==
  IF i = 0 THEN << >>
  ELSE IF items[i] \in ToSet(f[i - 1]) THEN f[i - 1]
  ELSE Append(f[i - 1], items[i])

Written(items, f) == f = [i \in 0..Len(items) |-> OnceAt(items, f, i)]

\* There is a function of what is written up to each reference.
LEMMA WrittenExists ==
  ASSUME NEW items \in Seq(Item)
  PROVE  \E f \in [0..Len(items) -> Seq(Item)] : Written(items, f)
<1> DEFINE N == 0..Len(items)
           V == Seq(Item)
           h == [i \in N |-> i]
           G == [i \in N |-> [f \in [N -> V] |-> OnceAt(items, f, i)]]
<1>1. ASSUME NEW i \in N, NEW f \in [N -> V] PROVE OnceAt(items, f, i) \in V
  <2>1. i = 0 \/ (i - 1 \in N /\ items[i] \in Item)
    OBVIOUS
  <2>2. i - 1 \in N => f[i - 1] \in V
    OBVIOUS
  <2> QED
    BY <2>1, <2>2 DEF OnceAt
<1>2. V # {} /\ h \in [N -> Nat] /\ G \in [N -> [[N -> V] -> V]]
  <2>1. << >> \in V
    OBVIOUS
  <2> HIDE DEF V
  <2> QED
    BY <2>1, <1>1
<1>3. ReadsBelow(N, V, h, G)
  <2> SUFFICES ASSUME NEW i \in N, NEW f \in [N -> V], NEW g \in [N -> V],
                      \A j \in N : h[j] < h[i] => f[j] = g[j]
               PROVE  G[i][f] = G[i][g]
    BY DEF ReadsBelow
  <2>1. i = 0 \/ (i - 1 \in N /\ h[i - 1] < h[i])
    OBVIOUS
  <2>2. OnceAt(items, f, i) = OnceAt(items, g, i)
    <3> HIDE DEF N, V, h
    <3> QED
      BY <2>1 DEF OnceAt
  <2> QED
    BY <2>2
<1>4. PICK f \in [N -> V] : \A i \in N : f[i] = G[i][f]
  <2> HIDE DEF V, h, G, N
  <2>1. Recursion(N, V, h, G)
    BY <1>2, <1>3 DEF Recursion
  <2> QED
    BY <2>1, RecursionByHeight
<1>5. Written(items, f)
  BY <1>4 DEF Written
<1> QED
  BY <1>4, <1>5

\* What is written are items, and none when there are none.
LEMMA OnceTyped ==
  ASSUME NEW items \in Seq(Item)
  PROVE  Once(items) \in Seq(Item) /\ (items = << >> => Once(items) = << >>)
<1> DEFINE f == CHOOSE f : Written(items, f)
           n == Len(items)
           Q == {i \in 0..n : f[i] \in Seq(Item)}
<1>1. Once(items) = f[n]
  BY Zenon DEF Once, Written, OnceAt
<1>2. Written(items, f)
  BY WrittenExists
<1>3. n \in Nat /\ \A i \in 1..n : items[i] \in Item
  OBVIOUS
<1>4. \A i \in 0..n : f[i] = OnceAt(items, f, i)
  <2> HIDE DEF f
  <2> QED
    BY <1>2 DEF Written
<1>9. items = << >> => n = 0
  OBVIOUS
<1> HIDE DEF f, n
<1>10. items = << >> => f[n] = << >>
  BY <1>3, <1>4, <1>9 DEF OnceAt
<1>5. 0 \in Q
  <2>1. 0 \in 0..n /\ f[0] = << >>
    BY <1>3, <1>4 DEF OnceAt
  <2>2. << >> \in Seq(Item)
    OBVIOUS
  <2> QED
    BY <2>1, <2>2
<1>6. ASSUME NEW i \in 0..(n - 1), i \in Q PROVE i + 1 \in Q
  <2>1. i + 1 \in 0..n /\ i + 1 # 0 /\ (i + 1) - 1 = i /\ i + 1 \in 1..n
    BY <1>3
  <2>2. f[i + 1] = f[i] \/ f[i + 1] = Append(f[i], items[i + 1])
    BY <1>4, <2>1 DEF OnceAt
  <2>3. f[i] \in Seq(Item) /\ items[i + 1] \in Item
    BY <1>3, <1>6, <2>1
  <2>4. Append(f[i], items[i + 1]) \in Seq(Item)
    BY <2>3
  <2>5. f[i + 1] \in Seq(Item)
    BY <2>2, <2>3, <2>4, Zenon
  <2> QED
    BY <2>1, <2>5
<1>7. 0..n \subseteq Q
  <2> HIDE DEF Q
  <2> QED
    BY <1>3, <1>5, <1>6, UpTo
<1>8. n \in 0..n
  BY <1>3
<1> QED
  BY <1>1, <1>7, <1>8, <1>10

-----------------------------------------------------------------------------
(***************************************************************************)
(* The stack as a sequence.                                                *)
(***************************************************************************)
IsSeq(s) == \E S : s \in Seq(S)

\* The first k frames.
LEMMA CutSeq ==
  ASSUME NEW s, IsSeq(s), NEW k \in 0..Len(s)
  PROVE  /\ IsSeq(SubSeq(s, 1, k)) /\ Len(SubSeq(s, 1, k)) = k
         /\ DOMAIN SubSeq(s, 1, k) = 1..k /\ \A i \in 1..k : SubSeq(s, 1, k)[i] = s[i]
<1>1. PICK S : s \in Seq(S)
  BY DEF IsSeq
<1>2. SubSeq(s, 1, k) \in Seq(S)
  BY <1>1
<1>3. /\ Len(SubSeq(s, 1, k)) = k /\ DOMAIN SubSeq(s, 1, k) = 1..k
      /\ \A i \in 1..k : SubSeq(s, 1, k)[i] = s[i]
  BY <1>1
<1> QED
  BY <1>2, <1>3 DEF IsSeq

\* A frame more.
LEMMA PushSeq ==
  ASSUME NEW s, IsSeq(s), NEW e
  PROVE  /\ IsSeq(Append(s, e)) /\ Len(s) \in Nat /\ Len(Append(s, e)) = Len(s) + 1
         /\ DOMAIN Append(s, e) = 1..(Len(s) + 1) /\ DOMAIN s = 1..Len(s)
         /\ Append(s, e)[Len(s) + 1] = e /\ \A i \in 1..Len(s) : Append(s, e)[i] = s[i]
<1>1. PICK S : s \in Seq(S)
  BY DEF IsSeq
<1>2. s \in Seq(S \cup {e})
  <2>1. s \in [1..Len(s) -> S \cup {e}] /\ Len(s) \in Nat
    BY <1>1
  <2> QED
    BY <2>1, IsSequence
<1>3. Append(s, e) \in Seq(S \cup {e})
  BY <1>2
<1>4. /\ Len(s) \in Nat /\ Len(Append(s, e)) = Len(s) + 1
      /\ DOMAIN Append(s, e) = 1..(Len(s) + 1) /\ DOMAIN s = 1..Len(s)
      /\ Append(s, e)[Len(s) + 1] = e /\ \A i \in 1..Len(s) : Append(s, e)[i] = s[i]
  BY <1>2
<1> QED
  BY <1>3, <1>4 DEF IsSeq

\* A frame replaced.
LEMMA SetSeq ==
  ASSUME NEW s, IsSeq(s), NEW k \in 1..Len(s), NEW e
  PROVE  /\ IsSeq([s EXCEPT ![k] = e]) /\ Len([s EXCEPT ![k] = e]) = Len(s)
         /\ DOMAIN [s EXCEPT ![k] = e] = 1..Len(s) /\ [s EXCEPT ![k] = e][k] = e
         /\ \A i \in 1..Len(s) : i # k => [s EXCEPT ![k] = e][i] = s[i]
<1> DEFINE t == [s EXCEPT ![k] = e]
<1>1. PICK S : s \in Seq(S)
  BY DEF IsSeq
<1>2. Len(s) \in Nat /\ DOMAIN s = 1..Len(s)
  BY <1>1
<1>3. t \in [1..Len(s) -> S \cup {e}]
  BY <1>1, <1>2
<1>4. t[k] = e /\ \A i \in 1..Len(s) : i # k => t[i] = s[i]
  BY <1>2
<1>5. t \in Seq(S \cup {e}) /\ Len(t) = Len(s) /\ DOMAIN t = 1..Len(s)
  <2> HIDE DEF t
  <2> QED
    BY <1>2, <1>3, IsSequence
<1> HIDE DEF t
<1>6. IsSeq(t)
  BY <1>5 DEF IsSeq
<1> QED
  BY <1>4, <1>5, <1>6 DEF t

-----------------------------------------------------------------------------
(***************************************************************************)
(* The inductive invariant.                                                *)
(***************************************************************************)
\* A record that has something of an object shows that it is on no cycle.
IsRecord(r) == r = [flag |-> r.flag, items |-> r.items, used |-> r.used]

RecordOK(d, o, r) ==
  /\ IsRecord(r) /\ r.items \in Seq(Item)
  /\ r.flag \in GoodFlags \/ r.items # << >> => Acyclic(d, o)

RecordsInv(d, records) ==
  \A o \in DOMAIN records : o \in Object /\ RecordOK(d, o, records[o])

\* A variable that is no error is on no cycle.
CacheInv(d, known) ==
  \A v \in DOMAIN known :
    /\ v \in DOMAIN d.variables /\ known[v].flag # "incomplete"
    /\ known[v].flag # "error" => Acyclic(d, v)

WantedOf(d, frame) ==
  CASE frame.what = "object" -> d.needs[frame.id]
    [] frame.what = "state" -> d.states[frame.id]
    [] frame.what = "variable" -> References(d)[RootOf(d, frame.id)]

LeafOf(d, frame) ==
  LET leaves == ObjectLeaves(d)[RootOf(d, frame.id)]
  IN  leaves[Min({i \in DOMAIN leaves : leaves[i] \notin DOMAIN frame.read})]

IsFrame(frame) ==
  frame = [what |-> frame.what, id |-> frame.id, next |-> frame.next, read |-> frame.read]

FrameId(d, stage, frame) ==
  \/ frame.what = "object" /\ frame.id \in Object /\ stage = "collecting"
  \/ frame.what = "state" /\ frame.id \in DOMAIN d.states /\ stage # "collecting"
  \/ frame.what = "variable" /\ IsLocal(d, frame.id)

\* The variables a frame has passed are in the cache and on no cycle, and so are
\* the objects it has read.
FrameInv(d, stage, known, frame) ==
  /\ IsFrame(frame) /\ FrameId(d, stage, frame) /\ frame.next \in Nat \ {0}
  /\ \A j \in DOMAIN WantedOf(d, frame) :
       j < frame.next => WantedOf(d, frame)[j] \in known /\ Acyclic(d, WantedOf(d, frame)[j])
  /\ \A c \in DOMAIN frame.read : RecordOK(d, d.components[c].object, frame.read[c])

\* An object is on the stack because the variable below it reads it.
Linked(d, s, i) ==
  /\ s[i].what = "variable" => i > 1
  /\ s[i].what = "object" /\ i > 1 => d.components[LeafOf(d, s[i - 1])].object = s[i].id

StackInv(d, stage, known, s) ==
  /\ IsSeq(s)
  /\ \A i \in DOMAIN s : FrameInv(d, stage, known, s[i]) /\ Linked(d, s, i)

\* All objects before the cursor are collected, and then all have a record.
CollectionInv(d, stage, position, objects, records) ==
  /\ stage = "collecting" =>
       /\ position \in Nat \ {0}
       /\ \A i \in DOMAIN d.objects : i < position => d.objects[i] \in DOMAIN objects
  /\ stage # "collecting" => DOMAIN records = Object /\ RecordsInv(d, records)

VariableInv ==
  /\ doc \in Documents
  /\ CacheInv(doc, cache) /\ RecordsInv(doc, collected)
  /\ StackInv(doc, phase, DOMAIN cache, stack)
  /\ CollectionInv(doc, phase, cursor, collected, sc)

-----------------------------------------------------------------------------
(***************************************************************************)
(* What the actions do to the stack keeps its invariant.                   *)
(***************************************************************************)
\* More variables in the cache do no harm.
LEMMA GrowKeeps ==
  ASSUME NEW d, NEW stage, NEW known, NEW more, known \subseteq more, NEW s,
         StackInv(d, stage, known, s)
  PROVE  StackInv(d, stage, more, s)
BY DEF StackInv, FrameInv

\* Calls that end.
LEMMA CutKeeps ==
  ASSUME NEW d, NEW stage, NEW known, NEW s, StackInv(d, stage, known, s),
         NEW k \in 0..Len(s)
  PROVE  StackInv(d, stage, known, SubSeq(s, 1, k))
<1> DEFINE t == SubSeq(s, 1, k)
<1>1. /\ IsSeq(t) /\ DOMAIN t = 1..k /\ \A i \in 1..k : t[i] = s[i]
  BY CutSeq DEF StackInv
<1>2. Len(s) \in Nat /\ DOMAIN s = 1..Len(s)
  BY PushSeq DEF StackInv
<1>3. ASSUME NEW i \in 1..k PROVE FrameInv(d, stage, known, t[i]) /\ Linked(d, t, i)
  <2>1. i \in DOMAIN s /\ t[i] = s[i]
    BY <1>1, <1>2
  <2>2. FrameInv(d, stage, known, s[i]) /\ Linked(d, s, i)
    BY <2>1 DEF StackInv
  <2>3. i > 1 => t[i - 1] = s[i - 1]
    <3>1. i > 1 => i - 1 \in 1..k
      BY <1>2
    <3> QED
      BY <3>1, <1>1
  <2> HIDE DEF t
  <2> QED
    BY <2>1, <2>2, <2>3 DEF Linked
<1> HIDE DEF t
<1> QED
  BY <1>1, <1>3 DEF StackInv, t

\* A call that begins.
LEMMA PushKeeps ==
  ASSUME NEW d, NEW stage, NEW known, NEW s, StackInv(d, stage, known, s), NEW frame,
         FrameInv(d, stage, known, frame), s = << >> => frame.what # "variable",
         s # << >> /\ frame.what = "object" =>
           d.components[LeafOf(d, s[Len(s)])].object = frame.id
  PROVE  StackInv(d, stage, known, Append(s, frame))
<1> DEFINE t == Append(s, frame)
           n == Len(s)
<1>1. /\ IsSeq(t) /\ n \in Nat /\ DOMAIN t = 1..(n + 1) /\ DOMAIN s = 1..n
      /\ t[n + 1] = frame /\ \A i \in 1..n : t[i] = s[i]
  BY PushSeq DEF StackInv
<1>2. n = 0 => s = << >>
  BY DEF StackInv, IsSeq
<1>3. n # 0 => s # << >>
  OBVIOUS
<1> HIDE DEF t, n
<1>4. ASSUME NEW i \in 1..(n + 1) PROVE FrameInv(d, stage, known, t[i]) /\ Linked(d, t, i)
  <2>1. CASE i \in 1..n
    <3>1. FrameInv(d, stage, known, s[i]) /\ Linked(d, s, i) /\ t[i] = s[i]
      BY <1>1, <2>1 DEF StackInv
    <3>2. i > 1 => t[i - 1] = s[i - 1]
      <4>1. i > 1 => i - 1 \in 1..n
        BY <1>1, <2>1
      <4> QED
        BY <4>1, <1>1
    <3> QED
      BY <3>1, <3>2 DEF Linked
  <2>2. CASE i = n + 1
    <3>1. i > 1 => n # 0 /\ i - 1 = n /\ n \in 1..n
      BY <1>1, <2>2
    <3>2. ~(i > 1) => n = 0
      BY <1>1, <2>2
    <3>3. i > 1 => t[i - 1] = s[Len(s)]
      BY <3>1, <1>1 DEF n
    <3>4. t[i] = frame
      BY <1>1, <2>2
    <3>5. Linked(d, t, i)
      BY <3>1, <3>2, <3>3, <3>4, <1>2, <1>3 DEF Linked
    <3> QED
      BY <3>4, <3>5
  <2> QED
    BY <1>1, <2>1, <2>2
<1> QED
  BY <1>1, <1>4 DEF StackInv, t

\* A change in the innermost call.
LEMMA TopKeeps ==
  ASSUME NEW d, NEW stage, NEW known, NEW s, StackInv(d, stage, known, s), s # << >>,
         NEW frame, FrameInv(d, stage, known, frame),
         frame.what = s[Len(s)].what, frame.id = s[Len(s)].id
  PROVE  StackInv(d, stage, known, [s EXCEPT ![Len(s)] = frame])
<1> DEFINE n == Len(s)
           t == [s EXCEPT ![n] = frame]
<1>1. n \in Nat /\ n # 0 /\ n \in 1..n
  BY DEF StackInv, IsSeq
<1>2. /\ IsSeq(t) /\ DOMAIN t = 1..n /\ DOMAIN s = 1..n
      /\ t[n] = frame /\ \A i \in 1..n : i # n => t[i] = s[i]
  BY <1>1, SetSeq, PushSeq DEF StackInv
<1> HIDE DEF t
<1>3. ASSUME NEW i \in 1..n PROVE FrameInv(d, stage, known, t[i]) /\ Linked(d, t, i)
  <2>1. FrameInv(d, stage, known, s[i]) /\ Linked(d, s, i)
    BY <1>2 DEF StackInv
  <2>2. t[i].what = s[i].what /\ t[i].id = s[i].id /\ FrameInv(d, stage, known, t[i])
    <3>1. CASE i = n
      BY <3>1, <1>2
    <3>2. CASE i # n
      BY <3>2, <1>2, <2>1
    <3> QED
      BY <3>1, <3>2
  <2>3. i > 1 => t[i - 1] = s[i - 1]
    <3>1. i > 1 => i - 1 \in 1..n /\ i - 1 # n
      BY <1>1
    <3> QED
      BY <3>1, <1>2
  <2> QED
    BY <2>1, <2>2, <2>3 DEF Linked
<1> QED
  BY <1>2, <1>3 DEF StackInv, t

\* An entry more, where there is none.
LEMMA EnteredFacts ==
  ASSUME NEW f, NEW x, NEW r
  PROVE  /\ DOMAIN Entered(f, x, r) = DOMAIN f \cup {x}
         /\ \A y \in DOMAIN f : Entered(f, x, r)[y] = f[y]
         /\ x \notin DOMAIN f => Entered(f, x, r)[x] = r
BY DEF Entered

\* The variables a frame wants depend on what it is a frame of.
LEMMA WantedIs ==
  ASSUME NEW d, NEW frame, NEW other, frame.what = other.what, frame.id = other.id
  PROVE  WantedOf(d, frame) = WantedOf(d, other)
BY Zenon DEF WantedOf

\* The innermost call goes on to its next variable, when it has found this one.
LEMMA NextKeeps ==
  ASSUME NEW d, NEW stage, NEW known, NEW frame, FrameInv(d, stage, known, frame),
         frame.next \in DOMAIN WantedOf(d, frame) =>
           /\ WantedOf(d, frame)[frame.next] \in known
           /\ Acyclic(d, WantedOf(d, frame)[frame.next]),
         DOMAIN WantedOf(d, frame) \subseteq Nat
  PROVE  FrameInv(d, stage, known, [frame EXCEPT !.next = @ + 1])
<1> DEFINE new == [frame EXCEPT !.next = @ + 1]
<1>1. IsFrame(frame) /\ frame.next \in Nat \ {0}
  BY DEF FrameInv
<1>2. /\ new.what = frame.what /\ new.id = frame.id /\ new.read = frame.read
      /\ new.next = frame.next + 1 /\ IsFrame(new)
  BY <1>1 DEF IsFrame
<1> HIDE DEF new
<1>3. WantedOf(d, new) = WantedOf(d, frame)
  BY <1>2, WantedIs
<1>4. FrameId(d, stage, new)
  BY <1>2 DEF FrameInv, FrameId
<1>5. ASSUME NEW j \in DOMAIN WantedOf(d, new), j < new.next
      PROVE  WantedOf(d, new)[j] \in known /\ Acyclic(d, WantedOf(d, new)[j])
  <2>1. j \in Nat /\ (j < frame.next \/ j = frame.next)
    BY <1>1, <1>2, <1>3, <1>5
  <2> QED
    BY <2>1, <1>3, <1>5 DEF FrameInv
<1>6. \A c \in DOMAIN new.read : RecordOK(d, d.components[c].object, new.read[c])
  BY <1>2 DEF FrameInv
<1>7. new.next \in Nat \ {0}
  BY <1>1, <1>2
<1>8. FrameInv(d, stage, known, new)
  BY <1>2, <1>4, <1>5, <1>6, <1>7 DEF FrameInv
<1> QED
  BY <1>8 DEF new

\* The innermost call has read an object.
LEMMA ReadKeeps ==
  ASSUME NEW d, NEW stage, NEW known, NEW frame, FrameInv(d, stage, known, frame),
         NEW leaf, NEW record, RecordOK(d, d.components[leaf].object, record)
  PROVE  FrameInv(d, stage, known, [frame EXCEPT !.read = Entered(@, leaf, record)])
<1> DEFINE new == [frame EXCEPT !.read = Entered(@, leaf, record)]
           read == Entered(frame.read, leaf, record)
<1>1. IsFrame(frame)
  BY DEF FrameInv
<1>2. /\ new.what = frame.what /\ new.id = frame.id /\ new.read = read
      /\ new.next = frame.next /\ IsFrame(new)
  BY <1>1 DEF IsFrame
<1>3. \A c \in DOMAIN read : \/ c \in DOMAIN frame.read /\ read[c] = frame.read[c]
                             \/ c = leaf /\ read[c] = record
  <2> DEFINE old == frame.read
  <2>1. DOMAIN read = DOMAIN old \cup {leaf}
    BY Zenon, EnteredFacts
  <2>2. \A c \in DOMAIN old : read[c] = old[c]
    BY DEF Entered
  <2>3. leaf \notin DOMAIN old => read[leaf] = record
    BY Zenon, EnteredFacts
  <2> HIDE DEF read, old, new
  <2>4. ASSUME NEW c \in DOMAIN read PROVE \/ c \in DOMAIN old /\ read[c] = old[c]
                                           \/ c = leaf /\ read[c] = record
    BY <2>1, <2>2, <2>3
  <2> QED
    BY <2>4 DEF old
<1> HIDE DEF new, read
<1>4. WantedOf(d, new) = WantedOf(d, frame)
  BY <1>2, WantedIs
<1>5. FrameId(d, stage, new)
  BY <1>2 DEF FrameInv, FrameId
<1>6. \A c \in DOMAIN new.read : RecordOK(d, d.components[c].object, new.read[c])
  BY <1>2, <1>3 DEF FrameInv
<1>7. FrameInv(d, stage, known, new)
  BY <1>2, <1>4, <1>5, <1>6 DEF FrameInv
<1> QED
  BY <1>7 DEF new

\* WantedBy and NextLeaf are about the document of the run.
LEMMA OfTheRun ==
  ASSUME NEW frame
  PROVE  WantedBy(frame) = WantedOf(doc, frame) /\ NextLeaf(frame) = LeafOf(doc, frame)
BY Zenon DEF WantedBy, WantedOf, NextLeaf, LeafOf, Root, RootOf

\* A record is handed to the call that reads it.
LEMMA ReturnedKeeps ==
  ASSUME NEW stage, NEW known, NEW rest, StackInv(doc, stage, known, rest), NEW record,
         rest # << >> => RecordOK(doc, doc.components[LeafOf(doc, rest[Len(rest)])].object, record)
  PROVE  StackInv(doc, stage, known, Returned(rest, record))
<1>1. CASE rest = << >>
  BY <1>1 DEF Returned
<1>2. CASE rest # << >>
  <2> DEFINE n == Len(rest)
             frame == rest[n]
             leaf == LeafOf(doc, frame)
             new == [frame EXCEPT !.read = Entered(@, leaf, record)]
  <2>1. Returned(rest, record) = [rest EXCEPT ![n] = new]
    BY <1>2, OfTheRun DEF Returned, Last
  <2>2. n \in DOMAIN rest
    BY <1>2 DEF StackInv, IsSeq
  <2>3. FrameInv(doc, stage, known, frame) /\ IsFrame(frame)
    BY <2>2 DEF StackInv, FrameInv
  <2>4. RecordOK(doc, doc.components[leaf].object, record)
    BY <1>2
  <2>5. new.what = frame.what /\ new.id = frame.id
    BY <2>3 DEF IsFrame
  <2> HIDE DEF leaf
  <2>6. FrameInv(doc, stage, known, new)
    BY <2>3, <2>4, ReadKeeps
  <2> HIDE DEF new
  <2>7. StackInv(doc, stage, known, [rest EXCEPT ![n] = new])
    BY <1>2, <2>5, <2>6, TopKeeps
  <2> QED
    BY <2>1, <2>7
<1> QED
  BY <1>1, <1>2

\* A record that says nothing of an object may be made of any.
LEMMA EmptyRecord ==
  ASSUME NEW d, NEW o, NEW flag, flag \notin GoodFlags
  PROVE  RecordOK(d, o, Record(flag, << >>, {}))
<1> DEFINE r == Record(flag, << >>, {})
<1>1. IsRecord(r) /\ r.flag = flag /\ r.items = << >>
  BY DEF Record, IsRecord
<1>2. << >> \in Seq(Item)
  OBVIOUS
<1> HIDE DEF r
<1>3. RecordOK(d, o, r)
  BY <1>1, <1>2 DEF RecordOK
<1> QED
  BY <1>3 DEF r

\* One more object is collected.
LEMMA CollectKeeps ==
  ASSUME NEW d, NEW records, RecordsInv(d, records), NEW o \in Object, NEW r, RecordOK(d, o, r)
  PROVE  RecordsInv(d, Entered(records, o, r)) /\ DOMAIN records \subseteq DOMAIN Entered(records, o, r)
<1> DEFINE new == Entered(records, o, r)
<1>1. /\ DOMAIN new = DOMAIN records \cup {o}
      /\ \A y \in DOMAIN records : new[y] = records[y]
      /\ o \notin DOMAIN records => new[o] = r
  BY DEF Entered
<1> HIDE DEF new
<1>2. RecordsInv(d, new) /\ DOMAIN records \subseteq DOMAIN new
  BY <1>1 DEF RecordsInv
<1> QED
  BY <1>2 DEF new

\* Then those before the cursor still are.
LEMMA CollectionKeeps ==
  ASSUME NEW d, NEW stage, NEW position, NEW objects, NEW more, NEW records,
         CollectionInv(d, stage, position, objects, records), DOMAIN objects \subseteq DOMAIN more
  PROVE  CollectionInv(d, stage, position, more, records)
BY DEF CollectionInv

\* Every set of natural numbers up to n that is not empty has a greatest member.
LEMMA MaxExists ==
  ASSUME NEW n \in Nat, NEW T, T \subseteq 1..n, T # {}
  PROVE  Max(T) \in T
<1> DEFINE D == {k \in 0..n : n - k \in T}
<1>1. D \subseteq Nat /\ D # {}
  <2>1. PICK i \in T : TRUE
    OBVIOUS
  <2>2. i \in 1..n /\ n - i \in 0..n /\ n - (n - i) = i
    BY <2>1
  <2>3. n - (n - i) \in T
    BY <2>1, <2>2
  <2>4. n - i \in D
    BY <2>2, <2>3
  <2> HIDE DEF D
  <2>5. D # {}
    BY <2>4
  <2>6. D \subseteq Nat
    BY DEF D
  <2> QED
    BY <2>5, <2>6
<1>2. PICK m \in D : \A k \in D : m <= k
  <2> HIDE DEF D
  <2> QED
    BY <1>1, LeastNatural
<1>3. n - m \in T /\ m \in 0..n
  BY <1>2
<1>4. \A j \in T : n - m >= j
  <2> TAKE j \in T
  <2>1. j \in 1..n /\ n - j \in 0..n /\ n - (n - j) = j
    OBVIOUS
  <2>2. m <= n - j
    BY <1>2, <2>1
  <2> QED
    BY <1>3, <2>1, <2>2
<1>5. \E i \in T : \A j \in T : i >= j
  BY <1>3, <1>4
<1> HIDE DEF D
<1> QED
  BY <1>5 DEF Max

\* The call an exception ends.
Host == Max({i \in DOMAIN stack : stack[i].what # "variable"})

\* There is one: a variable is parsed for an object or a state.
LEMMA HostFacts ==
  ASSUME VariableInv, stack # << >>
  PROVE  Host \in DOMAIN stack /\ stack[Host].what # "variable" /\ Host - 1 \in 0..Len(stack)
<1> DEFINE hosts == {i \in DOMAIN stack : stack[i].what # "variable"}
<1>1. StackInv(doc, phase, DOMAIN cache, stack)
  BY DEF VariableInv
<1>2. Host \in hosts
  <2>1. DOMAIN stack = 1..Len(stack) /\ Len(stack) \in Nat /\ 1 \in DOMAIN stack
    BY <1>1 DEF StackInv, IsSeq
  <2>2. 1 \in hosts
    BY <1>1, <2>1 DEF StackInv, Linked
  <2> HIDE DEF hosts
  <2>3. hosts \subseteq 1..Len(stack)
    BY <2>1 DEF hosts
  <2>4. Max(hosts) \in hosts
    BY <2>1, <2>2, <2>3, MaxExists
  <2> QED
    BY <2>4 DEF Host, hosts
<1>3. DOMAIN stack = 1..Len(stack) /\ Len(stack) \in Nat
  BY <1>1, PushSeq DEF StackInv
<1> QED
  BY <1>2, <1>3

\* An exception ends the innermost Parse of an object or of a state, and what it
\* leaves behind says nothing of the object.
LEMMA FailKeeps ==
  ASSUME VariableInv, stack # << >>, NEW flag, flag \notin GoodFlags, Fail(flag), cache' = cache
  PROVE  VariableInv'
<1> DEFINE host == Host
           rest == SubSeq(stack, 1, host - 1)
           record == Record(flag, << >>, {})
<1>1. /\ doc \in Documents /\ CacheInv(doc, cache) /\ RecordsInv(doc, collected)
      /\ StackInv(doc, phase, DOMAIN cache, stack)
      /\ CollectionInv(doc, phase, cursor, collected, sc)
  BY DEF VariableInv
<1>2. /\ doc' = doc /\ phase' = phase /\ sc' = sc
      /\ \/ /\ stack[host].what = "object" /\ collected' = Kept(stack[host].id, record)
            /\ stack' = Returned(rest, record) /\ cursor' = cursor
         \/ /\ stack[host].what # "object" /\ stack' = rest /\ collected' = collected
  BY DEF Fail, Host
<1>3. host \in DOMAIN stack /\ stack[host].what # "variable" /\ host - 1 \in 0..Len(stack)
  BY HostFacts
<1> HIDE DEF host
<1>4. StackInv(doc, phase, DOMAIN cache, rest)
  BY <1>1, <1>3, CutKeeps
<1>5. \A o : RecordOK(doc, o, record)
  BY EmptyRecord
<1> HIDE DEF rest, record
<1>6. FrameId(doc, phase, stack[host])
  BY <1>1, <1>3 DEF StackInv, FrameInv
<1>7. CASE stack[host].what = "object"
  <2>1. /\ collected' = Entered(collected, stack[host].id, record) /\ stack[host].id \in Object
        /\ stack' = Returned(rest, record) /\ cursor' = cursor
    BY <1>2, <1>6, <1>7 DEF FrameId, Kept
  <2>2. RecordsInv(doc, collected') /\ DOMAIN collected \subseteq DOMAIN collected'
    BY <1>1, <1>5, <2>1, CollectKeeps
  <2>3. StackInv(doc, phase, DOMAIN cache, stack')
    BY <1>4, <1>5, <2>1, ReturnedKeeps
  <2>4. CollectionInv(doc, phase, cursor, collected', sc)
    BY <1>1, <2>2, CollectionKeeps
  <2> QED
    BY <1>1, <1>2, <2>1, <2>2, <2>3, <2>4 DEF VariableInv
<1>8. CASE stack[host].what # "object"
  <2>1. stack' = rest /\ collected' = collected /\ phase # "collecting"
    BY <1>2, <1>3, <1>6, <1>8 DEF FrameId
  <2>2. CollectionInv(doc, phase, cursor', collected', sc)
    BY <1>1, <2>1 DEF CollectionInv
  <2> QED
    BY <1>1, <1>2, <1>4, <2>1, <2>2 DEF VariableInv
<1> QED
  BY <1>7, <1>8

-----------------------------------------------------------------------------
(***************************************************************************)
(* The actions.                                                            *)
(***************************************************************************)
\* The list of variables a frame wants is a sequence.
LEMMA WantedTyped ==
  ASSUME NEW d \in Documents, NEW stage, NEW frame, FrameId(d, stage, frame)
  PROVE  IsSeq(WantedOf(d, frame))
<1>1. CASE frame.what = "object" /\ frame.id \in Object
  <2>1. WantedOf(d, frame) = d.needs[frame.id]
    BY <1>1 DEF WantedOf
  <2>2. d.needs[frame.id] \in Seq(Variable)
    BY <1>1, DocumentFacts
  <2> QED
    BY <2>1, <2>2 DEF IsSeq
<1>2. CASE frame.what = "state" /\ frame.id \in DOMAIN d.states
  <2>1. WantedOf(d, frame) = d.states[frame.id]
    BY <1>2 DEF WantedOf
  <2>2. d.states[frame.id] \in Seq(Variable)
    BY <1>2, DocumentFacts
  <2> QED
    BY <2>1, <2>2 DEF IsSeq
<1>3. CASE frame.what = "variable" /\ IsLocal(d, frame.id)
  <2>1. WantedOf(d, frame) = References(d)[RootOf(d, frame.id)]
    BY <1>3 DEF WantedOf
  <2>2. RootOf(d, frame.id) \in Parts(d)
    BY <1>3, DocumentFacts DEF IsLocal, RootOf
  <2>3. References(d)[RootOf(d, frame.id)] \in Seq(Referenced)
    BY <2>2, ReferencesFacts
  <2> QED
    BY <2>1, <2>3 DEF IsSeq
<1> QED
  BY <1>1, <1>2, <1>3 DEF FrameId

\* The innermost call.
LEMMA TopFacts ==
  ASSUME VariableInv, stack # << >>
  PROVE  /\ Len(stack) \in DOMAIN stack /\ Len(stack) \in Nat /\ Top = stack[Len(stack)]
         /\ FrameInv(doc, phase, DOMAIN cache, Top) /\ Linked(doc, stack, Len(stack))
         /\ FrameId(doc, phase, Top)
         /\ Wants(Top) <=> Top.next \in DOMAIN WantedOf(doc, Top)
         /\ Wanted = WantedOf(doc, Top)[Top.next]
         /\ DOMAIN WantedOf(doc, Top) = 1..Len(WantedOf(doc, Top))
         /\ Len(WantedOf(doc, Top)) \in Nat
<1>1. doc \in Documents /\ StackInv(doc, phase, DOMAIN cache, stack)
  BY DEF VariableInv
<1>2. Len(stack) \in DOMAIN stack /\ Len(stack) \in Nat /\ Top = stack[Len(stack)]
  BY <1>1 DEF StackInv, IsSeq, Top, Last
<1>3. FrameInv(doc, phase, DOMAIN cache, Top) /\ Linked(doc, stack, Len(stack))
  BY <1>1, <1>2 DEF StackInv
<1>4. FrameId(doc, phase, Top)
  BY <1>3 DEF FrameInv
<1>5. IsSeq(WantedOf(doc, Top))
  BY <1>1, <1>4, WantedTyped
<1>6. Wants(Top) <=> Top.next \in DOMAIN WantedOf(doc, Top)
  BY OfTheRun DEF Wants
<1>7. Wanted = WantedOf(doc, Top)[Top.next]
  BY OfTheRun DEF Wanted
<1> QED
  BY <1>2, <1>3, <1>4, <1>5, <1>6, <1>7, PushSeq

\* A call that wants no more has all its variables, which are on no cycle.
LEMMA AllFound ==
  ASSUME VariableInv, stack # << >>, ~Wants(Top)
  PROVE  \A w \in ToSet(WantedOf(doc, Top)) : w \in DOMAIN cache /\ Acyclic(doc, w)
<1> DEFINE n == Len(WantedOf(doc, Top))
<1>1. /\ FrameInv(doc, phase, DOMAIN cache, Top) /\ n \in Nat
      /\ DOMAIN WantedOf(doc, Top) = 1..n /\ Top.next \notin 1..n
  BY TopFacts
<1>2. Top.next \in Nat \ {0}
  BY <1>1 DEF FrameInv
<1> HIDE DEF n
<1>3. \A j \in 1..n : j < Top.next
  BY <1>1, <1>2
<1> QED
  BY <1>1, <1>3 DEF FrameInv, ToSet

\* GetVariable finds the variable in its cache.
LEMMA FindVariableKeeps ==
  ASSUME VariableInv, FindVariable
  PROVE  VariableInv'
<1>1. /\ stack # << >> /\ Wants(Top) /\ Wanted \in DOMAIN cache /\ cache' = cache
      /\ IF cache[Wanted].flag = "complete" THEN Advance ELSE Fail(cache[Wanted].flag)
  BY DEF FindVariable, Asks
<1>2. CacheInv(doc, cache)
  BY DEF VariableInv
<1>3. CASE cache[Wanted].flag = "complete"
  <2> DEFINE n == Len(stack)
             new == [Top EXCEPT !.next = @ + 1]
  <2>1. /\ stack' = [stack EXCEPT ![n] = new]
        /\ doc' = doc /\ phase' = phase /\ cursor' = cursor /\ collected' = collected /\ sc' = sc
    BY <1>1, <1>3, TopFacts DEF Advance
  <2>2. Acyclic(doc, Wanted)
    BY <1>1, <1>2, <1>3 DEF CacheInv
  <2>3. FrameInv(doc, phase, DOMAIN cache, new)
    BY <1>1, <2>2, TopFacts, NextKeeps
  <2>4. IsFrame(Top)
    BY <1>1, TopFacts DEF FrameInv
  <2>5. new.what = Top.what /\ new.id = Top.id
    BY <2>4 DEF IsFrame
  <2>6. Top = stack[n] /\ StackInv(doc, phase, DOMAIN cache, stack)
    BY <1>1, TopFacts DEF VariableInv
  <2> HIDE DEF new
  <2>7. StackInv(doc, phase, DOMAIN cache, [stack EXCEPT ![n] = new])
    BY <1>1, <2>3, <2>5, <2>6, TopKeeps
  <2> QED
    BY <1>1, <2>1, <2>7 DEF VariableInv
<1>4. CASE cache[Wanted].flag # "complete"
  <2>1. cache[Wanted].flag \notin GoodFlags
    BY <1>1, <1>2, <1>4 DEF CacheInv, GoodFlags
  <2> QED
    BY <1>1, <1>4, <2>1, FailKeeps
<1> QED
  BY <1>3, <1>4

\* The other exceptions.
LEMMA ThrowsKeep ==
  ASSUME VariableInv, MissingVariable \/ RejectFunction \/ ProcessThrows
  PROVE  VariableInv'
<1>1. stack # << >> /\ Fail("error") /\ cache' = cache
  BY DEF MissingVariable, RejectFunction, ProcessThrows, Asks, Active
<1>2. "error" \notin GoodFlags
  BY DEF GoodFlags
<1> QED
  BY <1>1, <1>2, FailKeeps

\* One more variable is known.
LEMMA KnownKeeps ==
  ASSUME NEW d, NEW known, CacheInv(d, known), NEW v \in DOMAIN d.variables, NEW r,
         r.flag # "incomplete", r.flag # "error" => Acyclic(d, v)
  PROVE  CacheInv(d, Entered(known, v, r)) /\ DOMAIN known \subseteq DOMAIN Entered(known, v, r)
<1> DEFINE new == Entered(known, v, r)
<1>1. /\ DOMAIN new = DOMAIN known \cup {v}
      /\ \A y \in DOMAIN known : new[y] = known[y]
      /\ v \notin DOMAIN known => new[v] = r
  BY DEF Entered
<1> HIDE DEF new
<1>2. CacheInv(d, new) /\ DOMAIN known \subseteq DOMAIN new
  BY <1>1 DEF CacheInv
<1> QED
  BY <1>2 DEF new

\* A constant or external variable refers to nothing.
LEMMA ParseSourceKeeps ==
  ASSUME VariableInv, ParseSource
  PROVE  VariableInv'
<1>1. /\ Wanted \in DOMAIN doc.variables
      /\ doc' = doc /\ phase' = phase /\ cursor' = cursor /\ stack' = stack
      /\ collected' = collected /\ sc' = sc
  BY DEF ParseSource
<1>2. /\ doc \in Documents /\ CacheInv(doc, cache) /\ StackInv(doc, phase, DOMAIN cache, stack)
      /\ RecordsInv(doc, collected) /\ CollectionInv(doc, phase, cursor, collected, sc)
  BY DEF VariableInv
<1>3. PICK r : cache' = Entered(cache, Wanted, r) /\ r.flag \in {"error", "complete"}
  BY DEF ParseSource, ConstantValue, ExternalValue
<1>4. doc.variables[Wanted].kind # "local"
  BY DEF ParseSource
<1>5. Acyclic(doc, Wanted)
  <2>1. Wanted \notin Object
    BY <1>1, <1>2, DocumentFacts, VariablesAssumption
  <2>2. ~IsLocal(doc, Wanted)
    BY <1>4 DEF IsLocal
  <2>3. On(doc, Wanted) = {}
    BY <1>2, <2>1, <2>2, OnFacts
  <2> QED
    BY <1>2, <2>3, AcyclicByFirst
<1>6. CacheInv(doc, cache') /\ DOMAIN cache \subseteq DOMAIN cache'
  BY <1>1, <1>2, <1>3, <1>5, KnownKeeps
<1>7. StackInv(doc, phase, DOMAIN cache', stack)
  BY <1>2, <1>6, GrowKeeps
<1> QED
  BY <1>1, <1>2, <1>6, <1>7 DEF VariableInv

\* A frame that was only just made.
LEMMA NewFrame ==
  ASSUME NEW d \in Documents, NEW stage, NEW known, NEW what, NEW id,
         FrameId(d, stage, Frame(what, id))
  PROVE  FrameInv(d, stage, known, Frame(what, id))
<1> DEFINE frame == Frame(what, id)
<1>1. IsFrame(frame) /\ frame.next = 1 /\ frame.read = << >>
  BY DEF Frame, Nothing, IsFrame
<1>2. DOMAIN frame.read = {}
  BY <1>1
<1> HIDE DEF frame
<1>3. DOMAIN WantedOf(d, frame) = 1..Len(WantedOf(d, frame)) /\ Len(WantedOf(d, frame)) \in Nat
  BY WantedTyped, PushSeq DEF frame
<1>4. \A j \in DOMAIN WantedOf(d, frame) : ~(j < frame.next)
  BY <1>1, <1>3
<1>5. FrameInv(d, stage, known, frame)
  BY <1>1, <1>2, <1>4 DEF FrameInv, frame
<1> QED
  BY <1>5 DEF frame

\* A local variable is in the cache, with the flag error, before it is parsed.
LEMMA EnterLocalKeeps ==
  ASSUME VariableInv, EnterLocal
  PROVE  VariableInv'
<1> DEFINE r == [flag |-> "error", values |-> << >>]
           frame == Frame("variable", Wanted)
<1>1. /\ stack # << >> /\ Wanted \in DOMAIN doc.variables /\ doc.variables[Wanted].kind = "local"
      /\ cache' = Entered(cache, Wanted, r) /\ stack' = Append(stack, frame)
      /\ doc' = doc /\ phase' = phase /\ cursor' = cursor /\ collected' = collected /\ sc' = sc
  BY DEF EnterLocal, Asks
<1>2. /\ doc \in Documents /\ CacheInv(doc, cache) /\ StackInv(doc, phase, DOMAIN cache, stack)
      /\ RecordsInv(doc, collected) /\ CollectionInv(doc, phase, cursor, collected, sc)
  BY DEF VariableInv
<1>3. r.flag = "error"
  OBVIOUS
<1>4. frame.what = "variable" /\ frame.id = Wanted
  BY DEF Frame
<1> HIDE DEF r
<1>5. CacheInv(doc, cache') /\ DOMAIN cache \subseteq DOMAIN cache'
  BY <1>1, <1>2, <1>3, KnownKeeps
<1>6. StackInv(doc, phase, DOMAIN cache', stack)
  BY <1>2, <1>5, GrowKeeps
<1>7. FrameInv(doc, phase, DOMAIN cache', frame)
  <2>1. FrameId(doc, phase, frame)
    BY <1>1, <1>4 DEF FrameId, IsLocal
  <2> QED
    BY <1>2, <2>1, NewFrame
<1> HIDE DEF frame
<1>8. StackInv(doc, phase, DOMAIN cache', Append(stack, frame))
  BY <1>1, <1>4, <1>6, <1>7, PushKeeps
<1> QED
  BY <1>1, <1>2, <1>5, <1>8 DEF VariableInv

\* LocalVariable::ComputeValue when Parse has all variables.
LEMMA ComputesFacts ==
  ASSUME VariableInv, Computes, NEW outcome \in Outcomes
  PROVE  /\ stack # << >> /\ Top.what = "variable" /\ IsLocal(doc, Top.id)
         /\ RootOf(doc, Top.id) \in Parts(doc)
         /\ \A w \in ToSet(References(doc)[RootOf(doc, Top.id)]) :
              w \in DOMAIN cache /\ Acyclic(doc, w)
         /\ SoundOutcome(outcome, RootOf(doc, Top.id), Top.read)
<1> DEFINE root == RootOf(doc, Top.id)
<1>1. stack # << >> /\ Top.what = "variable" /\ ~Wants(Top)
  BY DEF Computes, Active
<1>2. /\ doc \in Documents /\ CacheInv(doc, cache) /\ DOMAIN cache \subseteq Variable /\ CacheFlags
  <2>1. doc \in Documents /\ CacheInv(doc, cache)
    BY DEF VariableInv
  <2> QED
    BY <2>1, DocumentFacts DEF CacheInv, CacheFlags
<1>3. IsLocal(doc, Top.id) /\ root \in Parts(doc)
  <2>1. IsLocal(doc, Top.id)
    BY <1>1, TopFacts DEF FrameId
  <2> QED
    BY <2>1, <1>2, DocumentFacts DEF IsLocal, RootOf
<1>4. WantedOf(doc, Top) = References(doc)[root]
  BY <1>1 DEF WantedOf
<1>5. \A w \in ToSet(References(doc)[root]) : w \in DOMAIN cache /\ Acyclic(doc, w)
  BY <1>1, <1>4, AllFound
<1>6. IsRead(Top.read)
  BY <1>1, TopFacts DEF FrameInv, RecordOK, IsRead
<1>7. PICK time : outcome = Computed(root, Top.read, time)
  BY DEF Outcomes, Root, RootOf
<1>8. Resolved(root)
  BY <1>5 DEF Resolved
<1> HIDE DEF root
<1>9. SoundOutcome(outcome, root, Top.read)
  BY <1>2, <1>3, <1>6, <1>7, <1>8, ComputedIsSound DEF root
<1> QED
  BY <1>1, <1>3, <1>5, <1>9 DEF root

\* The variable lacks one of its objects.
LEMMA NextLeafFacts ==
  ASSUME VariableInv, Computes, NEW outcome \in Outcomes, outcome = Pending
  PROVE  /\ NextLeaf(Top) = LeafOf(doc, Top)
         /\ LeafOf(doc, Top) \in ToSet(ObjectLeaves(doc)[RootOf(doc, Top.id)])
         /\ doc.components[LeafOf(doc, Top)].object \in Object
<1> DEFINE root == RootOf(doc, Top.id)
           leaves == ObjectLeaves(doc)[root]
           open == {i \in DOMAIN leaves : leaves[i] \notin DOMAIN Top.read}
<1>1. root \in Parts(doc) /\ LeafMissing(root, Top.read) /\ doc \in Documents
  <2>1. SoundOutcome(outcome, root, Top.read) /\ root \in Parts(doc)
    BY ComputesFacts
  <2>2. ~IsValue(outcome) /\ outcome # Thrown
    BY ValueFacts DEF IsValue, Value, Pending, Thrown
  <2> QED
    BY <2>1, <2>2 DEF SoundOutcome, VariableInv
<1>2. leaves \in Seq(Parts(doc))
  BY <1>1, LeavesFacts
<1>3. open # {} /\ open \subseteq Nat
  BY <1>1, <1>2 DEF LeafMissing, ToSet
<1>4. Min(open) \in open
  <2>1. \E x \in open : \A y \in open : x <= y
    <3> HIDE DEF open
    <3> QED
      BY <1>3, LeastNatural
  <2> QED
    BY <2>1 DEF Min
<1>5. LeafOf(doc, Top) = leaves[Min(open)]
  BY DEF LeafOf
<1>6. LeafOf(doc, Top) \in ToSet(leaves)
  <2>1. Min(open) \in DOMAIN leaves
    BY <1>4
  <2> HIDE DEF open, leaves
  <2> QED
    BY <1>5, <2>1 DEF ToSet
<1> QED
  BY <1>1, <1>6, LeavesAreObjects, OfTheRun

\* ObjectComponent::ComputeValue reads an object that is collected, or has it collected.
LEMMA CollectObjectKeeps ==
  ASSUME VariableInv, Computes, NEW outcome \in Outcomes, CollectObject(outcome)
  PROVE  VariableInv'
<1> DEFINE o == doc.components[LeafOf(doc, Top)].object
<1>1. /\ stack # << >> /\ phase = "collecting" /\ outcome = Pending
      /\ doc' = doc /\ phase' = phase /\ cursor' = cursor /\ cache' = cache
      /\ collected' = collected /\ sc' = sc
  BY DEF CollectObject, Computes, Active
<1>2. NextLeaf(Top) = LeafOf(doc, Top) /\ o \in Object
  BY <1>1, NextLeafFacts
<1>3. stack' = IF o \in DOMAIN collected THEN Returned(stack, collected[o])
               ELSE Append(stack, Frame("object", o))
  BY <1>2 DEF CollectObject
<1>4. /\ doc \in Documents /\ RecordsInv(doc, collected)
      /\ StackInv(doc, phase, DOMAIN cache, stack) /\ Top = stack[Len(stack)]
  BY <1>1, TopFacts DEF VariableInv
<1>5. CASE o \in DOMAIN collected
  <2>1. RecordOK(doc, o, collected[o])
    BY <1>4, <1>5 DEF RecordsInv
  <2>2. StackInv(doc, phase, DOMAIN cache, Returned(stack, collected[o]))
    BY <1>4, <2>1, ReturnedKeeps
  <2> QED
    BY <1>1, <1>3, <1>5, <2>2 DEF VariableInv
<1>6. CASE o \notin DOMAIN collected
  <2> DEFINE frame == Frame("object", o)
  <2>1. frame.what = "object" /\ frame.id = o
    BY DEF Frame
  <2>2. FrameInv(doc, phase, DOMAIN cache, frame)
    <3>1. FrameId(doc, phase, frame)
      BY <1>1, <1>2, <2>1 DEF FrameId
    <3> QED
      BY <1>4, <3>1, NewFrame
  <2> HIDE DEF frame
  <2>3. StackInv(doc, phase, DOMAIN cache, Append(stack, frame))
    BY <1>1, <1>4, <2>1, <2>2, PushKeeps
  <2> QED
    BY <1>1, <1>3, <1>6, <2>3 DEF VariableInv, frame
<1> QED
  BY <1>5, <1>6

\* The same once the tests are analyzed.
LEMMA ReadObjectKeeps ==
  ASSUME VariableInv, Computes, NEW outcome \in Outcomes, ReadObject(outcome)
  PROVE  VariableInv'
<1> DEFINE o == doc.components[LeafOf(doc, Top)].object
<1>1. stack # << >> /\ phase = "analyzing" /\ outcome = Pending /\ cache' = cache
  BY DEF ReadObject, Computes, Active
<1>2. NextLeaf(Top) = LeafOf(doc, Top) /\ o \in Object
  BY <1>1, NextLeafFacts
<1>3. \/ /\ stack' = Returned(stack, sc[o])
         /\ doc' = doc /\ phase' = phase /\ cursor' = cursor
         /\ collected' = collected /\ sc' = sc
      \/ Fail("error")
  BY <1>2 DEF ReadObject
<1>4. CASE Fail("error")
  <2>1. "error" \notin GoodFlags
    BY DEF GoodFlags
  <2> QED
    BY <1>1, <1>4, <2>1, FailKeeps
<1>5. CASE ~Fail("error")
  <2>1. RecordOK(doc, o, sc[o])
    BY <1>1, <1>2 DEF VariableInv, CollectionInv, RecordsInv
  <2>2. StackInv(doc, phase, DOMAIN cache, stack) /\ Top = stack[Len(stack)]
    BY <1>1, TopFacts DEF VariableInv
  <2>3. StackInv(doc, phase, DOMAIN cache, Returned(stack, sc[o]))
    BY <2>1, <2>2, ReturnedKeeps
  <2> QED
    BY <1>1, <1>3, <1>5, <2>3 DEF VariableInv
<1> QED
  BY <1>4, <1>5

\* The value of a local variable: it is no error only when all it refers to is on
\* no cycle, and then neither is the variable.
LEMMA ComputeLocalKeeps ==
  ASSUME VariableInv, Computes, NEW outcome \in Outcomes, ComputeLocal(outcome)
  PROVE  VariableInv'
<1> DEFINE v == Top.id
           root == RootOf(doc, v)
           values == IF outcome.flag \in {"complete", "incomplete"}
                       THEN outcome.values ELSE << >>
           r == [flag |-> outcome.flag, values |-> values]
           n == Len(stack)
<1>1. /\ outcome.state = "value" /\ stack # << >>
      /\ cache' = [cache EXCEPT ![v] = r] /\ stack' = SubSeq(stack, 1, n - 1)
      /\ doc' = doc /\ phase' = phase /\ cursor' = cursor /\ collected' = collected /\ sc' = sc
  BY DEF ComputeLocal, Computes, Active, Front
<1>2. /\ IsLocal(doc, v) /\ root \in Parts(doc)
      /\ \A w \in ToSet(References(doc)[root]) : w \in DOMAIN cache /\ Acyclic(doc, w)
      /\ SoundOutcome(outcome, root, Top.read)
  BY ComputesFacts
<1>3. /\ doc \in Documents /\ CacheInv(doc, cache) /\ StackInv(doc, phase, DOMAIN cache, stack)
      /\ FrameInv(doc, phase, DOMAIN cache, Top) /\ n \in Nat /\ n \in DOMAIN stack
      /\ DOMAIN stack = 1..n
  BY <1>1, TopFacts, PushSeq DEF VariableInv, StackInv
<1>4. outcome.flag # "incomplete" /\ (outcome.flag # "error" => LeavesRead(root, Top.read))
  BY <1>1, <1>2 DEF SoundOutcome, Pending, Thrown
<1>5. ASSUME outcome.flag # "error" PROVE Acyclic(doc, v)
  <2>1. ASSUME NEW m \in VariablesOf(doc, root) PROVE Acyclic(doc, m)
    BY <1>2 DEF VariablesOf
  <2>2. ASSUME NEW m \in ObjectsUnder(doc, root) PROVE Acyclic(doc, m)
    <3>1. PICK l \in ToSet(ObjectLeaves(doc)[root]) : m = doc.components[l].object
      BY DEF ObjectsUnder
    <3>2. l \in DOMAIN Top.read /\ Top.read[l].flag \in GoodFlags
      BY <1>4, <1>5 DEF LeavesRead
    <3>3. RecordOK(doc, m, Top.read[l])
      BY <1>3, <3>1, <3>2 DEF FrameInv
    <3> QED
      BY <3>2, <3>3 DEF RecordOK
  <2>3. On(doc, v) = VariablesOf(doc, root) \cup ObjectsUnder(doc, root)
    BY <1>2, <1>3, OnFacts
  <2> QED
    BY <1>3, <2>1, <2>2, <2>3, AcyclicByFirst
<1>6. r.flag = outcome.flag
  OBVIOUS
<1> HIDE DEF r
<1>7. CacheInv(doc, cache') /\ DOMAIN cache = DOMAIN cache'
  BY <1>1, <1>2, <1>3, <1>4, <1>5, <1>6 DEF CacheInv, IsLocal
<1>8. StackInv(doc, phase, DOMAIN cache', SubSeq(stack, 1, n - 1))
  <2>1. n - 1 \in 0..Len(stack)
    BY <1>3
  <2> QED
    BY <1>3, <1>7, <2>1, CutKeeps
<1> QED
  BY <1>1, <1>7, <1>8 DEF VariableInv

\* An exception of a function.
LEMMA ComputeThrowsKeep ==
  ASSUME VariableInv, Computes, NEW outcome, ComputeThrows(outcome)
  PROVE  VariableInv'
<1>1. stack # << >> /\ Fail("error") /\ cache' = cache
  BY DEF ComputeThrows, Computes, Active
<1>2. "error" \notin GoodFlags
  BY DEF GoodFlags
<1> QED
  BY <1>1, <1>2, FailKeeps

\* A call of Parse when no other is active.
LEMMA FirstCallKeeps ==
  ASSUME NEW d \in Documents, NEW stage, NEW known, NEW what, what # "variable", NEW id,
         FrameId(d, stage, Frame(what, id))
  PROVE  StackInv(d, stage, known, <<Frame(what, id)>>)
<1> DEFINE frame == Frame(what, id)
           s == <<frame>>
<1>1. FrameInv(d, stage, known, frame) /\ frame.what = what
  BY NewFrame DEF Frame
<1> HIDE DEF frame
<1>2. s \in Seq({frame}) /\ DOMAIN s = {1} /\ s[1] = frame
  OBVIOUS
<1>3. IsSeq(s)
  BY <1>2 DEF IsSeq
<1> HIDE DEF s
<1>4. Linked(d, s, 1)
  BY <1>1, <1>2 DEF Linked
<1>5. StackInv(d, stage, known, s)
  BY <1>1, <1>2, <1>3, <1>4 DEF StackInv
<1> QED
  BY <1>5 DEF s, frame

\* AbsDataCollector::Run has the next object collected, or finds that it is.
LEMMA RunKeeps ==
  ASSUME VariableInv, RunObject \/ NextObject
  PROVE  VariableInv'
<1> DEFINE o == doc.objects[cursor]
<1>1. /\ phase = "collecting" /\ cursor \in DOMAIN doc.objects /\ stack = << >>
      /\ doc' = doc /\ phase' = phase /\ cache' = cache /\ collected' = collected /\ sc' = sc
  BY DEF RunObject, NextObject, AtObject
<1>2. /\ doc \in Documents /\ CollectionInv(doc, phase, cursor, collected, sc)
  BY DEF VariableInv
<1>3. o \in Object /\ DOMAIN doc.objects \subseteq Nat
  <2>1. doc.objects \in Seq(Object)
    BY <1>2, DocumentFacts
  <2> QED
    BY <1>1, <2>1
<1>4. CASE RunObject
  <2>1. stack' = <<Frame("object", o)>> /\ cursor' = cursor
    BY <1>4 DEF RunObject
  <2>2. FrameId(doc, phase, Frame("object", o))
    BY <1>1, <1>3 DEF FrameId, Frame
  <2>3. StackInv(doc, phase, DOMAIN cache, stack')
    BY <1>2, <2>1, <2>2, FirstCallKeeps
  <2> QED
    BY <1>1, <2>1, <2>3 DEF VariableInv
<1>5. CASE NextObject
  <2>1. stack' = stack /\ cursor' = cursor + 1 /\ o \in DOMAIN collected
    BY <1>5 DEF NextObject
  <2>2. cursor \in Nat \ {0} /\ \A i \in DOMAIN doc.objects : i < cursor => doc.objects[i] \in DOMAIN collected
    BY <1>1, <1>2 DEF CollectionInv
  <2>3. \A i \in DOMAIN doc.objects : i < cursor + 1 => i < cursor \/ i = cursor
    BY <1>3, <2>2
  <2>4. CollectionInv(doc, phase, cursor + 1, collected, sc)
    BY <1>1, <2>1, <2>2, <2>3 DEF CollectionInv
  <2> QED
    BY <1>1, <2>1, <2>4 DEF VariableInv
<1> QED
  BY <1>4, <1>5

\* An object of which all variables are found is on no cycle.
LEMMA ReadyFacts ==
  ASSUME VariableInv, Active("object"), ~Wants(Top)
  PROVE  /\ Top.id \in Object /\ WantedOf(doc, Top) = doc.needs[Top.id]
         /\ Acyclic(doc, Top.id)
<1>1. stack # << >> /\ Top.what = "object" /\ doc \in Documents
  BY DEF Active, VariableInv
<1>2. Top.id \in Object /\ WantedOf(doc, Top) = doc.needs[Top.id]
  BY <1>1, TopFacts DEF FrameId, WantedOf
<1>3. \A w \in ToSet(doc.needs[Top.id]) : Acyclic(doc, w)
  BY <1>1, <1>2, AllFound
<1>4. On(doc, Top.id) = ToSet(doc.needs[Top.id])
  BY <1>1, <1>2, OnFacts
<1> QED
  BY <1>1, <1>2, <1>3, <1>4, AcyclicByFirst

\* An object is collected when all its variables are found, and is on no cycle.
LEMMA ProcessObjectKeeps ==
  ASSUME VariableInv, ProcessObject
  PROVE  VariableInv'
<1> DEFINE o == Top.id
           n == Len(stack)
           rest == SubSeq(stack, 1, n - 1)
<1>1. /\ stack # << >> /\ Top.what = "object" /\ ~Wants(Top)
      /\ doc' = doc /\ phase' = phase /\ cursor' = cursor /\ cache' = cache /\ sc' = sc
  BY DEF ProcessObject, Active
<1>2. /\ doc \in Documents /\ StackInv(doc, phase, DOMAIN cache, stack)
      /\ RecordsInv(doc, collected) /\ CollectionInv(doc, phase, cursor, collected, sc)
  BY DEF VariableInv
<1>3. /\ Top = stack[n] /\ Linked(doc, stack, n) /\ n \in DOMAIN stack /\ n \in Nat
      /\ FrameId(doc, phase, Top) /\ DOMAIN stack = 1..n
  BY <1>1, <1>2, TopFacts, PushSeq DEF StackInv
<1>4. o \in Object
  BY <1>1, ReadyFacts DEF Active
<1>5. Acyclic(doc, o)
  BY <1>1, ReadyFacts DEF Active
<1>6. PICK found \in doc.finds[o] : \E used :
        /\ collected' = Kept(o, Record(found.flag, found.items, used))
        /\ stack' = Returned(rest, Record(found.flag, found.items, used))
  BY DEF ProcessObject, Front
<1> PICK used : /\ collected' = Kept(o, Record(found.flag, found.items, used))
                /\ stack' = Returned(rest, Record(found.flag, found.items, used))
  BY <1>6
<1> DEFINE record == Record(found.flag, found.items, used)
<1>7. RecordOK(doc, o, record)
  <2>1. found.items \in Seq(Item)
    BY <1>2, <1>4, <1>6, VariablesAssumption DEF IsDocument
  <2>2. IsRecord(record) /\ record.items = found.items
    BY DEF Record, IsRecord
  <2> HIDE DEF record
  <2> QED
    BY <1>5, <2>1, <2>2 DEF RecordOK
<1>8. collected' = Entered(collected, o, record) /\ stack' = Returned(rest, record)
  BY DEF Kept
<1> HIDE DEF record
<1>9. RecordsInv(doc, collected') /\ DOMAIN collected \subseteq DOMAIN collected'
  BY <1>2, <1>4, <1>7, <1>8, CollectKeeps
<1>10. StackInv(doc, phase, DOMAIN cache, rest)
  <2>1. n - 1 \in 0..Len(stack)
    BY <1>3
  <2> QED
    BY <1>2, <2>1, CutKeeps
<1>11. rest # << >> => doc.components[LeafOf(doc, rest[Len(rest)])].object = o
  <2>1. CASE n = 1
    <3>1. rest = << >>
      <4>1. DOMAIN rest = 1..0
        BY <2>1, <1>2, <1>3, CutSeq DEF StackInv
      <4>2. IsSeq(rest)
        BY <1>10 DEF StackInv
      <4> HIDE DEF rest
      <4> QED
        BY <4>1, <4>2 DEF IsSeq
    <3> QED
      BY <3>1
  <2>2. CASE n # 1
    <3>1. n > 1 /\ n - 1 \in 1..(n - 1) /\ n - 1 \in 0..Len(stack)
      BY <1>3, <2>2
    <3>2. Len(rest) = n - 1 /\ rest[n - 1] = stack[n - 1]
      BY <1>2, <3>1, CutSeq DEF StackInv
    <3> HIDE DEF rest
    <3>3. doc.components[LeafOf(doc, stack[n - 1])].object = stack[n].id
      BY <1>1, <1>3, <3>1 DEF Linked
    <3> QED
      BY <1>3, <3>2, <3>3
  <2> QED
    BY <2>1, <2>2
<1> HIDE DEF rest
<1>12. StackInv(doc, phase, DOMAIN cache, stack')
  BY <1>7, <1>8, <1>10, <1>11, ReturnedKeeps
<1>13. CollectionInv(doc, phase, cursor, collected', sc)
  BY <1>2, <1>9, CollectionKeeps
<1> QED
  BY <1>1, <1>9, <1>12, <1>13 DEF VariableInv

\* A record says nothing more of its object when references are written once.
LEMMA OnceKeeps ==
  ASSUME NEW d, NEW o, NEW r, RecordOK(d, o, r)
  PROVE  RecordOK(d, o, [r EXCEPT !.items = Once(r.items)])
<1> DEFINE new == [r EXCEPT !.items = Once(r.items)]
<1>1. IsRecord(r) /\ r.items \in Seq(Item)
  BY DEF RecordOK
<1>2. Once(r.items) \in Seq(Item)
  BY <1>1, OnceTyped
<1>3. r.items = << >> => Once(r.items) = << >>
  BY <1>1, OnceTyped
<1>4. new.items = Once(r.items) /\ new.flag = r.flag /\ IsRecord(new)
  BY <1>1 DEF IsRecord
<1> HIDE DEF new
<1>5. RecordOK(d, o, new)
  BY <1>2, <1>3, <1>4 DEF RecordOK
<1> QED
  BY <1>5 DEF new

\* The collection ends when every object has its record; the caches are cleared.
LEMMA EndCollectionKeeps ==
  ASSUME VariableInv, EndCollection
  PROVE  VariableInv'
<1> DEFINE written == [o \in DOMAIN collected |->
                         [collected[o] EXCEPT !.items = Once(collected[o].items)]]
<1>1. /\ phase = "collecting" /\ stack = << >> /\ cursor \notin DOMAIN doc.objects
      /\ sc' = written /\ cache' = << >> /\ collected' = << >> /\ phase' = "analyzing"
      /\ doc' = doc /\ stack' = << >>
  BY DEF EndCollection, Nothing
<1>2. /\ doc \in Documents /\ RecordsInv(doc, collected)
      /\ CollectionInv(doc, phase, cursor, collected, sc)
      /\ StackInv(doc, phase, DOMAIN cache, stack)
  BY DEF VariableInv
<1>3. DOMAIN collected = Object
  <2>1. doc.objects \in Seq(Object) /\ ToSet(doc.objects) = Object
    BY <1>2, DocumentFacts
  <2>2. cursor \in Nat \ {0} /\ \A i \in DOMAIN doc.objects : i < cursor => doc.objects[i] \in DOMAIN collected
    BY <1>1, <1>2 DEF CollectionInv
  <2>3. \A i \in DOMAIN doc.objects : i < cursor
    BY <1>1, <2>1, <2>2
  <2>4. Object \subseteq DOMAIN collected
    BY <2>1, <2>2, <2>3 DEF ToSet
  <2> QED
    BY <1>2, <2>4 DEF RecordsInv
<1>4. ASSUME NEW o \in Object PROVE RecordOK(doc, o, written[o])
  <2>1. RecordOK(doc, o, collected[o]) /\ o \in DOMAIN collected
    BY <1>2, <1>3, <1>4 DEF RecordsInv
  <2>2. written[o] = [collected[o] EXCEPT !.items = Once(collected[o].items)]
    BY <2>1
  <2> HIDE DEF written
  <2> QED
    BY <2>1, <2>2, OnceKeeps
<1>5. DOMAIN written = Object
  BY <1>3
<1> HIDE DEF written
<1>6. RecordsInv(doc, written)
  BY <1>4, <1>5 DEF RecordsInv
<1>7. CollectionInv(doc, "analyzing", cursor', collected', sc')
  BY <1>1, <1>5, <1>6 DEF CollectionInv
<1>8. DOMAIN << >> = {}
  OBVIOUS
<1>9. CacheInv(doc, cache') /\ RecordsInv(doc, collected')
  BY <1>1, <1>8 DEF CacheInv, RecordsInv
<1>10. StackInv(doc, "analyzing", DOMAIN cache', stack')
  BY <1>1, <1>2, <1>8 DEF StackInv
<1> QED
  BY <1>1, <1>2, <1>7, <1>9, <1>10 DEF VariableInv

\* A state is parsed with its variables.
LEMMA ParseStateKeeps ==
  ASSUME VariableInv, ParseState
  PROVE  VariableInv'
<1>1. /\ phase = "analyzing" /\ cursor \in DOMAIN doc.states /\ stack' = <<Frame("state", cursor)>>
      /\ doc' = doc /\ phase' = phase /\ cursor' = cursor /\ cache' = cache
      /\ collected' = collected /\ sc' = sc
  BY DEF ParseState, AtState
<1>2. doc \in Documents
  BY DEF VariableInv
<1>3. FrameId(doc, phase, Frame("state", cursor))
  BY <1>1 DEF FrameId, Frame
<1>4. StackInv(doc, phase, DOMAIN cache, stack')
  BY <1>1, <1>2, <1>3, FirstCallKeeps
<1> QED
  BY <1>1, <1>4 DEF VariableInv

\* The steps of the analysis that leave the variables alone.
LEMMA AnalysisKeeps ==
  ASSUME VariableInv, StateParsed \/ WriteTest \/ WriteThrows \/ EndAnalysis
  PROVE  VariableInv'
<1>1. /\ doc' = doc /\ cache' = cache /\ collected' = collected /\ sc' = sc
      /\ stack' = << >>
  BY DEF StateParsed, WriteTest, WriteThrows, EndAnalysis, AtState
<1>2. phase # "collecting" /\ phase' # "collecting"
  <2>1. CASE StateParsed
    <3>1. stack # << >> /\ Top.what = "state" /\ phase' = phase
      BY <2>1 DEF StateParsed, Active
    <3>2. FrameId(doc, phase, Top)
      BY <3>1, TopFacts
    <3> QED
      BY <3>1, <3>2 DEF FrameId
  <2>2. CASE WriteTest \/ WriteThrows \/ EndAnalysis
    BY <2>2 DEF WriteTest, WriteThrows, EndAnalysis, AtState
  <2> QED
    BY <2>1, <2>2
<1>3. CollectionInv(doc, phase', cursor', collected', sc')
  BY <1>1, <1>2 DEF VariableInv, CollectionInv
<1>4. StackInv(doc, phase', DOMAIN cache', stack')
  <2>1. IsSeq(<< >>)
    <3>1. << >> \in Seq({})
      OBVIOUS
    <3> QED
      BY <3>1 DEF IsSeq
  <2>2. DOMAIN << >> = {}
    OBVIOUS
  <2> QED
    BY <1>1, <2>1, <2>2 DEF StackInv
<1> QED
  BY <1>1, <1>3, <1>4 DEF VariableInv

\* Compute is all that LocalVariable::ComputeValue may come to.
LEMMA ComputeKeeps ==
  ASSUME VariableInv, Compute
  PROVE  VariableInv'
<1>1. PICK outcome \in Outcomes : \/ CollectObject(outcome) \/ ReadObject(outcome)
                                 \/ ComputeLocal(outcome) \/ ComputeThrows(outcome)
  BY DEF Compute
<1>2. Computes
  BY DEF Compute
<1> QED
  BY <1>1, <1>2, CollectObjectKeeps, ReadObjectKeeps, ComputeLocalKeeps, ComputeThrowsKeep

\* Every step keeps the invariant.
LEMMA StepKeeps ==
  ASSUME VariableInv, [Next]_vars
  PROVE  VariableInv'
<1>1. CASE UNCHANGED vars
  BY <1>1 DEF VariableInv, vars
<1>2. CASE Step
  BY <1>2, FindVariableKeeps, ThrowsKeep, ParseSourceKeeps, EnterLocalKeeps, ComputeKeeps,
     RunKeeps, ProcessObjectKeeps, EndCollectionKeeps, ParseStateKeeps, AnalysisKeeps DEF Step
<1> QED
  BY <1>1, <1>2 DEF Next, Terminated

\* At the start nothing is parsed and nothing collected.
LEMMA InitMeets ==
  ASSUME Init
  PROVE  VariableInv
<1>1. /\ doc \in Documents /\ phase = "collecting" /\ cursor = 1 /\ stack = << >>
      /\ cache = << >> /\ collected = << >>
  BY DEF Init, Nothing
<1>2. DOMAIN << >> = {}
  OBVIOUS
<1>3. IsSeq(<< >>)
  <2>1. << >> \in Seq({})
    OBVIOUS
  <2> QED
    BY <2>1 DEF IsSeq
<1>4. CacheInv(doc, cache) /\ RecordsInv(doc, collected)
  BY <1>1, <1>2 DEF CacheInv, RecordsInv
<1>5. StackInv(doc, phase, DOMAIN cache, stack)
  BY <1>1, <1>2, <1>3 DEF StackInv
<1>6. CollectionInv(doc, phase, cursor, collected, sc)
  <2>1. doc.objects \in Seq(Object)
    BY <1>1, DocumentFacts
  <2>2. \A i \in DOMAIN doc.objects : ~(i < 1)
    BY <2>1
  <2> QED
    BY <1>1, <2>2 DEF CollectionInv
<1> QED
  BY <1>1, <1>4, <1>5, <1>6 DEF VariableInv

\* What is on a cycle can be reached from itself.
LEMMA InvariantMeets ==
  ASSUME VariableInv
  PROVE  CyclesEndInErrors
<1>1. /\ doc \in Documents /\ CacheInv(doc, cache) /\ RecordsInv(doc, collected)
  BY DEF VariableInv
<1>2. ASSUME NEW v \in Settled, v \in DependsOn(v) PROVE cache[v].flag = "error"
  <2>1. v \in Reach(doc, v) /\ v \in DOMAIN cache
    BY <1>1, <1>2, DependsOnReaches DEF Settled
  <2> QED
    BY <1>1, <2>1 DEF CacheInv, Acyclic
<1>3. ASSUME NEW o \in DOMAIN collected, o \in DependsOn(o)
      PROVE  collected[o].items = << >> /\ collected[o].flag \notin {"complete", "incomplete"}
  <2>1. o \in Reach(doc, o)
    BY <1>1, <1>3, DependsOnReaches
  <2> QED
    BY <1>1, <2>1 DEF RecordsInv, RecordOK, Acyclic, GoodFlags
<1> QED
  BY <1>2, <1>3 DEF CyclesEndInErrors

\* The flag of a variable is other than error only when neither it nor anything it
\* leads to is on a cycle of references; a record with items is that of such an
\* object.  So it is for whatever has been parsed by a call on the stack
\* (VariableFactory::GetVariable, AbsObjectCollector::Run).
THEOREM VariableInvariant == Spec => []VariableInv
<1>1. Init => VariableInv
  BY InitMeets
<1>2. VariableInv /\ [Next]_vars => VariableInv'
  BY StepKeeps
<1> QED
  BY <1>1, <1>2, PTL DEF Spec

\* For all documents and whatever their objects come to: circular references end
\* in the error flag that VariableFactory::GetVariable enters first, and in
\* objects that are not collected.
THEOREM CircularReferencesAreErrors == Spec => []CyclesEndInErrors
BY VariableInvariant, InvariantMeets, PTL

-----------------------------------------------------------------------------
(***************************************************************************)
(* The invariant of what is complete.                                      *)
(***************************************************************************)
Complete(known, v) == v \in DOMAIN known /\ known[v].flag = "complete"

LeavesOf(d, v) == ToSet(ObjectLeaves(d)[RootOf(d, v)])

\* What was read is the record of the object, unless it is that of an object that
\* failed: then it says nothing.
ReadOK(records, o, r) == o \in DOMAIN records /\ (r.items = << >> \/ r = records[o])

\* The variables a frame has passed are complete, its own has the flag it was
\* entered with, and its object is collected a second time only on a cycle.
FrameWhole(d, known, records, frame) ==
  /\ frame.read = [c \in DOMAIN frame.read |-> frame.read[c]]
  /\ \A j \in DOMAIN WantedOf(d, frame) :
       j < frame.next => Complete(known, WantedOf(d, frame)[j])
  /\ frame.what = "variable" =>
       /\ frame.id \in DOMAIN known /\ known[frame.id].flag = "error"
       /\ DOMAIN frame.read \subseteq LeavesOf(d, frame.id)
  /\ \A c \in DOMAIN frame.read : ReadOK(records, d.components[c].object, frame.read[c])
  /\ frame.what = "object" /\ frame.id \in DOMAIN records => ~Acyclic(d, frame.id)

\* Only a variable has an object collected, for one of its object components.
Called(d, s, i) ==
  i > 1 => /\ s[i].what # "state"
           /\ s[i].what = "object" =>
                s[i - 1].what = "variable" /\ LeafOf(d, s[i - 1]) \in LeavesOf(d, s[i - 1].id)

\* A variable is parsed once, and what is parsed leads to what is parsed for it.
Leads(d, s, i, j) ==
  /\ s[i].what = "variable" /\ s[j].what = "variable" => s[i].id # s[j].id
  /\ s[i].what # "state" => s[j].id \in Reach(d, s[i].id)

StackWhole(d, known, records, s) ==
  /\ \A i \in DOMAIN s : FrameWhole(d, known, records, s[i]) /\ Called(d, s, i)
  /\ \A i, j \in DOMAIN s : i < j => Leads(d, s, i, j)

\* What a complete local variable was computed from is complete and has not changed.
LocalWhole(v) ==
  LET root == RootOf(doc, v)
  IN  /\ \A w \in ToSet(References(doc)[root]) : Complete(cache, w)
      /\ \A l \in LeavesOf(doc, v) :
           /\ doc.components[l].object \in DOMAIN Records
           /\ Records[doc.components[l].object].items # << >>
      /\ \E time \in Clock :
           Computed(root, ReadBy(v), time) = Value("complete", cache[v].values)

LocalsWhole == \A v \in DOMAIN cache : IsLocal(doc, v) /\ Complete(cache, v) => LocalWhole(v)

\* Only an object with complete variables has items.
NeedsFound ==
  \A o \in DOMAIN collected :
    collected[o].items # << >> => \A w \in ToSet(doc.needs[o]) : Complete(cache, w)

CompletenessInv == StackWhole(doc, cache, Records, stack) /\ LocalsWhole /\ NeedsFound

-----------------------------------------------------------------------------
(***************************************************************************)
(* A component comes to the same as long as the variables it refers to do. *)
(***************************************************************************)
\* Whatever was read, components come to something.
Solvable ==
  doc \in Documents => \A read, time : \E f : OutcomesOf(f, read, time)

\* There is a function of the outcomes in every state.
LEMMA AlwaysSolvable == Solvable
BY OutcomesExist DEF Solvable

\* The step of the induction, for a component of which no part is unsupported.
LEMMA AtStays ==
  ASSUME doc \in Documents, doc' = doc, NEW c \in Parts(doc),
         \A w \in ToSet(References(doc)[c]) :
           w # UnsupportedFunction /\ cache'[w] = cache[w],
         NEW read, NEW time, NEW f, NEW g,
         \A i \in DOMAIN Kids(doc, c) : f[Kids(doc, c)[i]] = g[Kids(doc, c)[i]]
  PROVE  At(g, read, time, c)' = At(f, read, time, c)
<1>1. Arguments(g, c)' = Arguments(f, c)
  BY DEF Arguments, Kids
<1> PICK args : args = Arguments(f, c)
  OBVIOUS
<1> PICK node : node = doc.components[c]
  OBVIOUS
<1>2. CASE node.kind = "variable_component"
  <2>1. cache'[node.variable] = cache[node.variable]
    BY <1>2, ReferencesFacts
  <2>2. ComputeValue(args, read, time, c)' = ComputeValue(args, read, time, c)
    BY <1>2, <2>1, Zenon DEF ComputeValue
  <2> QED
    BY <1>1, <2>2, Zenon DEF At
<1>3. CASE node.kind # "variable_component"
  <2>1. ComputeValue(args, read, time, c)' = ComputeValue(args, read, time, c)
    BY <1>3, Zenon DEF ComputeValue
  <2> QED
    BY <1>1, <2>1, Zenon DEF At
<1> QED
  BY <1>2, <1>3

\* By induction over the components inside it.
LEMMA ComputedStays ==
  ASSUME doc \in Documents, doc' = doc, NEW root \in Parts(doc),
         \A w \in ToSet(References(doc)[root]) :
           w # UnsupportedFunction /\ cache'[w] = cache[w],
         NEW read, NEW time
  PROVE  Computed(root, read, time)' = Computed(root, read, time)
<1> DEFINE N == Parts(doc)
           h == doc.height
           Same(c) == \A w \in ToSet(References(doc)[c]) :
                        w # UnsupportedFunction /\ cache'[w] = cache[w]
<1>1. PICK f : OutcomesOf(f, read, time) /\ Computed(root, read, time) = f[root]
  <2>1. \E f : OutcomesOf(f, read, time)
    BY OutcomesExist
  <2>2. Computed(root, read, time) = (CHOOSE f : OutcomesOf(f, read, time))[root]
    BY Zenon DEF Computed, OutcomesOf, At, Parts
  <2> QED
    BY <2>1, <2>2
<1>2. PICK g : OutcomesOf(g, read, time)' /\ Computed(root, read, time)' = g[root]
  <2>1. Solvable'
    BY AlwaysSolvable, PTL
  <2>2. \E g : OutcomesOf(g, read, time)'
    BY <2>1 DEF Solvable
  <2>3. Computed(root, read, time)' = (CHOOSE g : OutcomesOf(g, read, time)')[root]
    BY Zenon DEF Computed, OutcomesOf, At, Parts
  <2> QED
    BY <2>2, <2>3
<1>3. \A c \in N : f[c] = At(f, read, time, c) /\ g[c] = At(g, read, time, c)'
  BY <1>1, <1>2 DEF OutcomesOf, Parts
<1> DEFINE P == {c \in N : Same(c) => f[c] = g[c]}
<1>4. ASSUME NEW c \in N, \A m \in N : h[m] < h[c] => m \in P PROVE c \in P
  <2> SUFFICES ASSUME Same(c) PROVE f[c] = g[c]
    OBVIOUS
  <2>1. CASE doc.components[c].kind \in FunctionKind
    <3>1. ToSet(References(doc)[c]) = Holdings(doc, References(doc), c)
      BY <2>1, ReferencesFacts
    <3>2. \A i \in DOMAIN Kids(doc, c) : Same(Kids(doc, c)[i])
      BY <3>1 DEF Holdings
    <3>3. \A i \in DOMAIN Kids(doc, c) : f[Kids(doc, c)[i]] = g[Kids(doc, c)[i]]
      BY <1>4, <3>2, ComponentFacts DEF Kids
    <3>4. At(g, read, time, c)' = At(f, read, time, c)
      BY <3>3, AtStays
    <3> QED
      BY <1>3, <3>4
  <2>2. CASE doc.components[c].kind \notin FunctionKind
    <3>1. doc.components[c].kind # UnsupportedFunction
      <4> SUFFICES ASSUME doc.components[c].kind = UnsupportedFunction PROVE FALSE
        OBVIOUS
      <4>1. ToSet(References(doc)[c]) = {UnsupportedFunction}
        BY ReferencesFacts
      <4> QED
        BY <4>1
    <3>2. doc.components[c].kind \in {"literal_component", "variable_component", "object_component"}
      BY <2>2, <3>1, ComponentFacts DEF ComponentKind
    <3>3. CASE doc.components[c].kind = "literal_component"
      <4>1. At(g, read, time, c)' = At(f, read, time, c)
        BY <3>3, Zenon DEF At, ComputeValue
      <4> QED
        BY <1>3, <4>1
    <3>4. CASE doc.components[c].kind = "variable_component"
      <4>1. cache'[doc.components[c].variable] = cache[doc.components[c].variable]
        BY <3>4, ReferencesFacts
      <4>2. At(g, read, time, c)' = At(f, read, time, c)
        BY <3>4, <4>1, Zenon DEF At, ComputeValue
      <4> QED
        BY <1>3, <4>2
    <3>5. CASE doc.components[c].kind = "object_component"
      <4>1. At(g, read, time, c)' = At(f, read, time, c)
        BY <3>5, Zenon DEF At, ComputeValue
      <4> QED
        BY <1>3, <4>1
    <3> QED
      BY <3>2, <3>3, <3>4, <3>5
  <2> QED
    BY <2>1, <2>2
<1>5. N \subseteq P
  <2>1. h \in [N -> Nat]
    BY DocumentFacts
  <2> HIDE DEF P, N, h
  <2> QED
    BY <1>4, <2>1, ByHeight
<1> QED
  BY <1>1, <1>2, <1>5

-----------------------------------------------------------------------------
(***************************************************************************)
(* What the actions do to the stack keeps it whole.                        *)
(***************************************************************************)
\* What something refers to can be reached from it, and so can what that refers to.
LEMMA ReachFacts ==
  ASSUME NEW d \in Documents, NEW n
  PROVE  /\ On(d, n) \subseteq Reach(d, n)
         /\ \A m \in Reach(d, n) : On(d, m) \subseteq Reach(d, n)
<1>1. On(d, n) \subseteq Reach(d, n)
  BY OnNodes DEF Reach
<1>2. ASSUME NEW m \in Reach(d, n), NEW k \in On(d, m) PROVE k \in Reach(d, n)
  <2>1. k \in Nodes
    BY <1>2, OnNodes
  <2>2. ASSUME NEW S \in SUBSET Nodes, On(d, n) \subseteq S, Closed(d, S) PROVE k \in S
    BY <1>2, <2>2 DEF Reach, Closed
  <2> QED
    BY <2>1, <2>2 DEF Reach
<1> QED
  BY <1>1, <1>2

\* Calls that end.
LEMMA CutWhole ==
  ASSUME NEW d, NEW known, NEW records, NEW s, IsSeq(s), StackWhole(d, known, records, s),
         NEW k \in 0..Len(s)
  PROVE  StackWhole(d, known, records, SubSeq(s, 1, k))
<1> DEFINE t == SubSeq(s, 1, k)
<1>1. DOMAIN t = 1..k /\ \A i \in 1..k : t[i] = s[i]
  BY CutSeq
<1>2. DOMAIN s = 1..Len(s) /\ Len(s) \in Nat
  BY PushSeq
<1> HIDE DEF t
<1>3. ASSUME NEW i \in DOMAIN t PROVE FrameWhole(d, known, records, t[i]) /\ Called(d, t, i)
  <2>1. i \in DOMAIN s /\ t[i] = s[i] /\ (i > 1 => t[i - 1] = s[i - 1])
    BY <1>1, <1>2
  <2>2. FrameWhole(d, known, records, s[i]) /\ Called(d, s, i)
    BY <2>1 DEF StackWhole
  <2> QED
    BY <2>1, <2>2 DEF Called
<1>4. ASSUME NEW i \in DOMAIN t, NEW j \in DOMAIN t, i < j PROVE Leads(d, t, i, j)
  <2>1. i \in DOMAIN s /\ t[i] = s[i] /\ j \in DOMAIN s /\ t[j] = s[j]
    BY <1>1, <1>2
  <2>2. Leads(d, s, i, j)
    BY <1>4, <2>1 DEF StackWhole
  <2> QED
    BY <2>1, <2>2 DEF Leads
<1>5. StackWhole(d, known, records, t)
  BY <1>3, <1>4 DEF StackWhole
<1> QED
  BY <1>5 DEF t

\* A call that begins: what it is for is what the innermost call refers to.
LEMMA PushWhole ==
  ASSUME NEW d \in Documents, NEW known, NEW records, NEW s, IsSeq(s), s # << >>,
         StackWhole(d, known, records, s), NEW frame, FrameWhole(d, known, records, frame),
         frame.what # "state", s[Len(s)].what # "state" => frame.id \in On(d, s[Len(s)].id),
         frame.what = "object" =>
           s[Len(s)].what = "variable" /\ LeafOf(d, s[Len(s)]) \in LeavesOf(d, s[Len(s)].id),
         frame.what = "variable" =>
           \A i \in DOMAIN s : s[i].what = "variable" => s[i].id # frame.id
  PROVE  StackWhole(d, known, records, Append(s, frame))
<1> DEFINE t == Append(s, frame)
           n == Len(s)
<1>1. /\ n \in Nat /\ DOMAIN t = 1..(n + 1) /\ DOMAIN s = 1..n
      /\ t[n + 1] = frame /\ \A i \in 1..n : t[i] = s[i]
  BY PushSeq
<1>2. n # 0
  BY DEF IsSeq
<1> HIDE DEF t, n
<1>3. ASSUME NEW i \in DOMAIN t PROVE FrameWhole(d, known, records, t[i]) /\ Called(d, t, i)
  <2>1. CASE i = n + 1
    <3>1. t[i] = frame /\ i - 1 = n /\ t[i - 1] = s[n]
      BY <1>1, <1>2, <2>1
    <3> QED
      BY <3>1 DEF Called, n
  <2>2. CASE i # n + 1
    <3>1. i \in DOMAIN s /\ t[i] = s[i] /\ (i > 1 => t[i - 1] = s[i - 1])
      BY <1>1, <2>2
    <3>2. FrameWhole(d, known, records, s[i]) /\ Called(d, s, i)
      BY <3>1 DEF StackWhole
    <3> QED
      BY <3>1, <3>2 DEF Called
  <2> QED
    BY <2>1, <2>2
<1>4. ASSUME NEW i \in DOMAIN s, s[i].what # "state" PROVE frame.id \in Reach(d, s[i].id)
  <2>1. CASE i = n
    <3>1. frame.id \in On(d, s[n].id)
      BY <1>4, <2>1 DEF n
    <3> QED
      BY <2>1, <3>1, ReachFacts
  <2>2. CASE i # n
    <3>1. i < n /\ n \in DOMAIN s /\ n > 1
      BY <1>1, <1>2, <2>2
    <3>2. Leads(d, s, i, n) /\ Called(d, s, n)
      BY <3>1 DEF StackWhole
    <3>3. s[n].id \in Reach(d, s[i].id)
      BY <1>4, <3>2 DEF Leads
    <3>4. s[n].what # "state" /\ frame.id \in On(d, s[n].id)
      BY <3>1, <3>2 DEF Called, n
    <3> QED
      BY <3>3, <3>4, ReachFacts
  <2> QED
    BY <2>1, <2>2
<1>5. ASSUME NEW i \in DOMAIN t, NEW j \in DOMAIN t, i < j PROVE Leads(d, t, i, j)
  <2>1. i \in DOMAIN s /\ t[i] = s[i]
    BY <1>1, <1>5
  <2>2. CASE j = n + 1
    <3>1. t[j] = frame
      BY <1>1, <2>2
    <3> QED
      BY <1>4, <2>1, <3>1 DEF Leads
  <2>3. CASE j # n + 1
    <3>1. j \in DOMAIN s /\ t[j] = s[j]
      BY <1>1, <2>3
    <3>2. Leads(d, s, i, j)
      BY <1>5, <2>1, <3>1 DEF StackWhole
    <3> QED
      BY <2>1, <3>1, <3>2 DEF Leads
  <2> QED
    BY <2>2, <2>3
<1>6. StackWhole(d, known, records, t)
  BY <1>3, <1>5 DEF StackWhole
<1> QED
  BY <1>6 DEF t

\* A change in the innermost call.
LEMMA TopWhole ==
  ASSUME NEW d, NEW known, NEW records, NEW s, IsSeq(s), s # << >>,
         StackWhole(d, known, records, s), NEW frame, FrameWhole(d, known, records, frame),
         frame.what = s[Len(s)].what, frame.id = s[Len(s)].id
  PROVE  StackWhole(d, known, records, [s EXCEPT ![Len(s)] = frame])
<1> DEFINE n == Len(s)
           t == [s EXCEPT ![n] = frame]
<1>1. n \in Nat /\ DOMAIN s = 1..n
  BY PushSeq
<1>2. n # 0
  BY DEF IsSeq
<1>3. n \in 1..n
  BY <1>1, <1>2
<1>4. DOMAIN t = 1..n /\ t[n] = frame /\ \A i \in 1..n : i # n => t[i] = s[i]
  <2> HIDE DEF n
  <2> QED
    BY <1>3, SetSeq DEF n
<1>5. frame.what = s[n].what /\ frame.id = s[n].id
  OBVIOUS
<1> HIDE DEF t, n
<1>6. \A i \in DOMAIN t : t[i].what = s[i].what /\ t[i].id = s[i].id
  BY <1>4, <1>5
<1>7. ASSUME NEW i \in DOMAIN t PROVE FrameWhole(d, known, records, t[i]) /\ Called(d, t, i)
  <2>1. i \in DOMAIN s /\ (i > 1 => t[i - 1] = s[i - 1])
    BY <1>1, <1>4
  <2>2. FrameWhole(d, known, records, s[i]) /\ Called(d, s, i)
    BY <2>1 DEF StackWhole
  <2>3. FrameWhole(d, known, records, t[i])
    BY <1>4, <2>2
  <2> QED
    BY <1>6, <2>1, <2>2, <2>3 DEF Called
<1>8. ASSUME NEW i \in DOMAIN t, NEW j \in DOMAIN t, i < j PROVE Leads(d, t, i, j)
  <2>1. Leads(d, s, i, j)
    BY <1>1, <1>4, <1>8 DEF StackWhole
  <2> QED
    BY <1>6, <2>1 DEF Leads
<1>9. StackWhole(d, known, records, t)
  BY <1>7, <1>8 DEF StackWhole
<1> QED
  BY <1>9 DEF t, n

\* More variables are known, and those on the stack are not complete.
LEMMA KnownWhole ==
  ASSUME NEW d, NEW known, NEW more, NEW records, NEW s, StackWhole(d, known, records, s),
         DOMAIN known \subseteq DOMAIN more,
         \A v \in DOMAIN known : Complete(known, v) => more[v] = known[v],
         \A i \in DOMAIN s : s[i].what = "variable" => more[s[i].id] = known[s[i].id]
  PROVE  StackWhole(d, more, records, s)
<1>1. ASSUME NEW i \in DOMAIN s PROVE FrameWhole(d, more, records, s[i])
  <2>1. FrameWhole(d, known, records, s[i])
    BY DEF StackWhole
  <2>2. \A v : Complete(known, v) => Complete(more, v)
    BY DEF Complete
  <2> QED
    BY <2>1, <2>2 DEF FrameWhole
<1> QED
  BY <1>1 DEF StackWhole

\* More objects are collected, and those on the stack are not among them.
LEMMA RecordsWhole ==
  ASSUME NEW d, NEW known, NEW records, NEW more, NEW s, StackWhole(d, known, records, s),
         DOMAIN records \subseteq DOMAIN more, \A o \in DOMAIN records : more[o] = records[o],
         \A i \in DOMAIN s : s[i].what = "object" /\ s[i].id \in DOMAIN more \ DOMAIN records =>
                               ~Acyclic(d, s[i].id)
  PROVE  StackWhole(d, known, more, s)
<1>1. ASSUME NEW i \in DOMAIN s PROVE FrameWhole(d, known, more, s[i])
  <2>1. FrameWhole(d, known, records, s[i])
    BY DEF StackWhole
  <2>2. \A o, r : ReadOK(records, o, r) => ReadOK(more, o, r)
    BY DEF ReadOK
  <2> QED
    BY <2>1, <2>2 DEF FrameWhole
<1> QED
  BY <1>1 DEF StackWhole

\* A record is handed to the call that reads it.
LEMMA ReturnedWhole ==
  ASSUME NEW known, NEW records, NEW rest, IsSeq(rest), StackWhole(doc, known, records, rest),
         NEW record,
         rest # << >> =>
           /\ rest[Len(rest)].what = "variable"
           /\ LeafOf(doc, rest[Len(rest)]) \in LeavesOf(doc, rest[Len(rest)].id)
           /\ ReadOK(records, doc.components[LeafOf(doc, rest[Len(rest)])].object, record),
         rest # << >> => IsFrame(rest[Len(rest)])
  PROVE  StackWhole(doc, known, records, Returned(rest, record))
<1>1. CASE rest = << >>
  BY <1>1 DEF Returned
<1>2. CASE rest # << >>
  <2> DEFINE n == Len(rest)
             top == rest[n]
             leaf == LeafOf(doc, top)
             read == Entered(top.read, leaf, record)
             frame == [top EXCEPT !.read = read]
  <2>1. n \in DOMAIN rest /\ DOMAIN rest = 1..n
    BY <1>2 DEF IsSeq
  <2>2. FrameWhole(doc, known, records, top) /\ IsFrame(top)
    BY <1>2, <2>1 DEF StackWhole
  <2>3. Last(rest) = top /\ NextLeaf(top) = leaf
    BY OfTheRun DEF Last
  <2>4. Returned(rest, record) = [rest EXCEPT ![n] = frame]
    BY <1>2, <2>1, <2>3 DEF Returned
  <2>5. /\ frame.what = top.what /\ frame.id = top.id /\ frame.next = top.next
        /\ frame.read = read
    BY <2>2 DEF IsFrame
  <2>6. /\ DOMAIN read = DOMAIN top.read \cup {leaf} /\ read = [c \in DOMAIN read |-> read[c]]
        /\ \A c \in DOMAIN top.read : read[c] = top.read[c]
        /\ leaf \notin DOMAIN top.read => read[leaf] = record
    BY EnteredFacts DEF Entered
  <2>7. WantedOf(doc, frame) = WantedOf(doc, top)
    BY <2>5, WantedIs
  <2>8. /\ top.what = "variable" /\ leaf \in LeavesOf(doc, top.id)
        /\ ReadOK(records, doc.components[leaf].object, record)
    BY <1>2
  <2> HIDE DEF frame, read, leaf, top, n
  <2>9. \A c \in DOMAIN read : ReadOK(records, doc.components[c].object, read[c])
    BY <2>2, <2>6, <2>8 DEF FrameWhole
  <2>10. FrameWhole(doc, known, records, frame)
    BY <2>2, <2>5, <2>6, <2>7, <2>8, <2>9 DEF FrameWhole
  <2>11. frame.what = rest[Len(rest)].what /\ frame.id = rest[Len(rest)].id
    BY <2>5 DEF top, n
  <2>12. StackWhole(doc, known, records, [rest EXCEPT ![Len(rest)] = frame])
    BY <1>2, <2>10, <2>11, TopWhole
  <2> QED
    BY <2>4, <2>12 DEF n
<1> QED
  BY <1>1, <1>2

-----------------------------------------------------------------------------
(***************************************************************************)
(* What is complete stays as it is.                                        *)
(***************************************************************************)
\* No complete variable is changed, and no record.
CacheGrows ==
  \A w \in DOMAIN cache : Complete(cache, w) => w \in DOMAIN cache' /\ cache'[w] = cache[w]

RecordsGrow ==
  DOMAIN Records \subseteq DOMAIN Records' /\ \A o \in DOMAIN Records : Records'[o] = Records[o]

\* The cache only has variables.
LEMMA CacheHasVariables ==
  ASSUME VariableInv
  PROVE  DOMAIN cache \subseteq Variable /\ UnsupportedFunction \notin DOMAIN cache
<1>1. doc \in Documents /\ CacheInv(doc, cache)
  BY DEF VariableInv
<1>2. DOMAIN cache \subseteq Variable
  BY <1>1, DocumentFacts DEF CacheInv
<1> QED
  BY <1>2, VariablesAssumption

\* The root of a local variable.
LEMMA RootFacts ==
  ASSUME doc \in Documents, NEW v, IsLocal(doc, v)
  PROVE  RootOf(doc, v) \in Parts(doc) /\ Root(v) = RootOf(doc, v)
         /\ Leaves(Root(v)) = LeavesOf(doc, v)
BY DocumentFacts DEF IsLocal, RootOf, Root, Leaves, LeavesOf

\* So what a complete variable was computed from stays what it was.
LEMMA LocalStays ==
  ASSUME VariableInv, CompletenessInv, doc' = doc, CacheGrows, RecordsGrow,
         NEW v \in DOMAIN cache, IsLocal(doc, v), Complete(cache, v)
  PROVE  LocalWhole(v)'
<1> PICK root : root = RootOf(doc, v)
  OBVIOUS
<1> PICK read : read = ReadBy(v)
  OBVIOUS
<1>1. LocalWhole(v) /\ doc \in Documents
  BY DEF CompletenessInv, LocalsWhole, VariableInv
<1>2. \A w \in ToSet(References(doc)[root]) : Complete(cache, w)
  BY <1>1 DEF LocalWhole
<1>3. \A w \in ToSet(References(doc)[root]) :
        w # UnsupportedFunction /\ cache'[w] = cache[w] /\ Complete(cache', w)
  BY <1>2, CacheHasVariables DEF CacheGrows, Complete
<1>4. \A l \in LeavesOf(doc, v) :
        /\ doc.components[l].object \in DOMAIN Records'
        /\ Records'[doc.components[l].object] = Records[doc.components[l].object]
        /\ Records[doc.components[l].object].items # << >>
  BY <1>1 DEF LocalWhole, RecordsGrow
<1>5. ReadBy(v)' = read
  <2>1. ReadBy(v) = [c \in LeavesOf(doc, v) |-> Records[doc.components[c].object]]
    BY <1>1, RootFacts DEF ReadBy
  <2>2. ReadBy(v)' = [c \in LeavesOf(doc, v) |-> Records'[doc.components[c].object]]
    BY DEF ReadBy, Leaves, Root, LeavesOf, RootOf
  <2> QED
    BY <1>4, <2>1, <2>2
<1>6. PICK time \in Clock : Computed(root, read, time) = Value("complete", cache[v].values)
  BY <1>1 DEF LocalWhole
<1>7. root \in Parts(doc)
  BY <1>1, RootFacts
<1>8. Computed(root, read, time)' = Computed(root, read, time)
  BY <1>1, <1>3, <1>7, ComputedStays
<1>9. cache'[v] = cache[v] /\ root = RootOf(doc', v) /\ LeavesOf(doc', v) = LeavesOf(doc, v)
  BY DEF CacheGrows
<1>10. \E moment \in Clock :
         Computed(RootOf(doc, v), ReadBy(v), moment)' = Value("complete", cache'[v].values)
  BY <1>5, <1>6, <1>8, <1>9
<1> QED
  BY <1>3, <1>4, <1>9, <1>10 DEF LocalWhole

\* The local variables that were complete are whole, and so are those that now are.
LEMMA LocalsStay ==
  ASSUME VariableInv, CompletenessInv, doc' = doc, CacheGrows, RecordsGrow,
         \A v \in DOMAIN cache' : IsLocal(doc, v) /\ Complete(cache', v) =>
           Complete(cache, v) \/ LocalWhole(v)'
  PROVE  LocalsWhole'
<1>1. ASSUME NEW v \in DOMAIN cache', IsLocal(doc, v), Complete(cache', v) PROVE LocalWhole(v)'
  <2>1. Complete(cache, v) => v \in DOMAIN cache
    BY DEF Complete
  <2> QED
    BY <1>1, <2>1, LocalStays
<1> QED
  BY <1>1 DEF LocalsWhole, IsLocal

\* Neither the variables nor the records are touched.
LEMMA LocalsUntouched ==
  ASSUME VariableInv, CompletenessInv, doc' = doc, cache' = cache, RecordsGrow
  PROVE  LocalsWhole' /\ CacheGrows
<1>1. CacheGrows
  BY DEF CacheGrows
<1> QED
  BY <1>1, LocalsStay

\* Then the records are the same in either phase.
LEMMA RecordsUntouched ==
  ASSUME phase' = phase, collected' = collected, sc' = sc
  PROVE  Records' = Records /\ RecordsGrow
BY DEF Records, RecordsGrow

\* A new record has no items, or its variables are complete.
LEMMA NeedsStay ==
  ASSUME CompletenessInv, doc' = doc, CacheGrows,
         \A o \in DOMAIN collected' :
           \/ o \in DOMAIN collected /\ collected'[o] = collected[o]
           \/ collected'[o].items = << >>
           \/ \A w \in ToSet(doc.needs[o]) : Complete(cache, w)
  PROVE  NeedsFound'
<1>1. \A w : Complete(cache, w) => Complete(cache', w)
  BY DEF Complete, CacheGrows
<1>2. NeedsFound
  BY DEF CompletenessInv
<1> QED
  BY <1>1, <1>2 DEF NeedsFound

\* The stack as a sequence, with frames.
LEMMA StackTyped ==
  ASSUME VariableInv
  PROVE  /\ doc \in Documents /\ IsSeq(stack) /\ Len(stack) \in Nat /\ DOMAIN stack = 1..Len(stack)
         /\ \A i \in DOMAIN stack : IsFrame(stack[i]) /\ FrameId(doc, phase, stack[i])
<1>1. doc \in Documents /\ StackInv(doc, phase, DOMAIN cache, stack)
  BY DEF VariableInv
<1> QED
  BY <1>1, PushSeq DEF StackInv, FrameInv

\* The Parse of an object ends with a record, for itself and for its caller.
LEMMA RecordedWhole ==
  ASSUME VariableInv, CompletenessInv, NEW k \in DOMAIN stack, stack[k].what = "object",
         NEW record,
         ReadOK(Entered(collected, stack[k].id, record), stack[k].id, record)
  PROVE  /\ StackWhole(doc, cache, Entered(collected, stack[k].id, record),
                       Returned(SubSeq(stack, 1, k - 1), record))
         /\ phase = "collecting" /\ Records = collected
<1> DEFINE o == stack[k].id
           more == Entered(collected, o, record)
           rest == SubSeq(stack, 1, k - 1)
<1>1. /\ doc \in Documents /\ IsSeq(stack) /\ Len(stack) \in Nat /\ DOMAIN stack = 1..Len(stack)
      /\ \A i \in DOMAIN stack : IsFrame(stack[i]) /\ FrameId(doc, phase, stack[i])
  BY StackTyped
<1>2. phase = "collecting" /\ Records = collected
  BY <1>1 DEF FrameId, Records
<1>3. StackWhole(doc, cache, collected, stack)
  BY <1>2 DEF CompletenessInv
<1>4. k - 1 \in 0..Len(stack)
  BY <1>1
<1>5. StackWhole(doc, cache, collected, rest)
  BY <1>1, <1>3, <1>4, CutWhole
<1>6. /\ IsSeq(rest) /\ Len(rest) = k - 1 /\ DOMAIN rest = 1..(k - 1)
      /\ \A i \in 1..(k - 1) : rest[i] = stack[i]
  BY <1>1, <1>4, CutSeq
<1>7. /\ DOMAIN more = DOMAIN collected \cup {o}
      /\ \A y \in DOMAIN collected : more[y] = collected[y]
  BY DEF Entered
<1>8. o \in Object
  BY <1>1 DEF FrameId
<1>9. ReadOK(more, o, record)
  OBVIOUS
<1> HIDE DEF more, rest, o
<1>10. ASSUME NEW i \in DOMAIN rest, rest[i].what = "object", rest[i].id = o
       PROVE  ~Acyclic(doc, rest[i].id)
  <2>1. i \in DOMAIN stack /\ i < k /\ rest[i] = stack[i]
    BY <1>1, <1>6
  <2>2. Leads(doc, stack, i, k)
    BY <1>3, <2>1 DEF StackWhole
  <2>3. o \in Reach(doc, o)
    BY <1>10, <2>1, <2>2 DEF Leads, o
  <2> QED
    BY <1>10, <2>3 DEF Acyclic
<1>11. StackWhole(doc, cache, more, rest)
  BY <1>5, <1>7, <1>10, RecordsWhole
<1>12. ASSUME rest # << >>
       PROVE  /\ rest[Len(rest)].what = "variable"
              /\ LeafOf(doc, rest[Len(rest)]) \in LeavesOf(doc, rest[Len(rest)].id)
              /\ doc.components[LeafOf(doc, rest[Len(rest)])].object = o
              /\ IsFrame(rest[Len(rest)])
  <2>1. Len(rest) # 0
    BY <1>6, <1>12 DEF IsSeq
  <2>2. k > 1 /\ k - 1 \in 1..(k - 1) /\ k - 1 \in DOMAIN stack
    BY <1>1, <1>6, <2>1
  <2>3. rest[Len(rest)] = stack[k - 1]
    BY <1>6, <2>2
  <2>4. Called(doc, stack, k)
    BY <1>3 DEF StackWhole
  <2>5. stack[k - 1].what = "variable" /\ LeafOf(doc, stack[k - 1]) \in LeavesOf(doc, stack[k - 1].id)
    BY <2>2, <2>4 DEF Called
  <2>6. Linked(doc, stack, k)
    BY DEF VariableInv, StackInv
  <2>7. doc.components[LeafOf(doc, stack[k - 1])].object = o
    BY <2>2, <2>6 DEF Linked, o
  <2> QED
    BY <1>1, <2>2, <2>3, <2>5, <2>7
<1>13. StackWhole(doc, cache, more, Returned(rest, record))
  BY <1>6, <1>9, <1>11, <1>12, ReturnedWhole
<1> QED
  BY <1>2, <1>13 DEF more, rest, o

\* One record more.
LEMMA RecordsGrowBy ==
  ASSUME phase = "collecting", phase' = phase, NEW o, NEW record,
         collected' = Entered(collected, o, record)
  PROVE  RecordsGrow /\ Records' = collected'
         /\ \A x \in DOMAIN collected' :
              \/ x \in DOMAIN collected /\ collected'[x] = collected[x]
              \/ x = o /\ o \notin DOMAIN collected /\ collected'[x] = record
<1>1. Records = collected /\ Records' = collected'
  BY DEF Records
<1>2. /\ DOMAIN collected' = DOMAIN collected \cup {o}
      /\ \A y \in DOMAIN collected : collected'[y] = collected[y]
      /\ o \notin DOMAIN collected => collected'[o] = record
  BY DEF Entered
<1> QED
  BY <1>1, <1>2 DEF RecordsGrow

-----------------------------------------------------------------------------
(***************************************************************************)
(* What the actions do to it.                                              *)
(***************************************************************************)
\* An exception leaves an empty record, which says nothing of its object.
LEMMA FailWhole ==
  ASSUME VariableInv, CompletenessInv, stack # << >>, NEW flag, Fail(flag), cache' = cache
  PROVE  CompletenessInv'
<1> DEFINE host == Host
           rest == SubSeq(stack, 1, host - 1)
           record == Record(flag, << >>, {})
<1>1. /\ doc' = doc /\ phase' = phase /\ sc' = sc
      /\ \/ /\ stack[host].what = "object" /\ collected' = Entered(collected, stack[host].id, record)
            /\ stack' = Returned(rest, record)
         \/ /\ stack[host].what # "object" /\ stack' = rest /\ collected' = collected
  BY DEF Fail, Host, Kept
<1>2. host \in DOMAIN stack /\ host - 1 \in 0..Len(stack)
  BY HostFacts
<1> HIDE DEF host
<1>3. record.items = << >>
  BY DEF Record
<1> HIDE DEF rest, record
<1>4. CASE stack[host].what = "object"
  <2> PICK o : o = stack[host].id
    OBVIOUS
  <2>1. collected' = Entered(collected, o, record) /\ stack' = Returned(rest, record)
    BY <1>1, <1>4
  <2>2. ReadOK(Entered(collected, o, record), o, record)
    BY <1>3 DEF ReadOK, Entered
  <2>3. /\ StackWhole(doc, cache, Entered(collected, o, record), Returned(rest, record))
        /\ phase = "collecting" /\ Records = collected
    BY <1>2, <1>4, <2>2, RecordedWhole DEF rest
  <2>4. /\ RecordsGrow /\ Records' = collected'
        /\ \A x \in DOMAIN collected' :
             \/ x \in DOMAIN collected /\ collected'[x] = collected[x]
             \/ x = o /\ o \notin DOMAIN collected /\ collected'[x] = record
    BY <1>1, <2>1, <2>3, RecordsGrowBy
  <2>5. LocalsWhole' /\ CacheGrows
    BY <1>1, <2>4, LocalsUntouched
  <2>6. NeedsFound'
    BY <1>1, <1>3, <2>4, <2>5, NeedsStay
  <2>7. StackWhole(doc', cache', Records', stack')
    BY <1>1, <2>1, <2>3, <2>4
  <2> QED
    BY <2>5, <2>6, <2>7 DEF CompletenessInv
<1>5. CASE stack[host].what # "object"
  <2>1. stack' = rest /\ collected' = collected
    BY <1>1, <1>5
  <2>2. Records' = Records /\ RecordsGrow
    BY <1>1, <2>1, RecordsUntouched
  <2>3. LocalsWhole' /\ CacheGrows
    BY <1>1, <2>2, LocalsUntouched
  <2>4. NeedsFound'
    BY <1>1, <2>1, <2>3, NeedsStay
  <2>5. StackWhole(doc, cache, Records, rest)
    BY <1>2, StackTyped, CutWhole DEF CompletenessInv, rest
  <2>6. StackWhole(doc', cache', Records', stack')
    BY <1>1, <2>1, <2>2, <2>5
  <2> QED
    BY <2>3, <2>4, <2>6 DEF CompletenessInv
<1> QED
  BY <1>4, <1>5

\* A step that leaves the cache and the records alone.
LEMMA OnlyStackChanges ==
  ASSUME VariableInv, CompletenessInv, doc' = doc, phase' = phase, cache' = cache,
         collected' = collected, sc' = sc, StackWhole(doc, cache, Records, stack')
  PROVE  CompletenessInv'
<1>1. Records' = Records /\ RecordsGrow
  BY RecordsUntouched
<1>2. LocalsWhole' /\ CacheGrows
  BY <1>1, LocalsUntouched
<1>3. NeedsFound'
  BY <1>2, NeedsStay
<1>4. StackWhole(doc', cache', Records', stack')
  BY <1>1
<1> QED
  BY <1>2, <1>3, <1>4 DEF CompletenessInv

\* The innermost call is whole.
LEMMA TopIsWhole ==
  ASSUME VariableInv, CompletenessInv, stack # << >>
  PROVE  FrameWhole(doc, cache, Records, Top) /\ Top = stack[Len(stack)]
         /\ Len(stack) \in DOMAIN stack /\ IsFrame(Top) /\ Called(doc, stack, Len(stack))
BY TopFacts, StackTyped DEF CompletenessInv, StackWhole

\* GetVariable finds a complete variable, or ends the Parse.
LEMMA FindVariableWhole ==
  ASSUME VariableInv, CompletenessInv, FindVariable
  PROVE  CompletenessInv'
<1>1. /\ stack # << >> /\ Wants(Top) /\ Wanted \in DOMAIN cache /\ cache' = cache
      /\ IF cache[Wanted].flag = "complete" THEN Advance ELSE Fail(cache[Wanted].flag)
  BY DEF FindVariable, Asks
<1>2. CASE cache[Wanted].flag = "complete"
  <2> DEFINE n == Len(stack)
             frame == [Top EXCEPT !.next = @ + 1]
  <2>1. /\ stack' = [stack EXCEPT ![n].next = @ + 1]
        /\ doc' = doc /\ phase' = phase /\ collected' = collected /\ sc' = sc
    BY <1>1, <1>2 DEF Advance
  <2>2. FrameWhole(doc, cache, Records, Top) /\ Top = stack[n] /\ n \in DOMAIN stack /\ IsFrame(Top)
    BY <1>1, TopIsWhole
  <2>3. stack' = [stack EXCEPT ![n] = frame]
    BY <2>1, <2>2
  <2>4. /\ frame.what = Top.what /\ frame.id = Top.id /\ frame.next = Top.next + 1
        /\ frame.read = Top.read
    BY <2>2 DEF IsFrame
  <2>5. WantedOf(doc, frame) = WantedOf(doc, Top)
    BY <2>4, WantedIs
  <2>6. /\ Top.next \in Nat /\ DOMAIN WantedOf(doc, Top) \subseteq Nat
        /\ Wanted = WantedOf(doc, Top)[Top.next]
    BY <1>1, TopFacts DEF FrameInv
  <2> HIDE DEF frame
  <2>7. ASSUME NEW j \in DOMAIN WantedOf(doc, frame), j < frame.next
        PROVE  Complete(cache, WantedOf(doc, frame)[j])
    <3>1. j < Top.next \/ j = Top.next
      BY <2>4, <2>5, <2>6, <2>7
    <3>2. CASE j < Top.next
      BY <2>2, <2>5, <2>7, <3>2 DEF FrameWhole
    <3>3. CASE j = Top.next
      BY <1>1, <1>2, <2>5, <2>6, <3>3 DEF Complete
    <3> QED
      BY <3>1, <3>2, <3>3
  <2>8. FrameWhole(doc, cache, Records, frame)
    BY <2>2, <2>4, <2>7 DEF FrameWhole
  <2>9. StackWhole(doc, cache, Records, stack) /\ IsSeq(stack)
    BY StackTyped DEF CompletenessInv
  <2>10. frame.what = stack[Len(stack)].what /\ frame.id = stack[Len(stack)].id
    BY <2>2, <2>4
  <2>11. StackWhole(doc, cache, Records, [stack EXCEPT ![Len(stack)] = frame])
    BY <1>1, <2>8, <2>9, <2>10, TopWhole
  <2> QED
    BY <1>1, <2>1, <2>3, <2>11, OnlyStackChanges
<1>3. CASE cache[Wanted].flag # "complete"
  BY <1>1, <1>3, FailWhole
<1> QED
  BY <1>2, <1>3

\* The other exceptions.
LEMMA ThrowsWhole ==
  ASSUME VariableInv, CompletenessInv,
         \/ MissingVariable \/ RejectFunction \/ ProcessThrows
         \/ Computes /\ \E outcome \in Outcomes : ComputeThrows(outcome)
  PROVE  CompletenessInv'
<1>1. stack # << >> /\ Fail("error") /\ cache' = cache
  BY DEF MissingVariable, RejectFunction, ProcessThrows, ComputeThrows, Asks, Active, Computes
<1> QED
  BY <1>1, FailWhole

\* What GetVariable is asked for is what the innermost call refers to.
LEMMA WantedIsOn ==
  ASSUME VariableInv, stack # << >>, Wants(Top), Wanted \in DOMAIN doc.variables
  PROVE  Wanted \in Variable /\ (Top.what # "state" => Wanted \in On(doc, Top.id))
<1>1. /\ doc \in Documents /\ FrameId(doc, phase, Top) /\ Wanted \in ToSet(WantedOf(doc, Top))
  BY TopFacts DEF VariableInv, ToSet
<1>2. Wanted \in Variable /\ Wanted # UnsupportedFunction
  BY <1>1, DocumentFacts, VariablesAssumption
<1>3. CASE Top.what = "object"
  <2>1. Top.id \in Object /\ WantedOf(doc, Top) = doc.needs[Top.id]
    BY <1>1, <1>3 DEF FrameId, WantedOf
  <2> QED
    BY <1>1, <1>2, <2>1, OnFacts
<1>4. CASE Top.what = "variable"
  <2>1. IsLocal(doc, Top.id) /\ WantedOf(doc, Top) = References(doc)[RootOf(doc, Top.id)]
    BY <1>1, <1>4 DEF FrameId, WantedOf
  <2> QED
    BY <1>1, <1>2, <2>1, OnFacts DEF VariablesOf
<1> QED
  BY <1>1, <1>2, <1>3, <1>4 DEF FrameId

\* A constant or external variable is computed from nothing.
LEMMA ParseSourceWhole ==
  ASSUME VariableInv, CompletenessInv, ParseSource
  PROVE  CompletenessInv'
<1> PICK w : w = Wanted
  OBVIOUS
<1>1. /\ w \in DOMAIN doc.variables \ DOMAIN cache /\ doc.variables[w].kind # "local"
      /\ \E r : cache' = Entered(cache, w, r)
      /\ doc' = doc /\ phase' = phase /\ stack' = stack /\ collected' = collected /\ sc' = sc
  BY DEF ParseSource
<1>2. /\ DOMAIN cache' = DOMAIN cache \cup {w}
      /\ \A y \in DOMAIN cache : cache'[y] = cache[y]
  BY <1>1 DEF Entered
<1>3. CacheGrows
  BY <1>2 DEF CacheGrows
<1>4. Records' = Records /\ RecordsGrow
  BY <1>1, RecordsUntouched
<1>5. ASSUME NEW v \in DOMAIN cache', IsLocal(doc, v), Complete(cache', v)
      PROVE  Complete(cache, v)
  BY <1>1, <1>2, <1>5 DEF IsLocal, Complete
<1>6. LocalsWhole'
  BY <1>1, <1>3, <1>4, <1>5, LocalsStay
<1>7. NeedsFound'
  BY <1>1, <1>3, NeedsStay
<1>8. StackWhole(doc, cache', Records, stack)
  <2>1. StackWhole(doc, cache, Records, stack)
    BY DEF CompletenessInv
  <2>2. \A i \in DOMAIN stack : stack[i].what = "variable" => stack[i].id \in DOMAIN cache
    BY <2>1 DEF StackWhole, FrameWhole
  <2> QED
    BY <1>2, <2>1, <2>2, KnownWhole
<1> QED
  BY <1>1, <1>4, <1>6, <1>7, <1>8 DEF CompletenessInv

\* A frame that was only just made has read nothing and passed no variable.
LEMMA NewFrameWhole ==
  ASSUME NEW d \in Documents, NEW stage, NEW known, NEW records, NEW what, NEW id,
         FrameId(d, stage, Frame(what, id)),
         what = "variable" => id \in DOMAIN known /\ known[id].flag = "error",
         what = "object" => id \notin DOMAIN records
  PROVE  FrameWhole(d, known, records, Frame(what, id))
<1> DEFINE frame == Frame(what, id)
<1>1. frame.what = what /\ frame.id = id /\ frame.next = 1 /\ frame.read = << >>
  BY DEF Frame, Nothing
<1>2. FrameId(d, stage, frame)
  OBVIOUS
<1> HIDE DEF frame
<1>3. DOMAIN frame.read = {}
  BY <1>1
<1>4. frame.read = [c \in DOMAIN frame.read |-> frame.read[c]]
  BY <1>1
<1>5. IsSeq(WantedOf(d, frame))
  BY <1>2, WantedTyped
<1>6. \A j \in DOMAIN WantedOf(d, frame) : ~(j < 1)
  BY <1>5 DEF IsSeq
<1>7. FrameWhole(d, known, records, frame)
  BY <1>1, <1>3, <1>4, <1>6 DEF FrameWhole
<1> QED
  BY <1>7 DEF frame

\* A local variable is entered once, as an error.
LEMMA EnterLocalWhole ==
  ASSUME VariableInv, CompletenessInv, EnterLocal
  PROVE  CompletenessInv'
<1> PICK w : w = Wanted
  OBVIOUS
<1> PICK r : r = [flag |-> "error", values |-> << >>]
  OBVIOUS
<1> DEFINE frame == Frame("variable", w)
<1>1. /\ stack # << >> /\ Wants(Top) /\ w \in DOMAIN doc.variables \ DOMAIN cache
      /\ IsLocal(doc, w) /\ cache' = Entered(cache, w, r) /\ stack' = Append(stack, frame)
      /\ doc' = doc /\ phase' = phase /\ collected' = collected /\ sc' = sc
  BY DEF EnterLocal, Asks, IsLocal
<1>2. /\ DOMAIN cache' = DOMAIN cache \cup {w} /\ cache'[w] = r
      /\ \A y \in DOMAIN cache : cache'[y] = cache[y]
  BY <1>1 DEF Entered
<1>3. r.flag = "error"
  OBVIOUS
<1>4. CacheGrows
  BY <1>2 DEF CacheGrows
<1>5. Records' = Records /\ RecordsGrow
  BY <1>1, RecordsUntouched
<1>6. ASSUME NEW v \in DOMAIN cache', IsLocal(doc, v), Complete(cache', v)
      PROVE  Complete(cache, v)
  BY <1>2, <1>3, <1>6 DEF Complete
<1>7. LocalsWhole'
  BY <1>1, <1>4, <1>5, <1>6, LocalsStay
<1>8. NeedsFound'
  BY <1>1, <1>4, NeedsStay
<1>9. StackWhole(doc, cache, Records, stack) /\ IsSeq(stack) /\ doc \in Documents
  BY StackTyped DEF CompletenessInv
<1>10. \A i \in DOMAIN stack : stack[i].what = "variable" => stack[i].id \in DOMAIN cache
  BY <1>9 DEF StackWhole, FrameWhole
<1>11. StackWhole(doc, cache', Records, stack)
  BY <1>2, <1>9, <1>10, KnownWhole
<1>12. frame.what = "variable" /\ frame.id = w
  BY DEF Frame
<1>13. FrameWhole(doc, cache', Records, frame)
  <2>1. FrameId(doc, phase, frame)
    BY <1>1, <1>12 DEF FrameId
  <2> QED
    BY <1>2, <1>3, <1>9, <2>1, NewFrameWhole
<1>14. stack[Len(stack)].what # "state" => w \in On(doc, stack[Len(stack)].id)
  BY <1>1, TopIsWhole, WantedIsOn
<1> HIDE DEF frame
<1>15. StackWhole(doc, cache', Records, Append(stack, frame))
  BY <1>1, <1>9, <1>10, <1>11, <1>12, <1>13, <1>14, PushWhole
<1> QED
  BY <1>1, <1>5, <1>7, <1>8, <1>15 DEF CompletenessInv

\* ObjectComponent::ComputeValue has an object collected at most once, and reads
\* the record it has then.
LEMMA CollectObjectWhole ==
  ASSUME VariableInv, CompletenessInv, Computes, NEW outcome \in Outcomes, CollectObject(outcome)
  PROVE  CompletenessInv'
<1> DEFINE o == doc.components[LeafOf(doc, Top)].object
           frame == Frame("object", o)
<1>1. /\ phase = "collecting" /\ outcome = Pending
      /\ doc' = doc /\ phase' = phase /\ cache' = cache /\ collected' = collected /\ sc' = sc
  BY DEF CollectObject
<1>2. /\ NextLeaf(Top) = LeafOf(doc, Top) /\ o \in Object
      /\ LeafOf(doc, Top) \in LeavesOf(doc, Top.id)
  BY <1>1, NextLeafFacts DEF LeavesOf
<1>3. stack' = IF o \in DOMAIN collected THEN Returned(stack, collected[o])
                 ELSE Append(stack, frame)
  BY <1>2 DEF CollectObject
<1>4. /\ stack # << >> /\ Top.what = "variable" /\ IsLocal(doc, Top.id)
      /\ RootOf(doc, Top.id) \in Parts(doc)
  BY ComputesFacts
<1>5. StackWhole(doc, cache, Records, stack) /\ IsSeq(stack) /\ doc \in Documents
  BY StackTyped DEF CompletenessInv
<1>6. Top = stack[Len(stack)] /\ IsFrame(Top) /\ Records = collected
  BY <1>1, <1>4, TopIsWhole DEF Records
<1>7. CASE o \in DOMAIN collected
  <2>1. ReadOK(Records, o, collected[o])
    BY <1>6, <1>7 DEF ReadOK
  <2> HIDE DEF o
  <2>2. /\ stack[Len(stack)].what = "variable"
        /\ LeafOf(doc, stack[Len(stack)]) \in LeavesOf(doc, stack[Len(stack)].id)
        /\ ReadOK(Records, doc.components[LeafOf(doc, stack[Len(stack)])].object, collected[o])
        /\ IsFrame(stack[Len(stack)])
    BY <1>2, <1>4, <1>6, <2>1 DEF o
  <2>3. StackWhole(doc, cache, Records, Returned(stack, collected[o]))
    BY <1>5, <2>2, ReturnedWhole
  <2> QED
    BY <1>1, <1>3, <1>7, <2>3, OnlyStackChanges
<1>8. CASE o \notin DOMAIN collected
  <2>1. frame.what = "object" /\ frame.id = o
    BY DEF Frame
  <2>2. FrameWhole(doc, cache, Records, frame)
    <3>1. FrameId(doc, phase, frame)
      BY <1>1, <1>2, <2>1 DEF FrameId
    <3> QED
      BY <1>5, <1>6, <1>8, <3>1, NewFrameWhole
  <2>3. o \in On(doc, Top.id)
    <3>1. o \in ObjectsUnder(doc, RootOf(doc, Top.id))
      BY <1>2 DEF ObjectsUnder, LeavesOf
    <3> QED
      BY <1>4, <1>5, <3>1, OnFacts
  <2> HIDE DEF frame
  <2>4. StackWhole(doc, cache, Records, Append(stack, frame))
    BY <1>2, <1>4, <1>5, <1>6, <2>1, <2>2, <2>3, PushWhole
  <2> QED
    BY <1>1, <1>3, <1>8, <2>4, OnlyStackChanges
<1> QED
  BY <1>7, <1>8

\* The same from the system characteristics document.
LEMMA ReadObjectWhole ==
  ASSUME VariableInv, CompletenessInv, Computes, NEW outcome \in Outcomes, ReadObject(outcome)
  PROVE  CompletenessInv'
<1> DEFINE o == doc.components[LeafOf(doc, Top)].object
<1>1. phase = "analyzing" /\ outcome = Pending /\ cache' = cache
  BY DEF ReadObject
<1>2. /\ NextLeaf(Top) = LeafOf(doc, Top) /\ o \in Object
      /\ LeafOf(doc, Top) \in LeavesOf(doc, Top.id)
  BY <1>1, NextLeafFacts DEF LeavesOf
<1>3. stack # << >> /\ Top.what = "variable"
  BY ComputesFacts
<1>4. \/ /\ stack' = Returned(stack, sc[o])
         /\ doc' = doc /\ phase' = phase /\ collected' = collected /\ sc' = sc
      \/ Fail("error")
  BY <1>2 DEF ReadObject
<1>5. CASE Fail("error")
  BY <1>1, <1>3, <1>5, FailWhole
<1>6. CASE ~Fail("error")
  <2>1. StackWhole(doc, cache, Records, stack) /\ IsSeq(stack)
    BY StackTyped DEF CompletenessInv
  <2>2. Top = stack[Len(stack)] /\ IsFrame(Top) /\ Records = sc
    BY <1>1, <1>3, TopIsWhole DEF Records
  <2>3. ReadOK(Records, o, sc[o])
    <3>1. DOMAIN sc = Object
      BY <1>1 DEF VariableInv, CollectionInv
    <3> QED
      BY <1>2, <2>2, <3>1 DEF ReadOK
  <2> HIDE DEF o
  <2>4. /\ stack[Len(stack)].what = "variable"
        /\ LeafOf(doc, stack[Len(stack)]) \in LeavesOf(doc, stack[Len(stack)].id)
        /\ ReadOK(Records, doc.components[LeafOf(doc, stack[Len(stack)])].object, sc[o])
        /\ IsFrame(stack[Len(stack)])
    BY <1>2, <1>3, <2>2, <2>3 DEF o
  <2>5. StackWhole(doc, cache, Records, Returned(stack, sc[o]))
    BY <2>1, <2>4, ReturnedWhole
  <2> QED
    BY <1>1, <1>4, <1>6, <2>5, OnlyStackChanges
<1> QED
  BY <1>5, <1>6

\* A call that wants no more has found all its variables complete.
LEMMA AllComplete ==
  ASSUME VariableInv, CompletenessInv, stack # << >>, ~Wants(Top)
  PROVE  \A w \in ToSet(WantedOf(doc, Top)) : Complete(cache, w)
<1> DEFINE n == Len(WantedOf(doc, Top))
<1>1. /\ FrameInv(doc, phase, DOMAIN cache, Top) /\ n \in Nat
      /\ DOMAIN WantedOf(doc, Top) = 1..n /\ Top.next \notin 1..n
  BY TopFacts
<1>2. Top.next \in Nat \ {0}
  BY <1>1 DEF FrameInv
<1> HIDE DEF n
<1>3. \A j \in 1..n : j < Top.next
  BY <1>1, <1>2
<1>4. FrameWhole(doc, cache, Records, Top)
  BY TopIsWhole
<1> QED
  BY <1>1, <1>3, <1>4 DEF FrameWhole, ToSet

\* A complete value was computed from the records as they are.
LEMMA ComputedWhole ==
  ASSUME VariableInv, CompletenessInv, Computes, NEW outcome \in Outcomes,
         outcome.state = "value", outcome.flag = "complete",
         doc' = doc, CacheGrows, RecordsGrow, Records' = Records,
         NEW v, v = Top.id, cache'[v].values = outcome.values
  PROVE  LocalWhole(v)'
<1> PICK root : root = RootOf(doc, v)
  OBVIOUS
<1> PICK read : read = Top.read
  OBVIOUS
<1>1. /\ stack # << >> /\ Top.what = "variable" /\ IsLocal(doc, v) /\ root \in Parts(doc)
      /\ SoundOutcome(outcome, root, read) /\ ~Wants(Top)
  BY ComputesFacts DEF Computes
<1>2. doc \in Documents /\ WantedOf(doc, Top) = References(doc)[root]
  BY <1>1 DEF WantedOf, VariableInv
<1>3. \A w \in ToSet(References(doc)[root]) : Complete(cache, w)
  BY <1>1, <1>2, AllComplete
<1>4. \A w \in ToSet(References(doc)[root]) :
        w # UnsupportedFunction /\ cache'[w] = cache[w] /\ Complete(cache', w)
  BY <1>3, CacheHasVariables DEF CacheGrows, Complete
<1>5. PICK time \in Clock : outcome = Computed(root, read, time)
  BY DEF Outcomes, Root, RootOf
<1>6. IsValue(outcome) /\ LeavesRead(root, read)
  BY <1>1 DEF SoundOutcome, Pending, Thrown
<1>7. outcome = Value("complete", outcome.values)
  BY <1>6 DEF IsValue, Value
<1>8. FrameWhole(doc, cache, Records, Top)
  BY <1>1, TopIsWhole
<1>9. LeavesOf(doc, v) = ToSet(ObjectLeaves(doc)[root])
  BY DEF LeavesOf
<1>10. /\ read = [c \in DOMAIN read |-> read[c]] /\ DOMAIN read \subseteq LeavesOf(doc, v)
       /\ \A c \in DOMAIN read : ReadOK(Records, doc.components[c].object, read[c])
  BY <1>1, <1>8 DEF FrameWhole
<1>11. \A l \in LeavesOf(doc, v) :
         /\ l \in DOMAIN read /\ doc.components[l].object \in DOMAIN Records
         /\ read[l] = Records[doc.components[l].object] /\ read[l].items # << >>
  BY <1>6, <1>9, <1>10 DEF LeavesRead, ReadOK
<1>12. ReadBy(v)' = read
  <2>1. ReadBy(v)' = [c \in LeavesOf(doc, v) |-> Records[doc.components[c].object]]
    BY DEF ReadBy, Leaves, Root, LeavesOf, RootOf
  <2>2. DOMAIN read = LeavesOf(doc, v)
    BY <1>10, <1>11
  <2> QED
    BY <1>10, <1>11, <2>1, <2>2
<1>13. Computed(root, read, time)' = Computed(root, read, time)
  BY <1>1, <1>2, <1>4, ComputedStays
<1>14. root = RootOf(doc', v) /\ LeavesOf(doc', v) = LeavesOf(doc, v)
  OBVIOUS
<1>15. cache'[v].values = outcome.values
  OBVIOUS
<1>16. \E moment \in Clock :
         Computed(RootOf(doc, v), ReadBy(v), moment)' = Value("complete", cache'[v].values)
  BY <1>5, <1>7, <1>12, <1>13, <1>14, <1>15
<1> QED
  BY <1>4, <1>11, <1>14, <1>16 DEF LocalWhole

\* The value of a local variable takes the place of the error it was entered with.
LEMMA ComputeLocalWhole ==
  ASSUME VariableInv, CompletenessInv, Computes, NEW outcome \in Outcomes, ComputeLocal(outcome)
  PROVE  CompletenessInv'
<1> PICK v : v = Top.id
  OBVIOUS
<1> PICK r : r = [flag |-> outcome.flag,
                  values |-> IF outcome.flag \in {"complete", "incomplete"}
                               THEN outcome.values ELSE << >>]
  OBVIOUS
<1> DEFINE n == Len(stack)
           rest == SubSeq(stack, 1, n - 1)
<1>1. /\ outcome.state = "value" /\ cache' = [cache EXCEPT ![v] = r] /\ stack' = rest
      /\ doc' = doc /\ phase' = phase /\ collected' = collected /\ sc' = sc
  BY DEF ComputeLocal, Front
<1>2. r.flag = outcome.flag /\ (outcome.flag = "complete" => r.values = outcome.values)
  OBVIOUS
<1>3. stack # << >> /\ Top.what = "variable"
  BY ComputesFacts
<1>4. /\ FrameWhole(doc, cache, Records, Top) /\ Top = stack[n] /\ n \in DOMAIN stack
      /\ StackWhole(doc, cache, Records, stack) /\ IsSeq(stack) /\ DOMAIN stack = 1..n /\ n \in Nat
  BY <1>3, TopIsWhole, StackTyped DEF CompletenessInv
<1>5. v \in DOMAIN cache /\ cache[v].flag = "error"
  BY <1>3, <1>4 DEF FrameWhole
<1>6. /\ DOMAIN cache' = DOMAIN cache /\ cache'[v] = r
      /\ \A w \in DOMAIN cache : w # v => cache'[w] = cache[w]
  BY <1>1, <1>5
<1>7. CacheGrows
  BY <1>5, <1>6 DEF CacheGrows, Complete
<1>8. Records' = Records /\ RecordsGrow
  BY <1>1, RecordsUntouched
<1>9. ASSUME NEW w \in DOMAIN cache', IsLocal(doc, w), Complete(cache', w)
      PROVE  Complete(cache, w) \/ LocalWhole(w)'
  <2>1. CASE w = v
    <3>1. outcome.flag = "complete" /\ cache'[v].values = outcome.values
      BY <1>2, <1>6, <1>9, <2>1 DEF Complete
    <3>2. LocalWhole(v)'
      BY <1>1, <1>7, <1>8, <3>1, ComputedWhole
    <3> QED
      BY <2>1, <3>2
  <2>2. CASE w # v
    BY <1>6, <1>9, <2>2 DEF Complete
  <2> QED
    BY <2>1, <2>2
<1>10. LocalsWhole'
  BY <1>1, <1>7, <1>8, <1>9, LocalsStay
<1>11. NeedsFound'
  BY <1>1, <1>7, NeedsStay
<1>12. n - 1 \in 0..Len(stack)
  BY <1>4
<1>13. StackWhole(doc, cache, Records, rest)
  BY <1>4, <1>12, CutWhole
<1>14. DOMAIN rest = 1..(n - 1) /\ \A i \in 1..(n - 1) : rest[i] = stack[i]
  BY <1>4, <1>12, CutSeq
<1> HIDE DEF rest
<1>15. ASSUME NEW i \in DOMAIN rest, rest[i].what = "variable"
       PROVE  cache'[rest[i].id] = cache[rest[i].id]
  <2>1. i \in DOMAIN stack /\ i < n /\ rest[i] = stack[i]
    BY <1>4, <1>14
  <2>2. Leads(doc, stack, i, n)
    BY <1>4, <2>1 DEF StackWhole
  <2>3. rest[i].id # v
    BY <1>3, <1>4, <1>15, <2>1, <2>2 DEF Leads
  <2>4. rest[i].id \in DOMAIN cache
    BY <1>13, <1>15 DEF StackWhole, FrameWhole
  <2> QED
    BY <1>6, <2>3, <2>4
<1>16. StackWhole(doc, cache', Records, rest)
  BY <1>6, <1>7, <1>13, <1>15, KnownWhole DEF CacheGrows
<1> QED
  BY <1>1, <1>8, <1>10, <1>11, <1>16 DEF CompletenessInv

\* A call of Parse when no other is active.
LEMMA FirstCallWhole ==
  ASSUME NEW d, NEW known, NEW records, NEW frame, FrameWhole(d, known, records, frame)
  PROVE  StackWhole(d, known, records, <<frame>>)
<1> DEFINE s == <<frame>>
<1>1. DOMAIN s = {1} /\ s[1] = frame
  OBVIOUS
<1> HIDE DEF s
<1>2. StackWhole(d, known, records, s)
  BY <1>1 DEF StackWhole, Called
<1> QED
  BY <1>2 DEF s

\* AbsDataCollector::Run has the next object collected, or finds that it is.
LEMMA RunWhole ==
  ASSUME VariableInv, CompletenessInv, RunObject \/ NextObject
  PROVE  CompletenessInv'
<1> DEFINE o == doc.objects[cursor]
<1>1. /\ phase = "collecting" /\ cursor \in DOMAIN doc.objects
      /\ doc' = doc /\ phase' = phase /\ cache' = cache /\ collected' = collected /\ sc' = sc
  BY DEF RunObject, NextObject, AtObject
<1>2. CASE RunObject
  <2>1. stack' = <<Frame("object", o)>> /\ o \notin DOMAIN collected
    BY <1>2 DEF RunObject
  <2>2. doc \in Documents /\ Records = collected
    BY <1>1 DEF VariableInv, Records
  <2>3. doc.objects \in Seq(Object)
    BY <2>2, DocumentFacts
  <2>4. FrameId(doc, phase, Frame("object", o))
    BY <1>1, <2>3 DEF FrameId, Frame
  <2>5. FrameWhole(doc, cache, Records, Frame("object", o))
    BY <2>1, <2>2, <2>4, NewFrameWhole
  <2>6. StackWhole(doc, cache, Records, stack')
    BY <2>1, <2>5, FirstCallWhole
  <2> QED
    BY <1>1, <2>6, OnlyStackChanges
<1>3. CASE NextObject
  <2>1. StackWhole(doc, cache, Records, stack')
    BY <1>3 DEF NextObject, CompletenessInv
  <2> QED
    BY <1>1, <2>1, OnlyStackChanges
<1> QED
  BY <1>2, <1>3

\* An object is collected with its variables complete, and has no record yet: one
\* that has is on a cycle when it is parsed again.
LEMMA ProcessObjectWhole ==
  ASSUME VariableInv, CompletenessInv, ProcessObject
  PROVE  CompletenessInv'
<1> DEFINE n == Len(stack)
<1> PICK o : o = Top.id
  OBVIOUS
<1>1. /\ stack # << >> /\ Top.what = "object" /\ ~Wants(Top) /\ Active("object")
      /\ doc' = doc /\ phase' = phase /\ cache' = cache /\ sc' = sc
  BY DEF ProcessObject, Active
<1>2. PICK record : /\ collected' = Entered(collected, o, record)
                    /\ stack' = Returned(SubSeq(stack, 1, n - 1), record)
  BY DEF ProcessObject, Front, Kept
<1>3. /\ FrameWhole(doc, cache, Records, Top) /\ Top = stack[n] /\ n \in DOMAIN stack
  BY <1>1, TopIsWhole
<1>4. phase = "collecting" /\ Records = collected
  <2>1. FrameId(doc, phase, Top)
    BY <1>1, TopFacts
  <2> QED
    BY <1>1, <2>1 DEF FrameId, Records
<1>5. o \in Object /\ WantedOf(doc, Top) = doc.needs[o] /\ Acyclic(doc, o)
  BY <1>1, ReadyFacts
<1>6. o \notin DOMAIN collected
  BY <1>1, <1>3, <1>4, <1>5 DEF FrameWhole
<1>7. ReadOK(Entered(collected, o, record), o, record)
  BY <1>6 DEF ReadOK, Entered
<1>8. StackWhole(doc, cache, Entered(collected, o, record),
                 Returned(SubSeq(stack, 1, n - 1), record))
  BY <1>1, <1>3, <1>7, RecordedWhole
<1>9. /\ RecordsGrow /\ Records' = collected'
      /\ \A x \in DOMAIN collected' :
           \/ x \in DOMAIN collected /\ collected'[x] = collected[x]
           \/ x = o /\ o \notin DOMAIN collected /\ collected'[x] = record
  BY <1>1, <1>2, <1>4, RecordsGrowBy
<1>10. LocalsWhole' /\ CacheGrows
  BY <1>1, <1>9, LocalsUntouched
<1>11. \A w \in ToSet(doc.needs[o]) : Complete(cache, w)
  BY <1>1, <1>5, AllComplete
<1>12. NeedsFound'
  BY <1>1, <1>9, <1>10, <1>11, NeedsStay
<1>13. StackWhole(doc', cache', Records', stack')
  BY <1>1, <1>2, <1>8, <1>9
<1> QED
  BY <1>10, <1>12, <1>13 DEF CompletenessInv

\* With no call active and nothing in the cache all is whole.
LEMMA NothingIsWhole ==
  ASSUME stack = << >>, cache = << >>, collected = << >>
  PROVE  CompletenessInv
<1>1. DOMAIN << >> = {}
  OBVIOUS
<1>2. StackWhole(doc, cache, Records, stack)
  BY <1>1 DEF StackWhole
<1> QED
  BY <1>1, <1>2 DEF CompletenessInv, LocalsWhole, NeedsFound

\* The caches are cleared.
LEMMA EndCollectionWhole ==
  ASSUME VariableInv, CompletenessInv, EndCollection
  PROVE  CompletenessInv'
<1>1. stack' = << >> /\ cache' = << >> /\ collected' = << >>
  BY DEF EndCollection, Nothing
<1>2. DOMAIN << >> = {}
  OBVIOUS
<1>3. StackWhole(doc', cache', Records', stack')
  BY <1>1, <1>2 DEF StackWhole
<1>4. LocalsWhole' /\ NeedsFound'
  BY <1>1, <1>2 DEF LocalsWhole, NeedsFound
<1> QED
  BY <1>3, <1>4 DEF CompletenessInv

\* A state is parsed with its variables.
LEMMA ParseStateWhole ==
  ASSUME VariableInv, CompletenessInv, ParseState
  PROVE  CompletenessInv'
<1> DEFINE frame == Frame("state", cursor)
<1>1. /\ phase = "analyzing" /\ cursor \in DOMAIN doc.states /\ stack' = <<frame>>
      /\ doc' = doc /\ phase' = phase /\ cache' = cache /\ collected' = collected /\ sc' = sc
  BY DEF ParseState, AtState
<1>2. doc \in Documents /\ FrameId(doc, phase, frame)
  BY <1>1 DEF VariableInv, FrameId, Frame
<1>3. FrameWhole(doc, cache, Records, frame)
  BY <1>2, NewFrameWhole
<1> HIDE DEF frame
<1>4. StackWhole(doc, cache, Records, stack')
  BY <1>1, <1>3, FirstCallWhole
<1> QED
  BY <1>1, <1>4, OnlyStackChanges

\* The steps of the analysis that leave the variables alone.
LEMMA AnalysisWhole ==
  ASSUME VariableInv, CompletenessInv, StateParsed \/ WriteTest \/ WriteThrows \/ EndAnalysis
  PROVE  CompletenessInv'
<1>1. /\ doc' = doc /\ cache' = cache /\ collected' = collected /\ sc' = sc
      /\ stack' = << >>
  BY DEF StateParsed, WriteTest, WriteThrows, EndAnalysis, AtState
<1>2. phase # "collecting" /\ phase' # "collecting"
  <2>1. CASE StateParsed
    <3>1. stack # << >> /\ Top.what = "state" /\ phase' = phase
      BY <2>1 DEF StateParsed, Active
    <3>2. FrameId(doc, phase, Top)
      BY <3>1, TopFacts
    <3> QED
      BY <3>1, <3>2 DEF FrameId
  <2>2. CASE WriteTest \/ WriteThrows \/ EndAnalysis
    BY <2>2 DEF WriteTest, WriteThrows, EndAnalysis, AtState
  <2> QED
    BY <2>1, <2>2
<1>3. Records' = Records /\ RecordsGrow
  BY <1>1, <1>2 DEF Records, RecordsGrow
<1>4. LocalsWhole' /\ CacheGrows
  BY <1>1, <1>3, LocalsUntouched
<1>5. NeedsFound'
  BY <1>1, <1>4, NeedsStay
<1>6. StackWhole(doc', cache', Records', stack')
  <2>1. DOMAIN << >> = {}
    OBVIOUS
  <2> QED
    BY <1>1, <2>1 DEF StackWhole
<1> QED
  BY <1>4, <1>5, <1>6 DEF CompletenessInv

\* Compute is all that LocalVariable::ComputeValue may come to.
LEMMA ComputeWhole ==
  ASSUME VariableInv, CompletenessInv, Compute
  PROVE  CompletenessInv'
<1>1. PICK outcome \in Outcomes : \/ CollectObject(outcome) \/ ReadObject(outcome)
                                 \/ ComputeLocal(outcome) \/ ComputeThrows(outcome)
  BY DEF Compute
<1>2. Computes
  BY DEF Compute
<1> QED
  BY <1>1, <1>2, CollectObjectWhole, ReadObjectWhole, ComputeLocalWhole, ThrowsWhole

\* Every step keeps all whole.
LEMMA StepWhole ==
  ASSUME VariableInv, CompletenessInv, [Next]_vars
  PROVE  CompletenessInv'
<1>1. CASE UNCHANGED vars
  <2>1. /\ doc' = doc /\ phase' = phase /\ cache' = cache /\ collected' = collected
        /\ sc' = sc /\ stack' = stack
    BY <1>1 DEF vars
  <2>2. StackWhole(doc, cache, Records, stack')
    BY <2>1 DEF CompletenessInv
  <2> QED
    BY <2>1, <2>2, OnlyStackChanges
<1>2. CASE Step
  BY <1>2, FindVariableWhole, ThrowsWhole, ParseSourceWhole, EnterLocalWhole, ComputeWhole,
     RunWhole, ProcessObjectWhole, EndCollectionWhole, ParseStateWhole, AnalysisWhole DEF Step
<1> QED
  BY <1>1, <1>2 DEF Next, Terminated

\* What is complete is not on the stack.
LEMMA CompletenessMeets ==
  ASSUME VariableInv, CompletenessInv
  PROVE  CompleteMeansComplete
<1>1. doc \in Documents /\ StackWhole(doc, cache, Records, stack)
  BY DEF VariableInv, CompletenessInv
<1>2. ASSUME NEW w, Complete(cache, w) PROVE w \in Settled /\ cache[w].flag = "complete"
  <2>1. \A i \in DOMAIN stack : ~(stack[i].what = "variable" /\ stack[i].id = w)
    BY <1>1, <1>2 DEF StackWhole, FrameWhole, Complete
  <2> QED
    BY <1>2, <2>1 DEF Settled, OnStack, Complete
<1>3. ASSUME NEW v \in CompleteLocals
      PROVE  /\ \A w \in ReferredTo(Root(v)) : w \in Settled /\ cache[w].flag = "complete"
             /\ \A o \in ObjectsOf(v) : o \in DOMAIN Records /\ Records[o].items # << >>
             /\ \E time \in Clock :
                  Computed(Root(v), ReadBy(v), time) = Value("complete", cache[v].values)
  <2>1. v \in DOMAIN cache /\ Complete(cache, v) /\ doc.variables[v].kind = "local"
    BY DEF CompleteLocals, Locals, Settled, Complete
  <2>2. IsLocal(doc, v)
    BY <2>1 DEF IsLocal, VariableInv, CacheInv
  <2>3. LocalWhole(v) /\ Root(v) = RootOf(doc, v) /\ Leaves(Root(v)) = LeavesOf(doc, v)
    BY <1>1, <2>1, <2>2, RootFacts DEF CompletenessInv, LocalsWhole
  <2>4. ReferredTo(Root(v)) \subseteq ToSet(References(doc)[RootOf(doc, v)])
    BY <2>3 DEF ReferredTo
  <2>5. ObjectsOf(v) = {doc.components[c].object : c \in LeavesOf(doc, v)}
    BY <2>3 DEF ObjectsOf
  <2>6. \A w \in ReferredTo(Root(v)) : w \in Settled /\ cache[w].flag = "complete"
    BY <1>2, <2>3, <2>4 DEF LocalWhole
  <2>7. \A o \in ObjectsOf(v) : o \in DOMAIN Records /\ Records[o].items # << >>
    BY <2>3, <2>5 DEF LocalWhole
  <2> QED
    BY <2>3, <2>6, <2>7 DEF LocalWhole
<1>4. ASSUME NEW o \in DOMAIN collected, collected[o].items # << >>, NEW w \in ToSet(doc.needs[o])
      PROVE  w \in Settled /\ cache[w].flag = "complete"
  BY <1>2, <1>4 DEF CompletenessInv, NeedsFound
<1> QED
  BY <1>3, <1>4 DEF CompleteMeansComplete

\* For all documents and whatever their objects come to: a variable that
\* VariableFactory::GetVariable hands out as complete has been computed, by
\* LocalVariable::ComputeValue, from variables that are complete and from objects
\* that have items, and would be computed from them to the same values now; and only
\* an object whose variables are all complete has items
\* (AbsObjectCollector::Run, CollectedObject).
THEOREM CompleteVariablesAreComplete == Spec => []CompleteMeansComplete
<1>1. Init => CompletenessInv
  BY NothingIsWhole DEF Init, Nothing
<1>2. VariableInv /\ CompletenessInv /\ [Next]_vars => CompletenessInv'
  BY StepWhole
<1>3. VariableInv /\ CompletenessInv => CompleteMeansComplete
  BY CompletenessMeets
<1> QED
  BY <1>1, <1>2, <1>3, VariableInvariant, PTL DEF Spec
=============================================================================
