--------------------------- MODULE CollectorProofs ---------------------------
(***************************************************************************)
(* What the flags and items of sets say is right for every document, every *)
(* system and every outcome of the probes.                                 *)
(*                                                                         *)
(* ItemsOf and ParseFlag are recursive over the heights of the document;   *)
(* the first part shows that they solve their equations (module            *)
(* ProofLemmas).  The second part is about the tables of flags.  The third *)
(* is the invariant: the calls of Run and ProcessSet on the stack are a    *)
(* path through the document, the set objects among them are not collected *)
(* yet, and every value a call has been given so far is what the equations *)
(* say of the node it comes from, for all solutions that agree with what   *)
(* has been collected.  The solutions are quantified inside the invariant, *)
(* since ItemsOf itself changes with every object that is collected.       *)
(***************************************************************************)
EXTENDS ObjectCollector, ProofLemmas

\* The flags by names.
Absent == "does not exist"
Uncollected == "not collected"
Inapplicable == "not applicable"

\* What the assumption says of one document.
LEMMA DocumentFacts ==
  ASSUME NEW d \in Documents
  PROVE  /\ d.objects \in Seq(Node) /\ d.kind \in [Node -> Kind]
         /\ d.kids \in [Node -> Seq(Node)]
         /\ d.setOp \in [Node -> SetOperatorEnumeration]
         /\ d.filters \in [Node -> Seq(Filter)]
         /\ d.varFlag \in [Node -> FlagEnumeration]
         /\ d.height \in [Node -> Nat] /\ WellFormed(d)
  BY CollectorAssumption DEF Document

-----------------------------------------------------------------------------
(***************************************************************************)
(* The recursions.                                                         *)
(***************************************************************************)
\* The body of ParseFlag.
ParseFlagAt(d, parse, n) ==
  LET bad == {i \in DOMAIN d.kids[n] : parse[d.kids[n][i]] # "complete"}
  IN  IF bad = {} THEN d.varFlag[n]
      ELSE parse[d.kids[n][CHOOSE i \in bad : \A j \in bad : i <= j]]

\* The first of some positions exists.
LEMMA FirstPosition ==
  ASSUME NEW s \in Seq(Node), NEW bad \in SUBSET DOMAIN s, bad # {}
  PROVE  (CHOOSE i \in bad : \A j \in bad : i <= j) \in bad
<1>1. bad \subseteq Nat
  OBVIOUS
<1>2. \E i \in bad : \A j \in bad : i <= j
  BY <1>1, LeastNatural
<1> QED
  BY <1>2

\* ParseFlag (ObjectFactory::GetObjectById) solves its equation.
LEMMA ParseFlagSolves ==
  ASSUME NEW d \in Documents
  PROVE  /\ ParseFlag(d) \in [Node -> FlagEnumeration]
         /\ \A n \in Node : ParseFlag(d)[n] = ParseFlagAt(d, ParseFlag(d), n)
<1> DEFINE V == FlagEnumeration
           G == [n \in Node |-> [f \in [Node -> V] |-> ParseFlagAt(d, f, n)]]
           Solves(f) == f = [n \in Node |-> ParseFlagAt(d, f, n)]
<1>1. ASSUME NEW n \in Node, NEW f,
             \A m \in Node : d.height[m] < d.height[n] => f[m] \in V
      PROVE  ParseFlagAt(d, f, n) \in V
  <2> DEFINE bad == {i \in DOMAIN d.kids[n] : f[d.kids[n][i]] # "complete"}
  <2>1. /\ d.kids[n] \in Seq(Node) /\ d.varFlag[n] \in V
        /\ \A i \in DOMAIN d.kids[n] : f[d.kids[n][i]] \in V
    <3>1. d.kids[n] \in Seq(Node) /\ d.varFlag[n] \in V
      BY DocumentFacts
    <3>2. \A i \in DOMAIN d.kids[n] :
            d.kids[n][i] \in Node /\ d.height[d.kids[n][i]] < d.height[n]
      BY DocumentFacts DEF WellFormed
    <3> QED
      BY <1>1, <3>1, <3>2
  <2>2. CASE bad = {}
    BY <2>1, <2>2 DEF ParseFlagAt
  <2>3. CASE bad # {}
    <3> DEFINE first == CHOOSE i \in bad : \A j \in bad : i <= j
    <3>1. bad \in SUBSET DOMAIN d.kids[n]
      OBVIOUS
    <3>2. first \in bad
      <4> HIDE DEF bad
      <4> QED
        BY <2>1, <2>3, <3>1, FirstPosition
    <3>3. ParseFlagAt(d, f, n) = f[d.kids[n][first]]
      BY <2>3 DEF ParseFlagAt
    <3> HIDE DEF first
    <3> QED
      BY <2>1, <3>2, <3>3
  <2> QED
    BY <2>2, <2>3
<1>2. ReadsBelow(Node, V, d.height, G)
  <2> SUFFICES ASSUME NEW n \in Node, NEW f \in [Node -> V], NEW g \in [Node -> V],
                      \A m \in Node : d.height[m] < d.height[n] => f[m] = g[m]
               PROVE  G[n][f] = G[n][g]
    BY DEF ReadsBelow
  <2>1. \A i \in DOMAIN d.kids[n] :
          d.kids[n][i] \in Node /\ d.height[d.kids[n][i]] < d.height[n]
    BY DocumentFacts DEF WellFormed
  <2>2. \A i \in DOMAIN d.kids[n] : f[d.kids[n][i]] = g[d.kids[n][i]]
    BY <2>1
  <2> DEFINE bad(q) == {i \in DOMAIN d.kids[n] : q[d.kids[n][i]] # "complete"}
  <2>3. bad(f) = bad(g)
    BY <2>2
  <2>4. CASE bad(f) = {}
    BY <2>3, <2>4 DEF ParseFlagAt
  <2>5. CASE bad(f) # {}
    <3> DEFINE first == CHOOSE i \in bad(f) : \A j \in bad(f) : i <= j
    <3>1. d.kids[n] \in Seq(Node) /\ bad(f) \in SUBSET DOMAIN d.kids[n]
      BY DocumentFacts
    <3>2. first \in bad(f)
      <4> HIDE DEF bad
      <4> QED
        BY <3>1, <2>5, FirstPosition
    <3>3. G[n][f] = f[d.kids[n][first]] /\ G[n][g] = g[d.kids[n][first]]
      BY <2>3, <2>5 DEF ParseFlagAt
    <3> HIDE DEF first, G
    <3> QED
      BY <3>2, <3>3, <2>2
  <2> QED
    BY <2>4, <2>5
<1>3. PICK f \in [Node -> V] : \A n \in Node : f[n] = G[n][f]
  <2>1. V # {} /\ d.height \in [Node -> Nat] /\ G \in [Node -> [[Node -> V] -> V]]
    <3>1. V # {}
      BY Zenon DEF FlagEnumeration
    <3> HIDE DEF V
    <3> QED
      <4>1. \A n \in Node : \A f \in [Node -> V] : ParseFlagAt(d, f, n) \in V
        BY <1>1
      <4> QED
        BY <4>1, <3>1, DocumentFacts
  <2> DEFINE h == d.height
  <2>2. Recursion(Node, V, h, G)
    <3> HIDE DEF G, V
    <3> QED
      BY <2>1, <1>2 DEF Recursion
  <2> HIDE DEF G, V, h
  <2> QED
    BY <2>2, RecursionByHeight
<1>4. \E g : Solves(g)
  <2>1. f = [n \in Node |-> ParseFlagAt(d, f, n)]
    BY <1>3
  <2> QED
    BY <2>1
<1>5. ParseFlag(d) = CHOOSE g : Solves(g)
  BY DEF ParseFlag, ParseFlagAt
<1>6. Solves(ParseFlag(d))
  <2> HIDE DEF Solves
  <2> QED
    BY <1>4, <1>5
<1> DEFINE p == ParseFlag(d)
<1>7. \A n \in Node : p[n] = ParseFlagAt(d, p, n)
  <2> HIDE DEF p
  <2> QED
    BY <1>6 DEF p
<1>8. p \in [Node -> V]
  <2> DEFINE P == {n \in Node : p[n] \in V}
  <2>1. d.height \in [Node -> Nat]
    BY DocumentFacts
  <2>2. ASSUME NEW n \in Node, \A m \in Node : d.height[m] < d.height[n] => m \in P
        PROVE  n \in P
    <3>1. \A m \in Node : d.height[m] < d.height[n] => p[m] \in V
      BY <2>2
    <3>2. ParseFlagAt(d, p, n) \in V
      <4> HIDE DEF p, V
      <4> QED
        BY <1>1, <3>1
    <3> QED
      BY <1>7, <3>2
  <2>3. Node \subseteq P
    <3> HIDE DEF P
    <3> QED
      BY <2>1, <2>2, ByHeight
  <2>4. p = [n \in Node |-> ParseFlagAt(d, p, n)]
    <3> HIDE DEF p
    <3> QED
      BY <1>6 DEF p
  <2> HIDE DEF p, V
  <2> QED
    BY <2>3, <2>4
<1> QED
  BY <1>7, <1>8

\* The kids of a node by its kind (ObjectComponent.cpp, Set::Parse).
LEMMA Kids ==
  ASSUME NEW d \in Documents, NEW n \in Node
  PROVE  /\ d.kind[n] \in Kind /\ d.kids[n] \in Seq(Node)
         /\ \A i \in DOMAIN d.kids[n] :
              d.kids[n][i] \in Node /\ d.height[d.kids[n][i]] < d.height[n]
         /\ d.kind[n] = "Object" => d.kids[n] = << >>
         /\ d.kind[n] = "SetObject" =>
              /\ Len(d.kids[n]) = 1 /\ DOMAIN d.kids[n] = {1}
              /\ d.kids[n][1] \in Node /\ d.kind[d.kids[n][1]] = "Set"
         /\ d.kind[n] = "Set" =>
              /\ Len(d.kids[n]) \in {1, 2} /\ 1 \in DOMAIN d.kids[n]
              /\ Len(d.kids[n]) # 1 => DOMAIN d.kids[n] = {1, 2}
<1>1. /\ d.kind[n] \in Kind /\ d.kids[n] \in Seq(Node) /\ WellFormed(d)
  BY DocumentFacts
<1>2. DOMAIN d.kids[n] = 1..Len(d.kids[n])
  BY <1>1
<1>3. \A i \in DOMAIN d.kids[n] :
        d.kids[n][i] \in Node /\ d.height[d.kids[n][i]] < d.height[n]
  BY <1>1 DEF WellFormed
<1>4. d.kind[n] = "Object" => d.kids[n] = << >>
  BY <1>1 DEF WellFormed
<1>5. ASSUME d.kind[n] = "SetObject"
      PROVE  /\ Len(d.kids[n]) = 1 /\ DOMAIN d.kids[n] = {1}
             /\ d.kids[n][1] \in Node /\ d.kind[d.kids[n][1]] = "Set"
  <2>1. Len(d.kids[n]) = 1 /\ d.kind[d.kids[n][1]] = "Set"
    BY <1>1, <1>5 DEF WellFormed
  <2>2. 1..1 = {1}
    OBVIOUS
  <2> QED
    BY <1>2, <1>3, <2>1, <2>2
<1>6. ASSUME d.kind[n] = "Set"
      PROVE  /\ Len(d.kids[n]) \in {1, 2} /\ 1 \in DOMAIN d.kids[n]
             /\ Len(d.kids[n]) # 1 => DOMAIN d.kids[n] = {1, 2}
  <2>1. Len(d.kids[n]) \in {1, 2}
    BY <1>1, <1>6 DEF WellFormed
  <2>2. 1..1 = {1} /\ 1..2 = {1, 2}
    OBVIOUS
  <2> QED
    BY <1>2, <2>1, <2>2
<1> QED
  BY <1>1, <1>3, <1>4, <1>5, <1>6

\* Filters and set operators stay within the items (AbsObjectCollector.cpp).
LEMMA FiltersRemove ==
  ASSUME NEW filters, NEW items
  PROVE  ApplyFilters(filters, items) \subseteq items
  BY DEF ApplyFilters

\* What a set makes of its kids are items (SetItems).
LEMMA SetItemsTyped ==
  ASSUME NEW d \in Documents, NEW n \in Node, d.kind[n] = "Set", NEW m,
         \A i \in DOMAIN d.kids[n] : m[d.kids[n][i]] \in SUBSET Item
  PROVE  SetItems(d, m, n) \in SUBSET Item
<1>1. \A i \in DOMAIN d.kids[n] : KidItems(d, m, n, i) \in SUBSET Item
  BY FiltersRemove DEF KidItems
<1>2. d.setOp[n] \in SetOperatorEnumeration
  BY DocumentFacts
<1>3. CASE Len(d.kids[n]) = 1
  BY <1>1, <1>3, Kids DEF SetItems
<1>4. CASE Len(d.kids[n]) # 1
  <2>1. KidItems(d, m, n, 1) \in SUBSET Item /\ KidItems(d, m, n, 2) \in SUBSET Item
    BY <1>1, <1>4, Kids
  <2> QED
    BY <2>1, <1>2, <1>4 DEF SetItems, CombineItems, SetOperatorEnumeration
<1> QED
  BY <1>3, <1>4

\* The items of a set depend on its kids.
LEMMA SetItemsLocal ==
  ASSUME NEW d \in Documents, NEW n \in Node, d.kind[n] = "Set", NEW m, NEW q,
         \A i \in DOMAIN d.kids[n] : m[d.kids[n][i]] = q[d.kids[n][i]]
  PROVE  SetItems(d, m, n) = SetItems(d, q, n)
<1>1. \A i \in DOMAIN d.kids[n] : KidItems(d, m, n, i) = KidItems(d, q, n, i)
  BY DEF KidItems
<1>2. CASE Len(d.kids[n]) = 1
  BY <1>1, <1>2, Kids DEF SetItems
<1>3. CASE Len(d.kids[n]) # 1
  <2>1. 1 \in DOMAIN d.kids[n] /\ 2 \in DOMAIN d.kids[n]
    BY <1>3, Kids
  <2> QED
    BY <1>1, <1>3, <2>1 DEF SetItems
<1> QED
  BY <1>2, <1>3

\* ItemsOf solves its equation.
LEMMA ItemsOfSolves ==
  ASSUME NEW d \in Documents, NEW D \in SUBSET Node, NEW given \in [D -> SUBSET Item]
  PROVE  /\ ItemsOf(d, given) \in [Node -> SUBSET Item]
         /\ \A n \in Node : ItemsOf(d, given)[n] = ItemsAt(d, given, ItemsOf(d, given), n)
<1> DEFINE V == SUBSET Item
           G == [n \in Node |-> [f \in [Node -> V] |-> ItemsAt(d, given, f, n)]]
           Solves(f) == f = [n \in Node |-> ItemsAt(d, given, f, n)]
<1>1. ASSUME NEW n \in Node, NEW f,
             \A m \in Node : d.height[m] < d.height[n] => f[m] \in V
      PROVE  ItemsAt(d, given, f, n) \in V
  <2>1. \A i \in DOMAIN d.kids[n] : f[d.kids[n][i]] \in V
    BY <1>1, Kids
  <2>2. CASE n \in DOMAIN given
    BY <2>2 DEF ItemsAt
  <2>3. CASE n \notin DOMAIN given /\ d.kind[n] = "Object"
    BY <2>3 DEF ItemsAt
  <2>4. CASE n \notin DOMAIN given /\ d.kind[n] = "SetObject"
    BY <2>1, <2>4, Kids DEF ItemsAt
  <2>5. CASE n \notin DOMAIN given /\ d.kind[n] = "Set"
    <3>1. SetItems(d, f, n) \in V
      BY <2>1, <2>5, SetItemsTyped
    <3> HIDE DEF V
    <3> QED
      BY <3>1, <2>5 DEF ItemsAt
  <2>6. d.kind[n] \in Kind
    BY Kids
  <2> QED
    BY <2>2, <2>3, <2>4, <2>5, <2>6 DEF Kind
<1>2. ReadsBelow(Node, V, d.height, G)
  <2> SUFFICES ASSUME NEW n \in Node, NEW f \in [Node -> V], NEW g \in [Node -> V],
                      \A m \in Node : d.height[m] < d.height[n] => f[m] = g[m]
               PROVE  G[n][f] = G[n][g]
    BY DEF ReadsBelow
  <2>1. \A i \in DOMAIN d.kids[n] : f[d.kids[n][i]] = g[d.kids[n][i]]
    BY Kids
  <2>2. G[n][f] = ItemsAt(d, given, f, n) /\ G[n][g] = ItemsAt(d, given, g, n)
    OBVIOUS
  <2>3. CASE d.kind[n] = "Object"
    <3> HIDE DEF G
    <3> QED
      BY <2>2, <2>3 DEF ItemsAt
  <2>4. CASE d.kind[n] = "SetObject"
    <3> HIDE DEF G
    <3> QED
      BY SMTT(30), <2>1, <2>2, <2>4, Kids DEF ItemsAt
  <2>5. CASE d.kind[n] = "Set"
    <3>1. SetItems(d, f, n) = SetItems(d, g, n)
      BY <2>1, <2>5, SetItemsLocal
    <3> HIDE DEF G
    <3> QED
      BY <2>2, <2>5, <3>1 DEF ItemsAt
  <2>6. d.kind[n] \in Kind
    BY Kids
  <2> HIDE DEF G
  <2> QED
    BY <2>3, <2>4, <2>5, <2>6 DEF Kind
<1>3. PICK f \in [Node -> V] : \A n \in Node : f[n] = G[n][f]
  <2>1. V # {} /\ d.height \in [Node -> Nat] /\ G \in [Node -> [[Node -> V] -> V]]
    <3>1. \A n \in Node : \A f \in [Node -> V] : ItemsAt(d, given, f, n) \in V
      BY <1>1
    <3> QED
      BY <3>1, DocumentFacts
  <2> DEFINE h == d.height
  <2>2. Recursion(Node, V, h, G)
    <3> HIDE DEF G, V
    <3> QED
      BY <2>1, <1>2 DEF Recursion
  <2> HIDE DEF G, V, h
  <2> QED
    BY <2>2, RecursionByHeight
<1>4. \E g : Solves(g)
  <2>1. f = [n \in Node |-> ItemsAt(d, given, f, n)]
    BY <1>3
  <2> QED
    BY <2>1
<1>5. ItemsOf(d, given) = CHOOSE g : Solves(g)
  BY DEF ItemsOf
<1>6. Solves(ItemsOf(d, given))
  <2> HIDE DEF Solves
  <2> QED
    BY <1>4, <1>5
<1> DEFINE p == ItemsOf(d, given)
<1>7. p = [n \in Node |-> ItemsAt(d, given, p, n)]
  <2> HIDE DEF p
  <2> QED
    BY <1>6 DEF p
<1>8. \A n \in Node : p[n] = ItemsAt(d, given, p, n)
  <2> HIDE DEF p
  <2> QED
    BY <1>7
<1>9. p \in [Node -> V]
  <2> DEFINE P == {n \in Node : p[n] \in V}
  <2>1. d.height \in [Node -> Nat]
    BY DocumentFacts
  <2>2. ASSUME NEW n \in Node, \A m \in Node : d.height[m] < d.height[n] => m \in P
        PROVE  n \in P
    <3>1. \A m \in Node : d.height[m] < d.height[n] => p[m] \in V
      BY <2>2
    <3>2. ItemsAt(d, given, p, n) \in V
      <4> HIDE DEF p, V
      <4> QED
        BY <1>1, <3>1
    <3> HIDE DEF p
    <3> QED
      BY <1>8, <3>2
  <2>3. Node \subseteq P
    <3> HIDE DEF P
    <3> QED
      BY <2>1, <2>2, ByHeight
  <2> HIDE DEF p, V
  <2> QED
    BY <2>3, <1>7
<1> QED
  BY <1>8, <1>9

-----------------------------------------------------------------------------
(***************************************************************************)
(* Flags, filters and set operators.                                       *)
(***************************************************************************)
\* The names are those of six flags.
LEMMA SixFlags ==
  /\ FlagEnumeration =
       {"error", "complete", "incomplete", Absent, Uncollected, Inapplicable}
  /\ Absent \notin {"error", "complete", "incomplete", "exists", Uncollected, Inapplicable}
  /\ Uncollected \notin {"error", "complete", "incomplete", "exists", Inapplicable}
  /\ Inapplicable \notin {"error", "complete", "incomplete", "exists"}
  BY Zenon DEF FlagEnumeration, Absent, Uncollected, Inapplicable

\* ComplementFlag, IntersectionFlag and UnionFlag (CombineFlagBySetOperator), the
\* flags by their names.
LEMMA ComplementTable ==
  ASSUME NEW f1 \in FlagEnumeration, NEW f2 \in FlagEnumeration
  PROVE  ComplementFlag(f1, f2) =
           IF f1 \in {"complete", "incomplete"} /\ f2 \in {"complete", Absent} THEN f1
           ELSE IF f1 = Absent /\ f2 # Inapplicable THEN f1
           ELSE IF f1 = Uncollected /\ f2 \notin {Inapplicable, "error"} THEN f1
           ELSE "error"
  BY ZenonT(60) DEF FlagEnumeration, ComplementFlag, Absent, Inapplicable, Uncollected

\* IntersectionFlag, the flags by their names.
LEMMA IntersectionTable ==
  ASSUME NEW f1, NEW f2
  PROVE  IntersectionFlag(f1, f2) =
           IF f1 \in {"error", Absent} THEN f1
           ELSE IF f2 \in {"error", Absent} THEN f2
           ELSE IF f1 = Inapplicable THEN f2
           ELSE IF f1 = "incomplete" /\ f2 = Inapplicable THEN f2
           ELSE IF f1 = "complete" /\ f2 # Inapplicable THEN f2
           ELSE f1
  BY ZenonT(60) DEF IntersectionFlag, Absent, Inapplicable

\* UnionFlag, the flags by their names.
LEMMA UnionTable ==
  ASSUME NEW f1, NEW f2
  PROVE  UnionFlag(f1, f2) =
           LET f == {f1, f2}
           IN  IF "error" \in f THEN "error"
               ELSE IF "incomplete" \in f THEN "incomplete"
               ELSE IF Uncollected \in f
                 THEN IF f \subseteq {Uncollected, Inapplicable}
                        THEN Uncollected ELSE "incomplete"
               ELSE IF "complete" \in f THEN "complete"
               ELSE IF Absent \in f THEN Absent
               ELSE Inapplicable
  BY ZenonT(60) DEF UnionFlag, Absent, Inapplicable, Uncollected

\* What a flag says of the items beyond Sound: nothing was collected, or nothing
\* that exists.
Restrained(c) ==
  /\ c.flag \in {Inapplicable, Uncollected} => c.items = {}
  /\ c.flag = Absent => Existing(c.items) = {}

Right(c, real) == Sound(c, real) /\ Restrained(c)

\* Sound with the flags by their names.
LEMMA SoundMeans ==
  ASSUME NEW c, NEW real
  PROVE  Sound(c, real) <=> /\ c.flag = "complete" => Existing(c.items) = real
                            /\ c.flag = "incomplete" => Existing(c.items) \subseteq real
                            /\ c.flag \in {Absent, Inapplicable} => real = {}
  BY Zenon DEF Sound, Absent, Inapplicable

\* What exists among filtered items is what the filters leave of what exists.
LEMMA FilteredIsRight ==
  ASSUME NEW c, NEW real, Right(c, real), NEW filters, NEW kept,
         kept.flag = c.flag, kept.items = ApplyFilters(filters, c.items)
  PROVE  Right(kept, ApplyFilters(filters, real))
<1>1. Existing(kept.items) = ApplyFilters(filters, Existing(c.items))
  BY DEF Existing, ApplyFilters
<1>2. ApplyFilters(filters, {}) = {}
  BY DEF ApplyFilters
<1>3. Sound(kept, ApplyFilters(filters, real))
  <2>1. Existing(c.items) \subseteq real =>
          ApplyFilters(filters, Existing(c.items)) \subseteq ApplyFilters(filters, real)
    BY DEF ApplyFilters
  <2> QED
    BY <1>1, <1>2, <2>1, SoundMeans DEF Right
<1>4. Restrained(kept)
  BY <1>1, <1>2 DEF Right, Restrained
<1> QED
  BY <1>3, <1>4 DEF Right

\* The flags of each operator stand for what it makes of the items
\* (CombineFlagBySetOperator with Union, Intersection and Compelement).
LEMMA ComplementIsRight ==
  ASSUME NEW c1, c1.flag \in FlagEnumeration, NEW r1, Right(c1, r1),
         NEW c2, c2.flag \in FlagEnumeration, NEW r2, Right(c2, r2), NEW c,
         c.flag = ComplementFlag(c1.flag, c2.flag), c.items = c1.items \ c2.items
  PROVE  c.flag \in FlagEnumeration /\ Right(c, r1 \ r2)
<1>1. Existing(c.items) = Existing(c1.items) \ Existing(c2.items)
  BY DEF Existing
<1>2. c.flag \in FlagEnumeration
  BY ComplementTable, SixFlags
<1>3. /\ c.flag = "complete" => c1.flag = "complete" /\ c2.flag \in {"complete", Absent}
      /\ c.flag = "incomplete" =>
           c1.flag = "incomplete" /\ c2.flag \in {"complete", Absent}
  <2>1. \/ c1.flag \in {"complete", "incomplete"} /\ c2.flag \in {"complete", Absent}
           /\ c.flag = c1.flag
        \/ c.flag \in {Absent, Uncollected, "error"}
    BY ComplementTable
  <2>2. {Absent, Uncollected, "error"} \cap {"complete", "incomplete"} = {}
    BY SixFlags
  <2> QED
    BY <2>1, <2>2
<1>5. c.flag # Inapplicable /\ (c.flag = Absent => c1.flag = Absent)
      /\ (c.flag = Uncollected => c1.flag = Uncollected)
  BY ComplementTable, SixFlags
<1>6. Sound(c1, r1) /\ Sound(c2, r2) /\ Restrained(c1) /\ Restrained(c2)
  BY DEF Right
<1>7. Sound(c, r1 \ r2)
  <2>1. c.flag = "complete" => Existing(c.items) = r1 \ r2
    BY <1>1, <1>3, <1>6, SoundMeans, SixFlags DEF Restrained
  <2>2. c.flag = "incomplete" => Existing(c.items) \subseteq r1 \ r2
    BY <1>1, <1>3, <1>6, SoundMeans, SixFlags DEF Restrained
  <2>3. c.flag \in {Absent, Inapplicable} => r1 \ r2 = {}
    BY <1>5, <1>6, SoundMeans
  <2> QED
    BY <2>1, <2>2, <2>3, SoundMeans
<1>8. Restrained(c)
  BY <1>1, <1>5, <1>6 DEF Restrained
<1> QED
  BY <1>2, <1>7, <1>8 DEF Right

\* The flag of an intersection is right about both objects' matches in common.
LEMMA IntersectionIsRight ==
  ASSUME NEW c1, c1.flag \in FlagEnumeration, NEW r1, Right(c1, r1),
         NEW c2, c2.flag \in FlagEnumeration, NEW r2, Right(c2, r2), NEW c,
         c.flag = IntersectionFlag(c1.flag, c2.flag), c.items = c1.items \cap c2.items
  PROVE  c.flag \in FlagEnumeration /\ Right(c, r1 \cap r2)
<1>1. Existing(c.items) = Existing(c1.items) \cap Existing(c2.items)
  BY DEF Existing
<1>2. c.flag \in FlagEnumeration
  BY IntersectionTable
<1>3. Sound(c1, r1) /\ Sound(c2, r2) /\ Restrained(c1) /\ Restrained(c2)
  BY DEF Right
<1>4. CASE c1.flag = Inapplicable
  <2>1. r1 = {} /\ c1.items = {}
    BY <1>3, <1>4, SoundMeans DEF Restrained
  <2>2. r1 \cap r2 = {} /\ c.items = {} /\ Existing(c.items) = {}
    BY <2>1 DEF Existing
  <2> QED
    BY <1>2, <2>2, SoundMeans DEF Right, Restrained
<1>5. CASE c2.flag = Inapplicable
  <2>1. r2 = {} /\ c2.items = {}
    BY <1>3, <1>5, SoundMeans DEF Restrained
  <2>2. r1 \cap r2 = {} /\ c.items = {} /\ Existing(c.items) = {}
    BY <2>1 DEF Existing
  <2> QED
    BY <1>2, <2>2, SoundMeans DEF Right, Restrained
<1>6. CASE c1.flag # Inapplicable /\ c2.flag # Inapplicable
  <2>1. c.flag = IF c1.flag \in {"error", Absent} THEN c1.flag
                 ELSE IF c2.flag \in {"error", Absent} THEN c2.flag
                 ELSE IF c1.flag = "complete" THEN c2.flag ELSE c1.flag
    BY <1>6, IntersectionTable
  <2>2. c.flag = "complete" => c1.flag = "complete" /\ c2.flag = "complete"
    BY <2>1, SixFlags
  <2>3. c.flag = "incomplete" =>
          /\ {c1.flag, c2.flag} \subseteq {"complete", "incomplete", Uncollected}
          /\ c1.flag # Uncollected
    BY <1>6, <2>1, SixFlags
  <2>4. /\ c.flag # Inapplicable
        /\ c.flag = Absent => Absent \in {c1.flag, c2.flag}
        /\ c.flag = Uncollected => Uncollected \in {c1.flag, c2.flag}
    BY <1>6, <2>1, SixFlags
  <2>5. Sound(c, r1 \cap r2)
    <3>1. c.flag = "complete" => Existing(c.items) = r1 \cap r2
      BY <1>1, <1>3, <2>2, SoundMeans
    <3>2. c.flag = "incomplete" => Existing(c.items) \subseteq r1 \cap r2
      <4>1. c2.flag = Uncollected => Existing(c.items) = {}
        BY <1>1, <1>3 DEF Restrained, Existing
      <4>2. c1.flag \in {"complete", "incomplete"} => Existing(c1.items) \subseteq r1
        BY <1>3, SoundMeans
      <4>3. c2.flag \in {"complete", "incomplete"} => Existing(c2.items) \subseteq r2
        BY <1>3, SoundMeans
      <4> QED
        BY <1>1, <2>3, <4>1, <4>2, <4>3
    <3>3. c.flag \in {Absent, Inapplicable} => r1 \cap r2 = {}
      BY <1>3, <2>4, SoundMeans
    <3> QED
      BY <3>1, <3>2, <3>3, SoundMeans
  <2>6. Restrained(c)
    BY <1>1, <1>3, <2>4 DEF Restrained
  <2> QED
    BY <1>2, <2>5, <2>6 DEF Right
<1> QED
  BY <1>4, <1>5, <1>6

\* The flag of a union is right about the matches of either object.
LEMMA UnionIsRight ==
  ASSUME NEW c1, c1.flag \in FlagEnumeration, NEW r1, Right(c1, r1),
         NEW c2, c2.flag \in FlagEnumeration, NEW r2, Right(c2, r2), NEW c,
         c.flag = UnionFlag(c1.flag, c2.flag), c.items = c1.items \cup c2.items
  PROVE  c.flag \in FlagEnumeration /\ Right(c, r1 \cup r2)
<1>1. Existing(c.items) = Existing(c1.items) \cup Existing(c2.items)
  BY DEF Existing
<1>2. c.flag \in FlagEnumeration
  BY UnionTable, SixFlags
<1>3. Sound(c1, r1) /\ Sound(c2, r2) /\ Restrained(c1) /\ Restrained(c2)
  BY DEF Right
<1>4. c.flag = "complete" =>
        {c1.flag, c2.flag} \subseteq {"complete", Absent, Inapplicable}
  BY UnionTable, SixFlags
<1>5. c.flag = "incomplete" => "error" \notin {c1.flag, c2.flag}
  BY UnionTable, SixFlags
<1>6. c.flag = Absent => {c1.flag, c2.flag} \subseteq {Absent, Inapplicable}
  BY UnionTable, SixFlags
<1>7. c.flag = Uncollected => {c1.flag, c2.flag} \subseteq {Uncollected, Inapplicable}
  BY UnionTable, SixFlags
<1>8. c.flag = Inapplicable => c1.flag = Inapplicable /\ c2.flag = Inapplicable
  BY UnionTable, SixFlags
<1>9. ASSUME NEW b, NEW r, b.flag \in FlagEnumeration, Sound(b, r), Restrained(b)
      PROVE  /\ b.flag \in {"complete", Absent, Inapplicable} => Existing(b.items) = r
             /\ b.flag # "error" => Existing(b.items) \subseteq r
  <2>1. Existing({}) = {}
    BY DEF Existing
  <2>2. b.flag \in {"complete", Absent, Inapplicable} => Existing(b.items) = r
    BY <1>9, <2>1, SoundMeans DEF Restrained
  <2>3. b.flag \in {"incomplete", Uncollected} => Existing(b.items) \subseteq r
    BY <1>9, <2>1, SoundMeans, SixFlags DEF Restrained
  <2> QED
    BY <1>9, <2>2, <2>3, SixFlags
<1>10. Sound(c, r1 \cup r2)
  <2>1. c.flag = "complete" => Existing(c.items) = r1 \cup r2
    BY <1>1, <1>3, <1>4, <1>9
  <2>2. c.flag = "incomplete" => Existing(c.items) \subseteq r1 \cup r2
    <3> SUFFICES ASSUME c.flag = "incomplete"
                 PROVE  Existing(c.items) \subseteq r1 \cup r2
      OBVIOUS
    <3>1. Existing(c1.items) \subseteq r1 /\ Existing(c2.items) \subseteq r2
      BY <1>3, <1>5, <1>9
    <3> QED
      BY <1>1, <3>1
  <2>3. c.flag \in {Absent, Inapplicable} => r1 \cup r2 = {}
    BY <1>3, <1>6, <1>8, SoundMeans
  <2> QED
    BY <2>1, <2>2, <2>3, SoundMeans
<1>11. Restrained(c)
  <2>1. c.flag \in {Inapplicable, Uncollected} => c1.items = {} /\ c2.items = {}
    BY <1>3, <1>7, <1>8 DEF Restrained
  <2>2. c.flag = Absent => Existing(c1.items) = {} /\ Existing(c2.items) = {}
    BY <1>3, <1>6 DEF Restrained, Existing
  <2> QED
    BY <1>1, <2>1, <2>2 DEF Restrained
<1> QED
  BY <1>2, <1>10, <1>11 DEF Right

\* What ProcessSet computes from the flags and from the items it has got.
GotFlag(op, got) ==
  IF Len(got) = 1 THEN got[1].flag
  ELSE CombineFlagBySetOperator(op, got[1].flag, got[2].flag)

GotItems(op, got) ==
  IF Len(got) = 1 THEN got[1].items
  ELSE CombineItems(op, got[1].items, got[2].items)

\* The flag and the items of a combined set, the flags by their names (ProcessSet).
LEMMA CombinedFields ==
  ASSUME NEW op \in SetOperatorEnumeration, NEW got \in Seq(Collection),
         Len(got) \in {1, 2}
  PROVE  /\ CombinedSet(op, got).items = GotItems(op, got)
         /\ CombinedSet(op, got).flag =
              IF GotFlag(op, got) = "complete" /\ GotItems(op, got) = {}
                THEN Absent ELSE GotFlag(op, got)
         /\ GotItems(op, got) \in SUBSET Item
         /\ GotFlag(op, got) \in FlagEnumeration => CombinedSet(op, got) \in Collection
<1> DEFINE flag == GotFlag(op, got)
           items == GotItems(op, got)
           c == IF Len(got) = 1 THEN got[1]
                ELSE [flag |-> CombineFlagBySetOperator(op, got[1].flag, got[2].flag),
                      items |-> CombineItems(op, got[1].items, got[2].items)]
           result == IF c.flag = "complete" /\ c.items = {}
                       THEN [c EXCEPT !.flag = Absent] ELSE c
<1>1. CombinedSet(op, got) = result
  BY Zenon DEF CombinedSet, Absent
<1>2. got[1] \in Collection /\ (Len(got) # 1 => got[2] \in Collection)
  OBVIOUS
<1>3. items \in SUBSET Item
  BY <1>2 DEF GotItems, Collection, CombineItems, SetOperatorEnumeration
<1>4. c = [flag |-> flag, items |-> items]
  <2>1. CASE Len(got) = 1
    BY <1>2, <2>1 DEF Collection, GotFlag, GotItems
  <2>2. CASE Len(got) # 1
    BY <2>2 DEF GotFlag, GotItems
  <2> QED
    BY <2>1, <2>2
<1> HIDE DEF c, flag, items
<1>5. /\ result.items = items
      /\ result.flag = IF flag = "complete" /\ items = {} THEN Absent ELSE flag
  BY <1>4
<1>6. ASSUME flag \in FlagEnumeration PROVE result \in Collection
  <2>1. Absent \in FlagEnumeration
    BY SixFlags
  <2> QED
    BY <1>3, <1>4, <1>6, <2>1 DEF Collection
<1> HIDE DEF result
<1> QED
  BY <1>1, <1>3, <1>5, <1>6 DEF flag, items

\* A combined set is right about what its kids are right about (ProcessSet).
LEMMA CombinedIsRight ==
  ASSUME NEW op \in SetOperatorEnumeration, NEW got \in Seq(Collection),
         Len(got) \in {1, 2}, NEW r1, Right(got[1], r1),
         NEW r2, Len(got) = 2 => Right(got[2], r2)
  PROVE  Right(CombinedSet(op, got), IF Len(got) = 1 THEN r1 ELSE CombineItems(op, r1, r2))
<1> DEFINE flag == GotFlag(op, got)
           items == GotItems(op, got)
           c == [flag |-> flag, items |-> items]
           real == IF Len(got) = 1 THEN r1 ELSE CombineItems(op, r1, r2)
           result == CombinedSet(op, got)
<1>1. got[1] \in Collection /\ (Len(got) # 1 => got[2] \in Collection)
  OBVIOUS
<1>2. c.flag = flag /\ c.items = items
  OBVIOUS
<1>3. flag \in FlagEnumeration /\ Right(c, real)
  <2>1. CASE Len(got) = 1
    <3>1. c = got[1]
      BY <1>1, <2>1 DEF Collection, GotFlag, GotItems
    <3> QED
      BY <1>1, <2>1, <3>1 DEF Collection
  <2>2. CASE Len(got) # 1
    <3>1. /\ got[1].flag \in FlagEnumeration /\ got[2].flag \in FlagEnumeration
          /\ Right(got[2], r2)
      BY <1>1, <2>2 DEF Collection
    <3>2. CASE op = "COMPLEMENT"
      <4>1. /\ flag = ComplementFlag(got[1].flag, got[2].flag)
            /\ items = got[1].items \ got[2].items /\ real = r1 \ r2
        BY <2>2, <3>2 DEF GotFlag, GotItems, CombineFlagBySetOperator, CombineItems
      <4> HIDE DEF flag, items, c, real
      <4>2. /\ c.flag = ComplementFlag(got[1].flag, got[2].flag)
            /\ c.items = got[1].items \ got[2].items
        BY <1>2, <4>1
      <4>3. c.flag \in FlagEnumeration /\ Right(c, r1 \ r2)
        BY <3>1, <4>2, ComplementIsRight
      <4> QED
        BY <1>2, <4>1, <4>3
    <3>3. CASE op = "INTERSECTION"
      <4>1. /\ flag = IntersectionFlag(got[1].flag, got[2].flag)
            /\ items = got[1].items \cap got[2].items /\ real = r1 \cap r2
        BY <2>2, <3>3 DEF GotFlag, GotItems, CombineFlagBySetOperator, CombineItems
      <4> HIDE DEF flag, items, c, real
      <4>2. /\ c.flag = IntersectionFlag(got[1].flag, got[2].flag)
            /\ c.items = got[1].items \cap got[2].items
        BY <1>2, <4>1
      <4>3. c.flag \in FlagEnumeration /\ Right(c, r1 \cap r2)
        BY <3>1, <4>2, IntersectionIsRight
      <4> QED
        BY <1>2, <4>1, <4>3
    <3>4. CASE op = "UNION"
      <4>1. /\ flag = UnionFlag(got[1].flag, got[2].flag)
            /\ items = got[1].items \cup got[2].items /\ real = r1 \cup r2
        BY <2>2, <3>4 DEF GotFlag, GotItems, CombineFlagBySetOperator, CombineItems
      <4> HIDE DEF flag, items, c, real
      <4>2. /\ c.flag = UnionFlag(got[1].flag, got[2].flag)
            /\ c.items = got[1].items \cup got[2].items
        BY <1>2, <4>1
      <4>3. c.flag \in FlagEnumeration /\ Right(c, r1 \cup r2)
        BY <3>1, <4>2, UnionIsRight
      <4> QED
        BY <1>2, <4>1, <4>3
    <3> QED
      BY <3>2, <3>3, <3>4 DEF SetOperatorEnumeration
  <2> QED
    BY <2>1, <2>2
<1>4. /\ result.items = items
      /\ result.flag = IF flag = "complete" /\ items = {} THEN Absent ELSE flag
  <2> HIDE DEF c, real
  <2> QED
    BY CombinedFields
<1> HIDE DEF flag, items, c, real, result
<1>5. ASSUME flag = "complete", items = {} PROVE Right(result, real)
  <2>1. Existing(result.items) = {} /\ Existing(c.items) = {}
    BY <1>2, <1>4, <1>5 DEF Existing
  <2>2. real = {}
    BY <1>2, <1>3, <1>5, <2>1, SoundMeans DEF Right
  <2>3. result.flag = Absent
    BY <1>4, <1>5
  <2>4. Sound(result, real)
    BY <2>2, <2>3, SoundMeans, SixFlags
  <2>5. Restrained(result)
    BY <2>1, <2>3, SixFlags DEF Restrained
  <2> QED
    BY <2>4, <2>5 DEF Right
<1>6. ASSUME ~(flag = "complete" /\ items = {}) PROVE Right(result, real)
  <2>1. result.flag = c.flag /\ result.items = c.items
    BY <1>2, <1>4, <1>6
  <2>2. Sound(result, real)
    BY <2>1, <1>3, SoundMeans DEF Right
  <2> QED
    BY <2>1, <2>2, <1>3 DEF Right, Restrained
<1>7. Right(result, real)
  BY <1>5, <1>6
<1> QED
  BY <1>7 DEF result, real

\* The flag AppendReferencesAndComputeFlag gives what a probe has collected.
LEMMA FlagOfItemsRestrained ==
  ASSUME NEW items
  PROVE  /\ FlagOfItems(items) \in FlagEnumeration
         /\ Restrained([flag |-> FlagOfItems(items), items |-> items])
<1> DEFINE statuses == {Status[i] : i \in items}
<1>1. FlagOfItems(items) = IF "error" \in statuses THEN "error"
                           ELSE IF Uncollected \in statuses THEN "incomplete"
                           ELSE IF "exists" \in statuses THEN "complete"
                           ELSE Absent
  BY Zenon DEF FlagOfItems, Uncollected, Absent
<1>2. "exists" \notin statuses => Existing(items) = {}
  BY DEF Existing
<1> HIDE DEF statuses
<1>3. FlagOfItems(items) \in {"error", "incomplete", "complete", Absent}
      /\ (FlagOfItems(items) = Absent => Existing(items) = {})
  BY <1>1, <1>2, SixFlags
<1> QED
  BY <1>3, SixFlags DEF Restrained

-----------------------------------------------------------------------------
(***************************************************************************)
(* The invariant.  d is the document, S the calls on the stack, K what has *)
(* been collected.                                                         *)
(***************************************************************************)
\* n is the kid the call f has come to.
CalledBy(d, n, f) ==
  /\ Len(f.got) < Len(d.kids[f.node])
  /\ n = d.kids[f.node][Len(f.got) + 1]

\* The calls: of sets and of set objects that parse and are not collected yet.
FramesOK(d, S, cached) ==
  \A i \in 1..Len(S) :
    /\ d.kind[S[i].node] # "Object"
    /\ ParseFlag(d)[S[i].node] = "complete"
    /\ d.kind[S[i].node] = "SetObject" => S[i].node \notin cached
    /\ Len(S[i].got) <= Len(d.kids[S[i].node])

\* Each was made by the next, and the first of all by the loop.
CallersOK(d, S) ==
  \A i \in 1..Len(S) :
    IF i = Len(S) THEN d.kind[S[i].node] = "SetObject"
    ELSE CalledBy(d, S[i].node, S[i + 1])

\* No call is for the node of another one.
Rising(d, S) ==
  \A i, j \in 1..Len(S) : i < j => d.height[S[i].node] < d.height[S[j].node]

Path(d, S, cached) == FramesOK(d, S, cached) /\ CallersOK(d, S) /\ Rising(d, S)

\* R relates a node, a position among its kids, and what was taken from there.
GotIn(S, R) ==
  \A i \in 1..Len(S) : \A j \in 1..Len(S[i].got) : <<S[i].node, j, S[i].got[j]>> \in R

Positions == Node \X Nat \X Collection

\* The equations of the sets.
Solution(d, m) ==
  /\ m \in [Node -> SUBSET Item]
  /\ \A n \in Node : d.kind[n] = "Set" => m[n] = SetItems(d, m, n)

\* Whatever items solve the equations and are those collected for the objects:
\* they are the items of set objects and of the calls.
Agrees(m, K) == \A o \in DOMAIN K : m[o] = K[o].items

Followed(d, m, K) ==
  \A o \in DOMAIN K :
    d.kind[o] = "SetObject" /\ K[o].flag # "error" /\ ParseFlag(d)[o] = "complete" =>
      K[o].items = m[d.kids[o][1]]

Following(d, m) == {t \in Positions : t[3].items = KidItems(d, m, t[1], t[2])}

FollowInv(d, S, K) ==
  \A m : Solution(d, m) /\ Agrees(m, K) => Followed(d, m, K) /\ GotIn(S, Following(d, m))

\* Whatever items solve the equations and are those the probed objects are right
\* about: what is known of set objects and in the calls is right about them.
SystemSolution(d, m) ==
  /\ Solution(d, m)
  /\ \A n \in Node : d.kind[n] = "SetObject" => m[n] = m[d.kids[n][1]]

ProbesSound(d, m, K) == \A o \in DOMAIN K : d.kind[o] = "Object" => Sound(K[o], m[o])

AllRight(d, m, K) ==
  \A o \in DOMAIN K : ParseFlag(d)[o] \in {"complete", "error"} => Right(K[o], m[o])

RightAt(d, m) == {t \in Positions : Right(t[3], KidItems(d, m, t[1], t[2]))}

SoundInv(d, S, K) ==
  \A m : SystemSolution(d, m) /\ ProbesSound(d, m, K) =>
           AllRight(d, m, K) /\ GotIn(S, RightAt(d, m))

\* What has been collected, before and after it is written.
Known == IF phase = "written" THEN sc ELSE collected

OrderOK ==
  /\ phase = "written" =>
       stack = << >> /\ DOMAIN collected = {} /\ cursor \notin DOMAIN doc.objects
  /\ \A o \in DOMAIN Known : doc.kind[o] # "Set"
  /\ \A i \in DOMAIN doc.objects : i < cursor => doc.objects[i] \in DOMAIN Known
  /\ \A i \in DOMAIN probed : probed[i] \in DOMAIN Known
  /\ ProbedOnce

CollectorInv ==
  /\ TypeOK /\ doc \in Documents /\ OrderOK
  /\ Path(doc, stack, DOMAIN Known)
  /\ FollowInv(doc, stack, Known)
  /\ SoundInv(doc, stack, Known)

-----------------------------------------------------------------------------
(***************************************************************************)
(* Calls.                                                                  *)
(***************************************************************************)
\* A frame is a node and what it has got.
LEMMA FrameParts ==
  ASSUME NEW S \in Seq(Frame), NEW i \in 1..Len(S)
  PROVE  S[i] \in Frame /\ S[i].node \in Node /\ S[i].got \in Seq(Collection)
<1>1. S[i] \in Frame
  OBVIOUS
<1> QED
  BY <1>1 DEF Frame

\* Enter, GiveTo and what an exception or a return leaves of the stack.
LEMMA Pushed ==
  ASSUME NEW S \in Seq(Frame), NEW n \in Node
  PROVE  LET T == <<[node |-> n, got |-> << >>]>> \o S
         IN  /\ T \in Seq(Frame) /\ Len(T) = Len(S) + 1
             /\ T[1].node = n /\ T[1].got = << >>
             /\ \A i \in 1..Len(S) : T[i + 1] = S[i]
             /\ \A i \in 2..Len(T) : T[i] = S[i - 1]
<1> DEFINE f == [node |-> n, got |-> << >>]
           T == <<f>> \o S
<1>1. f \in Frame /\ f.node = n /\ f.got = << >>
  BY DEF Frame
<1> HIDE DEF f
<1>2. <<f>> \in Seq(Frame) /\ Len(<<f>>) = 1 /\ <<f>>[1] = f
  BY <1>1
<1>3. T \in Seq(Frame) /\ Len(T) = Len(S) + 1 /\ T[1] = f
  BY <1>1, <1>2
<1>4. \A i \in 1..Len(S) : T[i + 1] = S[i]
  BY <1>1, <1>2
<1>5. \A i \in 2..Len(T) : T[i] = S[i - 1]
  BY <1>1, <1>2
<1> QED
  BY <1>1, <1>3, <1>4, <1>5 DEF f

\* GiveTo adds the result to the innermost of the calls.
LEMMA Given ==
  ASSUME NEW S \in Seq(Frame), S # << >>, NEW c \in Collection
  PROVE  LET T == GiveTo(S, c)
         IN  /\ T \in Seq(Frame) /\ Len(T) = Len(S)
             /\ T[1].node = S[1].node /\ T[1].got = Append(S[1].got, c)
             /\ \A i \in 2..Len(S) : T[i] = S[i]
<1> DEFINE f == [S[1] EXCEPT !.got = Append(@, c)]
           T == <<f>> \o Tail(S)
<1>1. 1 \in 1..Len(S) /\ Head(S) = S[1]
  OBVIOUS
<1>2. f \in Frame /\ f.node = S[1].node /\ f.got = Append(S[1].got, c)
  <2>1. S[1] \in Frame /\ S[1].got \in Seq(Collection)
    BY <1>1, FrameParts
  <2>2. Append(S[1].got, c) \in Seq(Collection)
    BY <2>1
  <2> QED
    BY <2>1, <2>2 DEF Frame
<1>3. GiveTo(S, c) = T
  BY <1>1 DEF GiveTo
<1> HIDE DEF f
<1>4. Tail(S) \in Seq(Frame) /\ Len(Tail(S)) = Len(S) - 1
      /\ \A i \in 1..(Len(S) - 1) : Tail(S)[i] = S[i + 1]
  OBVIOUS
<1>5. <<f>> \in Seq(Frame) /\ Len(<<f>>) = 1 /\ <<f>>[1] = f
  BY <1>2
<1>6. T \in Seq(Frame) /\ Len(T) = Len(S) /\ T[1] = f
  BY <1>1, <1>4, <1>5
<1>7. ASSUME NEW i \in 2..Len(S) PROVE T[i] = S[i]
  <2>1. i - 1 \in 1..(Len(S) - 1) /\ (i - 1) + 1 = i
    OBVIOUS
  <2>2. T[i] = Tail(S)[i - 1]
    BY <1>4, <1>5
  <2> QED
    BY <2>1, <2>2, <1>4
<1> QED
  BY <1>2, <1>3, <1>6, <1>7

\* SubSeq leaves the calls further out.
LEMMA Dropped ==
  ASSUME NEW S \in Seq(Frame), NEW k \in 0..Len(S)
  PROVE  LET T == SubSeq(S, k + 1, Len(S))
         IN  /\ T \in Seq(Frame) /\ Len(T) = Len(S) - k
             /\ \A i \in 1..Len(T) : i + k \in 1..Len(S) /\ T[i] = S[i + k]
  OBVIOUS

\* Tail drops one call.
LEMMA TailDrops ==
  ASSUME NEW S \in Seq(Frame), S # << >>
  PROVE  1 \in 0..Len(S) /\ Tail(S) = SubSeq(S, 1 + 1, Len(S))
<1>1. Len(S) \in Nat /\ Len(S) >= 1
  OBVIOUS
<1>2. Tail(S) = SubSeq(S, 2, Len(S))
  OBVIOUS
<1> QED
  BY <1>1, <1>2

\* What is called next is lower than all calls.
LEMMA CalledIsLower ==
  ASSUME NEW d \in Documents, NEW S \in Seq(Frame), S # << >>, Rising(d, S),
         NEW o, CalledBy(d, o, S[1])
  PROVE  /\ o \in Node
         /\ \A i \in 1..Len(S) : d.height[o] < d.height[S[i].node]
<1>1. 1 \in 1..Len(S) /\ S[1].node \in Node /\ Len(S[1].got) \in Nat
  BY FrameParts
<1>2. Len(S[1].got) + 1 \in DOMAIN d.kids[S[1].node]
  BY <1>1, Kids DEF CalledBy
<1>3. o \in Node /\ d.height[o] < d.height[S[1].node]
  BY <1>1, <1>2, Kids DEF CalledBy
<1>4. ASSUME NEW i \in 1..Len(S) PROVE d.height[o] < d.height[S[i].node]
  <2>1. /\ d.height[o] \in Nat /\ d.height[S[1].node] \in Nat
        /\ d.height[S[i].node] \in Nat
    BY <1>1, <1>3, FrameParts, DocumentFacts
  <2>2. i # 1 => d.height[S[1].node] < d.height[S[i].node]
    BY <1>1 DEF Rising
  <2> QED
    BY <1>3, <2>1, <2>2
<1> QED
  BY <1>3, <1>4

\* EnterSet and EnterSetObject lengthen the path.
LEMMA PathPushed ==
  ASSUME NEW d \in Documents, NEW S \in Seq(Frame), NEW C, Path(d, S, C), NEW n \in Node,
         d.kind[n] # "Object", ParseFlag(d)[n] = "complete",
         d.kind[n] = "SetObject" => n \notin C,
         S = << >> => d.kind[n] = "SetObject", S # << >> => CalledBy(d, n, S[1])
  PROVE  Path(d, <<[node |-> n, got |-> << >>]>> \o S, C)
<1> DEFINE T == <<[node |-> n, got |-> << >>]>> \o S
<1>1. /\ T \in Seq(Frame) /\ Len(T) = Len(S) + 1 /\ Len(S) \in Nat
      /\ T[1].node = n /\ T[1].got = << >>
      /\ \A i \in 2..Len(T) : i - 1 \in 1..Len(S) /\ T[i] = S[i - 1]
  BY Pushed
<1> HIDE DEF T
<1>2. ASSUME NEW i \in 1..Len(T) PROVE i = 1 \/ i \in 2..Len(T)
  BY <1>1
<1>3. FramesOK(d, T, C)
  <2>1. Len(<< >>) = 0 /\ Len(d.kids[n]) \in Nat
    BY Kids
  <2> SUFFICES ASSUME NEW i \in 1..Len(T)
               PROVE  /\ d.kind[T[i].node] # "Object"
                      /\ ParseFlag(d)[T[i].node] = "complete"
                      /\ d.kind[T[i].node] = "SetObject" => T[i].node \notin C
                      /\ Len(T[i].got) <= Len(d.kids[T[i].node])
    BY DEF FramesOK
  <2>2. CASE i = 1
    BY <1>1, <2>1, <2>2
  <2>3. CASE i \in 2..Len(T)
    BY <1>1, <2>3 DEF Path, FramesOK
  <2> QED
    BY <1>2, <2>2, <2>3
<1>4. CallersOK(d, T)
  <2> SUFFICES ASSUME NEW i \in 1..Len(T)
               PROVE  IF i = Len(T) THEN d.kind[T[i].node] = "SetObject"
                      ELSE CalledBy(d, T[i].node, T[i + 1])
    BY DEF CallersOK
  <2>1. CASE i = 1 /\ S = << >>
    <3>1. Len(T) = 1
      BY <1>1, <2>1
    <3> QED
      BY <1>1, <2>1, <3>1
  <2>2. CASE i = 1 /\ S # << >>
    <3>1. Len(S) # 0 /\ i # Len(T) /\ i + 1 \in 2..Len(T) /\ (i + 1) - 1 = 1
      BY <1>1, <2>2
    <3>2. T[i + 1] = S[1] /\ T[i].node = n
      BY <1>1, <2>2, <3>1
    <3> QED
      BY <2>2, <3>1, <3>2
  <2>3. CASE i \in 2..Len(T)
    <3>1. i - 1 \in 1..Len(S) /\ T[i] = S[i - 1]
      BY <1>1, <2>3
    <3>2. CASE i = Len(T)
      <4>1. i - 1 = Len(S)
        BY <1>1, <3>2
      <4> QED
        BY <3>1, <3>2, <4>1 DEF Path, CallersOK
    <3>3. CASE i # Len(T)
      <4>1. i - 1 # Len(S) /\ i + 1 \in 2..Len(T) /\ (i + 1) - 1 = (i - 1) + 1
        BY <1>1, <3>1, <3>3
      <4>2. T[i + 1] = S[(i - 1) + 1]
        BY <1>1, <4>1
      <4>3. CalledBy(d, S[i - 1].node, S[(i - 1) + 1])
        BY <3>1, <4>1 DEF Path, CallersOK
      <4> QED
        BY <3>1, <3>3, <4>2, <4>3
    <3> QED
      BY <3>2, <3>3
  <2> QED
    BY <1>2, <2>1, <2>2, <2>3
<1>5. Rising(d, T)
  <2> SUFFICES ASSUME NEW i \in 1..Len(T), NEW j \in 1..Len(T), i < j
               PROVE  d.height[T[i].node] < d.height[T[j].node]
    BY DEF Rising
  <2>1. j \in 2..Len(T) /\ j - 1 \in 1..Len(S) /\ T[j] = S[j - 1]
    <3>1. j \in 2..Len(T)
      BY <1>1
    <3> QED
      BY <1>1, <3>1
  <2>2. CASE i = 1
    <3>1. S # << >>
      BY <2>1
    <3>2. d.height[n] < d.height[S[j - 1].node]
      BY <2>1, <3>1, CalledIsLower DEF Path
    <3> QED
      BY <1>1, <2>1, <2>2, <3>2
  <2>3. CASE i \in 2..Len(T)
    <3>1. i - 1 \in 1..Len(S) /\ T[i] = S[i - 1] /\ i - 1 < j - 1
      BY <1>1, <2>3, <2>1
    <3> QED
      BY <2>1, <3>1 DEF Path, Rising
  <2> QED
    BY <1>2, <2>2, <2>3
<1> QED
  BY <1>3, <1>4, <1>5 DEF Path, T

\* TakeReference and CombineSets give the innermost call what it has come to.
LEMMA PathGiven ==
  ASSUME NEW d \in Documents, NEW S \in Seq(Frame), S # << >>, NEW C, Path(d, S, C),
         Len(S[1].got) < Len(d.kids[S[1].node]), NEW c \in Collection
  PROVE  Path(d, GiveTo(S, c), C)
<1> DEFINE T == GiveTo(S, c)
<1>1. /\ T \in Seq(Frame) /\ Len(T) = Len(S) /\ Len(S) \in Nat
      /\ T[1].node = S[1].node /\ T[1].got = Append(S[1].got, c)
      /\ \A i \in 2..Len(S) : T[i] = S[i]
  BY Given
<1> HIDE DEF T
<1>2. \A i \in 1..Len(S) : (i = 1 \/ i \in 2..Len(S)) /\ T[i].node = S[i].node
  BY <1>1
<1>3. 1 \in 1..Len(S) /\ Len(T[1].got) <= Len(d.kids[S[1].node])
  <2>1. 1 \in 1..Len(S)
    OBVIOUS
  <2>2. S[1].got \in Seq(Collection) /\ Len(d.kids[S[1].node]) \in Nat
    BY <2>1, FrameParts, Kids
  <2>3. Len(T[1].got) = Len(S[1].got) + 1
    BY <1>1, <2>2
  <2>4. Len(S[1].got) \in Nat
    BY <2>2
  <2> QED
    BY <2>1, <2>2, <2>3, <2>4
<1>4. FramesOK(d, T, C)
  <2> SUFFICES ASSUME NEW i \in 1..Len(T)
               PROVE  /\ d.kind[T[i].node] # "Object"
                      /\ ParseFlag(d)[T[i].node] = "complete"
                      /\ d.kind[T[i].node] = "SetObject" => T[i].node \notin C
                      /\ Len(T[i].got) <= Len(d.kids[T[i].node])
    BY DEF FramesOK
  <2>1. CASE i = 1
    BY <1>1, <1>2, <1>3, <2>1 DEF Path, FramesOK
  <2>2. CASE i \in 2..Len(S)
    BY <1>1, <2>2 DEF Path, FramesOK
  <2> QED
    BY <1>1, <1>2, <2>1, <2>2
<1>5. CallersOK(d, T)
  <2> SUFFICES ASSUME NEW i \in 1..Len(T)
               PROVE  IF i = Len(T) THEN d.kind[T[i].node] = "SetObject"
                      ELSE CalledBy(d, T[i].node, T[i + 1])
    BY DEF CallersOK
  <2>1. CASE i = Len(T)
    BY <1>1, <1>2, <2>1 DEF Path, CallersOK
  <2>2. CASE i # Len(T)
    <3>1. i + 1 \in 2..Len(S) /\ i # Len(S) /\ i \in 1..Len(S)
      BY <1>1, <2>2
    <3>2. T[i + 1] = S[i + 1] /\ CalledBy(d, S[i].node, S[i + 1])
      BY <1>1, <3>1 DEF Path, CallersOK
    <3> QED
      BY <1>2, <2>2, <3>1, <3>2
  <2> QED
    BY <2>1, <2>2
<1>6. Rising(d, T)
  BY <1>1, <1>2 DEF Path, Rising
<1> QED
  BY <1>4, <1>5, <1>6 DEF Path, T

\* A return or an exception leaves a path.
LEMMA PathDropped ==
  ASSUME NEW d, NEW S \in Seq(Frame), NEW C, Path(d, S, C), NEW k \in 0..Len(S)
  PROVE  Path(d, SubSeq(S, k + 1, Len(S)), C)
<1> DEFINE T == SubSeq(S, k + 1, Len(S))
<1>1. /\ Len(T) = Len(S) - k /\ Len(T) \in Nat
      /\ \A i \in 1..Len(T) : i + k \in 1..Len(S) /\ T[i] = S[i + k]
  BY Dropped
<1> HIDE DEF T
<1>2. FramesOK(d, T, C)
  BY ZenonT(40), <1>1 DEF Path, FramesOK
<1>3. CallersOK(d, T)
  <2> SUFFICES ASSUME NEW i \in 1..Len(T)
               PROVE  IF i = Len(T) THEN d.kind[T[i].node] = "SetObject"
                      ELSE CalledBy(d, T[i].node, T[i + 1])
    BY DEF CallersOK
  <2>1. i + k \in 1..Len(S) /\ T[i] = S[i + k]
    BY <1>1
  <2>2. CASE i = Len(T)
    <3>1. i + k = Len(S)
      BY <1>1, <2>2
    <3> QED
      BY <2>1, <2>2, <3>1 DEF Path, CallersOK
  <2>3. CASE i # Len(T)
    <3>1. i + 1 \in 1..Len(T) /\ i + k # Len(S) /\ (i + 1) + k = (i + k) + 1
      BY <1>1, <2>3
    <3>2. T[i + 1] = S[(i + k) + 1]
      BY <1>1, <3>1
    <3>3. CalledBy(d, S[i + k].node, S[(i + k) + 1])
      BY <2>1, <3>1 DEF Path, CallersOK
    <3> QED
      BY <2>1, <2>3, <3>2, <3>3
  <2> QED
    BY <2>2, <2>3
<1>4. Rising(d, T)
  <2> SUFFICES ASSUME NEW i \in 1..Len(T), NEW j \in 1..Len(T), i < j
               PROVE  d.height[T[i].node] < d.height[T[j].node]
    BY DEF Rising
  <2>1. i + k \in 1..Len(S) /\ j + k \in 1..Len(S) /\ T[i] = S[i + k] /\ T[j] = S[j + k]
    BY <1>1
  <2>2. i + k < j + k
    OBVIOUS
  <2> QED
    BY <2>1, <2>2 DEF Path, Rising
<1> QED
  BY <1>2, <1>3, <1>4 DEF Path, T

\* What is collected is not the set object of a call.
LEMMA PathCollected ==
  ASSUME NEW d, NEW S, NEW C, Path(d, S, C), NEW o, \A i \in 1..Len(S) : S[i].node # o
  PROVE  Path(d, S, C \cup {o})
  BY DEF Path, FramesOK

\* The same of what the calls have got.
LEMMA GotPushed ==
  ASSUME NEW S \in Seq(Frame), NEW R, GotIn(S, R), NEW n \in Node
  PROVE  GotIn(<<[node |-> n, got |-> << >>]>> \o S, R)
<1> DEFINE T == <<[node |-> n, got |-> << >>]>> \o S
<1>1. /\ T[1].got = << >> /\ Len(T) \in Nat
      /\ \A i \in 2..Len(T) : i - 1 \in 1..Len(S) /\ T[i] = S[i - 1]
  BY Pushed
<1> HIDE DEF T
<1>2. 1..Len(<< >>) = {}
  OBVIOUS
<1>3. ASSUME NEW i \in 1..Len(T), NEW j \in 1..Len(T[i].got)
      PROVE  <<T[i].node, j, T[i].got[j]>> \in R
  <2>1. i \in 2..Len(T)
    <3>1. i # 1
      BY <1>1, <1>2
    <3> QED
      BY <1>1, <3>1
  <2> QED
    BY <1>1, <2>1 DEF GotIn
<1> QED
  BY <1>3 DEF GotIn, T

\* What the calls have got keeps a property that the new result has.
LEMMA GotGiven ==
  ASSUME NEW S \in Seq(Frame), S # << >>, NEW R, GotIn(S, R), NEW c \in Collection,
         <<S[1].node, Len(S[1].got) + 1, c>> \in R
  PROVE  GotIn(GiveTo(S, c), R)
<1> DEFINE T == GiveTo(S, c)
<1>1. /\ Len(T) = Len(S) /\ Len(S) \in Nat
      /\ T[1].node = S[1].node /\ T[1].got = Append(S[1].got, c)
      /\ \A i \in 2..Len(S) : T[i] = S[i]
  BY Given
<1> HIDE DEF T
<1>2. 1 \in 1..Len(S) /\ S[1].got \in Seq(Collection)
  BY FrameParts
<1>3. ASSUME NEW i \in 1..Len(T), NEW j \in 1..Len(T[i].got)
      PROVE  <<T[i].node, j, T[i].got[j]>> \in R
  <2>1. CASE i \in 2..Len(S)
    BY <1>1, <2>1 DEF GotIn
  <2>2. CASE i = 1
    <3>1. /\ Len(T[1].got) = Len(S[1].got) + 1 /\ Len(S[1].got) \in Nat
          /\ T[1].got[Len(S[1].got) + 1] = c
          /\ \A k \in 1..Len(S[1].got) : T[1].got[k] = S[1].got[k]
      BY <1>1, <1>2
    <3>2. j \in 1..Len(S[1].got) \/ j = Len(S[1].got) + 1
      BY <2>2, <3>1
    <3> QED
      BY <1>1, <1>2, <2>2, <3>1, <3>2 DEF GotIn
  <2> QED
    BY <1>1, <2>1, <2>2
<1> QED
  BY <1>3 DEF GotIn, T

\* ... and so do the calls that are left of them.
LEMMA GotDropped ==
  ASSUME NEW S \in Seq(Frame), NEW R, GotIn(S, R), NEW k \in 0..Len(S)
  PROVE  GotIn(SubSeq(S, k + 1, Len(S)), R)
<1> DEFINE T == SubSeq(S, k + 1, Len(S))
<1>1. \A i \in 1..Len(T) : i + k \in 1..Len(S) /\ T[i] = S[i + k]
  BY Dropped
<1> HIDE DEF T
<1> QED
  BY <1>1 DEF GotIn, T

-----------------------------------------------------------------------------
(***************************************************************************)
(* What is collected grows.                                                *)
(***************************************************************************)
\* CollectedObject::Create adds o.
Added(K, o, c) == [p \in DOMAIN K \cup {o} |-> IF p = o THEN c ELSE K[p]]

\* Solutions that agree with more are among those that agree with less.
LEMMA FollowAdded ==
  ASSUME NEW d, NEW S, NEW K, FollowInv(d, S, K), NEW o, o \notin DOMAIN K, NEW c,
         \A m : /\ Solution(d, m) /\ GotIn(S, Following(d, m))
                /\ d.kind[o] = "SetObject" /\ c.flag # "error"
                /\ ParseFlag(d)[o] = "complete"
                => c.items = m[d.kids[o][1]]
  PROVE  FollowInv(d, S, Added(K, o, c))
<1> DEFINE L == Added(K, o, c)
<1>1. DOMAIN L = DOMAIN K \cup {o} /\ L[o] = c /\ \A p \in DOMAIN K : L[p] = K[p]
  BY DEF Added
<1> HIDE DEF L
<1>2. ASSUME NEW m, Solution(d, m), Agrees(m, L)
      PROVE  Followed(d, m, L) /\ GotIn(S, Following(d, m))
  <2>1. Agrees(m, K)
    BY <1>1, <1>2 DEF Agrees
  <2>2. Followed(d, m, K) /\ GotIn(S, Following(d, m))
    BY <1>2, <2>1 DEF FollowInv
  <2>3. Followed(d, m, L)
    <3> SUFFICES ASSUME NEW p \in DOMAIN L, d.kind[p] = "SetObject",
                        L[p].flag # "error", ParseFlag(d)[p] = "complete"
                 PROVE  L[p].items = m[d.kids[p][1]]
      BY DEF Followed
    <3>1. CASE p = o
      BY <1>1, <1>2, <2>2, <3>1
    <3>2. CASE p # o
      BY <1>1, <2>2, <3>2 DEF Followed
    <3> QED
      BY <3>1, <3>2
  <2> QED
    BY <2>2, <2>3
<1> QED
  BY <1>2 DEF FollowInv, L

\* Another collected object adds no solution, and is right about every one.
LEMMA SoundAdded ==
  ASSUME NEW d, NEW S, NEW K, SoundInv(d, S, K), NEW o, o \notin DOMAIN K, NEW c,
         \A m : /\ SystemSolution(d, m) /\ GotIn(S, RightAt(d, m))
                /\ d.kind[o] = "Object" => Sound(c, m[o])
                /\ ParseFlag(d)[o] \in {"complete", "error"}
                => Right(c, m[o])
  PROVE  SoundInv(d, S, Added(K, o, c))
<1> DEFINE L == Added(K, o, c)
<1>1. DOMAIN L = DOMAIN K \cup {o} /\ L[o] = c /\ \A p \in DOMAIN K : L[p] = K[p]
  BY DEF Added
<1> HIDE DEF L
<1>2. ASSUME NEW m, SystemSolution(d, m), ProbesSound(d, m, L)
      PROVE  AllRight(d, m, L) /\ GotIn(S, RightAt(d, m))
  <2>1. ProbesSound(d, m, K)
    BY <1>1, <1>2 DEF ProbesSound
  <2>2. AllRight(d, m, K) /\ GotIn(S, RightAt(d, m))
    BY <1>2, <2>1 DEF SoundInv
  <2>3. AllRight(d, m, L)
    <3> SUFFICES ASSUME NEW p \in DOMAIN L, ParseFlag(d)[p] \in {"complete", "error"}
                 PROVE  Right(L[p], m[p])
      BY DEF AllRight
    <3>1. CASE p = o
      <4>1. d.kind[o] = "Object" => Sound(c, m[o])
        BY <1>1, <1>2 DEF ProbesSound
      <4> QED
        BY <1>1, <1>2, <2>2, <3>1, <4>1
    <3>2. CASE p # o
      BY <1>1, <2>2, <3>2 DEF AllRight
    <3> QED
      BY <3>1, <3>2
  <2> QED
    BY <2>2, <2>3
<1> QED
  BY <1>2 DEF SoundInv, L

-----------------------------------------------------------------------------
(***************************************************************************)
(* The steps.                                                              *)
(***************************************************************************)
\* While objects are collected, or a call is active.
LEMMA Running ==
  ASSUME CollectorInv, phase = "collecting" \/ stack # << >>
  PROVE  /\ phase = "collecting" /\ Known = collected
         /\ doc \in Documents /\ stack \in Seq(Frame)
         /\ Path(doc, stack, DOMAIN collected)
         /\ FollowInv(doc, stack, collected) /\ SoundInv(doc, stack, collected)
<1>1. phase = "collecting"
  BY DEF CollectorInv, OrderOK, TypeOK
<1>2. Known = collected
  BY <1>1 DEF Known
<1> QED
  BY <1>1, <1>2 DEF CollectorInv, TypeOK

\* The innermost call.
LEMMA Innermost1 ==
  ASSUME CollectorInv, stack # << >>
  PROVE  /\ 1 \in 1..Len(stack) /\ top = stack[1]
         /\ top.node \in Node /\ top.got \in Seq(Collection)
         /\ doc.kind[top.node] \in {"SetObject", "Set"}
         /\ ParseFlag(doc)[top.node] = "complete"
         /\ Len(top.got) <= Len(doc.kids[top.node])
         /\ HasChild <=> Len(top.got) < Len(doc.kids[top.node])
         /\ HasChild => CalledBy(doc, child, stack[1]) /\ child \in Node
<1>1. stack \in Seq(Frame) /\ doc \in Documents /\ Path(doc, stack, DOMAIN collected)
  BY Running
<1>2. 1 \in 1..Len(stack) /\ top = stack[1]
  BY <1>1 DEF top
<1>3. top.node \in Node /\ top.got \in Seq(Collection)
  BY <1>1, <1>2, FrameParts
<1>4. /\ doc.kind[top.node] # "Object" /\ ParseFlag(doc)[top.node] = "complete"
      /\ Len(top.got) <= Len(doc.kids[top.node])
  BY <1>1, <1>2 DEF Path, FramesOK
<1>5. doc.kind[top.node] \in Kind
  BY <1>1, <1>3, Kids
<1>6. HasChild <=> Len(top.got) < Len(doc.kids[top.node])
  BY DEF HasChild
<1>7. HasChild => CalledBy(doc, child, stack[1])
  BY <1>2, <1>6 DEF CalledBy, child
<1>8. HasChild => child \in Node
  BY <1>1, <1>7, CalledIsLower DEF Path
<1> QED
  BY <1>2, <1>3, <1>4, <1>5, <1>6, <1>7, <1>8 DEF Kind

\* A node that parses has kids that do (ObjectFactory::GetObjectById).
LEMMA KidsParse ==
  ASSUME NEW d \in Documents, NEW n \in Node, ParseFlag(d)[n] = "complete",
         NEW i \in DOMAIN d.kids[n]
  PROVE  ParseFlag(d)[d.kids[n][i]] = "complete"
<1> DEFINE bad == {j \in DOMAIN d.kids[n] : ParseFlag(d)[d.kids[n][j]] # "complete"}
<1>1. ParseFlagAt(d, ParseFlag(d), n) = "complete"
  BY ParseFlagSolves
<1>2. ASSUME bad # {} PROVE FALSE
  <2> DEFINE first == CHOOSE j \in bad : \A k \in bad : j <= k
  <2>1. d.kids[n] \in Seq(Node) /\ bad \in SUBSET DOMAIN d.kids[n]
    BY DocumentFacts
  <2>2. first \in bad
    <3> HIDE DEF bad
    <3> QED
      BY <1>2, <2>1, FirstPosition
  <2>3. ParseFlagAt(d, ParseFlag(d), n) = ParseFlag(d)[d.kids[n][first]]
    BY <1>2 DEF ParseFlagAt
  <2> HIDE DEF first
  <2> QED
    BY <1>1, <2>2, <2>3
<1> QED
  BY <1>2

\* What Run is called for.
LEMMA CalledFacts ==
  ASSUME CollectorInv, NEW o \in Node, Called(o)
  PROVE  /\ phase = "collecting" /\ doc.kind[o] # "Set"
         /\ \A i \in 1..Len(stack) : stack[i].node # o
         /\ stack # << >> => CalledBy(doc, o, stack[1])
<1>1. phase = "collecting" /\ doc \in Documents
  BY Running DEF Called
<1>2. CASE stack = << >>
  <2>1. \E i \in DOMAIN doc.objects : doc.objects[i] = o
    BY <1>2 DEF Called
  <2>2. doc.kind[o] # "Set"
    BY <1>1, <2>1, DocumentFacts DEF WellFormed
  <2>3. 1..Len(stack) = {}
    BY <1>2
  <2> QED
    BY <1>1, <1>2, <2>2, <2>3
<1>3. CASE stack # << >>
  <2>1. HasChild /\ o = child /\ doc.kind[o] # "Set"
    BY <1>3 DEF Called
  <2>2. CalledBy(doc, o, stack[1])
    BY <1>3, <2>1, Innermost1
  <2>3. stack \in Seq(Frame) /\ Rising(doc, stack)
    BY <1>3, Running DEF Path
  <2>4. \A i \in 1..Len(stack) : doc.height[o] < doc.height[stack[i].node]
    BY <1>1, <1>3, <2>2, <2>3, CalledIsLower
  <2>5. doc.height[o] \in Nat
    BY <1>1, DocumentFacts
  <2> QED
    BY <1>1, <2>1, <2>2, <2>4, <2>5
<1> QED
  BY <1>2, <1>3

\* What is equal of a state and its successor.
SameDocument == doc' = doc /\ phase' = phase /\ sc' = sc /\ cursor' = cursor

\* The parts of the invariant after a step while objects are collected.
LEMMA NextInv ==
  ASSUME TypeOK', doc \in Documents, SameDocument, phase = "collecting", OrderOK',
         Path(doc, stack', DOMAIN collected'), FollowInv(doc, stack', collected'),
         SoundInv(doc, stack', collected')
  PROVE  CollectorInv'
<1>1. Known' = collected' /\ doc' = doc
  BY DEF Known, SameDocument
<1> QED
  BY <1>1 DEF CollectorInv

\* A step that adds to what is collected, and to what is probed at most what it
\* adds, keeps the order.
LEMMA NextOrder ==
  ASSUME CollectorInv, SameDocument, phase = "collecting", NEW o \in Node,
         o \notin DOMAIN collected, doc.kind[o] # "Set",
         DOMAIN collected' = DOMAIN collected \cup {o},
         probed' = probed \/ probed' = Append(probed, o)
  PROVE  OrderOK'
<1>1. Known = collected /\ Known' = collected'
  BY DEF Known, SameDocument
<1>2. probed \in Seq(Node) /\ OrderOK
  BY DEF CollectorInv, TypeOK
<1>3. \A i \in DOMAIN probed : probed[i] \in DOMAIN collected /\ probed[i] # o
  BY <1>1, <1>2 DEF OrderOK
<1>4. /\ \A i \in DOMAIN probed' : probed'[i] \in DOMAIN collected'
      /\ ProbedOnce'
  <2>1. CASE probed' = probed
    BY <1>2, <1>3, <2>1 DEF OrderOK, ProbedOnce
  <2>2. CASE probed' = Append(probed, o)
    <3>1. /\ DOMAIN probed' = DOMAIN probed \cup {Len(probed) + 1}
          /\ probed'[Len(probed) + 1] = o
          /\ \A i \in DOMAIN probed : probed'[i] = probed[i]
      BY <1>2, <2>2
    <3>2. \A i, j \in DOMAIN probed : probed[i] = probed[j] => i = j
      BY <1>2 DEF OrderOK, ProbedOnce
    <3>3. ASSUME NEW i \in DOMAIN probed', NEW j \in DOMAIN probed',
                 probed'[i] = probed'[j]
          PROVE  i = j
      BY <1>3, <3>1, <3>2, <3>3
    <3> QED
      BY <1>3, <3>1, <3>3 DEF ProbedOnce
  <2> QED
    BY <2>1, <2>2
<1>5. /\ \A p \in DOMAIN Known' : doc'.kind[p] # "Set"
      /\ \A i \in DOMAIN doc'.objects : i < cursor' => doc'.objects[i] \in DOMAIN Known'
  BY <1>1, <1>2 DEF OrderOK, SameDocument
<1> QED
  BY <1>1, <1>4, <1>5 DEF OrderOK, SameDocument

\* And of one that does not.
LEMMA SameOrder ==
  ASSUME CollectorInv, SameDocument, phase = "collecting",
         DOMAIN collected' = DOMAIN collected, probed' = probed
  PROVE  OrderOK'
<1>1. Known = collected /\ Known' = collected'
  BY DEF Known, SameDocument
<1> QED
  BY <1>1 DEF CollectorInv, OrderOK, SameDocument, ProbedOnce

\* ParseFails, ProcessObject and the probe: o is collected without a call.
CollectedAs(o, c) ==
  /\ Collecting(o) /\ SameDocument /\ stack' = stack
  /\ collected' = Added(collected, o, c)
  /\ probed' = probed \/ probed' = Append(probed, o)
  /\ c \in Collection /\ Restrained(c)
  /\ \/ Parses(o) /\ doc.kind[o] = "Object"
     \/ ~Parses(o) /\ c.flag = ParseFlag(doc)[o]

\* An object that is collected without a call keeps the invariant.
LEMMA CollectedKeeps ==
  ASSUME CollectorInv, NEW o \in Node, NEW c, CollectedAs(o, c)
  PROVE  CollectorInv'
<1>1. /\ phase = "collecting" /\ doc.kind[o] # "Set" /\ o \notin DOMAIN collected
      /\ \A i \in 1..Len(stack) : stack[i].node # o
  BY CalledFacts DEF CollectedAs, Collecting, Cached
<1>2. /\ doc \in Documents /\ stack \in Seq(Frame)
      /\ Path(doc, stack, DOMAIN collected)
      /\ FollowInv(doc, stack, collected) /\ SoundInv(doc, stack, collected)
  BY <1>1, Running
<1>3. /\ DOMAIN collected' = DOMAIN collected \cup {o} /\ collected'[o] = c
      /\ \A p \in DOMAIN collected : p # o => collected'[p] = collected[p]
      /\ stack' = stack /\ SameDocument /\ c \in Collection
      /\ probed' = probed \/ probed' = Append(probed, o)
  <2>1. collected' = Added(collected, o, c) /\ stack' = stack /\ SameDocument
        /\ c \in Collection /\ (probed' = probed \/ probed' = Append(probed, o))
    BY DEF CollectedAs
  <2> QED
    BY <2>1 DEF Added
<1>4. TypeOK'
  <2>1. probed' \in Seq(Node)
    BY DEF CollectorInv, TypeOK, CollectedAs
  <2>2. \A p \in DOMAIN collected' : collected'[p] \in Collection
    BY <1>3 DEF CollectorInv, TypeOK
  <2> QED
    BY <1>3, <2>1, <2>2 DEF CollectorInv, TypeOK, SameDocument
<1>5. OrderOK'
  BY <1>1, <1>3, NextOrder
<1>6. Path(doc, stack', DOMAIN collected')
  <2>1. Path(doc, stack, DOMAIN collected \cup {o})
    BY <1>1, <1>2, PathCollected
  <2> QED
    BY <1>3, <2>1
<1>7. FollowInv(doc, stack', collected')
  <2>1. ASSUME doc.kind[o] = "SetObject", ParseFlag(doc)[o] = "complete" PROVE FALSE
    BY <2>1 DEF CollectedAs, Parses
  <2>2. FollowInv(doc, stack, Added(collected, o, c))
    BY <1>1, <1>2, <2>1, FollowAdded
  <2> QED
    BY <1>3, <2>2 DEF CollectedAs
<1>8. SoundInv(doc, stack', collected')
  <2>1. ASSUME NEW m, doc.kind[o] = "Object" => Sound(c, m[o]),
               ParseFlag(doc)[o] \in {"complete", "error"}
        PROVE  Right(c, m[o])
    <3>1. CASE ParseFlag(doc)[o] = "complete"
      BY <2>1, <3>1 DEF CollectedAs, Parses, Right
    <3>2. CASE ParseFlag(doc)[o] = "error"
      <4>1. c.flag = "error"
        BY <3>2 DEF CollectedAs, Parses
      <4> QED
        BY <4>1, SoundMeans, SixFlags DEF CollectedAs, Right
    <3> QED
      BY <2>1, <3>1, <3>2
  <2>2. SoundInv(doc, stack, Added(collected, o, c))
    BY <1>1, <1>2, <2>1, SoundAdded
  <2> QED
    BY <1>3, <2>2 DEF CollectedAs
<1> QED
  BY <1>1, <1>2, <1>3, <1>4, <1>5, <1>6, <1>7, <1>8, NextInv

\* The actions that do so.
LEMMA CreateAdds ==
  ASSUME NEW o, NEW flag, NEW items, Create(o, flag, items)
  PROVE  collected' = Added(collected, o, [flag |-> flag, items |-> items])
  BY DEF Create, Added

\* Every flag goes with no items (Create with an empty set).
LEMMA NothingIsRestrained ==
  ASSUME NEW flag \in FlagEnumeration
  PROVE  /\ [flag |-> flag, items |-> {}] \in Collection
         /\ Restrained([flag |-> flag, items |-> {}])
  BY DEF Collection, Restrained, Existing

\* The steps of Run that end without a call.
LEMMA LeavesKeep ==
  ASSUME CollectorInv, NEW o \in Node,
         \/ ParseFails(o) \/ NotApplicable(o) \/ NotSupported(o)
         \/ \E items \in Found[o] : Probe(o, items)
         \/ ProbeThrows(o)
  PROVE  CollectorInv'
<1>1. /\ "error" \in FlagEnumeration /\ Uncollected \in FlagEnumeration
      /\ Inapplicable \in FlagEnumeration
  BY SixFlags
<1>2. ASSUME NEW flag \in FlagEnumeration, Create(o, flag, {}), Collecting(o),
             SameDocument, stack' = stack, probed' = probed \/ probed' = Append(probed, o),
             \/ Parses(o) /\ doc.kind[o] = "Object"
             \/ ~Parses(o) /\ flag = ParseFlag(doc)[o]
      PROVE  CollectorInv'
  <2> DEFINE c == [flag |-> flag, items |-> {}]
  <2>1. collected' = Added(collected, o, c)
    BY <1>2, CreateAdds
  <2>2. c \in Collection /\ Restrained(c) /\ c.flag = flag
    BY NothingIsRestrained
  <2> HIDE DEF c
  <2>3. CollectedAs(o, c)
    BY <1>2, <2>1, <2>2 DEF CollectedAs
  <2> QED
    BY <2>3, CollectedKeeps
<1>3. CASE ParseFails(o)
  <2>1. doc \in Documents
    BY DEF CollectorInv
  <2>2. ParseFlag(doc)[o] \in FlagEnumeration
    BY <2>1, ParseFlagSolves
  <2> QED
    BY <1>2, <1>3, <2>2 DEF ParseFails, SameDocument
<1>4. CASE NotApplicable(o)
  <2>1. /\ Collecting(o) /\ Parses(o) /\ doc.kind[o] = "Object"
        /\ Create(o, Inapplicable, {}) /\ SameDocument /\ stack' = stack /\ probed' = probed
    BY <1>4, Zenon DEF NotApplicable, Inapplicable, SameDocument
  <2> QED
    BY <1>1, <1>2, <2>1
<1>5. CASE NotSupported(o)
  <2>1. /\ Collecting(o) /\ Parses(o) /\ doc.kind[o] = "Object"
        /\ Create(o, Uncollected, {}) /\ SameDocument /\ stack' = stack /\ probed' = probed
    BY <1>5, Zenon DEF NotSupported, Uncollected, SameDocument
  <2> QED
    BY <1>1, <1>2, <2>1
<1>6. CASE ProbeThrows(o)
  BY <1>1, <1>2, <1>6 DEF ProbeThrows, SameDocument
<1>7. ASSUME NEW items \in Found[o], Probe(o, items) PROVE CollectorInv'
  <2>1. /\ Collecting(o) /\ Parses(o) /\ doc.kind[o] = "Object"
        /\ SameDocument /\ stack' = stack /\ probed' = Append(probed, o)
    BY <1>7 DEF Probe, SameDocument
  <2>2. CASE ApplyFiltersThrows(doc.filters[o], items)
    <3>1. Create(o, "error", {})
      BY <1>7, <2>2 DEF Probe
    <3> QED
      BY <1>1, <1>2, <2>1, <3>1
  <2>3. CASE ~ApplyFiltersThrows(doc.filters[o], items)
    <3> DEFINE kept == ApplyFilters(doc.filters[o], items)
               c == [flag |-> FlagOfItems(kept), items |-> kept]
    <3>1. items \subseteq Item
      BY CollectorAssumption
    <3>2. kept \in SUBSET Item
      BY <3>1, FiltersRemove
    <3>3. Create(o, FlagOfItems(kept), kept)
      BY <1>7, <2>3 DEF Probe
    <3> HIDE DEF kept
    <3>4. collected' = Added(collected, o, c)
      BY <3>3, CreateAdds
    <3>5. FlagOfItems(kept) \in FlagEnumeration /\ Restrained(c)
      BY FlagOfItemsRestrained
    <3>6. c \in Collection
      BY <3>2, <3>5 DEF Collection
    <3> HIDE DEF c
    <3>7. CollectedAs(o, c)
      BY <2>1, <3>4, <3>5, <3>6 DEF CollectedAs
    <3> QED
      BY <3>7, CollectedKeeps
  <2> QED
    BY <2>2, <2>3
<1> QED
  BY <1>3, <1>4, <1>5, <1>6, <1>7

\* EnterSetObject and EnterSet: a call that has got nothing yet.
LEMMA EnterKeeps ==
  ASSUME CollectorInv, NEW n \in Node, Enter(n), phase = "collecting",
         doc.kind[n] # "Object", ParseFlag(doc)[n] = "complete",
         doc.kind[n] = "SetObject" => n \notin DOMAIN collected,
         stack = << >> => doc.kind[n] = "SetObject",
         stack # << >> => CalledBy(doc, n, stack[1]),
         SameDocument, collected' = collected, probed' = probed
  PROVE  CollectorInv'
<1>1. /\ doc \in Documents /\ stack \in Seq(Frame)
      /\ Path(doc, stack, DOMAIN collected)
      /\ FollowInv(doc, stack, collected) /\ SoundInv(doc, stack, collected)
  BY Running
<1> DEFINE T == <<[node |-> n, got |-> << >>]>> \o stack
<1>2. stack' = T /\ T \in Seq(Frame)
  BY <1>1, Pushed DEF Enter
<1>3. Path(doc, T, DOMAIN collected)
  BY <1>1, PathPushed
<1>4. \A R : GotIn(stack, R) => GotIn(T, R)
  BY <1>1, GotPushed
<1> HIDE DEF T
<1>5. TypeOK'
  BY <1>2 DEF CollectorInv, TypeOK, SameDocument
<1>6. OrderOK'
  BY SameOrder
<1>7. FollowInv(doc, T, collected)
  BY <1>1, <1>4 DEF FollowInv
<1>8. SoundInv(doc, T, collected)
  BY <1>1, <1>4 DEF SoundInv
<1> QED
  BY <1>1, <1>2, <1>3, <1>5, <1>6, <1>7, <1>8, NextInv

\* ProcessSetObject starts.
LEMMA EnterSetObjectKeeps ==
  ASSUME CollectorInv, NEW o \in Node, EnterSetObject(o)
  PROVE  CollectorInv'
<1>1. /\ Called(o) /\ o \notin DOMAIN collected /\ ParseFlag(doc)[o] = "complete"
      /\ doc.kind[o] = "SetObject" /\ Enter(o)
      /\ SameDocument /\ collected' = collected /\ probed' = probed
  BY DEF EnterSetObject, Collecting, Cached, Parses, SameDocument
<1> QED
  BY <1>1, CalledFacts, EnterKeeps

\* ProcessSet starts for a set inside a set or a set object.
LEMMA EnterSetKeeps ==
  ASSUME CollectorInv, EnterSet
  PROVE  CollectorInv'
<1>1. /\ HasChild /\ doc.kind[child] = "Set" /\ Enter(child) /\ stack # << >>
      /\ SameDocument /\ collected' = collected /\ probed' = probed
  BY DEF EnterSet, HasChild, SameDocument
<1>2. /\ phase = "collecting" /\ doc \in Documents
      /\ child \in Node /\ CalledBy(doc, child, stack[1])
      /\ top = stack[1] /\ top.node \in Node /\ top.got \in Seq(Collection)
      /\ ParseFlag(doc)[top.node] = "complete"
  BY <1>1, Running, Innermost1
<1>3. ParseFlag(doc)[child] = "complete"
  <2>1. Len(top.got) + 1 \in DOMAIN doc.kids[top.node]
    BY <1>2, Kids DEF CalledBy
  <2> QED
    BY <1>2, <2>1, KidsParse DEF child
<1> QED
  BY <1>1, <1>2, <1>3, EnterKeeps

\* The calls that are left when the k innermost ones have returned.
Rest(S, k) == SubSeq(S, k + 1, Len(S))

\* The innermost call of T, which is the stack or what is left of it, gets c.
LEMMA GiveKeeps ==
  ASSUME CollectorInv, stack # << >>, NEW k \in 0..Len(stack), NEW c \in Collection,
         NEW T, T = Rest(stack, k), T # << >>,
         stack' = GiveTo(T, c), Len(T[1].got) < Len(doc.kids[T[1].node]),
         \A m : /\ Solution(doc, m) /\ Agrees(m, collected)
                /\ GotIn(stack, Following(doc, m))
                => c.items = KidItems(doc, m, T[1].node, Len(T[1].got) + 1),
         \A m : /\ SystemSolution(doc, m) /\ AllRight(doc, m, collected)
                /\ GotIn(stack, RightAt(doc, m))
                => Right(c, KidItems(doc, m, T[1].node, Len(T[1].got) + 1)),
         SameDocument, collected' = collected, probed' = probed
  PROVE  CollectorInv'
<1>1. /\ doc \in Documents /\ stack \in Seq(Frame) /\ phase = "collecting"
      /\ Path(doc, stack, DOMAIN collected)
      /\ FollowInv(doc, stack, collected) /\ SoundInv(doc, stack, collected)
  BY Running
<1>2. T \in Seq(Frame) /\ Path(doc, T, DOMAIN collected)
  <2>1. Rest(stack, k) \in Seq(Frame) /\ Path(doc, Rest(stack, k), DOMAIN collected)
    BY <1>1, Dropped, PathDropped DEF Rest
  <2> QED
    BY <2>1
<1>3. stack' \in Seq(Frame) /\ Path(doc, stack', DOMAIN collected)
  BY <1>1, <1>2, Given, PathGiven
<1>4. \A R : GotIn(stack, R) => GotIn(T, R)
  <2> SUFFICES ASSUME NEW R, GotIn(stack, R) PROVE GotIn(T, R)
    OBVIOUS
  <2>1. GotIn(Rest(stack, k), R)
    BY <1>1, GotDropped DEF Rest
  <2> QED
    BY <2>1
<1>5. 1 \in 1..Len(T) /\ T[1].node \in Node /\ Len(T[1].got) + 1 \in Nat
  BY <1>2, FrameParts
<1>6. ASSUME NEW R, GotIn(stack, R), <<T[1].node, Len(T[1].got) + 1, c>> \in R
      PROVE  GotIn(stack', R)
  BY <1>2, <1>4, <1>6, GotGiven
<1>7. TypeOK'
  BY <1>3 DEF CollectorInv, TypeOK, SameDocument
<1>8. OrderOK'
  BY <1>1, SameOrder
<1>9. <<T[1].node, Len(T[1].got) + 1, c>> \in Positions
  BY <1>5 DEF Positions
<1>10. FollowInv(doc, stack', collected)
  <2>1. ASSUME NEW m, Solution(doc, m), Agrees(m, collected)
        PROVE  Followed(doc, m, collected) /\ GotIn(stack', Following(doc, m))
    <3>1. Followed(doc, m, collected) /\ GotIn(stack, Following(doc, m))
      BY <1>1, <2>1 DEF FollowInv
    <3>2. c.items = KidItems(doc, m, T[1].node, Len(T[1].got) + 1)
      BY <2>1, <3>1
    <3>3. <<T[1].node, Len(T[1].got) + 1, c>> \in Following(doc, m)
      BY <1>9, <3>2 DEF Following
    <3> QED
      BY <1>6, <3>1, <3>3
  <2> QED
    BY <2>1 DEF FollowInv
<1>11. SoundInv(doc, stack', collected)
  <2>1. ASSUME NEW m, SystemSolution(doc, m), ProbesSound(doc, m, collected)
        PROVE  AllRight(doc, m, collected) /\ GotIn(stack', RightAt(doc, m))
    <3>1. AllRight(doc, m, collected) /\ GotIn(stack, RightAt(doc, m))
      BY <1>1, <2>1 DEF SoundInv
    <3>2. Right(c, KidItems(doc, m, T[1].node, Len(T[1].got) + 1))
      BY <2>1, <3>1
    <3>3. <<T[1].node, Len(T[1].got) + 1, c>> \in RightAt(doc, m)
      BY <1>9, <3>2 DEF RightAt
    <3> QED
      BY <1>6, <3>1, <3>3
  <2> QED
    BY <2>1 DEF SoundInv
<1> QED
  BY <1>1, <1>3, <1>7, <1>8, <1>10, <1>11, NextInv

\* ProcessSet filters a collected object it refers to.
LEMMA TakeReferenceKeeps ==
  ASSUME CollectorInv, TakeReference
  PROVE  CollectorInv'
<1> DEFINE object == collected[child]
           filters == doc.filters[top.node]
           c == [object EXCEPT !.items = ApplyFilters(filters, @)]
<1>1. /\ HasChild /\ doc.kind[child] # "Set" /\ child \in DOMAIN collected
      /\ stack' = GiveTo(stack, c) /\ stack # << >>
      /\ SameDocument /\ collected' = collected /\ probed' = probed
  BY DEF TakeReference, HasChild, SameDocument, Cached
<1>2. /\ phase = "collecting" /\ doc \in Documents /\ stack \in Seq(Frame)
      /\ child \in Node /\ CalledBy(doc, child, stack[1])
      /\ top = stack[1] /\ top.node \in Node /\ top.got \in Seq(Collection)
      /\ ParseFlag(doc)[top.node] = "complete"
  BY <1>1, Running, Innermost1
<1>3. object \in Collection
  BY <1>1 DEF CollectorInv, TypeOK
<1>4. /\ c \in Collection /\ c.flag = object.flag
      /\ c.items = ApplyFilters(filters, object.items)
  <2>1. ApplyFilters(filters, object.items) \in SUBSET Item
    BY <1>3, FiltersRemove DEF Collection
  <2> HIDE DEF object, filters
  <2> QED
    BY <1>3, <2>1 DEF Collection
<1> DEFINE n == stack[1].node
           i == Len(stack[1].got) + 1
<1>5. child = doc.kids[n][i] /\ i \in DOMAIN doc.kids[n]
  BY <1>2, Kids DEF CalledBy
<1>6. \A m : KidItems(doc, m, n, i) = ApplyFilters(filters, m[child])
  BY <1>1, <1>2, <1>5 DEF KidItems
<1>7. ParseFlag(doc)[child] = "complete"
  BY <1>2, <1>5, KidsParse
<1> HIDE DEF c
<1>8. \A m : Agrees(m, collected) => c.items = KidItems(doc, m, n, i)
  BY <1>1, <1>4, <1>6 DEF Agrees
<1>9. ASSUME NEW m, AllRight(doc, m, collected)
      PROVE  Right(c, KidItems(doc, m, n, i))
  <2>1. Right(object, m[child])
    BY <1>1, <1>7, <1>9 DEF AllRight
  <2> HIDE DEF object, filters
  <2>2. Right(c, ApplyFilters(filters, m[child]))
    BY <1>4, <2>1, FilteredIsRight
  <2> QED
    BY <1>6, <2>2
<1> HIDE DEF object, filters
<1>10. /\ 0 \in 0..Len(stack) /\ stack = Rest(stack, 0)
       /\ Len(stack[1].got) < Len(doc.kids[n])
  <2>1. Len(stack) \in Nat /\ 0 \in 0..Len(stack)
    BY <1>2
  <2>2. stack = SubSeq(stack, 1, Len(stack))
    BY <1>2
  <2>3. stack = Rest(stack, 0)
    BY <2>1, <2>2 DEF Rest
  <2>4. Len(stack[1].got) < Len(doc.kids[n])
    BY <1>2 DEF CalledBy
  <2> QED
    BY <2>1, <2>3, <2>4
<1> QED
  BY <1>1, <1>4, <1>8, <1>9, <1>10, GiveKeeps

\* The operators give flags (CombineFlagBySetOperator).
LEMMA GotFlagTyped ==
  ASSUME NEW op \in SetOperatorEnumeration, NEW got \in Seq(Collection),
         Len(got) \in {1, 2}
  PROVE  GotFlag(op, got) \in FlagEnumeration
<1>1. got[1] \in Collection /\ (Len(got) # 1 => got[2] \in Collection)
  OBVIOUS
<1>2. CASE Len(got) = 1
  BY <1>1, <1>2 DEF GotFlag, Collection
<1>3. CASE Len(got) # 1
  <2> DEFINE f1 == got[1].flag
             f2 == got[2].flag
  <2>1. f1 \in FlagEnumeration /\ f2 \in FlagEnumeration
    BY <1>1, <1>3 DEF Collection
  <2>2. GotFlag(op, got) = CombineFlagBySetOperator(op, f1, f2)
    BY <1>3 DEF GotFlag
  <2> HIDE DEF f1, f2
  <2>3. ComplementFlag(f1, f2) \in FlagEnumeration
    BY <2>1, ComplementTable, SixFlags
  <2>4. IntersectionFlag(f1, f2) \in FlagEnumeration
    BY <2>1, IntersectionTable
  <2>5. UnionFlag(f1, f2) \in FlagEnumeration
    BY UnionTable, SixFlags
  <2> QED
    BY <2>2, <2>3, <2>4, <2>5 DEF CombineFlagBySetOperator, SetOperatorEnumeration
<1> QED
  BY <1>2, <1>3

\* Two positions that neither precedes the other.
LEMMA Same ==
  ASSUME NEW a \in Nat, NEW b \in Nat, a <= b, ~(a < b)
  PROVE  a = b
  OBVIOUS

\* The positions of a set's kids.
LEMMA OneOrTwo ==
  ASSUME NEW a \in {1, 2}
  PROVE  1 \in 1..a /\ (a # 1 => 2 \in 1..a)
  OBVIOUS

\* The position after the first, where that is not the last.
LEMMA Second ==
  ASSUME NEW a \in Nat, 1 \in 1..a, 1 # a
  PROVE  a >= 2 /\ 2 \in 1..a /\ 1 \in 0..a /\ 1 \in 1..(a - 1)
  OBVIOUS

\* ProcessSet returns to its caller.
LEMMA CombineSetsKeeps ==
  ASSUME CollectorInv, CombineSets
  PROVE  CollectorInv'
<1> DEFINE n == stack[1].node
           got == stack[1].got
           op == doc.setOp[n]
           c == CombinedSet(op, got)
           T == SubSeq(stack, 1 + 1, Len(stack))
<1>1. /\ stack # << >> /\ ~HasChild /\ doc.kind[top.node] = "Set"
      /\ stack' = GiveTo(Tail(stack), CombinedSet(doc.setOp[top.node], top.got))
      /\ SameDocument /\ collected' = collected /\ probed' = probed
  BY DEF CombineSets, SameDocument
<1>2. /\ doc \in Documents /\ stack \in Seq(Frame) /\ Path(doc, stack, DOMAIN collected)
      /\ 1 \in 1..Len(stack) /\ top = stack[1] /\ n \in Node /\ got \in Seq(Collection)
      /\ Len(got) <= Len(doc.kids[n]) /\ ~(Len(got) < Len(doc.kids[n]))
  BY <1>1, Running, Innermost1
<1>3. 1 \in 0..Len(stack) /\ T = Tail(stack) /\ stack' = GiveTo(T, c)
  BY <1>1, <1>2, TailDrops
<1>4. doc.kind[n] = "Set" /\ op \in SetOperatorEnumeration
  BY <1>1, <1>2, DocumentFacts
<1>5. /\ Len(got) = Len(doc.kids[n]) /\ Len(got) \in {1, 2}
      /\ 1 \in 1..Len(got) /\ (Len(got) # 1 => 2 \in 1..Len(got))
  <2>1. Len(got) \in Nat /\ Len(doc.kids[n]) \in {1, 2}
    BY <1>2, <1>4, Kids
  <2>2. Len(got) = Len(doc.kids[n])
    BY <1>2, <2>1, Same
  <2>3. Len(got) \in {1, 2}
    BY <2>1, <2>2
  <2> QED
    BY <2>2, <2>3, OneOrTwo
<1>6. c \in Collection /\ c.items = GotItems(op, got)
  <2> HIDE DEF op, got
  <2> QED
    BY <1>2, <1>4, <1>5, CombinedFields, GotFlagTyped
<1>7. T # << >> /\ T[1] = stack[2] /\ CalledBy(doc, n, T[1]) /\ T[1].node \in Node
  <2>1. 1 # Len(stack)
    BY <1>2, <1>4 DEF Path, CallersOK
  <2>2. CalledBy(doc, n, stack[1 + 1])
    BY <1>2, <2>1 DEF Path, CallersOK
  <2>3. Len(stack) \in Nat /\ Len(stack) >= 2 /\ 1 + 1 = 2 /\ 2 \in 1..Len(stack)
    <3>1. Len(stack) \in Nat
      BY <1>2
    <3>2. Len(stack) >= 2 /\ 2 \in 1..Len(stack)
      BY <1>2, <2>1, <3>1, Second
    <3>3. 1 + 1 = 2
      OBVIOUS
    <3> QED
      BY <3>1, <3>2, <3>3
  <2>4. T # << >> /\ T[1] = stack[2]
    <3>1. 1 \in 1..Len(T)
      <4>1. Len(T) = Len(stack) - 1
        BY <1>2, <1>3, Dropped
      <4> QED
        BY <1>2, <2>1, <2>3, <4>1, Second
    <3>2. T[1] = stack[1 + 1]
      BY <1>2, <1>3, <3>1, Dropped
    <3>3. T # << >>
      <4> HIDE DEF T
      <4> QED
        BY <3>1
    <3> QED
      BY <3>2, <3>3
  <2> QED
    BY <1>2, <2>2, <2>3, <2>4, FrameParts
<1> DEFINE i == Len(T[1].got) + 1
<1> HIDE DEF c, T
<1>8. \A m : KidItems(doc, m, T[1].node, i) = m[n]
  <2>1. n = doc.kids[T[1].node][i]
    BY <1>7 DEF CalledBy
  <2> QED
    BY <1>4, <2>1 DEF KidItems
<1>9. \A m : Solution(doc, m) => m[n] = SetItems(doc, m, n)
  BY <1>2, <1>4 DEF Solution
<1>10. ASSUME NEW m, Solution(doc, m), GotIn(stack, Following(doc, m))
       PROVE  c.items = KidItems(doc, m, T[1].node, i)
  <2>1. \A j \in 1..Len(got) : got[j].items = KidItems(doc, m, n, j)
    BY <1>2, <1>10 DEF GotIn, Following
  <2>2. GotItems(op, got) = SetItems(doc, m, n)
    <3> HIDE DEF n, got
    <3>1. CASE Len(got) = 1
      BY <1>5, <2>1, <3>1 DEF GotItems, SetItems
    <3>2. CASE Len(got) # 1
      BY <1>5, <2>1, <3>2 DEF GotItems, SetItems, op
    <3> QED
      BY <3>1, <3>2
  <2> QED
    BY <1>6, <1>8, <1>9, <1>10, <2>2
<1>11. ASSUME NEW m, SystemSolution(doc, m), GotIn(stack, RightAt(doc, m))
       PROVE  Right(c, KidItems(doc, m, T[1].node, i))
  <2> DEFINE r1 == KidItems(doc, m, n, 1)
             r2 == KidItems(doc, m, n, 2)
  <2>1. \A j \in 1..Len(got) : Right(got[j], KidItems(doc, m, n, j))
    BY <1>2, <1>11 DEF GotIn, RightAt
  <2>2. Right(got[1], r1) /\ (Len(got) = 2 => Right(got[2], r2))
    BY <1>5, <2>1
  <2>3. SetItems(doc, m, n) = IF Len(got) = 1 THEN r1 ELSE CombineItems(op, r1, r2)
    BY <1>5 DEF SetItems
  <2>4. Right(c, IF Len(got) = 1 THEN r1 ELSE CombineItems(op, r1, r2))
    <3> HIDE DEF r1, r2, op, got
    <3> QED
      BY <1>2, <1>4, <1>5, <2>2, CombinedIsRight DEF c
  <2> HIDE DEF r1, r2, op, got, n
  <2> QED
    BY <1>8, <1>9, <1>11, <2>3, <2>4 DEF SystemSolution
<1>12. Len(T[1].got) < Len(doc.kids[T[1].node])
  BY <1>7 DEF CalledBy
<1> HIDE DEF n, got, op
<1>13. T = Rest(stack, 1)
  BY DEF T, Rest
<1> QED
  BY <1>1, <1>3, <1>6, <1>7, <1>10, <1>11, <1>12, <1>13, GiveKeeps

\* The call of k ends with c for its set object, and those inside it are gone.
LEMMA EndKeeps ==
  ASSUME CollectorInv, NEW k \in 1..Len(stack), NEW c \in Collection,
         doc.kind[stack[k].node] = "SetObject",
         collected' = Added(collected, stack[k].node, c),
         stack' = SubSeq(stack, k + 1, Len(stack)),
         \A m : /\ Solution(doc, m) /\ GotIn(stack, Following(doc, m)) /\ c.flag # "error"
                => c.items = m[doc.kids[stack[k].node][1]],
         \A m : /\ SystemSolution(doc, m) /\ GotIn(stack, RightAt(doc, m))
                => Right(c, m[stack[k].node]),
         SameDocument, probed' = probed
  PROVE  CollectorInv'
<1> DEFINE o == stack[k].node
           T == SubSeq(stack, k + 1, Len(stack))
<1>1. stack # << >>
  BY DEF CollectorInv, TypeOK
<1>2. /\ doc \in Documents /\ stack \in Seq(Frame) /\ phase = "collecting"
      /\ Path(doc, stack, DOMAIN collected)
      /\ FollowInv(doc, stack, collected) /\ SoundInv(doc, stack, collected)
  BY <1>1, Running
<1>3. o \in Node /\ o \notin DOMAIN collected /\ k \in 0..Len(stack)
  BY <1>2, FrameParts DEF Path, FramesOK
<1>4. /\ T \in Seq(Frame) /\ Path(doc, T, DOMAIN collected)
      /\ \A i \in 1..Len(T) : i + k \in 1..Len(stack) /\ T[i] = stack[i + k]
  BY <1>2, <1>3, Dropped, PathDropped
<1>5. \A R : GotIn(stack, R) => GotIn(T, R)
  BY <1>2, <1>3, GotDropped
<1>6. ASSUME NEW i \in 1..Len(T) PROVE T[i].node # o
  <2>1. k < i + k /\ i + k \in 1..Len(stack) /\ T[i] = stack[i + k]
    <3>1. i \in Nat /\ i >= 1 /\ k \in Nat
      OBVIOUS
    <3> QED
      BY <1>4, <3>1
  <2>2. doc.height[stack[k].node] < doc.height[stack[i + k].node]
    BY <1>2, <2>1 DEF Path, Rising
  <2>3. doc.height[o] \in Nat
    BY <1>2, <1>3, DocumentFacts
  <2> QED
    BY SMTT(30), <2>1, <2>2, <2>3
<1> HIDE DEF T
<1>7. /\ DOMAIN collected' = DOMAIN collected \cup {o} /\ collected'[o] = c
      /\ \A p \in DOMAIN collected : p # o => collected'[p] = collected[p]
  BY DEF Added
<1>8. stack' = T
  BY DEF T
<1>9. TypeOK'
  <2>1. \A p \in DOMAIN collected' : collected'[p] \in Collection
    BY <1>7 DEF CollectorInv, TypeOK
  <2> QED
    BY <1>3, <1>4, <1>7, <1>8, <2>1 DEF CollectorInv, TypeOK, SameDocument
<1>10. OrderOK'
  BY <1>2, <1>3, <1>7, NextOrder
<1>11. Path(doc, stack', DOMAIN collected')
  <2>1. Path(doc, T, DOMAIN collected \cup {o})
    BY <1>4, <1>6, PathCollected
  <2> QED
    BY <1>7, <1>8, <2>1
<1>12. FollowInv(doc, stack', collected')
  <2>1. FollowInv(doc, stack, Added(collected, o, c))
    BY <1>2, <1>3, FollowAdded
  <2> QED
    BY <1>5, <1>8, <2>1 DEF FollowInv
<1>13. SoundInv(doc, stack', collected')
  <2>1. SoundInv(doc, stack, Added(collected, o, c))
    BY <1>2, <1>3, SoundAdded
  <2> QED
    BY <1>5, <1>8, <2>1 DEF SoundInv
<1> QED
  BY <1>2, <1>9, <1>10, <1>11, <1>12, <1>13, NextInv

\* ProcessSetObject creates the collected object from its set.
LEMMA SetObjectDoneKeeps ==
  ASSUME CollectorInv, SetObjectDone
  PROVE  CollectorInv'
<1> DEFINE n == stack[1].node
           got == stack[1].got
           c == [flag |-> got[1].flag, items |-> got[1].items]
<1>1. /\ stack # << >> /\ ~HasChild /\ doc.kind[top.node] = "SetObject"
      /\ Create(top.node, top.got[1].flag, top.got[1].items)
      /\ stack' = Tail(stack) /\ SameDocument /\ probed' = probed
  BY DEF SetObjectDone, SameDocument
<1>2. /\ doc \in Documents /\ stack \in Seq(Frame)
      /\ 1 \in 1..Len(stack) /\ top = stack[1] /\ n \in Node /\ got \in Seq(Collection)
      /\ Len(got) <= Len(doc.kids[n]) /\ ~(Len(got) < Len(doc.kids[n]))
  BY <1>1, Running, Innermost1
<1>3. /\ Len(doc.kids[n]) = 1 /\ doc.kind[doc.kids[n][1]] = "Set" /\ doc.kind[n] = "SetObject"
  BY <1>1, <1>2, Kids
<1>4. 1 \in 1..Len(got) /\ got[1] \in Collection
  <2>1. Len(got) \in Nat
    BY <1>2
  <2>2. Len(got) = 1
    BY <1>2, <1>3, <2>1, Same
  <2> QED
    BY <1>2, <2>2
<1>5. c = got[1]
  BY <1>4 DEF Collection
<1>6. collected' = Added(collected, n, got[1])
  BY <1>1, <1>2, <1>5, CreateAdds
<1>7. stack' = SubSeq(stack, 1 + 1, Len(stack))
  BY <1>1, <1>2, TailDrops
<1>8. \A m : KidItems(doc, m, n, 1) = m[doc.kids[n][1]]
  BY <1>3 DEF KidItems
<1>9. ASSUME NEW m, GotIn(stack, Following(doc, m))
      PROVE  got[1].items = m[doc.kids[n][1]]
  <2>1. got[1].items = KidItems(doc, m, n, 1)
    BY <1>2, <1>4, <1>9 DEF GotIn, Following
  <2> QED
    BY <1>8, <2>1
<1>10. ASSUME NEW m, SystemSolution(doc, m), GotIn(stack, RightAt(doc, m))
       PROVE  Right(got[1], m[n])
  <2>1. Right(got[1], KidItems(doc, m, n, 1))
    BY <1>2, <1>4, <1>10 DEF GotIn, RightAt
  <2>2. m[n] = m[doc.kids[n][1]]
    BY <1>2, <1>3, <1>10 DEF SystemSolution
  <2> QED
    BY <1>8, <2>1, <2>2
<1> QED
  BY <1>1, <1>2, <1>3, <1>4, <1>6, <1>7, <1>9, <1>10, EndKeeps

\* An exception of a filter finds a set object to end in.
LEMMA InnermostExists ==
  ASSUME CollectorInv, stack # << >>
  PROVE  /\ Innermost(stack) \in 1..Len(stack)
         /\ doc.kind[stack[Innermost(stack)].node] = "SetObject"
<1>1. /\ stack \in Seq(Frame) /\ doc \in Documents /\ Path(doc, stack, DOMAIN collected)
  BY Running
<1> DEFINE Ends == {i \in 1..Len(stack) : doc.kind[stack[i].node] = "SetObject"}
<1>2. Len(stack) \in Ends
  <2>1. Len(stack) \in 1..Len(stack)
    BY <1>1
  <2> QED
    BY <1>1, <2>1 DEF Path, CallersOK
<1>3. Ends \subseteq Nat
  OBVIOUS
<1>4. PICK i \in Ends : \A j \in Ends : i <= j
  <2> HIDE DEF Ends
  <2> QED
    BY <1>2, <1>3, LeastNatural
<1>5. ASSUME NEW j \in 1..(i - 1) PROVE doc.kind[stack[j].node] = "Set"
  <2>1. j \in 1..Len(stack) /\ j \notin Ends
    BY <1>1, <1>4
  <2>2. stack[j].node \in Node
    BY <1>1, <2>1, FrameParts
  <2>3. doc.kind[stack[j].node] \in Kind /\ doc.kind[stack[j].node] # "Object"
    BY <1>1, <2>1, <2>2, Kids DEF Path, FramesOK
  <2> QED
    BY <2>1, <2>3 DEF Kind
<1>6. DOMAIN stack = 1..Len(stack)
  BY <1>1
<1> QED
  BY <1>4, <1>5, <1>6 DEF Innermost

\* An exception ends in the set object that is being collected.
LEMMA FilterThrowsKeeps ==
  ASSUME CollectorInv, FilterThrows
  PROVE  CollectorInv'
<1> DEFINE k == Innermost(stack)
           c == [flag |-> "error", items |-> {}]
<1>1. /\ stack # << >> /\ Create(stack[k].node, "error", {})
      /\ stack' = SubSeq(stack, k + 1, Len(stack)) /\ SameDocument /\ probed' = probed
  BY DEF FilterThrows, HasChild, SameDocument
<1>2. k \in 1..Len(stack) /\ doc.kind[stack[k].node] = "SetObject"
  BY <1>1, InnermostExists
<1>3. collected' = Added(collected, stack[k].node, c)
  BY <1>1, CreateAdds
<1>4. c \in Collection /\ Restrained(c) /\ c.flag = "error"
  BY NothingIsRestrained, SixFlags
<1> HIDE DEF c, k
<1>5. \A real : Right(c, real)
  BY <1>4, SoundMeans, SixFlags DEF Right
<1> QED
  BY <1>1, <1>2, <1>3, <1>4, <1>5, EndKeeps

\* The loop goes to the next object.
LEMMA NextObjectKeeps ==
  ASSUME CollectorInv, NextObject
  PROVE  CollectorInv'
<1>1. /\ phase = "collecting" /\ doc.objects[cursor] \in DOMAIN collected
      /\ cursor' = cursor + 1
      /\ UNCHANGED <<doc, phase, stack, collected, probed, sc>>
  BY DEF NextObject, Cached
<1>2. Known = collected /\ Known' = collected
  BY <1>1 DEF Known
<1>3. doc \in Documents /\ cursor \in Nat \ {0} /\ OrderOK
  BY DEF CollectorInv, TypeOK
<1>4. TypeOK'
  BY <1>1, <1>3 DEF CollectorInv, TypeOK
<1>5. ASSUME NEW i \in DOMAIN doc.objects, i < cursor + 1
      PROVE  doc.objects[i] \in DOMAIN collected
  <2>1. doc.objects \in Seq(Node)
    BY <1>3, DocumentFacts
  <2>2. i \in Nat
    BY <2>1
  <2>3. i < cursor \/ i = cursor
    BY <1>3, <1>5, <2>2
  <2> QED
    BY <1>1, <1>2, <1>3, <2>3 DEF OrderOK
<1>6. OrderOK'
  BY <1>1, <1>2, <1>3, <1>5 DEF OrderOK, ProbedOnce
<1> QED
  BY <1>1, <1>2, <1>4, <1>6 DEF CollectorInv

\* What has been collected goes to the system characteristics.
LEMMA WriteCollectedObjectsKeeps ==
  ASSUME CollectorInv, WriteCollectedObjects
  PROVE  CollectorInv'
<1>1. /\ phase = "collecting" /\ stack = << >> /\ cursor \notin DOMAIN doc.objects
      /\ sc' = collected /\ collected' = Nothing /\ phase' = "written"
      /\ UNCHANGED <<doc, cursor, stack, probed>>
  BY DEF WriteCollectedObjects
<1>2. Known = collected /\ Known' = collected /\ DOMAIN collected' = {}
  BY <1>1 DEF Known, Nothing
<1>3. TypeOK'
  BY <1>1, <1>2 DEF CollectorInv, TypeOK
<1>4. OrderOK'
  BY <1>1, <1>2 DEF CollectorInv, OrderOK, ProbedOnce
<1> QED
  BY <1>1, <1>2, <1>3, <1>4 DEF CollectorInv

\* Nothing has been called or collected at first.
LEMMA CollectorStarts ==
  ASSUME Init
  PROVE  CollectorInv
<1>1. /\ doc \in Documents /\ phase = "collecting" /\ cursor = 1 /\ stack = << >>
      /\ collected = Nothing /\ probed = << >> /\ sc = Nothing
  BY DEF Init
<1>2. DOMAIN collected = {} /\ DOMAIN sc = {} /\ Known = collected
  BY <1>1 DEF Nothing, Known
<1>3. 1..Len(stack) = {} /\ stack \in Seq(Frame) /\ probed \in Seq(Node)
      /\ DOMAIN probed = {}
  BY <1>1
<1>4. TypeOK
  BY <1>1, <1>2, <1>3, CollectorAssumption DEF TypeOK
<1>5. OrderOK
  <2>1. \A i \in DOMAIN doc.objects : ~(i < 1)
    BY <1>1, DocumentFacts
  <2> QED
    BY <1>1, <1>2, <1>3, <2>1 DEF OrderOK, ProbedOnce
<1>6. Path(doc, stack, DOMAIN Known)
  BY <1>3 DEF Path, FramesOK, CallersOK, Rising
<1>7. FollowInv(doc, stack, Known)
  BY <1>2, <1>3 DEF FollowInv, Followed, GotIn
<1>8. SoundInv(doc, stack, Known)
  BY <1>2, <1>3 DEF SoundInv, AllRight, GotIn
<1> QED
  BY <1>1, <1>4, <1>5, <1>6, <1>7, <1>8 DEF CollectorInv

\* Every step keeps the invariant.
LEMMA StepsKeep ==
  ASSUME CollectorInv, [Next]_vars
  PROVE  CollectorInv'
<1>1. CASE UNCHANGED vars
  BY <1>1 DEF vars, CollectorInv, TypeOK, OrderOK, Known, ProbedOnce
<1>2. CASE \E o \in Node :
             \/ ParseFails(o) \/ NotApplicable(o) \/ NotSupported(o)
             \/ \E items \in Found[o] : Probe(o, items)
             \/ ProbeThrows(o)
  BY <1>2, LeavesKeep
<1>3. CASE \E o \in Node : EnterSetObject(o)
  BY <1>3, EnterSetObjectKeeps
<1>4. CASE EnterSet
  BY <1>4, EnterSetKeeps
<1>5. CASE TakeReference
  BY <1>5, TakeReferenceKeeps
<1>6. CASE FilterThrows
  BY <1>6, FilterThrowsKeeps
<1>7. CASE CombineSets
  BY <1>7, CombineSetsKeeps
<1>8. CASE SetObjectDone
  BY <1>8, SetObjectDoneKeeps
<1>9. CASE NextObject
  BY <1>9, NextObjectKeeps
<1>10. CASE WriteCollectedObjects
  BY <1>10, WriteCollectedObjectsKeeps
<1> QED
  BY <1>1, <1>2, <1>3, <1>4, <1>5, <1>6, <1>7, <1>8, <1>9, <1>10
     DEF Next, CollectorStep, Terminated

-----------------------------------------------------------------------------
(***************************************************************************)
(* The theorems.                                                           *)
(***************************************************************************)
\* The invariant: the stack is a path of calls (AbsObjectCollector::Run,
\* ProcessSet), and what the calls and the cache hold is what the documents'
\* equations say and right about the system if the probes are.
THEOREM CollectorInvariant == Spec => []CollectorInv
<1>1. Init => CollectorInv
  BY CollectorStarts
<1>2. CollectorInv /\ [Next]_vars => CollectorInv'
  BY StepsKeep
<1> QED
  BY <1>1, <1>2, PTL DEF Spec

\* No object is probed twice, whichever sets share it (the cache of
\* CollectedObject::GetCollectedObject).
THEOREM ProbedAtMostOnce == Spec => []ProbedOnce
<1>1. CollectorInv => ProbedOnce
  BY DEF CollectorInv, OrderOK
<1> QED
  BY <1>1, CollectorInvariant, PTL

\* A set object's items are those its set makes of the objects it refers to as
\* they were collected, filters included (ProcessSet), in every state.
THEOREM SetsFollow == Spec => []SetsFollowTheirReferences
<1>1. ASSUME CollectorInv PROVE SetsFollowTheirReferences
  <2> DEFINE given == [o \in DOMAIN collected |-> collected[o].items]
             m == ItemsOf(doc, given)
  <2> SUFFICES ASSUME NEW o \in DOMAIN collected, doc.kind[o] = "SetObject",
                      collected[o].flag # "error", Parses(o)
               PROVE  collected[o].items = m[doc.kids[o][1]]
    BY DEF SetsFollowTheirReferences
  <2>1. phase = "collecting"
    BY <1>1 DEF CollectorInv, OrderOK, TypeOK
  <2>2. Known = collected /\ doc \in Documents /\ FollowInv(doc, stack, collected)
    BY <1>1, <2>1, Running
  <2>3. DOMAIN collected \in SUBSET Node /\ given \in [DOMAIN collected -> SUBSET Item]
    BY <1>1 DEF CollectorInv, TypeOK, Collection
  <2>4. /\ m \in [Node -> SUBSET Item]
        /\ \A n \in Node : m[n] = ItemsAt(doc, given, m, n)
    <3> HIDE DEF given
    <3> QED
      BY <2>2, <2>3, ItemsOfSolves
  <2>5. Agrees(m, collected)
    <3> SUFFICES ASSUME NEW p \in DOMAIN collected PROVE m[p] = collected[p].items
      BY DEF Agrees
    <3>1. m[p] = ItemsAt(doc, given, m, p)
      BY <2>3, <2>4
    <3> HIDE DEF m
    <3> QED
      BY <3>1 DEF ItemsAt
  <2>6. Solution(doc, m)
    <3> SUFFICES ASSUME NEW n \in Node, doc.kind[n] = "Set"
                 PROVE  m[n] = SetItems(doc, m, n)
      BY <2>4 DEF Solution
    <3>1. n \notin DOMAIN collected
      BY <1>1, <2>2 DEF CollectorInv, OrderOK
    <3>2. m[n] = ItemsAt(doc, given, m, n)
      BY <2>4
    <3> HIDE DEF m
    <3> QED
      BY <3>1, <3>2 DEF ItemsAt
  <2> HIDE DEF m
  <2> QED
    BY <2>2, <2>5, <2>6 DEF FollowInv, Followed, Parses
<1> QED
  BY <1>1, CollectorInvariant, PTL

\* Every object of the document has been collected when the loop has ended.
LEMMA AllAreCollected ==
  ASSUME CollectorInv, phase = "written"
  PROVE  Objects \subseteq DOMAIN sc
<1>1. doc \in Documents /\ cursor \in Nat \ {0} /\ OrderOK /\ Known = sc
  BY DEF CollectorInv, TypeOK, Known
<1>2. doc.objects \in Seq(Node) /\ WellFormed(doc)
  BY <1>1, DocumentFacts
<1> SUFFICES ASSUME NEW o \in Objects PROVE o \in DOMAIN sc
  OBVIOUS
<1>3. PICK i \in DOMAIN doc.objects : doc.objects[i] = o
  BY <1>2 DEF Objects, WellFormed
<1>4. cursor \notin DOMAIN doc.objects
  BY <1>1 DEF OrderOK
<1>5. i < cursor
  <2>1. i \in 1..Len(doc.objects) /\ Len(doc.objects) \in Nat
    BY <1>2, <1>3
  <2>2. cursor \notin 1..Len(doc.objects)
    BY <1>2, <1>4
  <2> QED
    BY <1>1, <2>1, <2>2
<1> QED
  BY <1>1, <1>3, <1>5 DEF OrderOK

\* If the flags of the probed objects are right about the system, so are those
\* of all sets that parse (CombineFlagBySetOperator, ProcessSet, the filters).
THEOREM FlagsAreSound == Spec => []SetsAreSound
<1>1. ASSUME CollectorInv PROVE SetsAreSound
  <2> SUFFICES ASSUME phase = "written", NEW real \in [Probed -> SUBSET Existing(Item)],
                      \A o \in Probed : Sound(sc[o], real[o]),
                      NEW o \in Objects, ParseFlag(doc)[o] \in {"complete", "error"}
               PROVE  Sound(sc[o], ItemsOf(doc, real)[o])
    BY DEF SetsAreSound
  <2> DEFINE m == ItemsOf(doc, real)
  <2>1. Known = sc /\ doc \in Documents /\ SoundInv(doc, stack, sc)
    BY <1>1 DEF CollectorInv, Known
  <2>2. Probed \in SUBSET Node /\ real \in [Probed -> SUBSET Item]
    <3>1. Existing(Item) \subseteq Item
      BY DEF Existing
    <3> QED
      BY <3>1 DEF Probed, Objects
  <2>3. /\ m \in [Node -> SUBSET Item]
        /\ \A n \in Node : m[n] = ItemsAt(doc, real, m, n)
    BY <2>1, <2>2, ItemsOfSolves
  <2> HIDE DEF m
  <2>4. SystemSolution(doc, m)
    <3>1. ASSUME NEW n \in Node, doc.kind[n] = "Set"
          PROVE  m[n] = SetItems(doc, m, n)
      <4>1. n \notin DOMAIN real
        BY <2>2, <3>1 DEF Probed
      <4> QED
        BY <2>3, <3>1, <4>1 DEF ItemsAt
    <3>2. ASSUME NEW n \in Node, doc.kind[n] = "SetObject"
          PROVE  m[n] = m[doc.kids[n][1]]
      <4>1. n \notin DOMAIN real
        BY <2>2, <3>2 DEF Probed
      <4> QED
        BY <2>3, <3>2, <4>1 DEF ItemsAt
    <3> QED
      BY <2>3, <3>1, <3>2 DEF SystemSolution, Solution
  <2>5. ProbesSound(doc, m, sc)
    <3> SUFFICES ASSUME NEW p \in DOMAIN sc, doc.kind[p] = "Object"
                 PROVE  Sound(sc[p], m[p])
      BY DEF ProbesSound
    <3>1. p \in Node /\ p \in Probed /\ p \in DOMAIN real
      BY <1>1, <2>2 DEF Probed, Objects, CollectorInv, TypeOK
    <3>2. m[p] = real[p]
      BY <2>3, <3>1 DEF ItemsAt
    <3> QED
      BY <3>1, <3>2
  <2>6. Right(sc[o], m[o])
    BY <1>1, <2>1, <2>4, <2>5, AllAreCollected DEF SoundInv, AllRight
  <2> QED
    BY <2>6 DEF Right, m
<1> QED
  BY <1>1, CollectorInvariant, PTL
=============================================================================
