------------------------------ MODULE TestProofs ------------------------------
(***************************************************************************)
(* What Test::Analyze returns, for every test and every collected object.  *)
(*                                                                         *)
(* Inv adds two things to what the runs check: which tested items have     *)
(* their result while the states are checked (Progress), and from what     *)
(* the result of a complete object was made (Derivation).  Every action    *)
(* keeps it, and with the charts of module ProofLemmas it implies          *)
(* CompleteFollowsTheSchema.  DerivationIncomplete says the same of the    *)
(* result of an incomplete object: true and false stand whatever the items *)
(* that were not collected would have been.                                *)
(***************************************************************************)
EXTENDS TestEvaluation, ProofLemmas

\* The results a test can have once it has been analyzed.
Definite == ResultEnumeration \ {"not evaluated"}

-----------------------------------------------------------------------------
(***************************************************************************)
(* None of the functions that combine results invents "not evaluated".     *)
(***************************************************************************)
\* Results that are all different from v leave its count at zero.
LEMMA TallyOfAbsent ==
  ASSUME NEW s, NEW v \in ResultEnumeration, \A i \in DOMAIN s : s[i] # v
  PROVE  ~(ResultTally(s)[v] > 0)
<1>1. {i \in DOMAIN s : s[i] = v} = {} OBVIOUS
<1>2. Cardinality({}) = 0 BY FS_EmptySet
<1> DEFINE count == ResultTally(s)[v]
<1>3. count = 0 BY <1>1, <1>2 DEF ResultTally, Tally
<1> HIDE DEF count
<1>4. ~(count > 0) BY <1>3
<1> QED BY <1>4 DEF count

\* OvalEnum.cpp: without a result "not evaluated" to combine there is none
\* (CombineResultsByOperator).
LEMMA OperatorIsDefinite ==
  ASSUME NEW c, ~(c["not evaluated"] > 0), NEW op \in OperatorEnumeration
  PROVE  CombineResultsByOperator(c, op) \in Definite
<1>1. Undecided(c) \in {"error", "unknown"}
  BY Zenon DEF Undecided
<1>2. /\ CombineAll(c) \in Definite /\ CombineAny(c) \in Definite
      /\ CombineOne(c) \in Definite /\ CombineXor(c) \in Definite
  BY <1>1 DEF CombineAll, CombineAny, CombineOne, CombineXor, Definite,
               ResultEnumeration
<1>3. "unknown" \in Definite /\ "not applicable" \in Definite
  BY DEF Definite, ResultEnumeration
<1>4. op = "AND" \/ op = "ONE" \/ op = "OR" \/ op = "XOR"
  BY DEF OperatorEnumeration
<1> QED BY <1>2, <1>3, <1>4 DEF CombineResultsByOperator

\* The same for CombineResultsByCheck.
LEMMA CheckIsDefinite ==
  ASSUME NEW c, ~(c["not evaluated"] > 0), NEW check \in CheckEnumeration
  PROVE  CombineResultsByCheck(c, check) \in Definite
<1>1. Undecided(c) \in {"error", "unknown"}
  BY Zenon DEF Undecided
<1>2. /\ CombineAll(c) \in Definite /\ CombineAny(c) \in Definite
      /\ CombineNone(c) \in Definite /\ CombineOnlyOne(c) \in Definite
  BY <1>1 DEF CombineAll, CombineAny, CombineNone, CombineOnlyOne, Definite,
               ResultEnumeration
<1>3. "unknown" \in Definite /\ "not applicable" \in Definite
  BY DEF Definite, ResultEnumeration
<1>4. \/ check = "all" \/ check = "at least one" \/ check = "none satisfy"
      \/ check = "only one"
  BY DEF CheckEnumeration
<1> QED BY <1>2, <1>3, <1>4 DEF CombineResultsByCheck

\* AbsEntity.cpp, EntityComparator.cpp: an entity compared with an item.
LEMMA EntityIsDefinite ==
  ASSUME NEW item \in DOMAIN Status, NEW e \in Entity
  PROVE  EntityResult(item, e) \in Definite
<1>1. Comparison[item][e] \in Seq(Compared) /\ EntityCheck[e] \in CheckEnumeration
  BY TestAssumption
<1>2. \A i \in DOMAIN Comparison[item][e] :
        Comparison[item][e][i] # "not evaluated"
  <2>1. \A i \in DOMAIN Comparison[item][e] : Comparison[item][e][i] \in Compared
    BY <1>1
  <2>2. "not evaluated" \notin Compared BY DEF Compared
  <2> QED BY <2>1, <2>2, Zenon
<1>3. ~(ResultTally(Comparison[item][e])["not evaluated"] > 0)
  BY <1>2, TallyOfAbsent DEF ResultEnumeration
<1> QED BY <1>1, <1>3, CheckIsDefinite DEF EntityResult

\* State.cpp: State::Analyze.
LEMMA StateIsDefinite ==
  ASSUME NEW item \in DOMAIN Status, NEW s \in DOMAIN States
  PROVE  StateResult(item, s) \in Definite
<1> DEFINE entities == States[s].entities
           results == [e \in entities |-> EntityResult(item, e)]
<1>1. entities \subseteq Entity /\ States[s].op \in OperatorEnumeration
  BY TestAssumption
<1>2. \A e \in DOMAIN results : results[e] # "not evaluated"
  BY <1>1, EntityIsDefinite DEF Definite
<1>3. ~(ResultTally(results)["not evaluated"] > 0)
  BY <1>2, TallyOfAbsent DEF ResultEnumeration
<1> HIDE DEF results
<1>4. CombineResultsByOperator(ResultTally(results), States[s].op) \in Definite
  BY <1>1, <1>3, OperatorIsDefinite
<1>5. Status[item] \in SCStatus BY TestAssumption
<1>6. {"error", "false", "true"} \subseteq Definite
  BY DEF Definite, ResultEnumeration
<1> QED BY <1>4, <1>5, <1>6 DEF StateResult, SCStatus, results

\* Test.cpp, EvaluateCheckState: the result of a tested item.
LEMMA ItemIsDefinite ==
  ASSUME test \in TestElement, test.states \subseteq DOMAIN States,
         NEW item \in DOMAIN Status
  PROVE  ItemResult(item) \in Definite
<1> DEFINE results == [s \in test.states |-> StateResult(item, s)]
<1>1. \A s \in DOMAIN results : results[s] # "not evaluated"
  BY StateIsDefinite DEF Definite
<1>2. ~(ResultTally(results)["not evaluated"] > 0)
  BY <1>1, TallyOfAbsent DEF ResultEnumeration
<1>3. test.stateOperator \in OperatorEnumeration BY DEF TestElement
<1> QED BY <1>2, <1>3, OperatorIsDefinite DEF ItemResult

\* Test.cpp: what Test::Analyze decides without looking at states.
LEMMA DecisionsAreDefinite ==
  ASSUME test \in TestElement, NEW c
  PROVE  /\ EvaluateCheckExistence(c, test.existence) \in Definite
         /\ ExistenceWhenIncomplete(c, test.existence) \in Definite
         /\ \A f \in {"error", "not applicable", "not collected"} :
              WithoutItems(f) \in Definite
         /\ WithoutMatch \in Definite
         /\ \A r \in Definite : Overall(r) \in Definite
<1>1. test.existence \in ExistenceEnumeration BY DEF TestElement
<1>2. {"true", "false", "error", "unknown", "not applicable"} \subseteq Definite
  BY DEF Definite, ResultEnumeration
<1>3. EvaluateCheckExistence(c, test.existence) \in Definite
  BY <1>1, <1>2 DEF EvaluateCheckExistence, ExistenceEnumeration
<1>4. ExistenceWhenIncomplete(c, test.existence) \in Definite
  BY <1>2 DEF ExistenceWhenIncomplete
<1>5. ASSUME NEW f \in {"error", "not applicable", "not collected"}
      PROVE  WithoutItems(f) \in Definite
  BY <1>2 DEF WithoutItems
<1>6. WithoutMatch \in Definite BY <1>2 DEF WithoutMatch
<1>7. \A r \in Definite : Overall(r) \in Definite BY <1>2 DEF Overall
<1> QED BY <1>3, <1>4, <1>5, <1>6, <1>7

-----------------------------------------------------------------------------
(***************************************************************************)
(* The invariant.                                                          *)
(***************************************************************************)
TestedItem == [item : DOMAIN Status, result : ResultEnumeration]

Untouched == \A i \in DOMAIN tested : tested[i].result = "not evaluated"

Existence == EvaluateCheckExistence(StatusTally(tested), test.existence)

WhenIncomplete == ExistenceWhenIncomplete(StatusTally(tested), test.existence)

CheckedBeforePos ==
  \A i \in DOMAIN tested :
    tested[i].result =
      IF i < pos THEN ItemResult(tested[i].item) ELSE "not evaluated"

\* Before the check of the states no item has a result; during it exactly the
\* items before pos have theirs.
Progress ==
  /\ IsFiniteSet(test.states)
  /\ phase \in {"gather", "decide"} => Untouched
  /\ phase = "state" =>
       /\ HasStateReference
       /\ pos <= Len(tested) + 1
       /\ CheckedBeforePos
       /\ StatesFound \/ pos = 1
       /\ flag = "complete" => Existence = "true"
       /\ flag = "incomplete" => WhenIncomplete = "true"
       /\ flag \in {"complete", "incomplete"}

\* How the result under the flag complete came about.
Derivation ==
  phase = "done" /\ test.object /\ flag = "complete" /\ tested # << >> =>
    IF Existence # "true" \/ ~HasStateReference THEN result = Existence
    ELSE IF ~StatesFound THEN result = "error"
    ELSE /\ \A i \in DOMAIN tested :
              tested[i].result = ItemResult(tested[i].item)
         /\ result = CombineResultsByCheck(TestedTally(tested), test.check)

\* And under the flag incomplete.
DerivationIncomplete ==
  phase = "done" /\ test.object /\ flag = "incomplete" =>
    IF WhenIncomplete # "true" THEN result = WhenIncomplete
    ELSE IF ~HasStateReference THEN result = Overall("true")
    ELSE IF ~StatesFound THEN result = "unknown"
    ELSE /\ \A i \in DOMAIN tested :
              tested[i].result = ItemResult(tested[i].item)
         /\ result = Overall(CombineResultsByCheck(TestedTally(tested), test.check))

Inv ==
  /\ TypeOK
  /\ Progress
  /\ TestedItemsExplainTheResult
  /\ Derivation
  /\ DerivationIncomplete

-----------------------------------------------------------------------------
(***************************************************************************)
(* The list of tested items.                                               *)
(***************************************************************************)
\* A function on 1..n is a sequence of length n.
LEMMA SequenceFacts ==
  ASSUME NEW S, NEW n \in Nat, NEW f \in [1..n -> S]
  PROVE  f \in Seq(S) /\ Len(f) = n
OBVIOUS

\* What Append adds.
LEMMA AppendFacts ==
  ASSUME NEW S, NEW s \in Seq(S), NEW e \in S
  PROVE  /\ Append(s, e) \in Seq(S)
         /\ \A i \in DOMAIN Append(s, e) :
              \/ i \in DOMAIN s /\ Append(s, e)[i] = s[i]
              \/ Append(s, e)[i] = e
OBVIOUS

\* Only the empty sequence has no first element.
LEMMA EmptySequence ==
  ASSUME NEW S, NEW s \in Seq(S), 1 \notin DOMAIN s
  PROVE  s = << >>
<1>1. Len(s) \in Nat /\ DOMAIN s = 1..Len(s) OBVIOUS
<1>2. Len(s) = 0 BY <1>1
<1> QED BY <1>2

\* A list with the places and items of another one is counted alike.
LEMMA SameItems ==
  ASSUME NEW q, NEW s, DOMAIN q = DOMAIN s,
         \A i \in DOMAIN s : q[i].item = s[i].item
  PROVE  StatusTally(q) = StatusTally(s)
<1>1. [i \in DOMAIN q |-> Status[q[i].item]] = [i \in DOMAIN s |-> Status[s[i].item]]
  OBVIOUS
<1> QED BY <1>1 DEF StatusTally

\* MarkTestedItemsNotEvaluated changes results only.
LEMMA MarkedItems ==
  ASSUME TypeOK
  PROVE  /\ NotEvaluatedItems \in Seq(TestedItem)
         /\ DOMAIN NotEvaluatedItems = DOMAIN tested
         /\ \A i \in DOMAIN tested :
              /\ NotEvaluatedItems[i].item = tested[i].item
              /\ NotEvaluatedItems[i].result = "not evaluated"
<1>1. tested \in Seq(TestedItem) BY DEF TypeOK, TestedItem
<1>2. Len(tested) \in Nat /\ DOMAIN tested = 1..Len(tested) BY <1>1
<1>3. ASSUME NEW i \in DOMAIN tested
      PROVE  /\ NotEvaluatedItems[i] = [tested[i] EXCEPT !.result = "not evaluated"]
             /\ NotEvaluatedItems[i] \in TestedItem
             /\ NotEvaluatedItems[i].item = tested[i].item
             /\ NotEvaluatedItems[i].result = "not evaluated"
  <2>1. tested[i] \in TestedItem BY <1>1
  <2>2. NotEvaluatedItems[i] = [tested[i] EXCEPT !.result = "not evaluated"]
    BY DEF NotEvaluatedItems
  <2>3. "not evaluated" \in ResultEnumeration BY DEF ResultEnumeration
  <2> QED BY <2>1, <2>2, <2>3 DEF TestedItem
<1>4. /\ DOMAIN NotEvaluatedItems = DOMAIN tested
      /\ NotEvaluatedItems = [i \in DOMAIN tested |-> NotEvaluatedItems[i]]
  BY DEF NotEvaluatedItems
<1>5. NotEvaluatedItems \in [1..Len(tested) -> TestedItem]
  BY <1>2, <1>3, <1>4, Zenon
<1>6. NotEvaluatedItems \in Seq(TestedItem) BY <1>2, <1>5
<1> QED BY <1>3, <1>4, <1>6

\* EvaluateCheckState changes the result of one item.
LEMMA UpdatedItem ==
  ASSUME TypeOK, pos \in DOMAIN tested, NEW r \in ResultEnumeration,
         tested' = [tested EXCEPT ![pos].result = r]
  PROVE  /\ tested' \in Seq(TestedItem) /\ DOMAIN tested' = DOMAIN tested
         /\ Len(tested') = Len(tested)
         /\ \A i \in DOMAIN tested :
              /\ tested'[i].item = tested[i].item
              /\ tested'[i].result = IF i = pos THEN r ELSE tested[i].result
<1>1. tested \in Seq(TestedItem) BY DEF TypeOK, TestedItem
<1>2. Len(tested) \in Nat /\ DOMAIN tested = 1..Len(tested) BY <1>1
<1>3. ASSUME NEW i \in DOMAIN tested
      PROVE  /\ tested'[i] \in TestedItem /\ tested'[i].item = tested[i].item
             /\ tested'[i].result = IF i = pos THEN r ELSE tested[i].result
  <2>1. tested[i] \in TestedItem BY <1>1
  <2>2. tested'[i] = IF i = pos THEN [tested[i] EXCEPT !.result = r] ELSE tested[i]
    OBVIOUS
  <2> QED BY <2>1, <2>2 DEF TestedItem
<1>4. DOMAIN tested' = DOMAIN tested /\ tested' = [i \in DOMAIN tested |-> tested'[i]] OBVIOUS
<1>5. tested' \in [1..Len(tested) -> TestedItem] BY <1>2, <1>3, <1>4, Zenon
<1>6. tested' \in Seq(TestedItem) /\ Len(tested') = Len(tested)
  <2> DEFINE lists == [1..Len(tested) -> TestedItem]
  <2>1. \A g \in lists : g \in Seq(TestedItem) /\ Len(g) = Len(tested)
    BY <1>2, SequenceFacts
  <2>2. tested' \in lists BY <1>5
  <2> HIDE DEF lists
  <2> QED BY <2>1, <2>2, Zenon
<1> QED BY <1>3, <1>4, <1>6

\* AppendTestedItem adds an item without a result.
LEMMA AppendedItem ==
  ASSUME TypeOK, NEW item \in DOMAIN Status, NEW q,
         q = Append(tested, [item |-> item, result |-> "not evaluated"])
  PROVE  /\ q \in Seq(TestedItem)
         /\ \A i \in DOMAIN q :
              \/ i \in DOMAIN tested /\ q[i] = tested[i]
              \/ q[i].result = "not evaluated"
<1> DEFINE new == [item |-> item, result |-> "not evaluated"]
<1>1. tested \in Seq(TestedItem) BY DEF TypeOK, TestedItem
<1>2. new \in TestedItem /\ new.result = "not evaluated"
  BY DEF TestedItem, ResultEnumeration
<1> HIDE DEF new
<1>3. q = Append(tested, new) BY DEF new
<1>4. /\ q \in Seq(TestedItem)
      /\ \A i \in DOMAIN q : (i \in DOMAIN tested /\ q[i] = tested[i]) \/ q[i] = new
  <2>1. \A S : \A s \in Seq(S) : \A e \in S :
          /\ Append(s, e) \in Seq(S)
          /\ \A i \in DOMAIN Append(s, e) :
               (i \in DOMAIN s /\ Append(s, e)[i] = s[i]) \/ Append(s, e)[i] = e
    BY AppendFacts
  <2>2. /\ Append(tested, new) \in Seq(TestedItem)
        /\ \A i \in DOMAIN Append(tested, new) :
             \/ i \in DOMAIN tested /\ Append(tested, new)[i] = tested[i]
             \/ Append(tested, new)[i] = new
    BY <1>1, <1>2, <2>1, Zenon
  <2> QED BY <1>3, <2>2, Zenon
<1> QED BY <1>2, <1>4, Zenon

\* NotEvaluatedItems leaves nothing to explain.
LEMMA MarkedResults ==
  ASSUME TypeOK, tested' = NotEvaluatedItems
  PROVE  tested' \in Seq(TestedItem) /\ Untouched'
<1>1. /\ tested' \in Seq(TestedItem) /\ DOMAIN tested' = DOMAIN tested
      /\ \A i \in DOMAIN tested : tested'[i].result = "not evaluated"
  BY MarkedItems
<1> QED BY <1>1 DEF Untouched

-----------------------------------------------------------------------------
(***************************************************************************)
(* The steps.                                                              *)
(***************************************************************************)
\* A step to the end with a definite result, after which no tested item has a
\* result, keeps everything but Derivation.
LEMMA EndWithoutStates ==
  ASSUME Inv, phase' = "done", test' = test, collected' = collected,
         pos' = pos, flag' = flag, result' \in Definite,
         tested' \in Seq(TestedItem), Untouched'
  PROVE  TypeOK' /\ Progress' /\ TestedItemsExplainTheResult'
<1>1. TypeOK'
  BY DEF Inv, TypeOK, Phase, Definite, TestedItem
<1>2. Progress' BY DEF Inv, Progress
<1>3. TestedItemsExplainTheResult' BY DEF TestedItemsExplainTheResult, Untouched
<1> QED BY <1>1, <1>2, <1>3

\* Test::Analyze starts from an empty list.
LEMMA Initially == Init => Inv
<1> SUFFICES ASSUME Init PROVE Inv OBVIOUS
<1>1. PICK t \in Tests : test = Parsed(t) BY DEF Init
<1>2. t \in TestElement /\ IsFiniteSet(t.states) BY TestAssumption
<1>3. /\ test \in TestElement /\ test.check \in CheckEnumeration
      /\ test.states = t.states
  BY <1>1, <1>2 DEF Parsed, TestElement, ExistenceEnumeration, CheckEnumeration
<1>4. tested = << >> /\ phase = "gather" BY DEF Init
<1>5. TypeOK
  <2>1. /\ collected \in Collections /\ phase \in Phase /\ pos \in Nat \ {0}
        /\ flag \in FlagEnumeration /\ result \in ResultEnumeration \ {"not evaluated"}
    <3>1. 1 \in Nat \ {0} OBVIOUS
    <3>2. "gather" \in Phase /\ "not collected" \in FlagEnumeration
      BY DEF Phase, FlagEnumeration
    <3>3. "error" \in ResultEnumeration \ {"not evaluated"}
      BY DEF ResultEnumeration
    <3> QED BY <3>1, <3>2, <3>3, Zenon DEF Init
  <2>2. \A S : << >> \in Seq(S) OBVIOUS
  <2>3. tested \in Seq([item : DOMAIN Status, result : ResultEnumeration])
    BY <1>4, <2>2, Zenon
  <2> QED BY <1>3, <2>1, <2>3, Zenon DEF TypeOK
<1>6. Progress BY <1>2, <1>3, <1>4 DEF Progress, Untouched
<1>7. TestedItemsExplainTheResult /\ Derivation /\ DerivationIncomplete
  BY <1>4 DEF TestedItemsExplainTheResult, Derivation, DerivationIncomplete
<1> QED BY <1>5, <1>6, <1>7 DEF Inv

\* Gathering adds items that have no result.
LEMMA GatherStep ==
  ASSUME Inv, phase = "gather", test.object, phase' \in {"gather", "thrown"},
         UNCHANGED <<test, collected, flag, result>>, pos' \in {pos, pos + 1},
         \/ tested' = tested
         \/ \E item \in DOMAIN Status : AppendTestedItem(item)
  PROVE  Inv'
<1>1. tested \in Seq(TestedItem) /\ Untouched
  BY DEF Inv, TypeOK, Progress, TestedItem
<1>2. tested' \in Seq(TestedItem) /\ Untouched'
  <2>1. CASE tested' = tested
    BY <1>1, <2>1 DEF Untouched
  <2>2. CASE \E item \in DOMAIN Status : AppendTestedItem(item)
    <3>1. PICK item \in DOMAIN Status : AppendTestedItem(item) BY <2>2
    <3>2. /\ tested' \in Seq(TestedItem)
          /\ \A i \in DOMAIN tested' :
               \/ i \in DOMAIN tested /\ tested'[i] = tested[i]
               \/ tested'[i].result = "not evaluated"
      BY <3>1, AppendedItem DEF Inv, AppendTestedItem
    <3> QED BY <1>1, <3>2 DEF Untouched
  <2> QED BY <2>1, <2>2
<1>3. TypeOK'
  <2>1. \A n \in Nat \ {0} : n + 1 \in Nat \ {0} OBVIOUS
  <2>2. pos' \in Nat \ {0} BY <2>1, Zenon DEF Inv, TypeOK
  <2>3. phase' \in Phase BY DEF Phase
  <2> QED BY <1>2, <2>2, <2>3, Zenon DEF Inv, TypeOK, TestedItem
<1>4. Progress' BY <1>2 DEF Inv, Progress
<1>5. TestedItemsExplainTheResult' /\ Derivation' /\ DerivationIncomplete'
  BY DEF TestedItemsExplainTheResult, Derivation, DerivationIncomplete
<1> QED BY <1>3, <1>4, <1>5 DEF Inv

\* The object's flag decides where the test goes on.
LEMMA GatheredStep ==
  ASSUME Inv, Gathered
  PROVE  Inv'
<1>1. flag' \in FlagEnumeration
  BY TestAssumption DEF Inv, TypeOK, Gathered, CollectedObject, FlagEnumeration
<1>2. result' \in Definite
  BY DEF Inv, TypeOK, Gathered, Definite, ResultEnumeration
<1>3. TypeOK'
  BY <1>1, <1>2 DEF Inv, TypeOK, Gathered, Phase, Definite
<1>4. Progress' BY DEF Inv, Progress, Gathered, Untouched
<1>5. TestedItemsExplainTheResult' /\ Derivation' /\ DerivationIncomplete'
  BY DEF TestedItemsExplainTheResult, Derivation, DerivationIncomplete, Gathered
<1> QED BY <1>3, <1>4, <1>5 DEF Inv

\* A flag without usable items ends the test.
LEMMA NoItemsStep ==
  ASSUME Inv, NoObject \/ DecideWithoutItems \/ DecideWithoutMatch
  PROVE  Inv'
<1>1. TypeOK /\ Progress /\ test \in TestElement /\ Untouched
      /\ tested \in Seq(TestedItem)
  BY DEF Inv, TypeOK, Progress, TestedItem, NoObject, DecideWithoutItems,
         DecideWithoutMatch
<1>2. /\ phase' = "done" /\ test' = test /\ collected' = collected
      /\ pos' = pos /\ flag' = flag
      /\ tested' = tested \/ tested' = NotEvaluatedItems
  BY DEF NoObject, DecideWithoutItems, DecideWithoutMatch, SetResult
<1>3. result' \in Definite
  <2>1. CASE NoObject
    BY <2>1 DEF NoObject, Definite, ResultEnumeration
  <2>2. CASE DecideWithoutItems
    BY <1>1, <2>2, DecisionsAreDefinite DEF DecideWithoutItems, SetResult
  <2>3. CASE DecideWithoutMatch
    BY <1>1, <2>3, DecisionsAreDefinite DEF DecideWithoutMatch, SetResult
  <2> QED BY <2>1, <2>2, <2>3
<1>4. tested' \in Seq(TestedItem) /\ Untouched'
  BY <1>1, <1>2, MarkedResults DEF Untouched
<1>5. TypeOK' /\ Progress' /\ TestedItemsExplainTheResult'
  BY <1>2, <1>3, <1>4, EndWithoutStates
<1>6. Derivation' /\ DerivationIncomplete'
  BY <1>2 DEF Derivation, DerivationIncomplete, NoObject, DecideWithoutItems,
              DecideWithoutMatch
<1> QED BY <1>5, <1>6 DEF Inv

\* Existence is decided before any state is looked at.
LEMMA DecideStep ==
  ASSUME Inv, phase = "decide", flag \in {"complete", "incomplete"}, NEW v,
         v \in Definite, flag = "complete" => v = Existence,
         flag = "incomplete" => v = WhenIncomplete,
         DecideByExistence(v)
  PROVE  Inv'
<1>1. /\ TypeOK /\ Progress /\ test \in TestElement /\ Untouched
      /\ tested \in Seq(TestedItem)
      /\ test' = test /\ collected' = collected /\ flag' = flag
  BY DEF Inv, TypeOK, Progress, TestedItem, DecideByExistence
<1>2. CASE v = "true" /\ HasStateReference
  <2>1. phase' = "state" /\ pos' = 1 /\ tested' = tested /\ result' = result
    BY <1>2 DEF DecideByExistence
  <2>2. TypeOK'
    <3>1. 1 \in Nat \ {0} OBVIOUS
    <3>2. "state" \in Phase BY DEF Phase
    <3> QED BY <1>1, <2>1, <3>1, <3>2, Zenon DEF TypeOK
  <2>3. /\ 1 <= Len(tested) + 1
        /\ \A i \in DOMAIN tested : ~(i < 1)
    <3>1. Len(tested) \in Nat /\ DOMAIN tested = 1..Len(tested) BY <1>1
    <3> QED BY <3>1
  <2>4. CheckedBeforePos'
    <3>1. \A i \in DOMAIN tested :
            tested[i].result = "not evaluated" /\ ~(i < pos')
      BY <1>1, <2>1, <2>3, Zenon DEF Untouched
    <3> QED BY <2>1, <3>1, Zenon DEF CheckedBeforePos
  <2>5. /\ HasStateReference'
        /\ flag' = "complete" => Existence' = "true"
        /\ flag' = "incomplete" => WhenIncomplete' = "true"
    BY <1>1, <1>2, <2>1 DEF HasStateReference, Existence, WhenIncomplete
  <2>6. pos' <= Len(tested') + 1 BY <2>1, <2>3
  <2>7. Progress'
    BY <1>1, <2>1, <2>4, <2>5, <2>6, Zenon DEF Progress
  <2>8. TestedItemsExplainTheResult' /\ Derivation' /\ DerivationIncomplete'
    BY <2>1 DEF TestedItemsExplainTheResult, Derivation, DerivationIncomplete
  <2> QED BY <2>2, <2>7, <2>8 DEF Inv
<1>3. CASE ~(v = "true" /\ HasStateReference)
  <2>1. /\ phase' = "done" /\ pos' = pos /\ tested' = NotEvaluatedItems
        /\ result' = IF v = "true" THEN Overall("true") ELSE v
    BY <1>3 DEF DecideByExistence, SetResult
  <2>2. "true" \in Definite BY DEF Definite, ResultEnumeration
  <2>3. result' \in Definite BY <1>1, <2>1, <2>2, DecisionsAreDefinite
  <2>4. TypeOK' /\ Progress' /\ TestedItemsExplainTheResult'
    BY <1>1, <2>1, <2>3, MarkedResults, EndWithoutStates
  <2>5. StatusTally(NotEvaluatedItems) = StatusTally(tested)
    BY <1>1, MarkedItems, SameItems
  <2>6. /\ Existence' = Existence /\ WhenIncomplete' = WhenIncomplete
        /\ HasStateReference' <=> HasStateReference
    BY <1>1, <2>1, <2>5 DEF Existence, WhenIncomplete, HasStateReference
  <2>7. flag = "complete" => result' = Existence
    BY <2>1 DEF Overall
  <2>8. flag' = "complete" =>
          /\ Existence' # "true" \/ ~HasStateReference'
          /\ result' = Existence'
    BY <1>1, <1>3, <2>6, <2>7
  <2>9. Derivation' BY <2>8, Zenon DEF Derivation
  <2>10. Overall("true")' = Overall("true") BY <1>1 DEF Overall
  <2>11. flag' = "incomplete" =>
           IF WhenIncomplete' # "true" THEN result' = WhenIncomplete'
           ELSE ~HasStateReference' /\ result' = Overall("true")'
    BY <1>1, <1>3, <2>1, <2>6, <2>10
  <2>12. DerivationIncomplete' BY <2>11, Zenon DEF DerivationIncomplete
  <2> QED BY <2>4, <2>9, <2>12 DEF Inv
<1> QED BY <1>2, <1>3

\* The result of one item is filled in.
LEMMA CheckItemStep ==
  ASSUME Inv, CheckItem
  PROVE  Inv'
<1> DEFINE r == ItemResult(tested[pos].item)
<1>1. /\ TypeOK /\ Progress /\ test \in TestElement /\ pos \in DOMAIN tested
      /\ tested \in Seq(TestedItem) /\ phase = "state"
      /\ test.states \subseteq DOMAIN States
      /\ test' = test /\ collected' = collected /\ flag' = flag
      /\ phase' = phase /\ result' = result /\ pos' = pos + 1
      /\ tested' = [tested EXCEPT ![pos].result = r]
  BY DEF Inv, TypeOK, Progress, TestedItem, CheckItem
<1>2. Len(tested) \in Nat /\ DOMAIN tested = 1..Len(tested) BY <1>1
<1>3. tested[pos] \in TestedItem BY <1>1
<1>4. r \in ResultEnumeration
  BY <1>1, <1>3, ItemIsDefinite DEF TestedItem, Definite
<1> HIDE DEF r
<1>5. /\ tested' \in Seq(TestedItem) /\ DOMAIN tested' = DOMAIN tested
      /\ Len(tested') = Len(tested)
      /\ \A i \in DOMAIN tested :
           /\ tested'[i].item = tested[i].item
           /\ tested'[i].result = IF i = pos THEN r ELSE tested[i].result
  BY <1>1, <1>4, UpdatedItem, Zenon
<1>6. /\ pos' \in Nat \ {0} /\ pos' <= Len(tested) + 1
      /\ \A i \in DOMAIN tested : i < pos' <=> i < pos \/ i = pos
  BY <1>1, <1>2
<1>7. TypeOK' BY <1>1, <1>5, <1>6, Zenon DEF TypeOK, TestedItem
<1>8. /\ HasStateReference' /\ StatesFound'
      /\ (flag' = "complete" => Existence' = "true")
      /\ (flag' = "incomplete" => WhenIncomplete' = "true")
      /\ flag' \in {"complete", "incomplete"}
  <2>1. StatusTally(tested') = StatusTally(tested) BY <1>5, SameItems
  <2>2. Existence' = Existence /\ WhenIncomplete' = WhenIncomplete
    BY <1>1, <2>1 DEF Existence, WhenIncomplete
  <2>3. (HasStateReference' <=> HasStateReference) /\ (StatesFound' <=> StatesFound)
    BY <1>1 DEF HasStateReference, StatesFound
  <2>4. StatesFound BY <1>1 DEF StatesFound
  <2> QED BY <1>1, <2>2, <2>3, <2>4, Zenon DEF Progress
<1>10. ASSUME NEW i \in DOMAIN tested
       PROVE  tested'[i].result = IF i < pos' THEN ItemResult(tested[i].item)
                                  ELSE "not evaluated"
  <2>1. tested[i].result = IF i < pos THEN ItemResult(tested[i].item)
                           ELSE "not evaluated"
    BY <1>1, Zenon DEF Progress, CheckedBeforePos
  <2>2. ~(pos < pos) BY <1>1, <1>2
  <2> QED BY <1>5, <1>6, <2>1, <2>2, Zenon DEF r
<1>11. Progress'
  <2>1. \A i \in DOMAIN tested' :
          tested'[i].result = IF i < pos' THEN ItemResult(tested'[i].item)
                              ELSE "not evaluated"
    BY <1>5, <1>10, Zenon
  <2>2. CheckedBeforePos'
    BY <1>1, <2>1 DEF CheckedBeforePos, ItemResult
  <2> QED BY <1>1, <1>5, <1>6, <1>8, <2>2, Zenon DEF Progress
<1>12. TestedItemsExplainTheResult' /\ Derivation' /\ DerivationIncomplete'
  BY <1>1 DEF TestedItemsExplainTheResult, Derivation, DerivationIncomplete
<1> QED BY <1>7, <1>11, <1>12 DEF Inv

\* A state that is not in the document ends the check before it began.
LEMMA StateMissingStep ==
  ASSUME Inv, StateMissing
  PROVE  Inv'
<1>1. /\ TypeOK /\ Progress /\ test \in TestElement
      /\ tested \in Seq(TestedItem) /\ phase = "state" /\ ~StatesFound
      /\ test' = test /\ collected' = collected /\ flag' = flag /\ pos' = pos
      /\ tested' = tested /\ phase' = "done" /\ result' = Overall("error")
  BY DEF Inv, TypeOK, TestedItem, StateMissing, SetResult, StatesFound
<1>2. result' \in Definite
  <2>1. "error" \in Definite BY DEF Definite, ResultEnumeration
  <2> QED BY <1>1, <2>1, DecisionsAreDefinite
<1>3. Untouched'
  <2>1. pos = 1 BY <1>1, Zenon DEF Progress
  <2>2. \A i \in DOMAIN tested : ~(i < 1)
    <3>1. DOMAIN tested = 1..Len(tested) BY <1>1
    <3> QED BY <3>1
  <2>3. Untouched
    BY <1>1, <2>1, <2>2, Zenon DEF Progress, CheckedBeforePos, Untouched
  <2> QED BY <1>1, <2>3 DEF Untouched
<1>4. TypeOK' /\ Progress' /\ TestedItemsExplainTheResult'
  BY <1>1, <1>2, <1>3, EndWithoutStates
<1>5. Derivation'
  <2>1. flag = "complete" => Existence = "true" /\ HasStateReference
    BY <1>1, Zenon DEF Progress
  <2>2. Existence' = Existence /\ (HasStateReference' <=> HasStateReference)
        /\ ~StatesFound'
    BY <1>1 DEF Existence, HasStateReference, StatesFound
  <2>3. flag = "complete" => result' = "error" BY <1>1 DEF Overall
  <2> QED BY <1>1, <2>1, <2>2, <2>3, Zenon DEF Derivation
<1>6. DerivationIncomplete'
  <2>1. flag = "incomplete" => WhenIncomplete = "true" /\ HasStateReference
    BY <1>1, Zenon DEF Progress
  <2>2. /\ WhenIncomplete' = WhenIncomplete /\ ~StatesFound'
        /\ HasStateReference' <=> HasStateReference
    BY <1>1 DEF WhenIncomplete, HasStateReference, StatesFound
  <2>3. flag = "incomplete" => result' = "unknown" BY <1>1 DEF Overall
  <2> QED BY <1>1, <2>1, <2>2, <2>3, Zenon DEF DerivationIncomplete
<1> QED BY <1>4, <1>5, <1>6 DEF Inv

\* check combines the results of all the items.
LEMMA ItemsCheckedStep ==
  ASSUME Inv, ItemsChecked
  PROVE  Inv'
<1> DEFINE r == CombineResultsByCheck(TestedTally(tested), test.check)
<1>1. /\ TypeOK /\ Progress /\ test \in TestElement
      /\ tested \in Seq(TestedItem) /\ phase = "state" /\ pos \notin DOMAIN tested
      /\ test' = test /\ collected' = collected /\ flag' = flag /\ pos' = pos
      /\ tested' = tested /\ phase' = "done" /\ result' = Overall(r)
      /\ test.check \in CheckEnumeration
  BY DEF Inv, TypeOK, TestedItem, ItemsChecked, SetResult
<1>2. \A i \in DOMAIN tested : i < pos
  <2>1. /\ Len(tested) \in Nat /\ DOMAIN tested = 1..Len(tested) /\ pos \in Nat \ {0}
    <3>1. pos \in Nat \ {0} BY <1>1, Zenon DEF TypeOK
    <3> QED BY <1>1, <3>1
  <2>2. pos \notin 1..Len(tested) BY <1>1, <2>1
  <2> QED BY <2>1, <2>2
<1>3. tested = << >> \/ StatesFound
  <2>1. CASE StatesFound BY <2>1
  <2>2. CASE ~StatesFound
    <3>1. pos = 1 BY <1>1, <2>2, Zenon DEF Progress
    <3>2. 1 \notin DOMAIN tested BY <1>1, <3>1
    <3>3. \A S : \A s \in Seq(S) : 1 \notin DOMAIN s => s = << >>
      BY EmptySequence
    <3> QED BY <1>1, <3>2, <3>3, Zenon
  <2> QED BY <2>1, <2>2
<1>4. \A i \in DOMAIN tested : tested[i].result = ItemResult(tested[i].item)
  BY <1>1, <1>2, Zenon DEF Progress, CheckedBeforePos
<1>5. \A i \in DOMAIN tested : tested[i].result \in Definite
  <2>1. \A i \in DOMAIN tested : tested[i].item \in DOMAIN Status
    <3>1. \A i \in DOMAIN tested : tested[i] \in TestedItem BY <1>1
    <3>2. \A e \in TestedItem : e.item \in DOMAIN Status BY DEF TestedItem
    <3> QED BY <3>1, <3>2, Zenon
  <2>2. ASSUME NEW i \in DOMAIN tested
        PROVE  tested[i].result \in Definite
    <3>1. tested # << >> BY <1>1
    <3>2. test.states \subseteq DOMAIN States BY <1>3, <3>1 DEF StatesFound
    <3> QED BY <1>1, <1>4, <2>1, <3>2, ItemIsDefinite
  <2> QED BY <2>2
<1>6. r \in Definite
  <2> DEFINE results == [i \in DOMAIN tested |-> tested[i].result]
  <2>1. \A i \in DOMAIN results : results[i] # "not evaluated"
    BY <1>5 DEF Definite
  <2>2. ~(ResultTally(results)["not evaluated"] > 0)
    BY <2>1, TallyOfAbsent DEF ResultEnumeration
  <2> QED BY <1>1, <2>2, CheckIsDefinite DEF TestedTally
<1>7. result' \in Definite BY <1>1, <1>6, DecisionsAreDefinite
<1>8. TypeOK' BY <1>1, <1>7 DEF TypeOK, Phase, Definite
<1>9. Progress' BY <1>1 DEF Progress
<1>10. flag = "complete" => result' = r BY <1>1 DEF Overall
<1>11. TestedItemsExplainTheResult'
  <2>1. \/ result' = r
        \/ result' = "unknown" /\ flag = "incomplete"
    BY <1>1 DEF Overall, Progress
  <2> QED BY <1>1, <2>1 DEF TestedItemsExplainTheResult
<1>12. Derivation'
  <2>1. flag = "complete" => Existence = "true" /\ HasStateReference
    BY <1>1, Zenon DEF Progress
  <2>2. Existence' = Existence /\ (HasStateReference' <=> HasStateReference)
        /\ (StatesFound' <=> StatesFound)
    BY <1>1 DEF Existence, HasStateReference, StatesFound
  <2>3. \A i \in DOMAIN tested' :
          tested'[i].result = ItemResult(tested'[i].item)
    BY <1>1, <1>4
  <2>4. (\A i \in DOMAIN tested :
           tested[i].result = ItemResult(tested[i].item))'
    BY <1>1, <2>3 DEF ItemResult
  <2>5. r' = r BY <1>1
  <2> QED BY <1>1, <1>3, <1>10, <2>1, <2>2, <2>4, <2>5, Zenon DEF Derivation
<1>13. DerivationIncomplete'
  <2>1. flag = "incomplete" => WhenIncomplete = "true" /\ HasStateReference
    BY <1>1, Zenon DEF Progress
  <2>2. /\ WhenIncomplete' = WhenIncomplete
        /\ HasStateReference' <=> HasStateReference
        /\ StatesFound' <=> StatesFound
    BY <1>1 DEF WhenIncomplete, HasStateReference, StatesFound
  <2>3. \A i \in DOMAIN tested' :
          tested'[i].result = ItemResult(tested'[i].item)
    BY <1>1, <1>4
  <2>4. (\A i \in DOMAIN tested :
           tested[i].result = ItemResult(tested[i].item))'
    BY <1>1, <2>3 DEF ItemResult
  <2>5. result' = Overall(CombineResultsByCheck(TestedTally(tested), test.check))'
    BY <1>1 DEF Overall
  <2>6. ~StatesFound /\ flag = "incomplete" => result' = "unknown"
    <3> SUFFICES ASSUME ~StatesFound, flag = "incomplete"
                 PROVE  result' = "unknown"
      OBVIOUS
    <3>1. tested = << >> BY <1>3
    <3>2. Empty(TestedTally(tested))
      <4>1. \A v : {i \in DOMAIN << >> : << >>[i].result = v} = {} OBVIOUS
      <4>2. \A v \in ResultEnumeration : TestedTally(tested)[v] = 0
        BY <3>1, <4>1, FS_EmptySet DEF TestedTally, ResultTally, Tally
      <4>3. DOMAIN TestedTally(tested) = ResultEnumeration
        BY DEF TestedTally, ResultTally, Tally
      <4> QED BY <4>2, <4>3, Zenon DEF Empty
    <3>3. r = "unknown" BY <3>2 DEF CombineResultsByCheck
    <3> QED BY <1>1, <3>3 DEF Overall
  <2> QED BY <1>1, <2>1, <2>2, <2>4, <2>5, <2>6, Zenon DEF DerivationIncomplete
<1> QED BY <1>8, <1>9, <1>11, <1>12, <1>13 DEF Inv

\* Every step of Test::Analyze keeps the invariant.
LEMMA Preserved == Inv /\ [Next]_vars => Inv'
<1> SUFFICES ASSUME Inv, [Next]_vars PROVE Inv' OBVIOUS
<1>1. TypeOK /\ collected \in CollectedObject
  BY TestAssumption DEF Inv, TypeOK
<1>2. CASE NoObject \/ DecideWithoutItems \/ DecideWithoutMatch
  BY <1>2, NoItemsStep
<1>3. CASE GatherReference
  BY <1>3, GatherStep DEF GatherReference, Gathering
<1>4. CASE GatherCandidate
  <2>1. collected.refs[pos] \in DOMAIN Status
    BY <1>1, <1>4, TestAssumption DEF GatherCandidate, Gathering, TypeOK
  <2>2. tested' = tested \/ AppendTestedItem(collected.refs[pos])
    BY <1>4 DEF GatherCandidate
  <2> QED BY <1>4, <2>1, <2>2, GatherStep DEF GatherCandidate, Gathering
<1>5. CASE GatherThrows
  BY <1>5, GatherStep DEF GatherThrows, Gathering
<1>6. CASE Gathered
  BY <1>6, GatheredStep
<1>7. CASE DecideIncomplete
  <2>1. ExistenceWhenIncomplete(StatusTally(tested), test.existence) \in Definite
    BY <1>1, DecisionsAreDefinite DEF TypeOK
  <2> QED BY <1>7, <2>1, DecideStep DEF DecideIncomplete, WhenIncomplete
<1>8. CASE DecideComplete
  <2>1. Existence \in Definite
    BY <1>1, DecisionsAreDefinite DEF TypeOK, Existence
  <2> QED BY <1>8, <2>1, DecideStep DEF DecideComplete, Existence
<1>9. CASE CheckItem
  BY <1>9, CheckItemStep
<1>10. CASE StateMissing
  BY <1>10, StateMissingStep
<1>11. CASE ItemsChecked
  BY <1>11, ItemsCheckedStep
<1>12. CASE UNCHANGED vars
  BY <1>12 DEF vars, Inv, TypeOK, Progress, Untouched, CheckedBeforePos,
     HasStateReference, StatesFound, Existence, WhenIncomplete, ItemResult,
     Derivation, DerivationIncomplete, Overall, TestedItemsExplainTheResult
<1> QED
  BY <1>2, <1>3, <1>4, <1>5, <1>6, <1>7, <1>8, <1>9, <1>10, <1>11, <1>12
     DEF Next, Analyze, Analyzed

\* Spec keeps the invariant.
THEOREM Invariance == Spec => []Inv
<1>1. Init => Inv BY Initially
<1>2. Inv /\ [Next]_vars => Inv' BY Preserved
<1> QED BY <1>1, <1>2, PTL DEF Spec

\* A test is never left without a result and never "not evaluated", however
\* many items and states it has (Test::Analyze).
THEOREM TypeCorrect == Spec => []TypeOK
<1>1. Inv => TypeOK BY DEF Inv
<1> QED BY <1>1, Invariance, PTL

\* The results of the tested items that are written to the results document
\* account for the result of the test.
THEOREM ItemsExplainTests == Spec => []TestedItemsExplainTheResult
<1>1. Inv => TestedItemsExplainTheResult BY DEF Inv
<1> QED BY <1>1, Invariance, PTL

-----------------------------------------------------------------------------
(***************************************************************************)
(* check_existence and its charts.                                         *)
(***************************************************************************)
StatusCounts == [SCStatus -> Nat]

\* What the patterns of the existence charts say of a count.
LEMMA CellMeaning ==
  ASSUME NEW n \in Nat
  PROVE  /\ Cell("0", n) <=> n = 0
         /\ Cell("1", n) <=> n = 1
         /\ Cell("0,1", n) <=> n < 2
         /\ Cell("0+", n)
         /\ Cell("1+", n) <=> n > 0
         /\ Cell("2+", n) <=> n > 1
<1>1. Cell("0", n) <=> n = 0 BY DEF Cell
<1>2. Cell("1", n) <=> n = 1 BY DEF Cell
<1>3. Cell("0,1", n) <=> n < 2 BY DEF Cell
<1>4. Cell("0+", n) BY DEF Cell
<1>5. Cell("1+", n) <=> n > 0 BY DEF Cell
<1>6. Cell("2+", n) <=> n > 1 BY DEF Cell
<1> QED BY <1>1, <1>2, <1>3, <1>4, <1>5, <1>6

\* The columns of a chart of item statuses.
LEMMA FourColumns ==
  /\ DOMAIN StatusColumns = 1..4 /\ Len(StatusColumns) + 1 = 5
  /\ StatusColumns[1] = "exists" /\ StatusColumns[2] = "does not exist"
  /\ StatusColumns[3] = "error" /\ StatusColumns[4] = "not collected"
<1>1. Len(StatusColumns) = 4 BY DEF StatusColumns
<1>2. DOMAIN StatusColumns = 1..4 BY DEF StatusColumns
<1> QED BY <1>1, <1>2 DEF StatusColumns

\* A row of a chart of item statuses, cell by cell.
LEMMA StatusRow ==
  \A c, p1, p2, p3, p4, r :
    Matches(<<p1, p2, p3, p4, r>>, StatusColumns, c) <=>
      /\ Cell(p1, c["exists"]) /\ Cell(p2, c["does not exist"])
      /\ Cell(p3, c["error"]) /\ Cell(p4, c["not collected"])
<1> TAKE c, p1, p2, p3, p4, r
<1> DEFINE row == <<p1, p2, p3, p4, r>>
<1>1. /\ row[1] = p1 /\ row[2] = p2 /\ row[3] = p3 /\ row[4] = p4
  OBVIOUS
<1>2. \A i \in 1..4 : i = 1 \/ i = 2 \/ i = 3 \/ i = 4 OBVIOUS
<1>3. 1 \in 1..4 /\ 2 \in 1..4 /\ 3 \in 1..4 /\ 4 \in 1..4 OBVIOUS
<1> HIDE DEF row
<1>4. Matches(row, StatusColumns, c) <=>
        /\ Cell(p1, c["exists"]) /\ Cell(p2, c["does not exist"])
        /\ Cell(p3, c["error"]) /\ Cell(p4, c["not collected"])
  BY <1>1, <1>2, <1>3, FourColumns, Zenon DEF Matches
<1> QED BY <1>4 DEF row

\* The chart of check_existence="all_exist" as conditions on the counts.
LEMMA AllExistChart ==
  ASSUME NEW c \in StatusCounts, NEW r
  PROVE  LET x == c["exists"]    d == c["does not exist"]
             e == c["error"]     n == c["not collected"]
         IN  r \in ChartResults(ExistenceChart("all_exist"), StatusColumns, c) <=>
               \/ x > 0 /\ d = 0 /\ e = 0 /\ n = 0 /\ r = "true"
               \/ x = 0 /\ d = 0 /\ e = 0 /\ n = 0 /\ r = "false"
               \/ d > 0 /\ r = "false"
               \/ d = 0 /\ e > 0 /\ r = "error"
               \/ d = 0 /\ e = 0 /\ n > 0 /\ r = "unknown"
<1> DEFINE x == c["exists"]    d == c["does not exist"]
           e == c["error"]     n == c["not collected"]
           row1 == <<"1+", "0", "0", "0", "true">>
           row2 == <<"0", "0", "0", "0", "false">>
           row3 == <<"0+", "1+", "0+", "0+", "false">>
           row4 == <<"0+", "0", "1+", "0+", "error">>
           row5 == <<"0+", "0", "0", "1+", "unknown">>
<1>1. x \in Nat /\ d \in Nat /\ e \in Nat /\ n \in Nat
  BY DEF StatusCounts, SCStatus
<1>2. /\ Matches(row1, StatusColumns, c) <=> x > 0 /\ d = 0 /\ e = 0 /\ n = 0
      /\ Matches(row2, StatusColumns, c) <=> x = 0 /\ d = 0 /\ e = 0 /\ n = 0
      /\ Matches(row3, StatusColumns, c) <=> d > 0
      /\ Matches(row4, StatusColumns, c) <=> d = 0 /\ e > 0
      /\ Matches(row5, StatusColumns, c) <=> d = 0 /\ e = 0 /\ n > 0
  BY <1>1, StatusRow, CellMeaning, Zenon
<1>3. row1[5] = "true" /\ row2[5] = "false" /\ row3[5] = "false"
      /\ row4[5] = "error" /\ row5[5] = "unknown"
  OBVIOUS
<1>4. ExistenceChart("all_exist") = {row1, row2, row3, row4, row5}
  BY DEF ExistenceChart
<1> HIDE DEF row1, row2, row3, row4, row5
<1> QED BY <1>2, <1>3, <1>4, FourColumns, Zenon DEF ChartResults

\* The chart of check_existence="any_exist" as conditions on the counts.
LEMMA AnyExistChart ==
  ASSUME NEW c \in StatusCounts, NEW r
  PROVE  LET x == c["exists"]    d == c["does not exist"]
             e == c["error"]     n == c["not collected"]
         IN  r \in ChartResults(ExistenceChart("any_exist"), StatusColumns, c) <=>
               \/ e = 0 /\ r = "true"
               \/ x > 0 /\ e > 0 /\ r = "true"
               \/ x = 0 /\ e > 0 /\ r = "error"
<1> DEFINE x == c["exists"]    d == c["does not exist"]
           e == c["error"]     n == c["not collected"]
           row1 == <<"0+", "0+", "0", "0+", "true">>
           row2 == <<"1+", "0+", "1+", "0+", "true">>
           row3 == <<"0", "0+", "1+", "0+", "error">>
<1>1. x \in Nat /\ d \in Nat /\ e \in Nat /\ n \in Nat
  BY DEF StatusCounts, SCStatus
<1>2. /\ Matches(row1, StatusColumns, c) <=> e = 0
      /\ Matches(row2, StatusColumns, c) <=> x > 0 /\ e > 0
      /\ Matches(row3, StatusColumns, c) <=> x = 0 /\ e > 0
  BY <1>1, StatusRow, CellMeaning, Zenon
<1>3. row1[5] = "true" /\ row2[5] = "true" /\ row3[5] = "error"
  OBVIOUS
<1>4. ExistenceChart("any_exist") = {row1, row2, row3}
  BY DEF ExistenceChart
<1> HIDE DEF row1, row2, row3
<1> QED BY <1>2, <1>3, <1>4, FourColumns, Zenon DEF ChartResults

\* The chart of check_existence="at_least_one_exists" as conditions on the counts.
LEMMA AtLeastOneChart ==
  ASSUME NEW c \in StatusCounts, NEW r
  PROVE  LET x == c["exists"]    d == c["does not exist"]
             e == c["error"]     n == c["not collected"]
         IN  r \in ChartResults(ExistenceChart("at_least_one_exists"), StatusColumns, c) <=>
               \/ x > 0 /\ r = "true"
               \/ x = 0 /\ d > 0 /\ e = 0 /\ n = 0 /\ r = "false"
               \/ x = 0 /\ e > 0 /\ r = "error"
               \/ x = 0 /\ e = 0 /\ n > 0 /\ r = "unknown"
<1> DEFINE x == c["exists"]    d == c["does not exist"]
           e == c["error"]     n == c["not collected"]
           row1 == <<"1+", "0+", "0+", "0+", "true">>
           row2 == <<"0", "1+", "0", "0", "false">>
           row3 == <<"0", "0+", "1+", "0+", "error">>
           row4 == <<"0", "0+", "0", "1+", "unknown">>
<1>1. x \in Nat /\ d \in Nat /\ e \in Nat /\ n \in Nat
  BY DEF StatusCounts, SCStatus
<1>2. /\ Matches(row1, StatusColumns, c) <=> x > 0
      /\ Matches(row2, StatusColumns, c) <=> x = 0 /\ d > 0 /\ e = 0 /\ n = 0
      /\ Matches(row3, StatusColumns, c) <=> x = 0 /\ e > 0
      /\ Matches(row4, StatusColumns, c) <=> x = 0 /\ e = 0 /\ n > 0
  BY <1>1, StatusRow, CellMeaning, Zenon
<1>3. row1[5] = "true" /\ row2[5] = "false" /\ row3[5] = "error"
      /\ row4[5] = "unknown"
  OBVIOUS
<1>4. ExistenceChart("at_least_one_exists") = {row1, row2, row3, row4}
  BY DEF ExistenceChart
<1> HIDE DEF row1, row2, row3, row4
<1> QED BY <1>2, <1>3, <1>4, FourColumns, Zenon DEF ChartResults

\* The chart of check_existence="none_exist" as conditions on the counts.
LEMMA NoneExistChart ==
  ASSUME NEW c \in StatusCounts, NEW r
  PROVE  LET x == c["exists"]    d == c["does not exist"]
             e == c["error"]     n == c["not collected"]
         IN  r \in ChartResults(ExistenceChart("none_exist"), StatusColumns, c) <=>
               \/ x = 0 /\ e = 0 /\ n = 0 /\ r = "true"
               \/ x > 0 /\ r = "false"
               \/ x = 0 /\ e > 0 /\ r = "error"
               \/ x = 0 /\ e = 0 /\ n > 0 /\ r = "unknown"
<1> DEFINE x == c["exists"]    d == c["does not exist"]
           e == c["error"]     n == c["not collected"]
           row1 == <<"0", "0+", "0", "0", "true">>
           row2 == <<"1+", "0+", "0+", "0+", "false">>
           row3 == <<"0", "0+", "1+", "0+", "error">>
           row4 == <<"0", "0+", "0", "1+", "unknown">>
<1>1. x \in Nat /\ d \in Nat /\ e \in Nat /\ n \in Nat
  BY DEF StatusCounts, SCStatus
<1>2. /\ Matches(row1, StatusColumns, c) <=> x = 0 /\ e = 0 /\ n = 0
      /\ Matches(row2, StatusColumns, c) <=> x > 0
      /\ Matches(row3, StatusColumns, c) <=> x = 0 /\ e > 0
      /\ Matches(row4, StatusColumns, c) <=> x = 0 /\ e = 0 /\ n > 0
  BY <1>1, StatusRow, CellMeaning, Zenon
<1>3. row1[5] = "true" /\ row2[5] = "false" /\ row3[5] = "error"
      /\ row4[5] = "unknown"
  OBVIOUS
<1>4. ExistenceChart("none_exist") = {row1, row2, row3, row4}
  BY DEF ExistenceChart
<1> HIDE DEF row1, row2, row3, row4
<1> QED BY <1>2, <1>3, <1>4, FourColumns, Zenon DEF ChartResults

\* The chart of check_existence="only_one_exists" as conditions on the counts.
LEMMA OnlyOneChart ==
  ASSUME NEW c \in StatusCounts, NEW r
  PROVE  LET x == c["exists"]    d == c["does not exist"]
             e == c["error"]     n == c["not collected"]
         IN  r \in ChartResults(ExistenceChart("only_one_exists"), StatusColumns, c) <=>
               \/ x = 1 /\ e = 0 /\ n = 0 /\ r = "true"
               \/ x > 1 /\ r = "false"
               \/ x = 0 /\ e = 0 /\ n = 0 /\ r = "false"
               \/ x < 2 /\ e > 0 /\ r = "error"
               \/ x < 2 /\ e = 0 /\ n > 0 /\ r = "unknown"
<1> DEFINE x == c["exists"]    d == c["does not exist"]
           e == c["error"]     n == c["not collected"]
           row1 == <<"1", "0+", "0", "0", "true">>
           row2 == <<"2+", "0+", "0+", "0+", "false">>
           row3 == <<"0", "0+", "0", "0", "false">>
           row4 == <<"0,1", "0+", "1+", "0+", "error">>
           row5 == <<"0,1", "0+", "0", "1+", "unknown">>
<1>1. x \in Nat /\ d \in Nat /\ e \in Nat /\ n \in Nat
  BY DEF StatusCounts, SCStatus
<1>2. /\ Matches(row1, StatusColumns, c) <=> x = 1 /\ e = 0 /\ n = 0
      /\ Matches(row2, StatusColumns, c) <=> x > 1
      /\ Matches(row3, StatusColumns, c) <=> x = 0 /\ e = 0 /\ n = 0
      /\ Matches(row4, StatusColumns, c) <=> x < 2 /\ e > 0
      /\ Matches(row5, StatusColumns, c) <=> x < 2 /\ e = 0 /\ n > 0
  BY <1>1, StatusRow, CellMeaning, Zenon
<1>3. row1[5] = "true" /\ row2[5] = "false" /\ row3[5] = "false"
      /\ row4[5] = "error" /\ row5[5] = "unknown"
  OBVIOUS
<1>4. ExistenceChart("only_one_exists") = {row1, row2, row3, row4, row5}
  BY DEF ExistenceChart
<1> HIDE DEF row1, row2, row3, row4, row5
<1> QED BY <1>2, <1>3, <1>4, FourColumns, Zenon DEF ChartResults

\* EvaluateCheckExistence returns what the schema's chart for check_existence
\* gives, and true only where the chart gives nothing else.  An object without
\* items has no row in the chart of at_least_one_exists.
LEMMA ExistenceMeetsItsChart ==
  ASSUME NEW c \in StatusCounts, \E v \in SCStatus : c[v] > 0,
         NEW existence \in ExistenceEnumeration
  PROVE  LET given == EvaluateCheckExistence(c, existence)
             chart == ChartResults(ExistenceChart(existence), StatusColumns, c)
         IN  given \in chart /\ (given = "true" => chart = {"true"})
<1> DEFINE x == c["exists"]    d == c["does not exist"]
           e == c["error"]     n == c["not collected"]
           given(k) == EvaluateCheckExistence(c, k)
           InChart(k, r) ==
             r \in ChartResults(ExistenceChart(k), StatusColumns, c)
<1>1. /\ x \in Nat /\ d \in Nat /\ e \in Nat /\ n \in Nat
      /\ x > 0 \/ d > 0 \/ e > 0 \/ n > 0
  BY DEF StatusCounts, SCStatus
<1>2. /\ given("all_exist") =
           IF d > 0 THEN "false"
           ELSE IF ~(e = 0 /\ n = 0) THEN IF e > 0 THEN "error" ELSE "unknown"
           ELSE IF x > 0 THEN "true" ELSE "false"
      /\ given("any_exist") = IF e = 0 \/ x > 0 THEN "true" ELSE "error"
      /\ given("at_least_one_exists") =
           IF x > 0 THEN "true"
           ELSE IF ~(e = 0 /\ n = 0) THEN IF e > 0 THEN "error" ELSE "unknown"
           ELSE IF d > 0 THEN "false" ELSE "error"
      /\ given("none_exist") =
           IF x > 0 THEN "false"
           ELSE IF e = 0 /\ n = 0 THEN "true"
           ELSE IF e > 0 THEN "error" ELSE "unknown"
      /\ given("only_one_exists") =
           IF x > 1 THEN "false"
           ELSE IF ~(e = 0 /\ n = 0) THEN IF e > 0 THEN "error" ELSE "unknown"
           ELSE IF x = 1 THEN "true" ELSE "false"
  BY DEF EvaluateCheckExistence
<1>3. \A r : InChart("all_exist", r) <=>
        \/ x > 0 /\ d = 0 /\ e = 0 /\ n = 0 /\ r = "true"
        \/ x = 0 /\ d = 0 /\ e = 0 /\ n = 0 /\ r = "false"
        \/ d > 0 /\ r = "false"
        \/ d = 0 /\ e > 0 /\ r = "error"
        \/ d = 0 /\ e = 0 /\ n > 0 /\ r = "unknown"
  BY AllExistChart, Zenon
<1>4. \A r : InChart("any_exist", r) <=>
        \/ e = 0 /\ r = "true"
        \/ x > 0 /\ e > 0 /\ r = "true"
        \/ x = 0 /\ e > 0 /\ r = "error"
  BY AnyExistChart, Zenon
<1>5. \A r : InChart("at_least_one_exists", r) <=>
        \/ x > 0 /\ r = "true"
        \/ x = 0 /\ d > 0 /\ e = 0 /\ n = 0 /\ r = "false"
        \/ x = 0 /\ e > 0 /\ r = "error"
        \/ x = 0 /\ e = 0 /\ n > 0 /\ r = "unknown"
  BY AtLeastOneChart, Zenon
<1>6. \A r : InChart("none_exist", r) <=>
        \/ x = 0 /\ e = 0 /\ n = 0 /\ r = "true"
        \/ x > 0 /\ r = "false"
        \/ x = 0 /\ e > 0 /\ r = "error"
        \/ x = 0 /\ e = 0 /\ n > 0 /\ r = "unknown"
  BY NoneExistChart, Zenon
<1>7. \A r : InChart("only_one_exists", r) <=>
        \/ x = 1 /\ e = 0 /\ n = 0 /\ r = "true"
        \/ x > 1 /\ r = "false"
        \/ x = 0 /\ e = 0 /\ n = 0 /\ r = "false"
        \/ x < 2 /\ e > 0 /\ r = "error"
        \/ x < 2 /\ e = 0 /\ n > 0 /\ r = "unknown"
  BY OnlyOneChart, Zenon
<1> DEFINE Agrees(k) == /\ InChart(k, given(k))
                        /\ \A r : given(k) = "true" /\ InChart(k, r) => r = "true"
<1> HIDE DEF x, d, e, n, given, InChart
<1>8. Agrees("all_exist") BY <1>1, <1>2, <1>3
<1>9. Agrees("any_exist") BY <1>1, <1>2, <1>4
<1>10. Agrees("at_least_one_exists") BY <1>1, <1>2, <1>5
<1>11. Agrees("none_exist") BY <1>1, <1>2, <1>6
<1>12. Agrees("only_one_exists") BY <1>1, <1>2, <1>7
<1> HIDE DEF Agrees
<1>13. Agrees(existence)
  BY <1>8, <1>9, <1>10, <1>11, <1>12 DEF ExistenceEnumeration
<1> QED BY <1>13 DEF Agrees, InChart, given

-----------------------------------------------------------------------------
(***************************************************************************)
(* A complete object.                                                      *)
(***************************************************************************)
\* The results of finitely many states are a tally that is not empty.
LEMMA CountsOfStates ==
  ASSUME NEW s, IsFiniteSet(DOMAIN s), DOMAIN s # {},
         \A i \in DOMAIN s : s[i] \in ResultEnumeration
  PROVE  ResultTally(s) \in Counts
<1> DEFINE places(v) == {i \in DOMAIN s : s[i] = v}
<1>1. \A v : IsFiniteSet(places(v)) BY FS_Subset
<1>2. \A v : Cardinality(places(v)) \in Nat BY <1>1, FS_CardinalityType
<1>3. ResultTally(s) = [v \in ResultEnumeration |-> Cardinality(places(v))]
  BY DEF ResultTally, Tally
<1>4. ResultTally(s) \in [ResultEnumeration -> Nat] BY <1>2, <1>3
<1>5. PICK i \in DOMAIN s : TRUE OBVIOUS
<1>6. places(s[i]) # {} BY <1>5
<1>7. Cardinality(places(s[i])) # 0 BY <1>1, <1>6, FS_EmptySet
<1>8. s[i] \in DOMAIN ResultTally(s) /\ ResultTally(s)[s[i]] # 0
  BY <1>3, <1>7
<1>9. ~Empty(ResultTally(s)) BY <1>8 DEF Empty
<1> QED BY <1>4, <1>9 DEF Counts

\* The statuses of the items of a list that is not empty.
LEMMA CountsOfItems ==
  ASSUME TypeOK, tested # << >>
  PROVE  /\ StatusTally(tested) \in StatusCounts
         /\ \E v \in SCStatus : StatusTally(tested)[v] > 0
<1> DEFINE statuses == [i \in DOMAIN tested |-> Status[tested[i].item]]
           places(v) == {i \in DOMAIN tested : statuses[i] = v}
<1>1. tested \in Seq(TestedItem) BY DEF TypeOK, TestedItem
<1>2. DOMAIN tested = 1..Len(tested) /\ Len(tested) \in Nat BY <1>1
<1>3. IsFiniteSet(DOMAIN tested) BY <1>2, FS_Interval
<1>4. \A v : IsFiniteSet(places(v)) BY <1>3, FS_Subset
<1>5. \A v : Cardinality(places(v)) \in Nat BY <1>4, FS_CardinalityType
<1>6. StatusTally(tested) = [v \in SCStatus |-> Cardinality(places(v))]
  BY DEF StatusTally, Tally
<1>7. 1 \in DOMAIN tested BY <1>1
<1>8. tested[1].item \in DOMAIN Status
  <2>1. tested[1] \in TestedItem BY <1>1, <1>7
  <2> QED BY <2>1 DEF TestedItem
<1>9. statuses[1] \in SCStatus BY <1>7, <1>8, TestAssumption
<1>10. places(statuses[1]) # {} BY <1>7
<1>11. Cardinality(places(statuses[1])) # 0 BY <1>4, <1>10, FS_EmptySet
<1>12. \A k \in Nat : k # 0 => k > 0 OBVIOUS
<1> HIDE DEF places, statuses
<1>13. StatusTally(tested)[statuses[1]] > 0
  BY <1>5, <1>6, <1>9, <1>11, <1>12
<1> QED BY <1>5, <1>6, <1>9, <1>13 DEF StatusCounts

\* Results combined by state_operator and by check are those of the charts.
LEMMA ItemMeetsItsChart ==
  ASSUME Inv, StatesFound, HasStateReference, NEW item \in DOMAIN Status
  PROVE  ItemResult(item) \in
           ChartResults(OperatorChart(test.stateOperator), ResultColumns,
             ResultTally([s \in test.states |-> StateResult(item, s)]))
<1> DEFINE results == [s \in test.states |-> StateResult(item, s)]
<1>1. /\ IsFiniteSet(test.states) /\ test.states # {}
      /\ test.states \subseteq DOMAIN States
      /\ test.stateOperator \in OperatorEnumeration
  BY DEF Inv, Progress, HasStateReference, StatesFound, TypeOK, TestElement
<1>2. /\ IsFiniteSet(DOMAIN results) /\ DOMAIN results # {}
      /\ \A s \in DOMAIN results : results[s] \in ResultEnumeration
  BY <1>1, StateIsDefinite DEF Definite
<1>3. ItemResult(item) =
        CombineResultsByOperator(ResultTally(results), test.stateOperator)
  BY DEF ItemResult
<1> HIDE DEF results
<1>4. ResultTally(results) \in Counts BY <1>2, CountsOfStates
<1>5. ItemResult(item) \in
        ChartResults(OperatorChart(test.stateOperator), ResultColumns,
                     ResultTally(results))
  BY <1>1, <1>3, <1>4, OperatorsMeetTheirCharts
<1> QED BY <1>5 DEF results

\* What the schema says of a test whose object was collected completely is what
\* Test::Analyze returns, for any number of items, states and entities.
THEOREM CompleteTestsMeetTheSchema == Spec => []CompleteFollowsTheSchema
<1>1. ASSUME Inv PROVE CompleteFollowsTheSchema
  <2> DEFINE chart == ChartResults(ExistenceChart(test.existence),
                                   StatusColumns, StatusTally(tested))
             Combined(i) ==
               ChartResults(OperatorChart(test.stateOperator), ResultColumns,
                 ResultTally([s \in test.states |-> StateResult(tested[i].item, s)]))
             byCheck == ChartResults(CheckChart(test.check), ResultColumns,
                                     TestedTally(tested))
  <2> SUFFICES ASSUME phase = "done", test.object, flag = "complete",
                      tested # << >>
               PROVE  IF chart # {"true"} \/ ~HasStateReference THEN result \in chart
                      ELSE IF ~StatesFound THEN result = "error"
                      ELSE /\ \A i \in DOMAIN tested : tested[i].result \in Combined(i)
                           /\ result \in byCheck
    BY Zenon DEF CompleteFollowsTheSchema
  <2>1. /\ TypeOK /\ Derivation /\ tested \in Seq(TestedItem)
        /\ test.existence \in ExistenceEnumeration
        /\ test.check \in CheckEnumeration
    BY <1>1 DEF Inv, TypeOK, TestElement, TestedItem
  <2>2. Existence \in chart /\ (Existence = "true" => chart = {"true"})
    BY <2>1, CountsOfItems, ExistenceMeetsItsChart, Zenon DEF Existence
  <2>3. IF Existence # "true" \/ ~HasStateReference THEN result = Existence
        ELSE IF ~StatesFound THEN result = "error"
        ELSE /\ \A i \in DOMAIN tested :
                  tested[i].result = ItemResult(tested[i].item)
             /\ result = CombineResultsByCheck(TestedTally(tested), test.check)
    BY <2>1, Zenon DEF Derivation
  <2>4. \A i \in DOMAIN tested :
          tested[i] \in TestedItem /\ tested[i].item \in DOMAIN Status
    <3>1. \A i \in DOMAIN tested : tested[i] \in TestedItem BY <2>1
    <3>2. \A e \in TestedItem : e.item \in DOMAIN Status BY DEF TestedItem
    <3> QED BY <3>1, <3>2, Zenon
  <2>5. StatesFound /\ HasStateReference =>
          \A i \in DOMAIN tested : ItemResult(tested[i].item) \in Combined(i)
    BY <1>1, <2>4, ItemMeetsItsChart
  <2>6. CombineResultsByCheck(TestedTally(tested), test.check) \in byCheck
    <3> DEFINE results == [i \in DOMAIN tested |-> tested[i].result]
    <3>1. DOMAIN tested = 1..Len(tested) /\ Len(tested) \in Nat /\ 1 \in DOMAIN tested
      BY <2>1
    <3>2. /\ IsFiniteSet(DOMAIN results) /\ DOMAIN results # {}
          /\ \A i \in DOMAIN results : results[i] \in ResultEnumeration
      <4>1. \A e \in TestedItem : e.result \in ResultEnumeration
        BY DEF TestedItem
      <4>2. \A i \in DOMAIN tested : tested[i].result \in ResultEnumeration
        BY <2>4, <4>1, Zenon
      <4>3. IsFiniteSet(DOMAIN tested) /\ DOMAIN tested # {}
        <5>1. IsFiniteSet(1..Len(tested)) BY <3>1, FS_Interval
        <5> QED BY <3>1, <5>1, Zenon
      <4>4. \A i \in DOMAIN results : results[i] = tested[i].result OBVIOUS
      <4>5. DOMAIN results = DOMAIN tested OBVIOUS
      <4> HIDE DEF results
      <4> QED BY <4>2, <4>3, <4>4, <4>5, Zenon
    <3>3. TestedTally(tested) \in Counts
      BY <3>2, CountsOfStates DEF TestedTally
    <3> QED BY <2>1, <3>3, ChecksMeetTheirCharts
  <2> HIDE DEF chart, Combined, byCheck
  <2> QED BY <2>2, <2>3, <2>5, <2>6
<1> QED BY <1>1, Invariance, PTL

-----------------------------------------------------------------------------
(***************************************************************************)
(* An incomplete object: one item more.                                    *)
(***************************************************************************)
\* What a tally of finitely many places counts.
LEMMA CountsOfPlaces ==
  ASSUME NEW s, NEW Enum, NEW v \in Enum, IsFiniteSet(DOMAIN s)
  PROVE  /\ Tally(s, Enum)[v] \in Nat
         /\ Tally(s, Enum)[v] > 0 <=> \E i \in DOMAIN s : s[i] = v
<1> DEFINE places == {i \in DOMAIN s : s[i] = v}
<1>1. IsFiniteSet(places) BY FS_Subset
<1>2. Tally(s, Enum)[v] = Cardinality(places) BY DEF Tally
<1>3. Cardinality(places) \in Nat BY <1>1, FS_CardinalityType
<1>4. Cardinality(places) = 0 <=> places = {} BY <1>1, FS_EmptySet
<1>5. \A n \in Nat : n > 0 <=> n # 0 OBVIOUS
<1>6. places = {} <=> ~\E i \in DOMAIN s : s[i] = v OBVIOUS
<1> HIDE DEF places
<1> QED BY <1>2, <1>3, <1>4, <1>5, <1>6

\* Places that are added are counted besides the others.
LEMMA CountsGrow ==
  ASSUME NEW s, NEW q, NEW Enum, NEW v \in Enum,
         IsFiniteSet(DOMAIN q), DOMAIN s \subseteq DOMAIN q,
         \A i \in DOMAIN s : q[i] = s[i]
  PROVE  Tally(s, Enum)[v] <= Tally(q, Enum)[v]
<1> DEFINE places(f) == {i \in DOMAIN f : f[i] = v}
<1>1. IsFiniteSet(places(q)) BY FS_Subset
<1>2. places(s) \subseteq places(q) OBVIOUS
<1>3. Cardinality(places(s)) <= Cardinality(places(q))
  BY <1>1, <1>2, FS_Subset
<1> QED BY <1>3 DEF Tally

\* The list with one item more.
LEMMA OneMore ==
  ASSUME TypeOK, NEW item \in DOMAIN Status, NEW q,
         q = Append(tested, [item |-> item, result |-> "unknown"])
  PROVE  /\ IsFiniteSet(DOMAIN q) /\ IsFiniteSet(DOMAIN tested)
         /\ DOMAIN tested \subseteq DOMAIN q
         /\ \A i \in DOMAIN tested : q[i].item = tested[i].item
         /\ \E i \in DOMAIN q : q[i].item = item
<1> DEFINE new == [item |-> item, result |-> "unknown"]
<1>1. tested \in Seq(TestedItem) BY DEF TypeOK, TestedItem
<1>2. new \in TestedItem /\ new.item = item
  BY DEF TestedItem, ResultEnumeration
<1> HIDE DEF new
<1>3. q = Append(tested, new) BY DEF new
<1>4. Len(tested) \in Nat /\ DOMAIN tested = 1..Len(tested) BY <1>1
<1>5. /\ DOMAIN q = 1..(Len(tested) + 1) /\ q[Len(tested) + 1] = new
      /\ \A i \in 1..Len(tested) : q[i] = tested[i]
  BY <1>1, <1>2, <1>3
<1>6. DOMAIN tested \subseteq DOMAIN q /\ Len(tested) + 1 \in DOMAIN q
  BY <1>4, <1>5
<1>7. IsFiniteSet(1..Len(tested)) /\ IsFiniteSet(1..(Len(tested) + 1))
  BY <1>4, FS_Interval
<1> QED BY <1>2, <1>4, <1>5, <1>6, <1>7

\* Test.cpp: what Test::Analyze decides by existence although items may be
\* missing is what EvaluateCheckExistence decides when existing ones are added.
LEMMA ExistenceStands ==
  ASSUME NEW c, NEW d, NEW k \in ExistenceEnumeration,
         c["exists"] \in Nat, d["exists"] \in Nat,
         c["exists"] <= d["exists"], d["exists"] > 0
  PROVE  /\ ExistenceWhenIncomplete(c, k) = "true"
              => EvaluateCheckExistence(d, k) = "true"
         /\ ExistenceWhenIncomplete(c, k) = "false"
              => EvaluateCheckExistence(d, k) = "false"
<1>1. c["exists"] > 1 => d["exists"] > 1 OBVIOUS
<1>2. /\ ExistenceWhenIncomplete(c, "all_exist") = "unknown"
      /\ ExistenceWhenIncomplete(c, "only_one_exists") =
           IF c["exists"] > 1 THEN "false" ELSE "unknown"
      /\ ExistenceWhenIncomplete(c, "none_exist") =
           IF c["exists"] > 0 THEN "false" ELSE "unknown"
      /\ ExistenceWhenIncomplete(c, "at_least_one_exists") =
           IF c["exists"] > 0 THEN "true" ELSE "unknown"
      /\ ExistenceWhenIncomplete(c, "any_exist") = "true"
  BY DEF ExistenceWhenIncomplete
<1>3. /\ EvaluateCheckExistence(d, "any_exist") = "true"
      /\ EvaluateCheckExistence(d, "at_least_one_exists") = "true"
      /\ EvaluateCheckExistence(d, "none_exist") = "false"
      /\ d["exists"] > 1
           => EvaluateCheckExistence(d, "only_one_exists") = "false"
  BY Zenon DEF EvaluateCheckExistence
<1> QED BY <1>1, <1>2, <1>3 DEF ExistenceEnumeration

\* OvalEnum.cpp, CombineResultsByCheck: one result that decides a check decides
\* it whatever else is counted, and without one the check is not decided so.
LEMMA OneResultDecides ==
  ASSUME NEW c, DOMAIN c = ResultEnumeration,
         \A v \in ResultEnumeration : c[v] \in Nat
  PROVE  /\ CombineResultsByCheck(c, "at least one") = "true"
              <=> c["true"] > 0
         /\ CombineResultsByCheck(c, "all") = "false" <=> c["false"] > 0
         /\ CombineResultsByCheck(c, "none satisfy") = "false"
              <=> c["true"] > 0
<1>1. /\ c["true"] \in Nat /\ c["false"] \in Nat
      /\ c["true"] > 0 <=> c["true"] # 0
      /\ c["false"] > 0 <=> c["false"] # 0
  <2>1. \A n \in Nat : n > 0 <=> n # 0 OBVIOUS
  <2> QED BY <2>1 DEF ResultEnumeration
<1>2. c["true"] > 0 \/ c["false"] > 0 => ~Empty(c) /\ ~AllNotApplicable(c)
  BY <1>1 DEF Empty, AllNotApplicable, Only, ResultEnumeration
<1>3. Undecided(c) # "true" /\ Undecided(c) # "false"
  BY Zenon DEF Undecided
<1>4. c["false"] > 0 => ~Only(c, {"true", "not applicable"})
  BY <1>1 DEF Only, ResultEnumeration
<1>5. /\ CombineAny(c) = "true" <=> c["true"] > 0
      /\ CombineNone(c) = "false" <=> c["true"] > 0
      /\ CombineAll(c) = "false" <=> c["false"] > 0
  BY <1>3, <1>4, Zenon DEF CombineAny, CombineNone, CombineAll
<1>6. ASSUME NEW check \in {"at least one", "all", "none satisfy"}
      PROVE  CombineResultsByCheck(c, check) =
               IF Empty(c) THEN "unknown"
               ELSE IF AllNotApplicable(c) THEN "not applicable"
               ELSE CASE check = "at least one" -> CombineAny(c)
                      [] check = "all" -> CombineAll(c)
                      [] check = "none satisfy" -> CombineNone(c)
  BY Zenon DEF CombineResultsByCheck
<1>7. CASE Empty(c)
  BY <1>2, <1>6, <1>7, Zenon
<1>8. CASE ~Empty(c) /\ AllNotApplicable(c)
  BY <1>2, <1>6, <1>8, Zenon
<1>9. CASE ~Empty(c) /\ ~AllNotApplicable(c)
  BY <1>5, <1>6, <1>9, Zenon
<1> QED BY <1>7, <1>8, <1>9

\* The results of the items and of one more.
LEMMA ResultsOfOneMore ==
  ASSUME Inv, StatesFound, NEW item \in DOMAIN Status, NEW q,
         q = Append(tested, [item |-> item, result |-> "unknown"]),
         \A i \in DOMAIN tested : tested[i].result = ItemResult(tested[i].item),
         NEW v \in ResultEnumeration
  PROVE  LET c == TestedTally(tested)
             d == ResultTally([i \in DOMAIN q |-> ItemResult(q[i].item)])
         IN  /\ DOMAIN c = ResultEnumeration /\ DOMAIN d = ResultEnumeration
             /\ c[v] \in Nat /\ d[v] \in Nat
             /\ c[v] > 0 => d[v] > 0
<1> DEFINE f == [i \in DOMAIN tested |-> tested[i].result]
           g == [i \in DOMAIN q |-> ItemResult(q[i].item)]
<1>1. /\ IsFiniteSet(DOMAIN q) /\ IsFiniteSet(DOMAIN tested)
      /\ DOMAIN tested \subseteq DOMAIN q
      /\ \A i \in DOMAIN tested : q[i].item = tested[i].item
  BY OneMore DEF Inv
<1>2. DOMAIN f = DOMAIN tested /\ DOMAIN g = DOMAIN q OBVIOUS
<1>3. \A i \in DOMAIN f : g[i] = f[i] BY <1>1
<1>4. DOMAIN ResultTally(f) = ResultEnumeration
      /\ DOMAIN ResultTally(g) = ResultEnumeration
  BY DEF ResultTally, Tally
<1> HIDE DEF f, g
<1>5. /\ ResultTally(f)[v] \in Nat
      /\ ResultTally(f)[v] > 0 <=> \E i \in DOMAIN f : f[i] = v
      /\ ResultTally(g)[v] \in Nat
      /\ ResultTally(g)[v] > 0 <=> \E i \in DOMAIN g : g[i] = v
  BY <1>1, <1>2, CountsOfPlaces DEF ResultTally
<1>6. ResultTally(f)[v] > 0 => ResultTally(g)[v] > 0
  BY <1>1, <1>2, <1>3, <1>5
<1> QED BY <1>4, <1>5, <1>6 DEF TestedTally, f, g

\* Existence with one more item that exists.
LEMMA ExistenceOfOneMore ==
  ASSUME Inv, NEW item \in DOMAIN Status, Status[item] = "exists", NEW q,
         q = Append(tested, [item |-> item, result |-> "unknown"])
  PROVE  /\ WhenIncomplete = "true" =>
              EvaluateCheckExistence(StatusTally(q), test.existence) = "true"
         /\ WhenIncomplete = "false" =>
              EvaluateCheckExistence(StatusTally(q), test.existence) = "false"
<1> DEFINE f == [i \in DOMAIN tested |-> Status[tested[i].item]]
           g == [i \in DOMAIN q |-> Status[q[i].item]]
<1>1. /\ IsFiniteSet(DOMAIN q) /\ IsFiniteSet(DOMAIN tested)
      /\ DOMAIN tested \subseteq DOMAIN q
      /\ \A i \in DOMAIN tested : q[i].item = tested[i].item
      /\ \E i \in DOMAIN q : q[i].item = item
  BY OneMore DEF Inv
<1>2. DOMAIN f = DOMAIN tested /\ DOMAIN g = DOMAIN q OBVIOUS
<1>3. \A i \in DOMAIN f : g[i] = f[i] BY <1>1
<1>4. \E i \in DOMAIN g : g[i] = "exists" BY <1>1
<1>5. "exists" \in SCStatus BY DEF SCStatus
<1>6. StatusTally(tested) = Tally(f, SCStatus) /\ StatusTally(q) = Tally(g, SCStatus)
  BY DEF StatusTally
<1> HIDE DEF f, g
<1>7. /\ Tally(f, SCStatus)["exists"] \in Nat
      /\ Tally(g, SCStatus)["exists"] \in Nat
      /\ Tally(g, SCStatus)["exists"] > 0
  BY <1>1, <1>2, <1>4, <1>5, CountsOfPlaces
<1>8. Tally(f, SCStatus)["exists"] <= Tally(g, SCStatus)["exists"]
  BY <1>1, <1>2, <1>3, <1>5, CountsGrow
<1>9. test.existence \in ExistenceEnumeration
  BY DEF Inv, TypeOK, TestElement
<1> QED BY <1>6, <1>7, <1>8, <1>9, ExistenceStands DEF WhenIncomplete

\* Test.cpp, Test::Analyze under the flag incomplete: true is returned only when
\* no further existing item could change it, for any number of items, states
\* and entities.
THEOREM TrueStands == Spec => []TrueStandsWhenIncomplete
<1>1. ASSUME Inv, phase = "done", test.object, flag = "incomplete",
             result = "true", StatesFound,
             NEW item \in DOMAIN Status, Status[item] = "exists"
      PROVE  ResultIfComplete(Append(tested, [item |-> item, result |-> "unknown"]))
               = "true"
  <2> DEFINE q == Append(tested, [item |-> item, result |-> "unknown"])
             c == TestedTally(tested)
             d == ResultTally([i \in DOMAIN q |-> ItemResult(q[i].item)])
             after == EvaluateCheckExistence(StatusTally(q), test.existence)
  <2>1. /\ WhenIncomplete = "true"
        /\ HasStateReference =>
             /\ \A i \in DOMAIN tested :
                  tested[i].result = ItemResult(tested[i].item)
             /\ Overall(CombineResultsByCheck(c, test.check)) = "true"
    BY <1>1, Zenon DEF Inv, DerivationIncomplete
  <2>2. after = "true" BY <1>1, <2>1, ExistenceOfOneMore
  <2>3. ResultIfComplete(q) = IF after = "true" /\ HasStateReference
                                THEN CombineResultsByCheck(d, test.check)
                                ELSE after
    BY DEF ResultIfComplete
  <2>4. ASSUME HasStateReference
        PROVE  CombineResultsByCheck(d, test.check) = "true"
    <3>1. test.check = "at least one" /\ CombineResultsByCheck(c, test.check) = "true"
      BY <1>1, <2>1, <2>4 DEF Overall
    <3>2. \A v \in ResultEnumeration :
            /\ DOMAIN c = ResultEnumeration /\ DOMAIN d = ResultEnumeration
            /\ c[v] \in Nat /\ d[v] \in Nat
            /\ c[v] > 0 => d[v] > 0
      BY <1>1, <2>1, <2>4, ResultsOfOneMore
    <3>3. "true" \in ResultEnumeration BY DEF ResultEnumeration
    <3> HIDE DEF c, d
    <3>4. c["true"] > 0 BY <3>1, <3>2, <3>3, OneResultDecides
    <3>5. d["true"] > 0 BY <3>2, <3>3, <3>4
    <3> QED BY <3>1, <3>2, <3>3, <3>5, OneResultDecides
  <2> HIDE DEF d, after
  <2> QED BY <2>2, <2>3, <2>4
<1>2. Inv => TrueStandsWhenIncomplete
  BY <1>1 DEF TrueStandsWhenIncomplete
<1> QED BY <1>2, Invariance, PTL

\* And so is false, of a check every item has to pass.
THEOREM FalseStands == Spec => []FalseStandsForEveryItemChecks
<1>1. ASSUME Inv, phase = "done", test.object, flag = "incomplete",
             result = "false", test.check \in {"all", "none satisfy"},
             NEW item \in DOMAIN Status, Status[item] = "exists"
      PROVE  ResultIfComplete(Append(tested, [item |-> item, result |-> "unknown"]))
               = "false"
  <2> DEFINE q == Append(tested, [item |-> item, result |-> "unknown"])
             c == TestedTally(tested)
             d == ResultTally([i \in DOMAIN q |-> ItemResult(q[i].item)])
             after == EvaluateCheckExistence(StatusTally(q), test.existence)
  <2>1. ResultIfComplete(q) = IF after = "true" /\ HasStateReference
                                THEN CombineResultsByCheck(d, test.check)
                                ELSE after
    BY DEF ResultIfComplete
  <2>2. IF WhenIncomplete # "true" THEN result = WhenIncomplete
        ELSE IF ~HasStateReference THEN result = Overall("true")
        ELSE IF ~StatesFound THEN result = "unknown"
        ELSE /\ \A i \in DOMAIN tested :
                  tested[i].result = ItemResult(tested[i].item)
             /\ result = Overall(CombineResultsByCheck(c, test.check))
    BY <1>1, Zenon DEF Inv, DerivationIncomplete
  <2>3. CASE WhenIncomplete # "true"
    <3>1. WhenIncomplete = "false" BY <1>1, <2>2, <2>3
    <3>2. after = "false" BY <1>1, <3>1, ExistenceOfOneMore
    <3> QED BY <2>1, <3>2
  <2>4. CASE WhenIncomplete = "true"
    <3>1. Overall("true") # "false" BY <1>1 DEF Overall
    <3>2. /\ HasStateReference /\ StatesFound
          /\ \A i \in DOMAIN tested :
               tested[i].result = ItemResult(tested[i].item)
          /\ result = Overall(CombineResultsByCheck(c, test.check))
      BY <1>1, <2>2, <2>4, <3>1
    <3>3. CombineResultsByCheck(c, test.check) = "false"
      BY <1>1, <3>2 DEF Overall
    <3>4. after = "true" BY <1>1, <2>4, ExistenceOfOneMore
    <3>5. \A v \in ResultEnumeration :
            /\ DOMAIN c = ResultEnumeration /\ DOMAIN d = ResultEnumeration
            /\ c[v] \in Nat /\ d[v] \in Nat
            /\ c[v] > 0 => d[v] > 0
      BY <1>1, <3>2, ResultsOfOneMore
    <3>6. "true" \in ResultEnumeration /\ "false" \in ResultEnumeration
      BY DEF ResultEnumeration
    <3> HIDE DEF c, d
    <3>7. CASE test.check = "all"
      <4>1. c["false"] > 0 BY <3>3, <3>5, <3>6, <3>7, OneResultDecides
      <4>2. d["false"] > 0 BY <3>5, <3>6, <4>1
      <4>3. CombineResultsByCheck(d, test.check) = "false"
        BY <3>5, <3>6, <3>7, <4>2, OneResultDecides
      <4> QED BY <2>1, <3>2, <3>4, <4>3
    <3>8. CASE test.check = "none satisfy"
      <4>1. c["true"] > 0 BY <3>3, <3>5, <3>6, <3>8, OneResultDecides, Zenon
      <4>2. d["true"] > 0 BY <3>5, <3>6, <4>1
      <4>3. CombineResultsByCheck(d, test.check) = "false"
        BY <3>5, <3>6, <3>8, <4>2, OneResultDecides, Zenon
      <4> QED BY <2>1, <3>2, <3>4, <4>3
    <3> QED BY <1>1, <3>7, <3>8
  <2> QED BY <2>3, <2>4
<1>2. Inv => FalseStandsForEveryItemChecks
  BY <1>1 DEF FalseStandsForEveryItemChecks
<1> QED BY <1>2, Invariance, PTL
=============================================================================
