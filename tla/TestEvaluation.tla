--------------------------- MODULE TestEvaluation ---------------------------
(***************************************************************************)
(* The evaluation of one test: Test::Analyze, with EvaluateCheckExistence, *)
(* EvaluateCheckState, State::Analyze and Object::Analyze.                 *)
(*                                                                         *)
(* A test names an object and states.  The system characteristics document *)
(* says what was collected for the object: a flag and references to items. *)
(* Test::Analyze gathers the items, decides by the flag whether they are   *)
(* looked at, and if so combines the comparison of every item with every   *)
(* state into one result.  The comparisons of single values               *)
(* (EntityComparator) are constants here.                                  *)
(***************************************************************************)
EXTENDS OvalEnum, SchemaTables, Sequences

CONSTANTS
  ItemId,       \* ids a collected object may refer to
  Entity,       \* the entities of states
  StateId,      \* ids a test may refer to
  Status,       \* item id -> the status of that item, if system_data has it
  ObjectMatch,  \* item id -> result of comparing it with the object's entities
  Comparison,   \* item id -> entity -> result for each matching item entity
  EntityCheck,  \* entity -> its entity_check
  States,       \* state id -> the state, if the definitions document has it
  Tests,        \* the test elements a behaviour may start from
  Collections   \* what the system characteristics may hold for the object

\* What EntityComparator returns, and AbsEntity::Analyze for a variable.
Compared == {"true", "false", "error", "unknown"}

TestElement ==
  [object        : BOOLEAN,        \* whether there is an object reference
   existence     : ExistenceEnumeration,
   check         : CheckEnumeration \cup {"none exist"},
   stateOperator : OperatorEnumeration,
   states        : SUBSET StateId]

\* recorded: whether collected_objects has the object.  refs: its references;
\* otherwise the ids of the items in system_data that the test's name points to.
CollectedObject ==
  [recorded : BOOLEAN, flag : FlagEnumeration, refs : Seq(ItemId)]

ASSUME TestAssumption ==
  /\ DOMAIN Status \subseteq ItemId /\ Status \in [DOMAIN Status -> SCStatus]
  /\ ObjectMatch \in [DOMAIN Status -> Compared]
  /\ Comparison \in [DOMAIN Status -> [Entity -> Seq(Compared)]]
  /\ EntityCheck \in [Entity -> CheckEnumeration]
  /\ DOMAIN States \subseteq StateId
  /\ States \in [DOMAIN States ->
                   [entities : SUBSET Entity, op : OperatorEnumeration]]
  /\ \A s \in DOMAIN States : IsFiniteSet(States[s].entities)
  /\ Tests \subseteq {t \in TestElement : IsFiniteSet(t.states)}
  /\ Collections \subseteq CollectedObject
  /\ \A c \in Collections :
       ~c.recorded => \A i \in DOMAIN c.refs : c.refs[i] \in DOMAIN Status

VARIABLES
  test,       \* the parsed test
  collected,  \* what the system characteristics document holds for it
  phase,      \* how far Test::Analyze has come
  pos,        \* the position of the active loop
  flag,       \* collectedObjFlag
  tested,     \* testedItems
  result      \* Test::result

vars == <<test, collected, phase, pos, flag, tested, result>>

Phase == {"gather", "decide", "state", "done", "thrown"}

TypeOK ==
  /\ test \in TestElement /\ test.check \in CheckEnumeration
  /\ collected \in Collections
  /\ phase \in Phase
  /\ pos \in Nat \ {0}
  /\ flag \in FlagEnumeration
  /\ tested \in Seq([item : DOMAIN Status, result : ResultEnumeration])
  /\ result \in ResultEnumeration \ {"not evaluated"}

\* Test::Parse replaces the deprecated check="none exist".
Parsed(t) ==
  IF t.check = "none exist"
    THEN [t EXCEPT !.existence = "none_exist", !.check = "none satisfy"]
    ELSE t

Init ==
  /\ test \in {Parsed(t) : t \in Tests}
  /\ collected \in Collections
  /\ phase = "gather"
  /\ pos = 1
  /\ flag = "not collected"
  /\ tested = << >>
  /\ result = "error"

HasStateReference == test.states # {}

-----------------------------------------------------------------------------
(***************************************************************************)
(* Comparing an item with a state, with the states of the test, and with   *)
(* the object.                                                             *)
(***************************************************************************)
\* An entity the item does not have leaves an empty vector.
EntityResult(item, e) ==
  CombineResultsByCheck(ResultTally(Comparison[item][e]), EntityCheck[e])

\* State::Analyze
StateResult(item, s) ==
  LET state == States[s]
      results == [e \in state.entities |-> EntityResult(item, e)]
  IN  CASE Status[item] \in {"error", "not collected"} -> "error"
        [] Status[item] = "does not exist" -> "false"
        [] Status[item] = "exists" ->
             IF state.entities = {} THEN "true"
             ELSE CombineResultsByOperator(ResultTally(results), state.op)

\* The body of the loop of EvaluateCheckState over the tested items.
ItemResult(item) ==
  LET results == [s \in test.states |-> StateResult(item, s)]
  IN  CombineResultsByOperator(ResultTally(results), test.stateOperator)

\* Object::Analyze, before the result is made a bool.
ObjectResult(item) ==
  CASE Status[item] \in {"error", "not collected"} -> "error"
    [] Status[item] = "does not exist" -> "false"
    [] Status[item] = "exists" -> ObjectMatch[item]

-----------------------------------------------------------------------------
(***************************************************************************)
(* check_existence.                                                        *)
(***************************************************************************)
StatusTally(items) ==
  Tally([i \in DOMAIN items |-> Status[items[i].item]], SCStatus)

\* Faulty form: one item that exists decides only_one_exists although others
\* could not be collected.
ExistenceIgnoringFailures(c, existence) ==
  CASE existence = "all_exist" -> IF c["does not exist"] > 0 THEN "false" ELSE "true"
    [] existence = "any_exist" -> "true"
    [] existence = "at_least_one_exists" ->
         IF c["exists"] > 0 THEN "true" ELSE "false"
    [] existence = "none_exist" -> IF c["exists"] > 0 THEN "false" ELSE "true"
    [] existence = "only_one_exists" ->
         IF c["exists"] = 1 THEN "true" ELSE "false"

\* Test::EvaluateCheckExistence; c counts the item statuses.  A count no branch
\* is written for is logged and leaves the initial error.
EvaluateCheckExistence(c, existence) ==
  LET undecided == IF c["error"] > 0 THEN "error" ELSE "unknown"
      settled == c["error"] = 0 /\ c["not collected"] = 0
  IN  CASE existence = "all_exist" ->
             IF c["does not exist"] > 0 THEN "false"
             ELSE IF ~settled THEN undecided
             ELSE IF c["exists"] > 0 THEN "true" ELSE "false"
        [] existence = "any_exist" ->
             IF c["error"] = 0 \/ c["exists"] > 0 THEN "true" ELSE "error"
        [] existence = "at_least_one_exists" ->
             IF c["exists"] > 0 THEN "true"
             ELSE IF ~settled THEN undecided
             ELSE IF c["does not exist"] > 0 THEN "false" ELSE "error"
        [] existence = "none_exist" ->
             IF c["exists"] > 0 THEN "false"
             ELSE IF settled THEN "true" ELSE undecided
        [] existence = "only_one_exists" ->
             IF c["exists"] > 1 THEN "false"
             ELSE IF ~settled THEN undecided
             ELSE IF c["exists"] = 1 THEN "true" ELSE "false"

\* Faulty form: no item found so far counts as not exactly one.
NoneYetIsNotOne(c, existence) ==
  CASE existence = "none_exist" /\ c["exists"] > 0 -> "false"
    [] existence = "only_one_exists" /\ c["exists"] # 1 -> "false"
    [] existence = "at_least_one_exists" /\ c["exists"] > 0 -> "true"
    [] existence = "any_exist" -> "true"
    [] OTHER -> "unknown"

\* What Test::Analyze decides by existence when more items may exist than were
\* collected.
ExistenceWhenIncomplete(c, existence) ==
  CASE existence = "none_exist" /\ c["exists"] > 0 -> "false"
    [] existence = "only_one_exists" /\ c["exists"] > 1 -> "false"
    [] existence = "at_least_one_exists" /\ c["exists"] > 0 -> "true"
    [] existence = "any_exist" -> "true"
    [] OTHER -> "unknown"

\* The result when the object was not collected in any usable form, and none of
\* the items is looked at.
WithoutItems(f) ==
  IF test.existence = "any_exist" /\ ~HasStateReference THEN "true"
  ELSE CASE f = "error" -> "error"
         [] f = "not applicable" -> "not applicable"
         [] f = "not collected" -> "unknown"

\* The result when the object's structure is there and no item is.
WithoutMatch ==
  IF test.existence \in {"none_exist", "any_exist"} THEN "true" ELSE "false"

\* Faulty form: the flag is not taken into account.
OverallAsIfComplete(stateResult) == stateResult

\* What Test::Analyze makes of the result of EvaluateCheckState.
Overall(stateResult) ==
  IF flag = "complete" THEN stateResult
  ELSE IF stateResult = "false" THEN "false"
  ELSE IF stateResult = "true" /\ test.check = "at least one" THEN "true"
  ELSE "unknown"

\* MarkTestedItemsNotEvaluated
NotEvaluatedItems ==
  [i \in DOMAIN tested |-> [tested[i] EXCEPT !.result = "not evaluated"]]

-----------------------------------------------------------------------------
(***************************************************************************)
(* Gathering the items.                                                    *)
(***************************************************************************)
\* A test without an object is an unknown_test.
NoObject ==
  /\ phase = "gather" /\ ~test.object
  /\ phase' = "done"
  /\ result' = "unknown"
  /\ UNCHANGED <<test, collected, pos, flag, tested>>

Gathering == phase = "gather" /\ test.object /\ pos \in DOMAIN collected.refs

AppendTestedItem(item) ==
  tested' = Append(tested, [item |-> item, result |-> "not evaluated"])

\* One reference of the collected object.
GatherReference ==
  /\ Gathering /\ collected.recorded
  /\ collected.refs[pos] \in DOMAIN Status
  /\ AppendTestedItem(collected.refs[pos])
  /\ pos' = pos + 1
  /\ UNCHANGED <<test, collected, phase, flag, result>>

\* One item of system_data, when collected_objects lacks the object.
GatherCandidate ==
  /\ Gathering /\ ~collected.recorded
  /\ ObjectResult(collected.refs[pos]) \in {"true", "false"}
  /\ IF ObjectResult(collected.refs[pos]) = "true"
       THEN AppendTestedItem(collected.refs[pos]) ELSE UNCHANGED tested
  /\ pos' = pos + 1
  /\ UNCHANGED <<test, collected, phase, flag, result>>

\* Item::GetItemById finds no item, or Object::Analyze cannot say whether the
\* item matches.  Nothing in Test::Analyze catches this.
GatherThrows ==
  /\ Gathering
  /\ IF collected.recorded
       THEN collected.refs[pos] \notin DOMAIN Status
       ELSE ObjectResult(collected.refs[pos]) \notin {"true", "false"}
  /\ phase' = "thrown"
  /\ UNCHANGED <<test, collected, pos, flag, tested, result>>

Gathered ==
  /\ phase = "gather" /\ test.object /\ pos \notin DOMAIN collected.refs
  /\ flag' = IF collected.recorded THEN collected.flag
             ELSE IF tested # << >> THEN "complete" ELSE "does not exist"
  /\ result' = IF ~collected.recorded /\ collected.refs = << >>
                 THEN "unknown" ELSE result
  /\ phase' = "decide"
  /\ UNCHANGED <<test, collected, pos, tested>>

-----------------------------------------------------------------------------
(***************************************************************************)
(* Deciding by the flag.                                                   *)
(***************************************************************************)
SetResult(r) == result' = r /\ phase' = "done"

DecideWithoutItems ==
  /\ phase = "decide" /\ flag \in {"error", "not applicable", "not collected"}
  /\ SetResult(WithoutItems(flag))
  /\ tested' = NotEvaluatedItems
  /\ UNCHANGED <<test, collected, pos, flag>>

DecideWithoutMatch ==
  /\ phase = "decide" /\ flag = "does not exist"
  /\ SetResult(WithoutMatch)
  /\ tested' = IF test.existence \in {"none_exist", "any_exist"}
                 THEN NotEvaluatedItems ELSE tested
  /\ UNCHANGED <<test, collected, pos, flag>>

\* Existence is decided first; only a test that passes it comes to its states.
DecideByExistence(existenceResult) ==
  /\ IF existenceResult = "true" /\ HasStateReference
       THEN /\ phase' = "state"
            /\ pos' = 1
            /\ UNCHANGED <<tested, result>>
       ELSE /\ SetResult(IF existenceResult = "true" THEN Overall("true")
                         ELSE existenceResult)
            /\ tested' = NotEvaluatedItems
            /\ UNCHANGED pos
  /\ UNCHANGED <<test, collected, flag>>

DecideIncomplete ==
  /\ phase = "decide" /\ flag = "incomplete"
  /\ DecideByExistence(
       ExistenceWhenIncomplete(StatusTally(tested), test.existence))

DecideComplete ==
  /\ phase = "decide" /\ flag = "complete"
  /\ DecideByExistence(
       EvaluateCheckExistence(StatusTally(tested), test.existence))

-----------------------------------------------------------------------------
(***************************************************************************)
(* EvaluateCheckState.                                                     *)
(***************************************************************************)
CheckItem ==
  /\ phase = "state" /\ pos \in DOMAIN tested
  /\ test.states \subseteq DOMAIN States
  /\ tested' = [tested EXCEPT ![pos].result = ItemResult(tested[pos].item)]
  /\ pos' = pos + 1
  /\ UNCHANGED <<test, collected, phase, flag, result>>

\* State::GetStateById throws.  EvaluateCheckState catches the exception, sets
\* the result of the test to error and returns error, of which its caller makes
\* another result that it stores over the first.
StateMissing ==
  /\ phase = "state" /\ pos \in DOMAIN tested
  /\ ~(test.states \subseteq DOMAIN States)
  /\ SetResult(Overall("error"))
  /\ UNCHANGED <<test, collected, pos, flag, tested>>

TestedTally(items) ==
  ResultTally([i \in DOMAIN items |-> items[i].result])

\* Faulty form: state_operator is used in place of check.
ItemsCheckedByOperator ==
  /\ phase = "state" /\ pos \notin DOMAIN tested
  /\ SetResult(Overall(CombineResultsByOperator(TestedTally(tested),
                                                test.stateOperator)))
  /\ UNCHANGED <<test, collected, pos, flag, tested>>

ItemsChecked ==
  /\ phase = "state" /\ pos \notin DOMAIN tested
  /\ SetResult(Overall(CombineResultsByCheck(TestedTally(tested), test.check)))
  /\ UNCHANGED <<test, collected, pos, flag, tested>>

Analyze ==
  \/ NoObject \/ GatherReference \/ GatherCandidate \/ GatherThrows \/ Gathered
  \/ DecideWithoutItems \/ DecideWithoutMatch
  \/ DecideIncomplete \/ DecideComplete
  \/ CheckItem \/ StateMissing \/ ItemsChecked

\* Test::Analyze has returned or thrown.  The analyzed flag keeps a later call
\* from doing anything.
Analyzed == phase \in {"done", "thrown"} /\ UNCHANGED vars

Next == Analyze \/ Analyzed

Spec == Init /\ [][Next]_vars

-----------------------------------------------------------------------------
(***************************************************************************)
(* What the result of a test means.                                        *)
(***************************************************************************)
\* The result of the test if items were all there is, by the functions of the
\* code: what Test::Analyze computes under the flag complete.
ResultIfComplete(items) ==
  LET existence == EvaluateCheckExistence(StatusTally(items), test.existence)
      results == [i \in DOMAIN items |-> ItemResult(items[i].item)]
  IN  IF existence = "true" /\ HasStateReference
        THEN CombineResultsByCheck(ResultTally(results), test.check)
        ELSE existence

StatesFound == test.states \subseteq DOMAIN States

-----------------------------------------------------------------------------
\* Under the flag complete the result is one the charts of the schema allow:
\* existence first, then for every item its states by state_operator, then the
\* items by check.  The chart of at_least_one_exists has no row for an object
\* without items, and no chart one for a check without items.
CompleteFollowsTheSchema ==
  phase = "done" /\ test.object /\ flag = "complete" /\ tested # << >> =>
    LET existence == ChartResults(ExistenceChart(test.existence),
                                  StatusColumns, StatusTally(tested))
        byStates(i) ==
          ChartResults(OperatorChart(test.stateOperator), ResultColumns,
            ResultTally([s \in test.states |-> StateResult(tested[i].item, s)]))
    IN  IF existence # {"true"} \/ ~HasStateReference THEN result \in existence
        ELSE IF ~StatesFound THEN result = "error"
        ELSE /\ \A i \in DOMAIN tested : tested[i].result \in byStates(i)
             /\ result \in ChartResults(CheckChart(test.check), ResultColumns,
                                        TestedTally(tested))

\* What the results document says of a test and of its tested items agrees:
\* either none of them was compared with a state, or the result is the one that
\* check makes of theirs (or unknown, when more items may exist).
TestedItemsExplainTheResult ==
  phase = "done" =>
    \/ \A i \in DOMAIN tested : tested[i].result = "not evaluated"
    \/ result = CombineResultsByCheck(TestedTally(tested), test.check)
    \/ result = "unknown" /\ flag = "incomplete"

\* A test that is true although its object is incomplete stays true whatever
\* other existing item the system holds: the verdict does not depend on
\* what was not collected.
TrueStandsWhenIncomplete ==
  phase = "done" /\ test.object /\ flag = "incomplete" /\ result = "true" =>
    \A item \in {j \in DOMAIN Status : Status[j] = "exists"} :
      StatesFound =>
        ResultIfComplete(Append(tested, [item |-> item, result |-> "unknown"]))
          = "true"

\* A false existence verdict, and a false verdict of a check that every item has
\* to pass, stay false as well.
FalseStandsForEveryItemChecks ==
  /\ phase = "done" /\ test.object /\ flag = "incomplete" /\ result = "false"
  /\ test.check \in {"all", "none satisfy"}
  => \A item \in {j \in DOMAIN Status : Status[j] = "exists"} :
       ResultIfComplete(Append(tested, [item |-> item, result |-> "unknown"]))
         = "false"

-----------------------------------------------------------------------------
(***************************************************************************)
(* What the schemas say and Test::Analyze does otherwise.                  *)
(***************************************************************************)
\* oval-system-characteristics-schema.xsd on incomplete: "additional items might
\* also exist on the system".  One of them may satisfy the check.
FalseStandsWhenIncomplete ==
  phase = "done" /\ test.object /\ flag = "incomplete" /\ result = "false" =>
    \A item \in {j \in DOMAIN Status : Status[j] = "exists"} :
      ResultIfComplete(Append(tested, [item |-> item, result |-> "unknown"]))
        = "false"
=============================================================================
