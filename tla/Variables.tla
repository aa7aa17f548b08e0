------------------------------ MODULE Variables ------------------------------
(***************************************************************************)
(* The computation of variables: VariableFactory::GetVariable with its     *)
(* cache, the Parse and ComputeValue methods of variables and components,  *)
(* and what they call: AbsObjectCollector::Run while objects are being     *)
(* collected, ObjectReader once the tests are analyzed.                    *)
(*                                                                         *)
(* An object is parsed with the variables its entities refer to; a local   *)
(* variable is parsed with the variables its components refer to and then  *)
(* collects the objects they name.  So the two recursions call each other, *)
(* and two caches, of half parsed variables and of collected objects, are  *)
(* what ends them.                                                         *)
(***************************************************************************)
EXTENDS OvalEnum, ComponentFunctions

CONSTANTS
  Variable, Object, Component, Item, ItemField,
  Fields,     \* item -> item_field -> its entities of that name
  Clock,      \* what time() may return
  Documents   \* the documents a run may be given

FunctionKind ==
  {"arithmetic", "begin", "concat", "count", "end", "escape_regex",
   "regex_capture", "split", "substring", "time_difference", "unique"}

\* A record entity holds the values of the fields with the name record_field.
ItemEntity == [status : SCStatus, record : BOOLEAN, values : Seq(Seq(STRING))]

UnsupportedFunction == "unsupported function"

ComponentKind ==
  {"literal_component", "object_component", "variable_component", UnsupportedFunction}
  \cup FunctionKind

\* What the schema lets a component have: a literal, a variable or an object's
\* name, or components inside it.
IsComponent(d, c) ==
  LET node == d.components[c]
  IN  /\ node.kind \in ComponentKind
      /\ node.kids \in Seq(DOMAIN d.components)
      /\ \A i \in DOMAIN node.kids : d.height[node.kids[i]] < d.height[c]
      /\ node.kind = "object_component" => node.object \in Object /\ node.field \in ItemField
      /\ node.kind = "variable_component" => node.variable \in Variable
      /\ node.kind \in FunctionKind => node.kids # << >>
      /\ node.kind \in {"begin", "end", "escape_regex", "regex_capture", "split",
                       "substring"} => Len(node.kids) = 1
      /\ node.kind = "time_difference" => Len(node.kids) \in {1, 2}

\* needs: the variables an object's entities refer to, as the parser meets them
\* (filters and set objects are left to module ObjectCollector).  finds: what
\* collecting it may come to once it is parsed.  states: the variables of each
\* state.  height shows that components are nested.
IsDocument(d) ==
  /\ d.objects \in Seq(Object) /\ ToSet(d.objects) = Object
  /\ d.needs \in [Object -> Seq(Variable)] /\ d.states \in Seq(Seq(Variable))
  /\ \A o \in Object : \A found \in d.finds[o] :
       found.flag \in FlagEnumeration /\ found.items \in Seq(Item)
  /\ DOMAIN d.variables \subseteq Variable
  /\ \A v \in DOMAIN d.variables :
       /\ d.variables[v].kind \in {"constant", "external", "local"}
       /\ d.variables[v].kind = "local" =>
            d.variables[v].component \in DOMAIN d.components
  /\ DOMAIN d.components \subseteq Component
  /\ d.height \in [DOMAIN d.components -> Nat]
  /\ \A c \in DOMAIN d.components : IsComponent(d, c)

ASSUME VariablesAssumption ==
  /\ IsFiniteSet(Variable) /\ IsFiniteSet(Object)
  /\ Object \cap Variable = {} /\ UnsupportedFunction \notin Variable
  /\ \A item \in Item, field \in ItemField :
       Fields[item][field] \in Seq(ItemEntity)
  /\ Clock \subseteq Nat
  /\ \A d \in Documents : IsDocument(d)

VARIABLES
  doc,
  phase,      \* collecting, analyzing, done, or aborted by an exception
  cursor,     \* the position of the loop over objects or over states
  stack,      \* the active calls of Parse of objects, states and variables
  cache,      \* processedVariableCache
  collected,  \* collectedObjectsMap
  sc,         \* the system characteristics document
  before,     \* processedVariableCache as the collection left it
  tested      \* the states that are parsed, with the variables their tests list

vars == <<doc, phase, cursor, stack, cache, collected, sc, before, tested>>

Nothing == << >>

\* std::map::insert: what is there is kept.
Entered(f, key, value) ==
  [k \in DOMAIN f \cup {key} |-> IF k \in DOMAIN f THEN f[k] ELSE value]

Init ==
  /\ doc \in Documents
  /\ phase = "collecting"
  /\ cursor = 1
  /\ stack = << >>
  /\ cache = Nothing /\ before = Nothing
  /\ collected = Nothing /\ sc = Nothing
  /\ tested = Nothing

-----------------------------------------------------------------------------
(***************************************************************************)
(* Components.                                                             *)
(***************************************************************************)
\* A ComputeValue that lacks an object, has thrown, or has returned.
Pending == [state |-> "pending"]
Thrown == [state |-> "thrown"]
Value(flag, values) == [state |-> "value", flag |-> flag, values |-> values]

StatusFlag(status) == IF status = "exists" THEN "complete" ELSE status

Existing(entities) == SelectSeq(entities, LAMBDA e : e.status = "exists")

\* ObjectComponent::ComputeValue.  The flag is that of the last entity.
ObjectValue(object, node) ==
  LET entities == FlattenSeq([i \in DOMAIN object.items |->
                                Fields[object.items[i]][node.field]])
      existing == Existing(entities)
      values == FlattenSeq([i \in DOMAIN existing |-> existing[i].values])
      misused == \E i \in DOMAIN existing : existing[i].record # node.recordField
      noField == existing # << >> /\ node.recordField /\ values = << >>
  IN  IF \/ object.flag \notin {"complete", "incomplete"}
         \/ entities = << >> \/ misused \/ noField
        THEN Value("error", << >>)
        ELSE Value(StatusFlag(Last(entities).status), values)

CombinedFlag(args) == CombineFlags(FlagTally([i \in DOMAIN args |-> args[i].flag]))

\* A function of one component that looks at values only under a complete flag.
OfComplete(arg, values) ==
  Value(arg.flag, IF arg.flag = "complete" THEN values ELSE << >>)

\* The functions that only stop at an error.
UnlessError(arg, values) ==
  Value(arg.flag, IF arg.flag = "error" THEN << >> ELSE values)

\* The code combines two components at a time, arithmetic from the first on and
\* concat from the last; flags and the order of the values do not depend on it.
OverProduct(args, Op(_, _)) ==
  FoldLeft(LAMBDA values, arg : Product(Op, values, arg.values),
           Head(args).values, Tail(args))

Concatenations(args) == OverProduct(args, Concatenated)

ArithmeticResults(op, args) ==
  OverProduct(args, LAMBDA v1, v2 : ArithmeticResult(op, v1, v2))

\* ArithmeticFunction has no values once there is an error.
ArithmeticValue(op, args) ==
  Value(CombinedFlag(args),
        IF CombinedFlag(args) = "error" THEN << >> ELSE ArithmeticResults(op, args))

TimeDifferences(values1, values2) == Product(TimeDifference, values1, values2)

\* The first value is taken of both components before their flags are looked at.
TimeDifferenceValue(args, time) ==
  LET second == Last(args)
      first == IF Len(args) = 2 THEN Head(args)
               ELSE Value("complete", <<Decimal(time)>>)
  IN  IF first.values = << >> \/ second.values = << >> THEN Thrown
      ELSE IF second.flag # "complete"
        THEN Value(CombinedFlag(<<first, second>>), << >>)
      ELSE IF ~\A value \in ToSet(first.values \o second.values) : Understood(value)
        THEN Thrown
      ELSE Value(CombinedFlag(<<first, second>>),
                 TimeDifferences(first.values, second.values))

SubstringValue(node, arg) ==
  IF arg.flag = "complete"
     /\ \E i \in DOMAIN arg.values : SubstringThrows(node.start, arg.values[i])
    THEN Thrown
    ELSE OfComplete(arg, [i \in DOMAIN arg.values |->
                            Substring(node.start, node.length, arg.values[i])])

\* The functions, when the values of their components are args.
FunctionValue(node, args, time) ==
  LET arg == Head(args)
      given == arg.values
      lists == [i \in DOMAIN args |-> args[i].values]
  IN  CASE node.kind = "arithmetic" -> ArithmeticValue(node.op, args)
        [] node.kind = "concat" -> Value(CombinedFlag(args), Concatenations(args))
        [] node.kind = "count" -> Value(CombinedFlag(args), <<Count(lists)>>)
        [] node.kind = "unique" -> Value(CombinedFlag(args), Unique(lists))
        [] node.kind = "begin" ->
             OfComplete(arg, [i \in DOMAIN given |-> WithBegin(node.char, given[i])])
        [] node.kind = "end" ->
             OfComplete(arg, [i \in DOMAIN given |-> WithEnd(node.char, given[i])])
        [] node.kind = "escape_regex" ->
             OfComplete(arg, [i \in DOMAIN given |-> Escaped(given[i])])
        [] node.kind = "substring" -> SubstringValue(node, arg)
        [] node.kind = "split" ->
             UnlessError(arg, FlattenSeq([i \in DOMAIN given |-> Split(node.delim, given[i])]))
        [] node.kind = "regex_capture" ->
             UnlessError(arg, [i \in DOMAIN given |->
               IF given[i] \in DOMAIN node.capture THEN node.capture[given[i]] ELSE << >>])
        [] node.kind = "time_difference" -> TimeDifferenceValue(args, time)

\* ConcatFunction::ProcessComponents calls itself before it looks at its own
\* component.
EvaluationOrder(node) ==
  LET inOrder == [i \in DOMAIN node.kids |-> i]
  IN  IF node.kind = "concat" THEN Reverse(inOrder) ELSE inOrder

\* The object components under each component, as ComputeValue comes to them.
LeavesAt(d, leaves, c) ==
  LET node == d.components[c]
      order == EvaluationOrder(node)
  IN  CASE node.kind = "object_component" -> <<c>>
        [] node.kind \in FunctionKind ->
             FlattenSeq([i \in DOMAIN order |-> leaves[node.kids[order[i]]]])
        [] OTHER -> << >>

ObjectLeaves(d) ==
  LET leaves[c \in DOMAIN d.components] == LeavesAt(d, leaves, c) IN leaves

\* What Parse of each component comes to: variables and unsupported functions.
ReferencesAt(d, references, c) ==
  LET node == d.components[c]
  IN  CASE node.kind = "variable_component" -> <<node.variable>>
        [] node.kind = UnsupportedFunction -> <<UnsupportedFunction>>
        [] node.kind \in FunctionKind ->
             FlattenSeq([i \in DOMAIN node.kids |-> references[node.kids[i]]])
        [] OTHER -> << >>

References(d) ==
  LET references[c \in DOMAIN d.components] == ReferencesAt(d, references, c)
  IN  references

Arguments(outcomes, c) ==
  LET kids == doc.components[c].kids IN [i \in DOMAIN kids |-> outcomes[kids[i]]]

\* ComputeValue of a component when the objects of the components in DOMAIN read
\* have been collected and those inside it come to args.
ComputeValue(args, read, time, c) ==
  LET node == doc.components[c]
      order == EvaluationOrder(node)
      open == {i \in DOMAIN order : args[order[i]].state # "value"}
  IN  CASE node.kind = "literal_component" -> Value("complete", <<node.value>>)
        [] node.kind = "variable_component" ->
             Value(cache[node.variable].flag, cache[node.variable].values)
        [] node.kind = "object_component" ->
             IF c \in DOMAIN read THEN ObjectValue(read[c], node) ELSE Pending
        [] OTHER ->
             IF open # {} THEN args[order[Min(open)]]
             ELSE FunctionValue(node, args, time)

Computed(root, read, time) ==
  LET outcomes[c \in DOMAIN doc.components] ==
        ComputeValue(Arguments(outcomes, c), read, time, c)
  IN  outcomes[root]

-----------------------------------------------------------------------------
(***************************************************************************)
(* The stack of active calls.  A call of Parse of an object or a state is  *)
(* at next in the list of variables it refers to; one of a local variable  *)
(* also holds what its object components have read.                        *)
(***************************************************************************)
Frame(what, id) == [what |-> what, id |-> id, next |-> 1, read |-> Nothing]

Top == Last(stack)
Root(v) == doc.variables[v].component

WantedBy(frame) ==
  CASE frame.what = "object" -> doc.needs[frame.id]
    [] frame.what = "state" -> doc.states[frame.id]
    [] frame.what = "variable" -> References(doc)[Root(frame.id)]

Wants(frame) == frame.next \in DOMAIN WantedBy(frame)
Wanted == WantedBy(Top)[Top.next]

\* The object component whose ComputeValue is running.
NextLeaf(frame) ==
  LET leaves == ObjectLeaves(doc)[Root(frame.id)]
  IN  leaves[Min({i \in DOMAIN leaves : leaves[i] \notin DOMAIN frame.read})]

\* The stack when the object component on top of rest has got a record.
Returned(rest, record) ==
  IF rest = << >> THEN rest
  ELSE [rest EXCEPT ![Len(rest)].read = Entered(@, NextLeaf(Last(rest)), record)]

Record(flag, items, used) == [flag |-> flag, items |-> items, used |-> used]

\* CollectedObject::Cache keeps what is there.
Kept(o, record) == Entered(collected, o, record)

\* Faulty form: the object that failed gets no record.
FailUnrecorded(flag) ==
  LET host == Max({i \in DOMAIN stack : stack[i].what # "variable"})
      rest == SubSeq(stack, 1, host - 1)
  IN  /\ stack' = IF stack[host].what = "object"
                    THEN Returned(rest, Record(flag, << >>, {})) ELSE rest
      /\ cursor' = IF stack[host].what = "object" THEN cursor ELSE cursor + 1
      /\ UNCHANGED <<doc, phase, collected, sc, before, tested>>

\* An exception leaves the calls of GetVariable down to the innermost Parse of an
\* object, which AbsObjectCollector::Run ends with an error record, or of a
\* state, which is then not loaded.
Fail(flag) ==
  LET host == Max({i \in DOMAIN stack : stack[i].what # "variable"})
      rest == SubSeq(stack, 1, host - 1)
      record == Record(flag, << >>, {})
  IN  /\ IF stack[host].what = "object"
           THEN /\ collected' = Kept(stack[host].id, record)
                /\ stack' = Returned(rest, record)
                /\ UNCHANGED cursor
           ELSE /\ stack' = rest
                /\ cursor' = cursor + 1
                /\ UNCHANGED collected
      /\ UNCHANGED <<doc, phase, sc, before, tested>>

Advance ==
  /\ stack' = [stack EXCEPT ![Len(stack)].next = @ + 1]
  /\ UNCHANGED <<doc, phase, cursor, collected, sc, before, tested>>

-----------------------------------------------------------------------------
(***************************************************************************)
(* VariableFactory::GetVariable.                                           *)
(***************************************************************************)
Active(what) == stack # << >> /\ Top.what = what
Asks == stack # << >> /\ Wants(Top)

\* The variable is in the cache, perhaps half parsed.
FindVariable ==
  /\ Asks /\ Wanted \in DOMAIN cache
  /\ IF cache[Wanted].flag = "complete" THEN Advance ELSE Fail(cache[Wanted].flag)
  /\ UNCHANGED cache

\* No variable of the document has that id.
MissingVariable ==
  /\ Asks /\ Wanted \notin DOMAIN doc.variables \cup {UnsupportedFunction}
  /\ Fail("error")
  /\ UNCHANGED cache

\* ComponentFactory::GetComponent knows no such element.
RejectFunction ==
  /\ Asks /\ Wanted = UnsupportedFunction
  /\ Fail("error")
  /\ UNCHANGED cache

\* ConstantVariable::Parse
ConstantValue(variable) ==
  [flag |-> IF variable.values = << >> THEN "error" ELSE "complete",
   values |-> variable.values]

\* ExternalVariable::ComputeValue.  A value that is not permitted ends the loop
\* and leaves those before it.
ExternalValue(variable) ==
  LET invalid == {i \in DOMAIN variable.values :
                    variable.values[i] \notin variable.permitted}
  IN  IF ~variable.present THEN [flag |-> "error", values |-> << >>]
      ELSE IF invalid = {} THEN [flag |-> "complete", values |-> variable.values]
      ELSE [flag |-> "error", values |-> SubSeq(variable.values, 1, Min(invalid) - 1)]

ParseSource ==
  /\ Asks /\ Wanted \in DOMAIN doc.variables \ DOMAIN cache
  /\ LET variable == doc.variables[Wanted]
     IN  \/ /\ variable.kind = "constant"
            /\ cache' = Entered(cache, Wanted, ConstantValue(variable))
         \/ /\ variable.kind = "external"
            /\ cache' = Entered(cache, Wanted, ExternalValue(variable))
  /\ UNCHANGED <<doc, phase, cursor, stack, collected, sc, before, tested>>

\* Faulty form: a new variable has the flag complete.
EnterComplete ==
  /\ Asks /\ Wanted \in DOMAIN doc.variables \ DOMAIN cache
  /\ doc.variables[Wanted].kind = "local"
  /\ cache' = Entered(cache, Wanted, [flag |-> "complete", values |-> << >>])
  /\ stack' = Append(stack, Frame("variable", Wanted))
  /\ UNCHANGED <<doc, phase, cursor, collected, sc, before, tested>>

\* A new variable has the flag error, and is in the cache before it is parsed.
EnterLocal ==
  /\ Asks /\ Wanted \in DOMAIN doc.variables \ DOMAIN cache
  /\ doc.variables[Wanted].kind = "local"
  /\ cache' = Entered(cache, Wanted, [flag |-> "error", values |-> << >>])
  /\ stack' = Append(stack, Frame("variable", Wanted))
  /\ UNCHANGED <<doc, phase, cursor, collected, sc, before, tested>>

-----------------------------------------------------------------------------
(***************************************************************************)
(* LocalVariable::ComputeValue, when Parse has all variables.              *)
(***************************************************************************)
Computes == Active("variable") /\ ~Wants(Top)
Outcomes == {Computed(Root(Top.id), Top.read, time) : time \in Clock}

\* ObjectComponent::ComputeValue while the data collector runs.
CollectObject(outcome) ==
  /\ phase = "collecting"
  /\ outcome = Pending
  /\ LET o == doc.components[NextLeaf(Top)].object
     IN  stack' = IF o \in DOMAIN collected THEN Returned(stack, collected[o])
                  ELSE Append(stack, Frame("object", o))
  /\ UNCHANGED <<doc, phase, cursor, cache, collected, sc, before, tested>>

\* Faulty form: an incomplete object is not read.
ReadCompleteObject(outcome) ==
  /\ phase = "analyzing"
  /\ outcome = Pending
  /\ LET record == sc[doc.components[NextLeaf(Top)].object]
     IN  \/ /\ record.flag = "complete"
            /\ stack' = Returned(stack, record)
            /\ UNCHANGED <<doc, phase, cursor, collected, sc, before, tested>>
         \/ /\ record.flag # "complete"
            /\ Fail("error")
  /\ UNCHANGED cache

\* ObjectComponent::ComputeValue after that.  GetItemsForObject throws unless the
\* object has items to read.
ReadObject(outcome) ==
  /\ phase = "analyzing"
  /\ outcome = Pending
  /\ LET record == sc[doc.components[NextLeaf(Top)].object]
     IN  \/ /\ record.flag \in {"complete", "incomplete"}
            /\ stack' = Returned(stack, record)
            /\ UNCHANGED <<doc, phase, cursor, collected, sc, before, tested>>
         \/ /\ record.flag \notin {"complete", "incomplete"}
            /\ Fail("error")
  /\ UNCHANGED cache

\* Faulty form: the values are taken over with any flag.
ComputeAnyFlag(outcome) ==
  /\ outcome.state = "value"
  /\ cache' = [cache EXCEPT ![Top.id] = [flag |-> "complete", values |-> outcome.values]]
  /\ stack' = Front(stack)
  /\ UNCHANGED <<doc, phase, cursor, collected, sc, before, tested>>

ComputeLocal(outcome) ==
  /\ outcome.state = "value"
  /\ cache' = [cache EXCEPT ![Top.id] =
       [flag |-> outcome.flag,
        values |-> IF outcome.flag \in {"complete", "incomplete"}
                     THEN outcome.values ELSE << >>]]
  /\ stack' = Front(stack)
  /\ UNCHANGED <<doc, phase, cursor, collected, sc, before, tested>>

ComputeThrows(outcome) ==
  /\ outcome = Thrown
  /\ Fail("error")
  /\ UNCHANGED cache

Compute ==
  /\ Computes
  /\ \E outcome \in Outcomes :
       \/ CollectObject(outcome) \/ ReadObject(outcome)
       \/ ComputeLocal(outcome) \/ ComputeThrows(outcome)

-----------------------------------------------------------------------------
(***************************************************************************)
(* The variable values a record or a test lists: GetVariableValues.        *)
(***************************************************************************)
Own(v) == {<<v, value>> : value \in ToSet(cache[v].values)}

Leaves(c) == ToSet(ObjectLeaves(doc)[c])
ReferredTo(c) == ToSet(References(doc)[c]) \ {UnsupportedFunction}

\* Faulty form: what the variables of a variable were computed from is left out.
DirectlyUsedBy(records) ==
  LET used[v \in Variable] ==
        IF doc.variables[v].kind # "local" THEN {}
        ELSE UNION {Own(w) : w \in ReferredTo(Root(v))}
  IN  used

\* records: collected, or sc when the data collector no longer runs.
UsedBy(records) ==
  LET used[v \in Variable] ==
        IF doc.variables[v].kind # "local" THEN {}
        ELSE UNION ({Own(w) \cup used[w] : w \in ReferredTo(Root(v))}
                    \cup {records[doc.components[c].object].used : c \in Leaves(Root(v))})
  IN  used

ListedBy(wanted, records) ==
  UNION {Own(v) \cup UsedBy(records)[v] : v \in ToSet(wanted)}

\* ObjectReader::GetVariableValuesForObject only reads complete objects.
ListingThrows ==
  LET throws[v \in Variable] ==
        /\ doc.variables[v].kind = "local"
        /\ \/ \E w \in ReferredTo(Root(v)) : throws[w]
           \/ \E c \in Leaves(Root(v)) : sc[doc.components[c].object].flag # "complete"
  IN  throws

-----------------------------------------------------------------------------
(***************************************************************************)
(* AbsDataCollector::Run: every object of the document is collected, the   *)
(* records are written and the caches cleared.                             *)
(***************************************************************************)
AtObject == phase = "collecting" /\ stack = << >> /\ cursor \in DOMAIN doc.objects

RunObject ==
  /\ AtObject /\ doc.objects[cursor] \notin DOMAIN collected
  /\ stack' = <<Frame("object", doc.objects[cursor])>>
  /\ UNCHANGED <<doc, phase, cursor, cache, collected, sc, before, tested>>

NextObject ==
  /\ AtObject /\ doc.objects[cursor] \in DOMAIN collected
  /\ cursor' = cursor + 1
  /\ UNCHANGED <<doc, phase, stack, cache, collected, sc, before, tested>>

\* The object is parsed, and Process makes its record.
ProcessObject ==
  /\ Active("object") /\ ~Wants(Top)
  /\ \E found \in doc.finds[Top.id] :
       LET record == Record(found.flag, found.items,
                            ListedBy(doc.needs[Top.id], collected))
       IN  /\ collected' = Kept(Top.id, record)
           /\ stack' = Returned(Front(stack), record)
  /\ UNCHANGED <<doc, phase, cursor, cache, sc, before, tested>>

ProcessThrows ==
  /\ Active("object") /\ ~Wants(Top)
  /\ Fail("error")
  /\ UNCHANGED cache

\* CollectedObject::Write writes each reference once.
Once(items) ==
  LET written[i \in 0..Len(items)] ==
        IF i = 0 THEN << >>
        ELSE IF items[i] \in ToSet(written[i - 1]) THEN written[i - 1]
        ELSE Append(written[i - 1], items[i])
  IN  written[Len(items)]

EndCollection ==
  /\ phase = "collecting" /\ stack = << >> /\ cursor \notin DOMAIN doc.objects
  /\ sc' = [o \in DOMAIN collected |->
              [collected[o] EXCEPT !.items = Once(collected[o].items)]]
  /\ before' = cache /\ cache' = Nothing /\ collected' = Nothing
  /\ phase' = "analyzing" /\ cursor' = 1
  /\ UNCHANGED <<doc, stack, tested>>

-----------------------------------------------------------------------------
(***************************************************************************)
(* Analyzer::Run, as far as variables are concerned: each definition has   *)
(* one test, whose state is parsed when it is analyzed; the test is        *)
(* written before the next definition.                                     *)
(***************************************************************************)
AtState == phase = "analyzing" /\ stack = << >> /\ cursor \in DOMAIN doc.states

ParseState ==
  /\ AtState /\ cursor \notin DOMAIN tested
  /\ stack' = <<Frame("state", cursor)>>
  /\ UNCHANGED <<doc, phase, cursor, cache, collected, sc, before, tested>>

StateParsed ==
  /\ Active("state") /\ ~Wants(Top)
  /\ tested' = Entered(tested, Top.id, {})
  /\ stack' = << >>
  /\ UNCHANGED <<doc, phase, cursor, cache, collected, sc, before>>

\* Test::Write
WriteTest ==
  /\ AtState /\ cursor \in DOMAIN tested
  /\ \A v \in ToSet(doc.states[cursor]) : ~ListingThrows[v]
  /\ tested' = [tested EXCEPT ![cursor] = ListedBy(doc.states[cursor], sc)]
  /\ cursor' = cursor + 1
  /\ UNCHANGED <<doc, phase, stack, cache, collected, sc, before>>

\* The exception leaves Analyzer::Run.
WriteThrows ==
  /\ AtState /\ cursor \in DOMAIN tested
  /\ \E v \in ToSet(doc.states[cursor]) : ListingThrows[v]
  /\ phase' = "aborted"
  /\ UNCHANGED <<doc, cursor, stack, cache, collected, sc, before, tested>>

EndAnalysis ==
  /\ phase = "analyzing" /\ stack = << >> /\ cursor \notin DOMAIN doc.states
  /\ phase' = "done"
  /\ UNCHANGED <<doc, cursor, stack, cache, collected, sc, before, tested>>

Terminated == phase \in {"done", "aborted"} /\ UNCHANGED vars

Step ==
  \/ FindVariable \/ MissingVariable \/ RejectFunction \/ ParseSource \/ EnterLocal
  \/ Compute \/ RunObject \/ NextObject \/ ProcessObject \/ ProcessThrows \/ EndCollection
  \/ ParseState \/ StateParsed \/ WriteTest \/ WriteThrows \/ EndAnalysis

Next == Step \/ Terminated

\* The program runs on.
Spec == Init /\ [][Next]_vars /\ WF_vars(Step)
=============================================================================
