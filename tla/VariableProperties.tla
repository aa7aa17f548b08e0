-------------------------- MODULE VariableProperties --------------------------
(***************************************************************************)
(* What the computation of variables promises.                             *)
(***************************************************************************)
EXTENDS Variables

FrameOK(frame) ==
  /\ frame.what \in {"object", "state", "variable"}
  /\ frame.next \in 1..(Len(WantedBy(frame)) + 1)
  /\ frame.what = "variable" => DOMAIN frame.read \subseteq Leaves(Root(frame.id))

\* The types of the variables; a loop is never beyond the end of its list.
TypeOK ==
  /\ doc \in Documents
  /\ phase \in {"collecting", "analyzing", "done", "aborted"}
  /\ cursor \in 1..(Len(IF phase = "collecting" THEN doc.objects ELSE doc.states) + 1)
  /\ \A i \in DOMAIN stack : FrameOK(stack[i])
  /\ DOMAIN cache \subseteq DOMAIN doc.variables
  /\ \A v \in DOMAIN cache : cache[v].flag \in FlagEnumeration
  /\ DOMAIN collected \subseteq Object
  /\ \A o \in DOMAIN collected : collected[o].flag \in FlagEnumeration
  /\ phase # "collecting" => DOMAIN sc = Object
  /\ DOMAIN tested \subseteq DOMAIN doc.states

-----------------------------------------------------------------------------
\* What a variable or an object refers to, itself and by way of others.
DirectlyOn(n) ==
  CASE n \in Object -> ToSet(doc.needs[n])
    [] n \in DOMAIN doc.variables /\ doc.variables[n].kind = "local" ->
         ReferredTo(Root(n)) \cup {doc.components[c].object : c \in Leaves(Root(n))}
    [] OTHER -> {}

DependsOn(n) ==
  LET within[k \in Nat] ==
        IF k = 0 THEN DirectlyOn(n)
        ELSE LET nearer == within[k - 1]
             IN  nearer \cup UNION {DirectlyOn(m) : m \in nearer}
  IN  within[Cardinality(Variable) + Cardinality(Object)]

OnStack(what, id) == {i \in DOMAIN stack : stack[i].what = what /\ stack[i].id = id}

Settled == {v \in DOMAIN cache : OnStack("variable", v) = {}}

\* A variable that depends on itself, directly, through others or through an
\* object that is collected for it, ends in error, and an object that does is
\* collected without items: nothing a half parsed variable held gets out.
CyclesEndInErrors ==
  /\ \A v \in Settled : v \in DependsOn(v) => cache[v].flag = "error"
  /\ \A o \in DOMAIN collected :
       o \in DependsOn(o) => /\ collected[o].items = << >>
                             /\ collected[o].flag \notin {"complete", "incomplete"}

-----------------------------------------------------------------------------
Records == IF phase = "collecting" THEN collected ELSE sc
ObjectsOf(v) == {doc.components[c].object : c \in Leaves(Root(v))}
ReadBy(v) == [c \in Leaves(Root(v)) |-> Records[doc.components[c].object]]

Locals == {v \in Settled : doc.variables[v].kind = "local"}
CompleteLocals == {v \in Locals : cache[v].flag = "complete"}

\* Complete means that nothing is missing below: the variables and objects a
\* complete variable was computed from have values, those values are still what
\* it would be computed from, and only an object with complete variables has
\* items.  An exception in between, a record that replaces another or an entry
\* of the cache from before it was computed would break it.
CompleteMeansComplete ==
  /\ \A v \in CompleteLocals :
       /\ \A w \in ReferredTo(Root(v)) : w \in Settled /\ cache[w].flag = "complete"
       /\ \A o \in ObjectsOf(v) : o \in DOMAIN Records /\ Records[o].items # << >>
       /\ \E time \in Clock :
            Computed(Root(v), ReadBy(v), time) = Value("complete", cache[v].values)
  /\ \A o \in DOMAIN collected :
       collected[o].items # << >> =>
         \A v \in ToSet(doc.needs[o]) : v \in Settled /\ cache[v].flag = "complete"

\* The kinds of the functions under a component.
Functions ==
  LET functions[c \in DOMAIN doc.components] ==
        LET node == doc.components[c]
        IN  IF node.kind \in FunctionKind
              THEN {node.kind} \cup UNION {functions[node.kids[i]] : i \in DOMAIN node.kids}
              ELSE {}
  IN  functions

\* A value of such a variable may be another when it is computed again: the
\* clock goes on, and an item that an object refers to twice is written once.
MayDiffer(v) ==
  \E w \in ({v} \cup DependsOn(v)) \cap DOMAIN doc.variables :
    /\ doc.variables[w].kind = "local"
    /\ Functions[Root(w)] \cap {"count", "time_difference"} # {}

\* A variable is computed twice, for the objects and, from the document written
\* in between, for the states.  Both agree on whether it has all its values and
\* on which they are, although the first computation meets variables in the
\* order of the objects and half parsed ones.
PhasesAgree ==
  phase # "collecting" =>
    \A v \in Settled \cap DOMAIN before :
      /\ cache[v].flag = "complete" <=> before[v].flag = "complete"
      /\ ~MayDiffer(v) => ToSet(cache[v].values) = ToSet(before[v].values)

-----------------------------------------------------------------------------
\* The variables a state refers to, through variables only.
InState(s) ==
  LET within[k \in Nat] ==
        IF k = 0 THEN ToSet(doc.states[s])
        ELSE LET nearer == within[k - 1]
             IN  nearer \cup UNION {DirectlyOn(v) \cap Variable : v \in nearer}
  IN  within[Cardinality(Variable)]

ListedFor(s) ==
  LET objects == UNION {ObjectsOf(v) : v \in {w \in InState(s) :
                                                doc.variables[w].kind = "local"}}
      beyond == Variable \cap UNION {DependsOn(o) : o \in objects}
  IN  UNION {Own(v) : v \in InState(s)}
      \cup UNION {{<<v, value>> : value \in ToSet(before[v].values)} : v \in beyond}

\* A test lists exactly the values that went into the result of its state: those
\* of every variable it depends on, with the values an object was collected by
\* where the way goes through an object.
TestsListTheVariablesUsed ==
  \A s \in DOMAIN tested : phase # "aborted" /\ s < cursor => tested[s] = ListedFor(s)

\* Every test whose state is parsed can be written: a variable that got its
\* values from an object can list the values used to compute it.
TestsCanBeWritten == phase # "aborted"

-----------------------------------------------------------------------------
Joined(values, delim) ==
  IF values = << >> THEN << >>
  ELSE FoldLeft(LAMBDA text, value : text \o delim \o value, Head(values), Tail(values))

HasPart(value, part) ==
  \E i \in 1..Len(value) : IsPrefix(part, SubSeq(value, i, Len(value)))

\* What the schema says of the functions, given the values of the components.
Meets(node, args, values) ==
  LET given == Head(args).values
  IN  CASE node.kind = "begin" ->
             \A i \in DOMAIN values :
               /\ IsPrefix(node.char, values[i]) /\ IsSuffix(given[i], values[i])
               /\ IsPrefix(node.char, given[i]) /\ given[i] # node.char
                    => values[i] = given[i]
        [] node.kind = "end" ->
             \A i \in DOMAIN values :
               /\ IsSuffix(node.char, values[i]) /\ IsPrefix(given[i], values[i])
               /\ IsSuffix(node.char, given[i]) /\ given[i] # node.char
                    => values[i] = given[i]
        [] node.kind = "substring" ->
             \A i \in DOMAIN values :
               \E skipped, left \in 0..Len(given[i]) :
                 /\ values[i] = SubSeq(given[i], skipped + 1, Len(given[i]) - left)
                 /\ node.start > 1 => skipped = node.start - 1
                 /\ node.start <= 1 => skipped = 0
                 /\ left = 0 \/ Len(values[i]) = node.length
        [] node.kind = "split" ->
             /\ Joined(values, node.delim) = Joined(given, node.delim)
             /\ \A i \in DOMAIN values : ~HasPart(values[i], node.delim)
        [] node.kind = "unique" ->
             /\ ToSet(values) = UNION {ToSet(args[i].values) : i \in DOMAIN args}
             /\ Len(values) = Cardinality(ToSet(values))
        [] node.kind = "concat" /\ Len(args) = 2 ->
             \A i \in DOMAIN given, j \in DOMAIN args[2].values :
               values[(i - 1) * Len(args[2].values) + j] = given[i] \o args[2].values[j]
        [] OTHER -> TRUE

\* A complete variable that is one function has the values the schema says, each
\* function by the relation of result and arguments the schema describes.  A
\* value equal to the character that it should begin or end with is left out
\* (BeginFunction.cpp:71, EndFunction.cpp:71): it is doubled.
FunctionsMeetTheSchema ==
  \A v \in CompleteLocals :
    LET node == doc.components[Root(v)]
    IN  node.kind \in FunctionKind =>
          \A time \in Clock :
            Meets(node, [i \in DOMAIN node.kids |-> Computed(node.kids[i], ReadBy(v), time)],
                  cache[v].values)

\* Collection and analysis end, in spite of circular references, unless an
\* exception ends them.
RunEnds == <>(phase \in {"done", "aborted"})
=============================================================================
