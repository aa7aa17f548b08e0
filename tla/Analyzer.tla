------------------------------ MODULE Analyzer ------------------------------
(***************************************************************************)
(* The evaluation of a definitions document: Analyzer::Run(), which        *)
(* evaluates every definition, and Analyzer::Run(ids), which evaluates the *)
(* definitions named on the command line and reports the others.           *)
(*                                                                         *)
(* Run works through three recursions over the same graph, for one         *)
(* definition at a time: Parse builds and caches the objects, Analyze or   *)
(* NotEvaluated gives each a result, Write puts them into the results      *)
(* document.  The recursion crosses from one definition to another         *)
(* (extend_definition) and definitions share tests, so what one call does  *)
(* depends on what the caches and the analyzed and written flags hold from *)
(* earlier ones.  The C++ call stack is the variable stack; its head is    *)
(* the active call.                                                        *)
(***************************************************************************)
EXTENDS OvalEnum, Sequences

CONSTANTS
  Node,       \* elements of a definitions document, and ids that name none
  Documents,  \* the definitions documents Run may be given
  Requests    \* what the command line may ask for: see Request

\* definition: children are the root criteria, if any.  criteria: one child or
\* more.  criterion: the test.  extend_definition: the definition.  missing:
\* an id that occurs in the document or in a request and names no element.
Kind == {"definition", "criteria", "criterion", "extend_definition", "test",
         "missing"}

\* An xsd:boolean as a document spells it; "" where the attribute is absent.
BooleanText == {"", "true", "false", "1", "0"}

Document ==
  [definitions : Seq(Node),                \* in document order
   kind        : [Node -> Kind],
   kids        : [Node -> Seq(Node)],
   op          : [Node -> OperatorEnumeration],
   negate      : [Node -> BooleanText],
   height      : [Node -> Nat]]            \* shows that kids is acyclic

\* all: Run().  Otherwise Run(ids).
Request == [all : BOOLEAN, ids : Seq(Node)]

Kids(d, n) == {d.kids[n][i] : i \in DOMAIN d.kids[n]}

KidsAre(d, n, kinds) == \A k \in Kids(d, n) : d.kind[k] \in kinds

WellFormed(d) ==
  /\ \A n \in Node : \A k \in Kids(d, n) : d.height[k] < d.height[n]
  /\ \A n \in Node :
       /\ d.kind[n] \in {"test", "missing"} => d.kids[n] = << >>
       /\ d.kind[n] = "definition" =>
            Len(d.kids[n]) <= 1 /\ KidsAre(d, n, {"criteria"})
       /\ d.kind[n] = "criteria" =>
            /\ d.kids[n] # << >>
            /\ KidsAre(d, n, {"criteria", "criterion", "extend_definition"})
       /\ d.kind[n] = "criterion" =>
            Len(d.kids[n]) = 1 /\ KidsAre(d, n, {"test", "missing"})
       /\ d.kind[n] = "extend_definition" =>
            Len(d.kids[n]) = 1 /\ KidsAre(d, n, {"definition", "missing"})
  /\ \A n \in Node : d.kind[n] = "definition" <=>
                       \E i \in DOMAIN d.definitions : d.definitions[i] = n
  /\ \A i, j \in DOMAIN d.definitions :
       d.definitions[i] = d.definitions[j] => i = j

\* Documents pass the schema validation of XmlProcessor::ParseFile, which
\* gives ids their uniqueness; that no definition extends itself, directly or
\* not, is what the interpreter takes for granted.
ASSUME DocumentsAssumption ==
  /\ \A d \in Documents : d \in Document /\ WellFormed(d)
  /\ Requests \subseteq Request

VARIABLES
  doc,       \* DocumentManager::GetDefinitionDocument()
  request,   \* the arguments of Run
  phase,     \* which loop of Run is active, or how Run ended
  cursor,    \* the position of that loop
  stack,     \* the active calls, innermost first
  cache,     \* Definition::processedDefinitionsMap, Test::processedTestsMap
  analyzed,  \* the objects whose analyzed flag is set
  result,    \* the result field of every object
  written,   \* the objects whose written flag is set
  output,    \* the elements appended to the results document
  reports    \* Analyzer::trueResults, falseResults, ...: one list a result

vars == <<doc, request, phase, cursor, stack, cache, analyzed, result, written,
          output, reports>>

Evaluation == {"Analyze", "NotEvaluated"}
Call == {"Parse", "Write"} \cup Evaluation

\* next: the child the call's loop comes to next; for Write, 0 before the call
\* has looked at the written flag.  got: the results its children returned.
Frame == [call : Call, node : Node, next : Nat, got : Seq(ResultEnumeration)]

Phase == {"ids", "rest", "done", "aborted"}

TypeOK ==
  /\ doc \in Document
  /\ request \in Requests
  /\ phase \in Phase
  /\ cursor \in Nat \ {0}
  /\ stack \in Seq(Frame)
  /\ cache \in SUBSET Node
  /\ analyzed \in SUBSET Node
  /\ result \in [Node -> ResultEnumeration]
  /\ written \in SUBSET Node
  /\ output \in Seq([node : Node, result : ResultEnumeration])
  /\ reports \in [ResultEnumeration ->
                    Seq([node : Node, result : ResultEnumeration])]

\* The constructors of Definition, Test and AbsCriteria set result to error.
Init ==
  /\ doc \in Documents
  /\ request \in Requests
  /\ phase = IF request.all THEN "rest" ELSE "ids"
  /\ cursor = 1
  /\ stack = << >>
  /\ cache = {}
  /\ analyzed = {}
  /\ result = [n \in Node |-> "error"]
  /\ written = {}
  /\ output = << >>
  /\ reports = [r \in ResultEnumeration |-> << >>]

-----------------------------------------------------------------------------
(***************************************************************************)
(* The call stack.                                                         *)
(***************************************************************************)
Called(call, n) ==
  [call |-> call, node |-> n, next |-> IF call = "Write" THEN 0 ELSE 1,
   got |-> << >>]

top == Head(stack)
Active(calls) == stack # << >> /\ top.call \in calls
IsKind(kinds) == doc.kind[top.node] \in kinds
HasChild == top.next \in DOMAIN doc.kids[top.node]
child == doc.kids[top.node][top.next]

\* The loop of a call comes to the next child.
Advance(frame) == [frame EXCEPT !.next = @ + 1]
Advanced == Advance(top)
Step == stack' = <<Advanced>> \o Tail(stack)

\* The active call calls the same method of its child.
Descend == stack' = <<Called(top.call, child), Advanced>> \o Tail(stack)

Return == stack' = Tail(stack)

\* The active call returns r to the loop that pushes it onto the results of
\* the caller; the outermost result is dropped by Run.
PushBack(frame, r) == [frame EXCEPT !.got = Append(@, r)]
ReturnResult(r) ==
  LET callers == Tail(stack)
  IN  stack' = IF callers # << >> /\ Head(callers).call \in Evaluation
                 THEN <<PushBack(Head(callers), r)>> \o Tail(callers)
                 ELSE callers

-----------------------------------------------------------------------------
(***************************************************************************)
(* Parse.  GetDefinitionById and GetTestById return what the cache holds;  *)
(* otherwise the object is parsed and enters the cache when it is whole.   *)
(***************************************************************************)
Cached(n) == n \in cache

ParseChild ==
  /\ Active({"Parse"}) /\ HasChild
  /\ doc.kind[child] # "missing"
  /\ IF Cached(child) THEN Step ELSE Descend
  /\ UNCHANGED <<doc, request, phase, cursor, cache, analyzed, result, written,
                 output, reports>>

ParseEnd ==
  /\ Active({"Parse"}) /\ ~HasChild
  /\ Return
  /\ cache' = IF IsKind({"definition", "test"})
                THEN cache \cup {top.node} ELSE cache
  /\ UNCHANGED <<doc, request, phase, cursor, analyzed, result, written, output,
                 reports>>

\* An exception leaves Run: nothing is cleared and the results document is
\* not finished.
Abort ==
  /\ phase' = "aborted"
  /\ stack' = << >>
  /\ UNCHANGED <<doc, request, cursor, cache, analyzed, result, written, output,
                 reports>>

\* GetDefinitionById and GetTestById throw for an id that names no element.
ParseMissing ==
  /\ Active({"Parse"}) /\ HasChild
  /\ doc.kind[child] = "missing"
  /\ Abort

-----------------------------------------------------------------------------
(***************************************************************************)
(* Analyze and NotEvaluated.  Definitions and tests have an analyzed flag; *)
(* the nodes of a criteria tree belong to one definition and have none.    *)
(***************************************************************************)
\* Faulty form: the initial value of the result field stands for the flag.
AnalyzedByResult(n) == result[n] # "error"

IsAnalyzed(n) == n \in analyzed

\* Parse sets negate for every text but two: "0" negates as "1" does.
Negates(n) == doc.negate[n] \notin {"", "false"}

\* Faulty form: the negate attribute of an extend_definition is not applied.
CombinedWithoutNegatedExtension(n, got) ==
  CASE doc.kind[n] = "definition" ->
         IF got = << >> THEN "not evaluated" ELSE got[1]
    [] doc.kind[n] = "criteria" ->
         Negated(Negates(n),
                 CombineResultsByOperator(ResultTally(got), doc.op[n]))
    [] doc.kind[n] = "criterion" -> Negated(Negates(n), got[1])
    [] doc.kind[n] = "extend_definition" -> got[1]

\* What a node makes of the results of its children.
Combined(n, got) ==
  CASE doc.kind[n] = "definition" ->
         IF got = << >> THEN "not evaluated" ELSE got[1]
    [] doc.kind[n] = "criteria" ->
         Negated(Negates(n),
                 CombineResultsByOperator(ResultTally(got), doc.op[n]))
    [] doc.kind[n] \in {"criterion", "extend_definition"} ->
         Negated(Negates(n), got[1])

\* Definition::Analyze files the pair under its result,
\* Definition::NotEvaluated always under not evaluated.
ListFor(call, r) == IF call = "Analyze" THEN r ELSE "not evaluated"

Report(n, r) ==
  reports' = [reports EXCEPT ![ListFor(top.call, r)] =
                Append(@, [node |-> n, result |-> r])]

AnalyzeAgain ==
  /\ Active(Evaluation)
  /\ IsAnalyzed(top.node)
  /\ ReturnResult(result[top.node])
  /\ UNCHANGED <<doc, request, phase, cursor, cache, analyzed, result, written,
                 output, reports>>

\* Faulty form: an extended definition that was not asked for is not evaluated.
AnalyzeOnlyTheRequested ==
  /\ Active(Evaluation) /\ HasChild
  /\ ~IsAnalyzed(top.node)
  /\ IF /\ IsKind({"extend_definition"}) /\ ~request.all
        /\ \A i \in DOMAIN request.ids : request.ids[i] # child
       THEN stack' = <<Called("NotEvaluated", child), Advanced>> \o Tail(stack)
       ELSE Descend
  /\ UNCHANGED <<doc, request, phase, cursor, cache, analyzed, result, written,
                 output, reports>>

AnalyzeChild ==
  /\ Active(Evaluation) /\ HasChild
  /\ ~IsAnalyzed(top.node)
  /\ Descend
  /\ UNCHANGED <<doc, request, phase, cursor, cache, analyzed, result, written,
                 output, reports>>

AnalyzeEnd ==
  /\ Active(Evaluation) /\ ~HasChild
  /\ ~IsKind({"test"})
  /\ ~IsAnalyzed(top.node)
  /\ LET r == Combined(top.node, top.got)
     IN  /\ result' = [result EXCEPT ![top.node] = r]
         /\ ReturnResult(r)
         /\ IF IsKind({"definition"})
              THEN analyzed' = analyzed \cup {top.node} /\ Report(top.node, r)
              ELSE UNCHANGED <<analyzed, reports>>
  /\ UNCHANGED <<doc, request, phase, cursor, cache, written, output>>

SetTestResult(r) ==
  /\ result' = [result EXCEPT ![top.node] = r]
  /\ analyzed' = analyzed \cup {top.node}
  /\ ReturnResult(r)
  /\ UNCHANGED <<doc, request, phase, cursor, cache, written, output, reports>>

\* Test::Analyze, which module TestEvaluation describes; none of its branches
\* yields not evaluated.
AnalyzeTest(r) ==
  /\ Active({"Analyze"}) /\ IsKind({"test"})
  /\ ~IsAnalyzed(top.node)
  /\ SetTestResult(r)

\* Test::NotEvaluated
SkipTest ==
  /\ Active({"NotEvaluated"}) /\ IsKind({"test"})
  /\ ~IsAnalyzed(top.node)
  /\ SetTestResult("not evaluated")

\* Test::Analyze throws when the system characteristics refer to an item they
\* do not hold, or when their flags or statuses are none of the enumerations.
AnalyzeTestThrows ==
  /\ Active({"Analyze"}) /\ IsKind({"test"})
  /\ ~IsAnalyzed(top.node)
  /\ Abort

-----------------------------------------------------------------------------
(***************************************************************************)
(* Write.  Definitions and tests have a written flag, set before their     *)
(* children are written.                                                   *)
(***************************************************************************)
IsWritten(n) == n \in written

WriteAgain ==
  /\ Active({"Write"}) /\ top.next = 0
  /\ IsWritten(top.node)
  /\ Return
  /\ UNCHANGED <<doc, request, phase, cursor, cache, analyzed, result, written,
                 output, reports>>

\* Faulty form: tests are not marked as written.
WriteMarksDefinitionsOnly ==
  /\ Active({"Write"}) /\ top.next = 0
  /\ ~IsWritten(top.node)
  /\ Step
  /\ written' = IF IsKind({"definition"})
                  THEN written \cup {top.node} ELSE written
  /\ output' = Append(output,
                      [node |-> top.node, result |-> result[top.node]])
  /\ UNCHANGED <<doc, request, phase, cursor, cache, analyzed, result, reports>>

\* The flag is set first, then the element is added with its attributes.
AddElement ==
  /\ Active({"Write"}) /\ top.next = 0
  /\ ~IsWritten(top.node)
  /\ written' = IF IsKind({"definition", "test"})
                  THEN written \cup {top.node} ELSE written
  /\ output' = Append(output,
                      [node |-> top.node, result |-> result[top.node]])
  /\ UNCHANGED <<doc, request, cursor, cache, analyzed, result, reports>>

WriteElement == AddElement /\ Step /\ UNCHANGED phase

\* Test::Write lists the variables of the test's states below its element.  The
\* reading of an object for one that has an object_component throws out of Run
\* when the object's flag is not complete: see TestsCanBeWritten of module
\* VariableProperties.
WriteTestThrows ==
  /\ AddElement
  /\ IsKind({"test"})
  /\ phase' = "aborted"
  /\ stack' = << >>

WriteChild ==
  /\ Active({"Write"}) /\ HasChild
  /\ Descend
  /\ UNCHANGED <<doc, request, phase, cursor, cache, analyzed, result, written,
                 output, reports>>

WriteEnd ==
  /\ Active({"Write"}) /\ top.next # 0 /\ ~HasChild
  /\ Return
  /\ UNCHANGED <<doc, request, phase, cursor, cache, analyzed, result, written,
                 output, reports>>

-----------------------------------------------------------------------------
(***************************************************************************)
(* The loops of Run.  A definition that is in the cache was evaluated and  *)
(* written on behalf of an earlier one and is passed over.                 *)
(***************************************************************************)
Process(call, d) ==
  <<Called("Parse", d), Called(call, d), Called("Write", d)>>

Handle(call, d) ==
  /\ stack' = IF Cached(d) THEN << >> ELSE Process(call, d)
  /\ cursor' = cursor + 1
  /\ UNCHANGED <<doc, request, phase, cache, analyzed, result, written, output,
                 reports>>

\* The loop over definitionIds.  An id that names no definition is logged.
HandleRequested ==
  /\ phase = "ids" /\ stack = << >>
  /\ cursor \in DOMAIN request.ids
  /\ doc.kind[request.ids[cursor]] = "definition"
  /\ Handle("Analyze", request.ids[cursor])

RequestedNotFound ==
  /\ phase = "ids" /\ stack = << >>
  /\ cursor \in DOMAIN request.ids
  /\ doc.kind[request.ids[cursor]] # "definition"
  /\ cursor' = cursor + 1
  /\ UNCHANGED <<doc, request, phase, stack, cache, analyzed, result, written,
                 output, reports>>

RequestedDone ==
  /\ phase = "ids" /\ stack = << >>
  /\ cursor \notin DOMAIN request.ids
  /\ phase' = "rest"
  /\ cursor' = 1
  /\ UNCHANGED <<doc, request, stack, cache, analyzed, result, written, output,
                 reports>>

\* The loop over the children of the definitions element.
HandleNext ==
  /\ phase = "rest" /\ stack = << >>
  /\ cursor \in DOMAIN doc.definitions
  /\ Handle(IF request.all THEN "Analyze" ELSE "NotEvaluated",
            doc.definitions[cursor])

\* Faulty form: the loop ends one definition early.
FinishBeforeTheLast ==
  /\ phase = "rest" /\ stack = << >>
  /\ cursor \notin DOMAIN Tail(doc.definitions)
  /\ phase' = "done"
  /\ cache' = {}
  /\ UNCHANGED <<doc, request, cursor, stack, analyzed, result, written, output,
                 reports>>

\* ClearCache of Definition and Test, then FinializeResultsDocument.
Finish ==
  /\ phase = "rest" /\ stack = << >>
  /\ cursor \notin DOMAIN doc.definitions
  /\ phase' = "done"
  /\ cache' = {}
  /\ UNCHANGED <<doc, request, cursor, stack, analyzed, result, written, output,
                 reports>>

RunStep ==
  \/ ParseChild \/ ParseEnd \/ ParseMissing
  \/ AnalyzeAgain \/ AnalyzeChild \/ AnalyzeEnd
  \/ \E r \in ResultEnumeration \ {"not evaluated"} : AnalyzeTest(r)
  \/ SkipTest \/ AnalyzeTestThrows
  \/ WriteAgain \/ WriteElement \/ WriteTestThrows \/ WriteChild \/ WriteEnd
  \/ HandleRequested \/ RequestedNotFound \/ RequestedDone
  \/ HandleNext \/ Finish

\* Run has returned, or an exception has left it.
Terminated == phase \in {"done", "aborted"} /\ UNCHANGED vars

Next == RunStep \/ Terminated

Spec == Init /\ [][Next]_vars
=============================================================================
