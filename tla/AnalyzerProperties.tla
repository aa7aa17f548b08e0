------------------------- MODULE AnalyzerProperties -------------------------
(***************************************************************************)
(* What the evaluation of a definitions document promises.                 *)
(***************************************************************************)
EXTENDS Analyzer, SchemaTables

Definitions == {n \in Node : doc.kind[n] = "definition"}
Tests == {n \in Node : doc.kind[n] = "test"}

\* The nodes below n, n included: what Parse, Analyze and Write of n reach.
Reach(d, n) ==
  LET r[m \in Node] == {m} \cup UNION {r[k] : k \in Kids(d, m)}
  IN  r[n]

Requested ==
  IF request.all THEN Definitions
  ELSE {request.ids[i] : i \in DOMAIN request.ids} \cap Definitions

Needed == UNION {Reach(doc, d) : d \in Requested}

IsSubject(n) == doc.kind[n] \in {"definition", "test"}

OutputNodes == {output[i].node : i \in DOMAIN output}

-----------------------------------------------------------------------------
\* A definition is printed at most once, in one list, and it is printed as soon
\* as it has a verdict; a definition that others extend is reached many times
\* (Definition.cpp: Analyze and NotEvaluated, "make sure the results are stored
\* only once").
ReportedExactlyOnce ==
  /\ \A r, s \in ResultEnumeration :
       \A i \in DOMAIN reports[r], j \in DOMAIN reports[s] :
         reports[r][i].node = reports[s][j].node => r = s /\ i = j
  /\ \A n \in Node :
       n \in analyzed /\ doc.kind[n] = "definition"
       <=> \E r \in ResultEnumeration : \E i \in DOMAIN reports[r] :
             reports[r][i].node = n

\* Definitions and tests are written at most once, although every reference to
\* them calls Write (Definition.cpp, Test.cpp: Write).
WrittenOnce ==
  \A i, j \in DOMAIN output :
    output[i].node = output[j].node /\ IsSubject(output[i].node) => i = j

\* The results the schema allows for n, from the results its children ended
\* with.  A test has none: what it yields is described in TestEvaluation.
SchemaResults(n) ==
  LET kids == [j \in DOMAIN doc.kids[n] |-> result[doc.kids[n][j]]]
      flip(r) == IF doc.negate[n] \notin {"true", "1"} THEN r
                 ELSE IF r = "true" THEN "false"
                 ELSE IF r = "false" THEN "true" ELSE r
  IN  CASE doc.kind[n] = "criteria" ->
             {flip(r) : r \in ChartResults(OperatorChart(doc.op[n]),
                                           ResultColumns, ResultTally(kids))}
        [] doc.kind[n] \in {"criterion", "extend_definition"} ->
             {flip(kids[1])}
        [] doc.kind[n] = "definition" ->
             {IF kids = << >> THEN "not evaluated" ELSE kids[1]}
        [] OTHER -> ResultEnumeration

\* What the requested definitions depend on has the result the schema's charts
\* give for those of the children, down to the tests: sharing, caching and the
\* order of the document leave no trace.  What depends on nothing of theirs is
\* not evaluated, negated or not (Analyzer.h:55-57).  Two cases are left out:
\*   - negate="0", which the schema takes for false and Parse for true: the
\*     element is negated against the schema (Criteria.cpp:187, Criterion.cpp:106,
\*     ExtendedDefinition.cpp:116);
\*   - a definition that was not requested and shares tests or definitions with
\*     one that was: it shows a result made of what was evaluated for the other,
\*     where Analyzer.h says it is reported as not evaluated (Test.cpp:663).
ResultsFollowTheSchema ==
  phase = "done" =>
    \A i \in DOMAIN output :
      LET n == output[i].node
      IN  /\ n \in Needed /\ doc.negate[n] # "0" =>
               output[i].result \in SchemaResults(n)
          /\ Reach(doc, n) \cap Needed = {} => output[i].result = "not evaluated"

\* Run(ids) looks at a test exactly when a requested definition depends on it,
\* directly or through the definitions it extends: a test shared with a
\* definition that was not requested is not lost, and none is evaluated in vain
\* (Analyzer.cpp: the requested ids come before the loop over the others).
ExactlyTheNeededTests ==
  phase = "done" =>
    \A t \in Tests \cap analyzed :
      (result[t] # "not evaluated") <=> (t \in Needed)

\* A finished document holds every definition, everything each definition
\* refers to, and nothing else.
DocumentIsComplete ==
  phase = "done" => OutputNodes = UNION {Reach(doc, d) : d \in Definitions}

\* Once a definition or a test has a verdict no later call changes it, whether
\* it comes as Analyze or as NotEvaluated.
VerdictsAreFinal ==
  [][/\ analyzed \subseteq analyzed'
     /\ \A n \in analyzed : result'[n] = result[n]]_vars

\* What module Verdicts sees of the Analyzer.
VerdictOf == [n \in analyzed |-> result[n]]

Shown == {output[i] : i \in {j \in DOMAIN output : IsSubject(output[j].node)}}

Promise ==
  INSTANCE Verdicts WITH
    Subject <- Node, Verdict <- ResultEnumeration,
    verdict <- VerdictOf, published <- Shown

\* Run implements the promise of module Verdicts.  What shows there as one step
\* is spread over recursions that meet in the same objects: a definition is
\* decided by whichever call of Analyze or NotEvaluated reaches it first and
\* published by whichever call of Write does (Definition.cpp, Test.cpp: analyzed,
\* written).
ImplementsVerdicts == Promise!Spec
=============================================================================
