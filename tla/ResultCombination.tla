-------------------------- MODULE ResultCombination --------------------------
(***************************************************************************)
(* The vector of child results that Criteria::Analyze, Test::              *)
(* EvaluateCheckState, State::Analyze and AbsEntity::Analyze build with    *)
(* push_back before they hand it to OvalEnum, and the comparison of what   *)
(* OvalEnum makes of it with the charts of the OVAL schema.                *)
(***************************************************************************)
EXTENDS OvalEnum, SchemaTables, Sequences

CONSTANT MaxResults   \* bound: how many children are combined at most

ASSUME MaxResultsAssumption == MaxResults \in Nat

VARIABLE results      \* IntVector results

TypeOK == results \in Seq(ResultEnumeration) /\ Len(results) <= MaxResults

Init == results = << >>

\* results.push_back(child->Analyze())
Push(r) ==
  /\ Len(results) < MaxResults
  /\ results' = Append(results, r)

Next == \E r \in ResultEnumeration : Push(r)

Spec == Init /\ [][Next]_results

-----------------------------------------------------------------------------
tally == ResultTally(results)

\* The schema gives no row to an empty tally; for every other one the result
\* of combining by operator is one the chart of that operator allows
\* (OvalEnum.cpp: CombineResultsByOperator).
OperatorsFollowTheSchema ==
  results # << >> =>
    \A op \in OperatorEnumeration :
      CombineResultsByOperator(tally, op)
        \in ChartResults(OperatorChart(op), ResultColumns, tally)

\* The same for combining by check (OvalEnum.cpp: CombineResultsByCheck), whose
\* branches are another copy of the same case analysis.
ChecksFollowTheSchema ==
  results # << >> =>
    \A check \in CheckEnumeration :
      CombineResultsByCheck(tally, check)
        \in ChartResults(CheckChart(check), ResultColumns, tally)

\* De Morgan over six values: negating every child and the operator negates
\* the criteria.  A policy author may rewrite a definition that way, and the
\* verdict must not depend on it (OvalEnum.cpp: NegateResult together with
\* CombineResultsByOperator).
NegatedOperandsAreDual ==
  LET negated == ResultTally([i \in DOMAIN results |-> NegateResult(results[i])])
  IN  NegateResult(CombineResultsByOperator(tally, "AND"))
        = CombineResultsByOperator(negated, "OR")

\* Criteria may be nested or flattened: folding the last child into the
\* result of the others gives the result of combining them all at once
\* (OvalEnum.cpp: CombineResultsByOperator, called at every level of a tree).
NestingIsAssociative ==
  \A op \in {"AND", "OR", "XOR"} :
    Len(results) >= 2 =>
      LET front == CombineResultsByOperator(
                     ResultTally(SubSeq(results, 1, Len(results) - 1)), op)
      IN  CombineResultsByOperator(
            ResultTally(<<front, results[Len(results)]>>), op)
          = CombineResultsByOperator(tally, op)

=============================================================================
