----------------------------- MODULE ResultProofs -----------------------------
(***************************************************************************)
(* Vectors of every length meet the charts: the invariants of module       *)
(* ResultCombination from the lemmas about tallies.                        *)
(***************************************************************************)
EXTENDS ResultCombination, ProofLemmas

\* A vector of results holds results and stays within its bound.
THEOREM TypeCorrect == Spec => []TypeOK
<1>1. Init => TypeOK BY MaxResultsAssumption DEF Init, TypeOK
<1>2. TypeOK /\ [Next]_results => TypeOK'
  <2> SUFFICES ASSUME TypeOK, [Next]_results PROVE TypeOK' OBVIOUS
  <2>1. ASSUME NEW r \in ResultEnumeration, Push(r) PROVE TypeOK'
    BY <2>1, MaxResultsAssumption DEF Push, TypeOK
  <2>2. CASE UNCHANGED results BY <2>2 DEF TypeOK
  <2> QED BY <2>1, <2>2 DEF Next
<1> QED BY <1>1, <1>2, PTL DEF Spec

\* However many children a criteria has, its result is one of the chart's.
THEOREM OperatorsCorrect == Spec => []OperatorsFollowTheSchema
<1>1. TypeOK => OperatorsFollowTheSchema
  BY CountsOfResults, OperatorsMeetTheirCharts
     DEF TypeOK, OperatorsFollowTheSchema, tally
<1> QED BY <1>1, TypeCorrect, PTL

\* However many items a test has, its result is one of the chart's.
THEOREM ChecksCorrect == Spec => []ChecksFollowTheSchema
<1>1. TypeOK => ChecksFollowTheSchema
  BY CountsOfResults, ChecksMeetTheirCharts
     DEF TypeOK, ChecksFollowTheSchema, tally
<1> QED BY <1>1, TypeCorrect, PTL

\* De Morgan's law for criteria of any size: negating all children and the
\* operator negates the result.
THEOREM NegationCorrect == Spec => []NegatedOperandsAreDual
<1>1. ASSUME TypeOK PROVE NegatedOperandsAreDual
  <2> DEFINE negated ==
        ResultTally([i \in DOMAIN results |-> NegateResult(results[i])])
  <2>1. results \in Seq(ResultEnumeration) BY <1>1 DEF TypeOK
  <2>2. \A v \in ResultEnumeration : tally[v] \in Nat
    BY <2>1, PlacesAreFinite, FS_CardinalityType DEF tally, ResultTally, Tally
  <2>3. /\ DOMAIN tally = ResultEnumeration
        /\ DOMAIN negated = ResultEnumeration
        /\ negated["true"] = tally["false"] /\ negated["false"] = tally["true"]
        /\ \A v \in {"error", "unknown", "not evaluated", "not applicable"} :
             negated[v] = tally[v]
    BY <2>1, NegatedTally DEF tally
  <2> HIDE DEF negated
  <2>4. NegateResult(CombineResultsByOperator(tally, "AND"))
          = CombineResultsByOperator(negated, "OR")
    BY <2>2, <2>3, DualOfCounts
  <2> QED BY <2>4 DEF NegatedOperandsAreDual, negated
<1> QED BY <1>1, TypeCorrect, PTL

\* Splitting off the last child of a vector: its tally and that of the rest.
LEMMA LastChild ==
  ASSUME NEW s \in Seq(ResultEnumeration), Len(s) >= 2
  PROVE  LET front == SubSeq(s, 1, Len(s) - 1)
         IN  /\ front \in Seq(ResultEnumeration) /\ front # << >>
             /\ s[Len(s)] \in ResultEnumeration
             /\ s = Append(front, s[Len(s)])
<1> DEFINE n == Len(s) - 1
           front == SubSeq(s, 1, n)
<1>1. Len(s) \in Nat /\ n \in Nat /\ n >= 1 /\ n + 1 = Len(s) OBVIOUS
<1>2. \A i \in 1..Len(s) : s[i] \in ResultEnumeration OBVIOUS
<1> HIDE DEF n
<1>3. front \in Seq(ResultEnumeration) /\ Len(front) = n
      /\ \A i \in 1..n : front[i] = s[i]
  BY <1>1, <1>2
<1> HIDE DEF front
<1>4. front # << >> BY <1>1, <1>3
<1>5. s[n + 1] \in ResultEnumeration BY <1>1, <1>2
<1>6. /\ Append(front, s[n + 1]) \in Seq(ResultEnumeration)
      /\ Len(Append(front, s[n + 1])) = n + 1
      /\ \A i \in 1..(n + 1) : Append(front, s[n + 1])[i] = s[i]
  BY <1>1, <1>3, <1>5
<1>7. s = Append(front, s[n + 1]) BY <1>1, <1>6
<1> QED BY <1>1, <1>3, <1>4, <1>5, <1>7 DEF front, n

\* Criteria of any size can be nested: splitting off the last child does not
\* change the result of AND, OR and XOR.
THEOREM NestingCorrect == Spec => []NestingIsAssociative
<1>1. ASSUME TypeOK, NEW op \in {"AND", "OR", "XOR"}, Len(results) >= 2
      PROVE  LET front == CombineResultsByOperator(
                            ResultTally(SubSeq(results, 1, Len(results) - 1)), op)
             IN  CombineResultsByOperator(
                   ResultTally(<<front, results[Len(results)]>>), op)
                 = CombineResultsByOperator(tally, op)
  <2> DEFINE s == SubSeq(results, 1, Len(results) - 1)
             x == results[Len(results)]
             c == ResultTally(s)
             r == CombineResultsByOperator(c, op)
             p == ResultTally(<<r, x>>)
  <2>1. results \in Seq(ResultEnumeration) BY <1>1 DEF TypeOK
  <2>2. /\ s \in Seq(ResultEnumeration) /\ s # << >>
        /\ x \in ResultEnumeration /\ results = Append(s, x)
    BY <1>1, <2>1, LastChild
  <2> HIDE DEF s, x
  <2>3. results # << >> BY <2>2
  <2>4. c \in Counts /\ tally \in Counts
    BY <2>1, <2>2, <2>3, CountsOfResults DEF tally
  <2>5. r \in ResultEnumeration
    <3>1. First(c, AndRank, CombineResultsByOperator(c, "AND"))
          /\ First(c, OrRank, CombineResultsByOperator(c, "OR"))
      BY <2>4, AndIsFirst, OrIsFirst
    <3>2. CombineResultsByOperator(c, "XOR") \in ResultEnumeration
      BY <2>4, XorIsFirstOrParity DEF Unsettled, ResultEnumeration
    <3> QED BY <3>1, <3>2 DEF First, Counted
  <2> HIDE DEF r, c
  <2>6. <<r, x>> \in Seq(ResultEnumeration) /\ <<r, x>> # << >>
    BY <2>2, <2>5
  <2>7. p \in Counts BY <2>6, CountsOfResults
  <2>8. Merged(c, tally, p, r, x)
    <3> SUFFICES ASSUME NEW v \in ResultEnumeration
                 PROVE  /\ c[v] \in Nat
                        /\ tally[v] = c[v] + (IF v = x THEN 1 ELSE 0)
                        /\ p[v] = (IF v = r THEN 1 ELSE 0)
                                    + (IF v = x THEN 1 ELSE 0)
      BY DEF Merged
    <3>1. /\ c[v] \in Nat /\ tally[v] = c[v] + (IF v = x THEN 1 ELSE 0)
      BY <2>2, TallyOfAppend DEF c, tally
    <3>2. p[v] = (IF v = r THEN 1 ELSE 0) + (IF v = x THEN 1 ELSE 0)
      BY SMTT(30), <2>2, <2>5, TallyOfPair
    <3> QED BY <3>1, <3>2
  <2> HIDE DEF p
  <2>9. CombineResultsByOperator(p, op) = CombineResultsByOperator(tally, op)
    BY <2>2, <2>4, <2>7, <2>8, CombiningIsAssociative DEF r
  <2> QED BY <2>9 DEF p, r, c, s, x
<1>2. TypeOK => NestingIsAssociative BY <1>1 DEF NestingIsAssociative
<1> QED BY <1>2, TypeCorrect, PTL
=============================================================================
