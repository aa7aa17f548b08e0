------------------------------ MODULE OvalEnum ------------------------------
(***************************************************************************)
(* The enumerations of OvalEnum and the functions that combine their       *)
(* values.  Every verdict the interpreter reports is computed by these     *)
(* functions: item results into a test result, test results into a         *)
(* criteria result, object flags into the flag of a set.                   *)
(*                                                                         *)
(* A value is the string that its ...ToString writes and its To... reads,  *)
(* an empty attribute being read as the default of the schema.  A string   *)
(* the schema does not allow, which most of them throw for, is in no valid *)
(* document.                                                               *)
(*                                                                         *)
(* The C++ functions take a vector but read nothing of it except how often *)
(* each value occurs, so here they take a tally: a function from the       *)
(* enumeration to the number of occurrences.                               *)
(***************************************************************************)
EXTENDS Naturals, FiniteSets

\* OvalEnum::ToResult
ResultEnumeration ==
  {"true", "false", "unknown", "error", "not evaluated", "not applicable"}

\* OvalEnum::ToOperator; AND for an empty one
OperatorEnumeration == {"AND", "ONE", "OR", "XOR"}

\* OvalEnum::ToCheck, "all" for an empty one, without the deprecated CHECK_NONE_EXIST, which Test::Parse
\* replaces and CombineResultsByCheck has no case for.
CheckEnumeration == {"all", "at least one", "none satisfy", "only one"}

\* OvalEnum::ToExistence, all_exist for an empty one
ExistenceEnumeration ==
  {"all_exist", "any_exist", "at_least_one_exists", "none_exist",
   "only_one_exists"}

\* OvalEnum::ToFlag, complete for an empty one
FlagEnumeration ==
  {"error", "complete", "incomplete", "does not exist", "not collected",
   "not applicable"}

\* OvalEnum::ToSetOperator; UNION for an empty one
SetOperatorEnumeration == {"COMPLEMENT", "INTERSECTION", "UNION"}

\* OvalEnum::ToSCStatus; exists for an empty one
SCStatus == {"error", "exists", "does not exist", "not collected"}

\* The counting loop that opens each of the combining functions.
Tally(s, Enum) == [v \in Enum |-> Cardinality({i \in DOMAIN s : s[i] = v})]

ResultTally(s) == Tally(s, ResultEnumeration)

\* results->size() == 0
Empty(c) == \A v \in DOMAIN c : c[v] = 0

\* No result other than those of R was counted.
Only(c, R) == \A r \in ResultEnumeration \ R : c[r] = 0

-----------------------------------------------------------------------------
(***************************************************************************)
(* Results.  The precedence among the results that are neither true nor    *)
(* false is error, unknown, not evaluated; "not applicable" counts only    *)
(* when it is alone.                                                       *)
(***************************************************************************)

\* The tail every branch of the two functions ends in; the initial value of
\* combinedResult is RESULT_UNKNOWN.
Undecided(c) ==
  IF c["error"] > 0 THEN "error"
  ELSE IF c["unknown"] > 0 THEN "unknown"
  ELSE IF c["not evaluated"] > 0 THEN "not evaluated"
  ELSE "unknown"

\* AND, check="all"
CombineAll(c) ==
  IF c["true"] > 0 /\ Only(c, {"true", "not applicable"}) THEN "true"
  ELSE IF c["false"] > 0 THEN "false"
  ELSE Undecided(c)

\* Faulty form: a result that is not applicable keeps the others from deciding.
AnyUnlessNotApplicable(c) ==
  IF c["true"] > 0 THEN "true"
  ELSE IF c["false"] > 0 /\ Only(c, {"false"}) THEN "false"
  ELSE Undecided(c)

\* OR, check="at least one"
CombineAny(c) ==
  IF c["true"] > 0 THEN "true"
  ELSE IF c["false"] > 0 /\ Only(c, {"false", "not applicable"}) THEN "false"
  ELSE Undecided(c)

\* Faulty form: the same for none.
NoneUnlessNotApplicable(c) ==
  IF c["true"] > 0 THEN "false"
  ELSE IF c["false"] > 0 /\ Only(c, {"false"}) THEN "true"
  ELSE Undecided(c)

\* check="none satisfy"
CombineNone(c) ==
  IF c["true"] > 0 THEN "false"
  ELSE IF c["false"] > 0 /\ Only(c, {"false", "not applicable"}) THEN "true"
  ELSE Undecided(c)

\* check="only one": the false branch comes last
CombineOnlyOne(c) ==
  LET settled == Only(c, {"true", "false", "not applicable"})
  IN  IF c["true"] = 1 /\ settled THEN "true"
      ELSE IF c["true"] > 1 THEN "false"
      ELSE IF ~settled THEN Undecided(c)
      ELSE "false"

\* Faulty form: two that are true decide only when nothing is undecided.
OneWhenSettled(c) ==
  IF ~Only(c, {"true", "false", "not applicable"}) THEN Undecided(c)
  ELSE IF c["true"] = 1 THEN "true" ELSE "false"

\* operator="ONE": the false branch comes before the undecided ones
CombineOne(c) ==
  LET settled == Only(c, {"true", "false", "not applicable"})
  IN  IF c["true"] = 1 /\ settled THEN "true"
      ELSE IF c["true"] >= 2 \/ (c["true"] = 0 /\ settled) THEN "false"
      ELSE Undecided(c)

\* Faulty form: exclusive or taken for exactly one.
XorAsExactlyOne(c) ==
  IF Only(c, {"true", "false", "not applicable"})
    THEN IF c["true"] = 1 THEN "true" ELSE "false"
    ELSE Undecided(c)

\* operator="XOR"
CombineXor(c) ==
  IF Only(c, {"true", "false", "not applicable"})
    THEN IF c["true"] % 2 = 1 THEN "true" ELSE "false"
    ELSE Undecided(c)

\* The early return for a vector that holds only not applicable results.
AllNotApplicable(c) ==
  c["not applicable"] > 0 /\ Only(c, {"not applicable"})

CombineResultsByCheck(c, check) ==
  IF Empty(c) THEN "unknown"
  ELSE IF AllNotApplicable(c) THEN "not applicable"
  ELSE CASE check = "all"          -> CombineAll(c)
         [] check = "at least one" -> CombineAny(c)
         [] check = "none satisfy" -> CombineNone(c)
         [] check = "only one"     -> CombineOnlyOne(c)

CombineResultsByOperator(c, op) ==
  IF Empty(c) THEN "unknown"
  ELSE IF AllNotApplicable(c) THEN "not applicable"
  ELSE CASE op = "AND" -> CombineAll(c)
         [] op = "ONE" -> CombineOne(c)
         [] op = "OR"  -> CombineAny(c)
         [] op = "XOR" -> CombineXor(c)

NegateResult(r) ==
  CASE r = "true"  -> "false"
    [] r = "false" -> "true"
    [] OTHER       -> r

\* The way every node of a criteria tree applies its negate attribute.
Negated(negate, r) == IF negate THEN NegateResult(r) ELSE r

-----------------------------------------------------------------------------
(***************************************************************************)
(* Flags of collected objects and of variables.                            *)
(***************************************************************************)

\* The flag of a component computed from several others: the worst wins, and
\* "not applicable" is the worst after "error".
CombineFlags(c) ==
  IF Empty(c) \/ c["error"] > 0 THEN "error"
  ELSE IF c["not applicable"] > 0 THEN "not applicable"
  ELSE IF c["not collected"] > 0 THEN "not collected"
  ELSE IF c["does not exist"] > 0 THEN "does not exist"
  ELSE IF c["incomplete"] > 0 THEN "incomplete"
  ELSE "complete"

FlagTally(s) == Tally(s, FlagEnumeration)

=============================================================================
