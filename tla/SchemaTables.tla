---------------------------- MODULE SchemaTables ----------------------------
(***************************************************************************)
(* The evaluation charts of the OVAL schemas the interpreter ships with    *)
(* (src/xml/oval-common-schema.xsd and oval-definitions-schema.xsd), kept  *)
(* in the shape they are printed in.  They are the reference the functions *)
(* of OvalEnum, Test and AbsObjectCollector are compared with; nothing     *)
(* here is translated from the C++ code.                                   *)
(***************************************************************************)
EXTENDS Naturals, Sequences

\* A cell of a chart: how many results of one kind the row allows.
Cell(p, n) ==
  \/ p = "0" /\ n = 0
  \/ p = "1" /\ n = 1
  \/ p = "0,1" /\ n \in {0, 1}
  \/ p = "0+"
  \/ p = "1+" /\ n >= 1
  \/ p = "2+" /\ n >= 2
  \/ p = "odd" /\ n % 2 = 1
  \/ p = "even" /\ n % 2 = 0

\* The columns of the result charts and of the item status charts.
ResultColumns ==
  <<"true", "false", "error", "unknown", "not evaluated", "not applicable">>
StatusColumns == <<"exists", "does not exist", "error", "not collected">>

\* A row is one pattern for each column and then the final result.
Matches(row, columns, tally) ==
  \A i \in DOMAIN columns : Cell(row[i], tally[columns[i]])

\* The final results the chart allows for a tally.  A tally no row describes
\* allows none.
ChartResults(chart, columns, tally) ==
  {row[Len(columns) + 1] :
     row \in {r \in chart : Matches(r, columns, tally)}}

\* The rows every chart has for the results that are neither true nor false.
AllNA == <<"0", "0", "0", "0", "0", "1+", "not applicable">>

ChartAll ==
  { <<"1+", "0",  "0",  "0",  "0",  "0+", "true">>,
    <<"0+", "1+", "0+", "0+", "0+", "0+", "false">>,
    <<"0+", "0",  "1+", "0+", "0+", "0+", "error">>,
    <<"0+", "0",  "0",  "1+", "0+", "0+", "unknown">>,
    <<"0+", "0",  "0",  "0",  "1+", "0+", "not evaluated">>,
    AllNA }

ChartAny ==
  { <<"1+", "0+", "0+", "0+", "0+", "0+", "true">>,
    <<"0",  "1+", "0",  "0",  "0",  "0+", "false">>,
    <<"0",  "0+", "1+", "0+", "0+", "0+", "error">>,
    <<"0",  "0+", "0",  "1+", "0+", "0+", "unknown">>,
    <<"0",  "0+", "0",  "0",  "1+", "0+", "not evaluated">>,
    AllNA }

ChartOne ==
  { <<"1",   "0+", "0",  "0",  "0",  "0+", "true">>,
    <<"2+",  "0+", "0+", "0+", "0+", "0+", "false">>,
    <<"0",   "1+", "0",  "0",  "0",  "0+", "false">>,
    <<"0,1", "0+", "1+", "0+", "0+", "0+", "error">>,
    <<"0,1", "0+", "0",  "1+", "0+", "0+", "unknown">>,
    <<"0,1", "0+", "0",  "0",  "1+", "0+", "not evaluated">>,
    AllNA }

ChartNone ==
  { <<"0",  "1+", "0",  "0",  "0",  "0+", "true">>,
    <<"1+", "0+", "0+", "0+", "0+", "0+", "false">>,
    <<"0",  "0+", "1+", "0+", "0+", "0+", "error">>,
    <<"0",  "0+", "0",  "1+", "0+", "0+", "unknown">>,
    <<"0",  "0+", "0",  "0",  "1+", "0+", "not evaluated">>,
    AllNA }

ChartXor ==
  { <<"odd",  "0+", "0",  "0",  "0",  "0+", "true">>,
    <<"even", "0+", "0",  "0",  "0",  "0+", "false">>,
    <<"0+",   "0+", "1+", "0+", "0+", "0+", "error">>,
    <<"0+",   "0+", "0",  "1+", "0+", "0+", "unknown">>,
    <<"0+",   "0+", "0",  "0",  "1+", "0+", "not evaluated">>,
    AllNA }

\* oval-common-schema.xsd, OperatorEnumeration
OperatorChart(op) ==
  CASE op = "AND" -> ChartAll
    [] op = "ONE" -> ChartOne
    [] op = "OR"  -> ChartAny
    [] op = "XOR" -> ChartXor

\* oval-common-schema.xsd, CheckEnumeration
CheckChart(check) ==
  CASE check = "all"          -> ChartAll
    [] check = "at least one" -> ChartAny
    [] check = "none satisfy" -> ChartNone
    [] check = "only one"     -> ChartOne

\* oval-common-schema.xsd, ExistenceEnumeration
ExistenceChart(existence) ==
  CASE existence = "all_exist" ->
         { <<"1+", "0",  "0",  "0",  "true">>,
           <<"0",  "0",  "0",  "0",  "false">>,
           <<"0+", "1+", "0+", "0+", "false">>,
           <<"0+", "0",  "1+", "0+", "error">>,
           <<"0+", "0",  "0",  "1+", "unknown">> }
    [] existence = "any_exist" ->
         { <<"0+", "0+", "0",  "0+", "true">>,
           <<"1+", "0+", "1+", "0+", "true">>,
           <<"0",  "0+", "1+", "0+", "error">> }
    [] existence = "at_least_one_exists" ->
         { <<"1+", "0+", "0+", "0+", "true">>,
           <<"0",  "1+", "0",  "0",  "false">>,
           <<"0",  "0+", "1+", "0+", "error">>,
           <<"0",  "0+", "0",  "1+", "unknown">> }
    [] existence = "none_exist" ->
         { <<"0",  "0+", "0",  "0",  "true">>,
           <<"1+", "0+", "0+", "0+", "false">>,
           <<"0",  "0+", "1+", "0+", "error">>,
           <<"0",  "0+", "0",  "1+", "unknown">> }
    [] existence = "only_one_exists" ->
         { <<"1",   "0+", "0",  "0",  "true">>,
           <<"2+",  "0+", "0+", "0+", "false">>,
           <<"0",   "0+", "0",  "0",  "false">>,
           <<"0,1", "0+", "1+", "0+", "error">>,
           <<"0,1", "0+", "0",  "1+", "unknown">> }
=============================================================================
