------------------------------- MODULE MCTest -------------------------------
(***************************************************************************)
(* Tests with up to two states over collected objects of up to MaxItems    *)
(* references.                                                             *)
(***************************************************************************)
EXTENDS TestEvaluation, SequencesExt

CONSTANT MaxItems   \* bound: references of a collected object

CONSTANTS e1, e2, s1, s2, lost, both, first, second, neither, broken, absent,
          failed, skipped, dangling

\* The items that exist differ in the states they satisfy; second lacks the
\* entity of s1.
Existing == {both, first, second, neither, broken}
MCStatus ==
  [i \in Existing \cup {absent, failed, skipped} |->
     CASE i \in Existing -> "exists"
       [] i = absent -> "does not exist"
       [] i = failed -> "error"
       [] i = skipped -> "not collected"]

MCItemId == DOMAIN MCStatus \cup {dangling}

MCEntity == {e1, e2}
MCEntityCheck == [e \in MCEntity |-> IF e = e1 THEN "all" ELSE "at least one"]

MCComparison ==
  [i \in DOMAIN MCStatus |->
    [e \in MCEntity |->
      CASE i = broken -> <<"error">>
        [] i = second /\ e = e1 -> << >>
        [] i \in {both, first} /\ e = e1 -> <<"true">>
        [] i \in {both, second} /\ e = e2 -> <<"false", "true">>
        [] OTHER -> <<"false">>]]

MCObjectMatch ==
  [i \in DOMAIN MCStatus |->
     CASE i = neither -> "false" [] i = broken -> "error" [] OTHER -> "true"]

\* lost is not in the definitions document.
MCStateId == {s1, s2, lost}
MCStates ==
  [s \in {s1, s2} |->
     [entities |-> IF s = s1 THEN {e1} ELSE {e2}, op |-> "AND"]]

MCTests ==
  [object : {TRUE}, existence : ExistenceEnumeration,
   check : CheckEnumeration, stateOperator : {"AND"},
   states : {{}, {s1}, {s1, s2}}]
  \cup
  [object : {TRUE}, existence : {"any_exist"}, check : {"all", "none exist"},
   stateOperator : {"XOR"}, states : {{s1, s2}, {s1, lost}}]
  \cup
  [object : {FALSE}, existence : {"any_exist"}, check : {"all"},
   stateOperator : {"AND"}, states : {{}}]

MCCollections ==
  [recorded : {TRUE}, flag : {"complete", "incomplete"},
   refs : BoundedSeq(MCItemId, MaxItems)]
  \cup
  [recorded : {FALSE}, flag : {"not collected"},
   refs : BoundedSeq(DOMAIN MCStatus, MaxItems)]
  \cup
  [recorded : {TRUE}, flag : FlagEnumeration, refs : {<< >>, <<both>>}]
=============================================================================
