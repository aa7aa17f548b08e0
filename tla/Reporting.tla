------------------------------ MODULE Reporting ------------------------------
(***************************************************************************)
(* What directives promise: the report has every definition they ask for,  *)
(* with content full everything the definition needs, with content thin    *)
(* its result only, and nothing else.                                      *)
(***************************************************************************)
EXTENDS Naturals, FiniteSets

VARIABLES
  source,         \* the results: elements, their references and results
  directives,     \* by class of definitions and result, as stated
  includeSource,
  published,
  report          \* [elements, criteria] of the results

vars == <<source, directives, includeSource, published, report>>

\* An xsd:boolean; an attribute that is absent counts as true.
IsTrue(text) == text \in {"", "true", "1"}

Ids == DOMAIN source.kind
Definitions == {d \in Ids : source.kind[d] = "definition"}

Directive(d) ==
  IF source.class[d] \in DOMAIN directives
    THEN directives[source.class[d]][source.result[d]]
    ELSE directives["default"][source.result[d]]

Reported(content) ==
  {d \in Definitions : IsTrue(Directive(d).reported) /\ Directive(d).content = content}

\* One needs what it refers to.  The variables of states, and the variables
\* other variables are computed from, do not count.
Needs(x, y) ==
  \E r \in source.references :
    /\ r.from = x /\ r.to = y
    /\ source.kind[x] # "state"
    /\ ~(source.kind[x] = "variable" /\ source.kind[y] = "variable")

\* The smallest set with the elements of S that has what its members need.
Closure(S) ==
  LET Within[n \in 0..Cardinality(Ids)] ==
        IF n = 0 THEN S
        ELSE UNION {{x} \cup {y \in Ids : Needs(x, y)} : x \in Within[n - 1]}
  IN  Within[Cardinality(Ids)]

Whole == [elements |-> {x \in Ids : source.kind[x] \notin {"state", "variable"}},
          criteria |-> source.criteria]

\* Nothing is left out.
Everything ==
  /\ IsTrue(includeSource)
  /\ DOMAIN directives = {"default"}
  /\ \A r \in DOMAIN directives["default"] :
       /\ IsTrue(directives["default"][r].reported)
       /\ directives["default"][r].content = "full"

Asked ==
  LET full == Closure(Reported("full"))
  IN  IF Everything THEN Whole
      ELSE [elements |-> Whole.elements \cap (full \cup Reported("thin")),
            criteria |-> source.criteria \cap full]

-----------------------------------------------------------------------------
Init == published = FALSE /\ report = Whole

\* No truth value is spelt "0".
Plain ==
  /\ includeSource # "0"
  /\ \A c \in DOMAIN directives : \A r \in DOMAIN directives[c] :
       directives[c][r].reported # "0"

\* What a report is otherwise is left open.
Publish ==
  /\ ~published
  /\ published' = TRUE
  /\ Plain => report' = Asked
  /\ UNCHANGED <<source, directives, includeSource>>

Spec == Init /\ [][Publish]_vars
=============================================================================
