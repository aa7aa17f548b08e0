------------------------------ MODULE MCVariables ------------------------------
(***************************************************************************)
(* Two objects p and q, whose entities refer to the variables v and w      *)
(* (declared in one of the ways of VariableForms and LocalForms, which     *)
(* refer to the objects and to each other), and documents with one         *)
(* function over constants.                                                *)
(***************************************************************************)
EXTENDS VariableProperties

CONSTANTS
  MCFinds     \* the names of what collecting q may come to

MCVariable == {"v", "w"}
MCObject == {"p", "q"}
MCItemField == {"name", "record"}

Texts == <<<<"a">>, <<"b">>, <<"a", "b">>, <<"b", "a", "b">>>>

Entity(status, record, values) ==
  [status |-> status, record |-> record, values |-> values]

\* Item 1 and 2 have a name, 3 has a record and a name that does not exist, 4 none.
MCItem == 1..4
MCFields ==
  [i \in MCItem |->
     [field \in MCItemField |->
        CASE i = 1 /\ field = "name" -> <<Entity("exists", FALSE, <<<<"a">>>>)>>
          [] i = 2 /\ field = "name" -> <<Entity("exists", FALSE, <<<<"b">>>>),
                                          Entity("exists", FALSE, <<<<"a">>>>)>>
          [] i = 3 /\ field = "record" -> <<Entity("exists", TRUE, <<<<"r">>>>)>>
          [] i = 3 /\ field = "name" -> <<Entity("does not exist", FALSE, << >>)>>
          [] OTHER -> << >>]]

Found(flag, items) == [flag |-> flag, items |-> items]

MCFound(name) ==
  CASE name = "all" -> Found("complete", <<1, 2>>)
    [] name = "twice" -> Found("complete", <<1, 1>>)
    [] name = "some" -> Found("incomplete", <<2>>)
    [] name = "record" -> Found("complete", <<3>>)
    [] name = "nameless" -> Found("complete", <<4>>)
    [] name = "none" -> Found("does not exist", << >>)

-----------------------------------------------------------------------------
(***************************************************************************)
(* Components.  A tree is given by its nodes in order: the root first.     *)
(***************************************************************************)
Literal(value) == [kind |-> "literal_component", kids |-> << >>, value |-> value]
Reference(v) == [kind |-> "variable_component", kids |-> << >>, variable |-> v]
Field(o, field, isRecord) ==
  [kind |-> "object_component", kids |-> << >>, object |-> o, field |-> field,
   recordField |-> isRecord]
Name(o) == Field(o, "name", FALSE)
Function(kind, kids) == [kind |-> kind, kids |-> kids]

Other(v) == IF v = "v" THEN "w" ELSE "v"

\* The components of the local variable v.
LocalForms == {"other", "name", "concat", "unique", "record", "unsupported"}

Tree(v, form) ==
  CASE form = "other" -> <<Reference(Other(v))>>
    [] form = "name" -> <<Name("q")>>
    [] form = "concat" -> <<Function("concat", <<2, 3, 4>>),
                            Name("p"), Literal(<<"b">>), Reference(Other(v))>>
    [] form = "unique" -> <<Function("unique", <<2, 3>>), Name("q"), Name("p")>>
    [] form = "record" -> <<Function("count", <<2>>), Field("q", "record", TRUE)>>
    [] form = "unsupported" -> <<Function("concat", <<2, 3>>), Reference(Other(v)),
                                 [kind |-> UnsupportedFunction, kids |-> << >>]>>

Constant(values) == [kind |-> "constant", values |-> values]
External(present, values) ==
  [kind |-> "external", present |-> present, values |-> values, permitted |-> {<<"a">>}]

VariableForms == {"constant", "valueless", "external", "invalid", "absent"}

Source(form) ==
  CASE form = "constant" -> Constant(<<<<"a">>, <<"b">>>>)
    [] form = "valueless" -> Constant(<< >>)
    [] form = "external" -> External(TRUE, <<<<"a">>>>)
    [] form = "invalid" -> External(TRUE, <<<<"a">>, <<"b">>>>)
    [] form = "absent" -> External(FALSE, << >>)

\* The document in which variable v has the tree trees[v] or is sources[v].
MCDocument(trees, sources, needs, finds, states) ==
  [objects |-> <<"p", "q">>,
   needs |-> needs, finds |-> finds, states |-> states,
   variables |-> [v \in DOMAIN trees |-> [kind |-> "local", component |-> <<v, 1>>]]
                 @@ sources,
   components |->
     [c \in UNION {{<<v, i>> : i \in DOMAIN trees[v]} : v \in DOMAIN trees} |->
        LET node == trees[c[1]][c[2]]
        IN  [node EXCEPT !.kids = [k \in DOMAIN node.kids |-> <<c[1], node.kids[k]>>]]],
   height |->
     [c \in UNION {{<<v, i>> : i \in DOMAIN trees[v]} : v \in DOMAIN trees} |->
        Len(trees[c[1]]) - c[2]]]

\* Every way in which v and w can refer to p and q and to each other.
GraphDocument(s) ==
  LET forms == ("v" :> s.v) @@ ("w" :> s.w)
      locals == {v \in MCVariable : forms[v] \in LocalForms}
      others == {v \in MCVariable : forms[v] \in VariableForms}
  IN  MCDocument([v \in locals |-> Tree(v, forms[v])],
                 [v \in others |-> Source(forms[v])],
                 ("p" :> s.p) @@ ("q" :> s.q),
                 ("p" :> {MCFound("all"), MCFound("none")})
                   @@ ("q" :> {MCFound(name) : name \in MCFinds}),
                 <<<<"v">>, <<"w", "v">>>>)

GraphDocuments ==
  {GraphDocument([v |-> v, w |-> w, p |-> p, q |-> q]) :
     v \in LocalForms, w \in LocalForms \cup {"constant", "missing"},
     p \in {<< >>, <<"w">>}, q \in {<< >>, <<"v">>, <<"w", "v">>}}
  \cup
  {GraphDocument([v |-> v, w |-> w, p |-> << >>, q |-> <<"v", "w">>]) :
     v \in {"other", "concat"}, w \in VariableForms}

\* One function over literals, over every text or over numbers.
MCFunctions ==
  LET ofTexts(node) == <<<<node, Reference("w")>>, Constant(Texts)>>
      number(n) == Literal(Decimal(n))
      ofNumbers(node, numbers) ==
        <<<<node>> \o [i \in DOMAIN numbers |-> number(numbers[i])], Constant(Texts)>>
      parameters(kind) == [kind |-> kind, kids |-> <<2>>]
  IN  {ofTexts(parameters(kind) @@ [char |-> char]) :
         kind \in {"begin", "end"}, char \in {<<"a">>, <<"a", "b">>}}
      \cup {<<<<parameters("substring") @@ [start |-> start, length |-> length],
               Reference("w")>>, Constant(SubSeq(Texts, 3, 4))>> :
              start \in -1..3, length \in {-1, 0, 1, 5}}
      \cup {ofTexts(parameters("split") @@ [delim |-> delim]) :
              delim \in {<<"a">>, <<"b">>, <<"a", "b">>}}
      \cup {ofTexts(parameters("regex_capture") @@ [capture |-> (<<"a">> :> <<"b">>)])}
      \cup {ofTexts(parameters("escape_regex")), ofTexts(parameters("time_difference"))}
      \cup {ofNumbers([kind |-> "arithmetic", kids |-> <<2, 3>>, op |-> op], <<12, 3>>) :
              op \in {"add", "multiply"}}
      \cup {ofNumbers(Function("time_difference", <<2, 3>>), <<3, 12>>),
            ofNumbers(Function("time_difference", <<2>>), <<3>>)}

FunctionDocuments ==
  {MCDocument("v" :> f[1], "w" :> f[2], ("p" :> <<"v">>) @@ ("q" :> << >>),
              ("p" :> {MCFound("all")}) @@ ("q" :> {MCFound("none")}), <<<<"v">>>>) :
     f \in MCFunctions}

MCComponent == {"v", "w"} \X (1..4)
MCDocuments == GraphDocuments \cup FunctionDocuments
=============================================================================
