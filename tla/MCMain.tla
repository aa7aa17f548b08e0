------------------------------- MODULE MCMain -------------------------------
EXTENDS Main, TLC

\* d extends e.  t tests o, u tests p with a state; the object p takes a value
\* from the variable v, which is computed from the object q, and the state one
\* from w.
MCId == {"d", "e", "t", "u", "o", "p", "q", "s", "v", "w", "i", "j"}

MCClass == {"patch", "vulnerability"}

Ref(from, attribute, to) == [from |-> from, attribute |-> attribute, to |-> to]

Common ==
  {Ref("t", "object_ref", "o"), Ref("u", "object_ref", "p"),
   Ref("u", "state_ref", "s"), Ref("o", "item_ref", "i"),
   Ref("p", "item_ref", "i"), Ref("p", "var_ref", "v"),
   Ref("q", "item_ref", "j")}

\* What the definitions share, and what the variables are computed from.
Shapes ==
  {{Ref("d", "definition_ref", "e"), Ref("d", "test_ref", "t"),
    Ref("e", "test_ref", "u"), Ref("v", "object_ref", "q")},
   {Ref("d", "test_ref", "t"), Ref("d", "test_ref", "u"),
    Ref("e", "test_ref", "u"), Ref("v", "object_ref", "p")},
   {Ref("d", "test_ref", "u"), Ref("e", "test_ref", "t"),
    Ref("q", "filter", "s"), Ref("o", "object_reference", "q")}}

Document(shape, order, of, without, more) ==
  [definitions |-> order,
   kind |-> [x \in MCId |->
     CASE x \in {"d", "e"} -> "definition" [] x \in {"t", "u"} -> "test"
       [] x \in {"o", "p", "q"} -> "object" [] x = "s" -> "state"
       [] x \in {"v", "w"} -> "variable" [] x \in {"i", "j"} -> "item"],
   class |-> [x \in MCId |-> IF x = "d" THEN "patch" ELSE "vulnerability"],
   result |-> [x \in MCId |-> IF x \in of THEN "true" ELSE "false"],
   criteria |-> {"d", "e"} \ without,
   references |-> {r \in shape \cup Common \cup more : r.from \notin without}]

\* With and without a state that takes a value from a variable.
MCSources ==
  {Document(shape, order, of, without, more) :
     shape \in Shapes, order \in {<<"d", "e">>, <<"e", "d">>},
     of \in {{"d"}, {"d", "e"}}, without \in {{}, {"e"}},
     more \in {{}, {Ref("s", "var_ref", "w"), Ref("w", "object_ref", "q")}}}
  \cup {[Document({}, << >>, {}, {}, {}) EXCEPT
            !.kind = [x \in MCId |-> IF x \in {"d", "e"} THEN "state" ELSE @[x]],
            !.criteria = {}]}

\* Both spellings of what is true; "zero" is the one of what is not that the code
\* takes for true.
DirectiveOf(x) ==
  [reported |-> CASE x = "none" -> "false" [] x = "zero" -> "0" [] x = "thin" -> "1"
                  [] OTHER -> "true",
   content |-> IF x = "thin" THEN "thin" ELSE "full"]

\* Directives for the results true and false, full for the others.
Map(t, f) ==
  [r \in ResultEnumeration |->
     DirectiveOf(CASE r = "true" -> t [] r = "false" -> f [] OTHER -> "full")]

Maps == {Map(t, f) : t, f \in {"none", "thin", "full"}}

MCConfigs ==
  {[default |-> m, source |-> b, classes |-> << >>] : m \in Maps, b \in {"", "false"}}
  \cup {[default |-> m, source |-> "true", classes |-> [c \in {"patch"} |-> n]] :
          m, n \in Maps}
  \cup {[default |-> Map("full", "full"), source |-> b, classes |-> << >>] : b \in {"1", "0"}}
  \cup {[default |-> Map("zero", "thin"), source |-> "", classes |-> << >>]}

-----------------------------------------------------------------------------
\* Two names of some files; the log goes to the directory of -y.
MCName ==
  {"defs", "vars", "dirs", "data", "res", "html", "log", "c.xsl", "j.xsl",
   "k.xsl", "t.xsl", "old data", "ids", "no file", "./defs", "./vars",
   "./dirs", "./res", "./old data", "./k.xsl"}

Alias ==
  "./defs" :> "defs" @@ "./vars" :> "vars" @@ "./dirs" :> "dirs"
  @@ "./res" :> "res" @@ "./old data" :> "old data" @@ "./k.xsl" :> "k.xsl"

MCRealpath == [n \in MCName |-> IF n \in DOMAIN Alias THEN Alias[n] ELSE n]

MCInitially ==
  [f \in MCName \ DOMAIN Alias |->
     IF f \in {"data", "res", "html", "log", "no file"} THEN "absent" ELSE "input"]

MCDirectory == {"schemas", "elsewhere", "."}

MCDefaults ==
  [data |-> "data", xmlfile |-> "defs", output |-> "res", xslOutput |-> "html",
   variables |-> "vars", directives |-> "dirs", schema |-> "schemas", log |-> "."]

MCSchemaFile ==
  [d \in MCDirectory |->
     IF d = "elsewhere" THEN [s \in {"c", "j", "k", "t"} |-> "no file"]
     ELSE [c |-> "c.xsl", j |-> "j.xsl", k |-> "k.xsl", t |-> "t.xsl"]]

\* A user may have a file where the log of -y goes.
MCLogFile == [d \in MCDirectory |-> IF d = "elsewhere" THEN "./vars" ELSE "log"]

Options ==
  {<<"o", "./defs">>, <<"o">>, <<"r", "./defs">>, <<"r", "./res">>,
   <<"d", "./res">>, <<"d", "./old data">>, <<"i", "old data">>, <<"i", "no file">>,
   <<"v", "./vars">>, <<"x", "vars">>, <<"x", "dirs">>, <<"g", "./dirs">>,
   <<"t", "./vars">>, <<"f", "ids">>, <<"r", "ids">>, <<"e", "no file">>,
   <<"c">>, <<"c", "t.xsl">>, <<"j">>, <<"k", "k.xsl">>, <<"k", "./k.xsl">>,
   <<"r", "k.xsl">>, <<"r", "c.xsl">>,
   <<"a", "elsewhere">>, <<"y", "elsewhere">>, <<"s">>, <<"z">>, <<"h">>,
   <<"unknown">>, <<"m">>}

\* At most two options, before the one that does without a digest, or the
\* digest, or nothing.
CommandLines ==
  {first \o second \o last :
     first \in Options \cup {<< >>}, second \in Options,
     last \in {<<"m">>, <<"no file">>}}

AnySource == CHOOSE s \in MCSources : s.definitions = <<"d", "e">>

MCInputs ==
  [args : CommandLines, source : {AnySource}, config : {Unreadable}]
  \cup [args : {<<"m">>}, source : MCSources, config : MCConfigs]
=============================================================================
