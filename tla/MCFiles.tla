------------------------------- MODULE MCFiles --------------------------------
(***************************************************************************)
(* Trees of up to three levels with a link that leads back, a link to       *)
(* nothing and a closed directory; objects with every operation, one or two *)
(* values and every kind of behavior.                                      *)
(***************************************************************************)
EXTENDS FileProbe

MCName == {"d", "D", "e", "f"}

MCFold == [n \in MCName |-> IF n = "d" THEN "D" ELSE n]

MCOrdinal == [n \in MCName |-> 0]

MCTrees ==
  LET root == << >> :> Directory
      plain == root @@ <<"d">> :> Directory @@ <<"d", "f">> :> File
  IN  { plain,
        plain @@ <<"D">> :> Directory @@ <<"D", "f">> :> File,
        plain @@ <<"d", "e">> :> Directory @@ <<"d", "e", "f">> :> File,
        plain @@ <<"d", "e">> :> Closed @@ <<"d", "e", "f">> :> File,
        plain @@ <<"d", "e">> :> Link(<<"d">>),
        plain @@ <<"e">> :> Link(<<"D">>) @@ <<"d", "e">> :> Directory }

Is(op, values) == [op |-> op, values |-> values, ref |-> FALSE, check |-> "all",
                   nil |-> FALSE]

Nil == [Is("equals", << << >> >>) EXCEPT !.nil = TRUE]

FromVariable(op, values, check) == [Is(op, values) EXCEPT !.ref = TRUE, !.check = check]

Paths ==
  {Is(op, <<t>>) : op \in StringOperation \ {"pattern match"},
                   t \in { <<Sep, "d">>, <<Sep, "D", Sep>>, <<Sep, "d", Sep, "e">>, <<Sep>> }}
  \cup {Is("pattern match", <<re>>) : re \in
          { <<Sep, "e">>, <<"^", Sep, "d">>, <<"^", Sep, "d", "$">>, <<"^", Sep, "d", Wild>>,
            <<Wild, "e">>, <<Sep, "d", Wild, "$">>, <<"^", Sep, "d", Sep, Wild>> }}
  \cup {FromVariable(op, << <<Sep, "d">>, <<Sep, "d", Sep, "e">> >>, check) :
          op \in {"equals", "not equal"}, check \in {"all", "at least one"}}

FileNames ==
  {Is(op, << <<"f">> >>) : op \in StringOperation} \cup {Nil}
  \cup {FromVariable("equals", << <<"f">>, <<"e">> >>, "at least one")}

FilePaths ==
  {Is(op, <<t>>) : op \in StringOperation \ {"pattern match"},
                   t \in { <<Sep, "d", Sep, "f">>, <<Sep, "D", Sep, "e">>, <<Sep, "d", Sep>> }}
  \cup {Is("pattern match", <<re>>) : re \in
          { <<"^", Sep, "d", Sep, "f", "$">>, <<Wild, Sep, "f">>, <<"f">> }}
  \cup {FromVariable("equals", << <<Sep, "d", Sep, "f">>, <<Sep, "d", Sep, "e">> >>, "at least one")}

MCBehaviors ==
  [direction : {"none", "up", "down"}, depth : {-2, 0, 1, 2},
   recurse : {"symlinks and directories"}, filesystem : {"all"}]
  \cup [direction : {"down"}, depth : {1}, recurse : {"directories"}, filesystem : {"all"}]
  \cup [direction : {"down"}, depth : {1}, recurse : {"symlinks and directories"},
        filesystem : {"local"}]

MCObjects ==
  [form : {"path"}, path : Paths, filename : FileNames, behaviors : {<< >>}]
  \cup [form : {"path"}, path : {Is("equals", << <<Sep, "d">> >>), Is("pattern match", << <<Wild, "e">> >>),
                                 Is("equals", << <<Sep>> >>), Is("equals", << <<Sep, "d", Sep, "e">> >>)},
        filename : {Is("equals", << <<"f">> >>), Nil}, behaviors : {<<b>> : b \in MCBehaviors}]
  \cup [form : {"filepath"}, path : FilePaths, filename : {Nil},
        behaviors : {<< >>, <<CHOOSE b \in MCBehaviors : TRUE>>}]
=============================================================================
