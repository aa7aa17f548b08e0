----------------------------- MODULE MCCollector -----------------------------
(***************************************************************************)
(* Two probed objects a and b, a set object u over them, and a set object  *)
(* w that refers to u or nests sets of its own.                            *)
(***************************************************************************)
EXTENDS ObjectCollector, TLC

CONSTANTS a, b, u, su, w, sw, s1, s2, x, y, gone, skip, broken,
          MCVarFlags    \* the flags of b's variables when it is alone to fail

MCNode == {a, b, u, su, w, sw, s1, s2}

MCItem == {x, y, gone, skip, broken}
MCStatus ==
  [i \in MCItem |->
     CASE i \in {x, y} -> "exists"
       [] i = gone -> "does not exist"
       [] i = skip -> "not collected"
       [] i = broken -> "error"]

MCFound ==
  [n \in MCNode |->
     CASE n = a -> SUBSET {x, y, skip} \cup {{x, broken}}
       [] n = b -> SUBSET {x, y} \cup {{gone}, {x, gone}, {y, skip}}
       [] OTHER -> {}]

\* y satisfies the state of the filters.
MCFilter(excluding) ==
  [excluding |-> excluding,
   state |-> [i \in MCItem |-> IF i = y THEN "true" ELSE "false"]]

\* reference: u and a.  nested: (a) and (b, a).
KidsOf(shape) ==
  [n \in MCNode |->
    CASE n = u -> <<su>>
      [] n = su -> <<a, b>>
      [] n = w -> <<sw>>
      [] n = sw /\ shape = "reference" -> <<u, a>>
      [] n = sw /\ shape = "nested" -> <<s1, s2>>
      [] n = s1 -> <<a>>
      [] n = s2 -> <<b, a>>
      [] OTHER -> << >>]

KindOf(n) ==
  CASE n \in {a, b} -> "Object" [] n \in {u, w} -> "SetObject"
    [] OTHER -> "Set"

HeightOf(n) ==
  CASE n \in {a, b} -> 0 [] n \in {su, s1, s2} -> 1 [] n = u -> 2
    [] n = sw -> 3 [] n = w -> 4

\* filtered: the nodes with a filter, and whether it excludes.
MCDocument(s) ==
  [objects |-> s.order,
   kind |-> [n \in MCNode |-> KindOf(n)],
   kids |-> KidsOf(s.shape),
   setOp |-> [n \in MCNode |-> IF n = sw THEN s.outer ELSE s.inner],
   filters |-> [n \in MCNode |->
                  IF n \in s.filtered THEN <<MCFilter(n = s1)>> ELSE << >>],
   varFlag |-> [n \in MCNode |-> IF n = b THEN s.var ELSE "complete"],
   height |-> [n \in MCNode |-> HeightOf(n)]]

FirstDefinedFirst == <<a, b, u, w>>
LastDefinedFirst == <<w, u, b, a>>

MCVariants ==
  {[order |-> FirstDefinedFirst, filtered |-> {}, var |-> "complete"],
   [order |-> LastDefinedFirst, filtered |-> {su, s1}, var |-> "complete"],
   [order |-> LastDefinedFirst, filtered |-> {b}, var |-> "complete"]}
  \cup {[order |-> FirstDefinedFirst, filtered |-> {}, var |-> f] : f \in MCVarFlags}

MCDocuments ==
  {MCDocument([shape |-> shape, inner |-> inner, outer |-> outer,
               order |-> v.order, filtered |-> v.filtered, var |-> v.var]) :
     shape \in {"reference", "nested"}, inner \in SetOperatorEnumeration,
     outer \in {"COMPLEMENT", "UNION"}, v \in MCVariants}
=============================================================================
