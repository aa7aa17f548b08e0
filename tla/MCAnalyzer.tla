----------------------------- MODULE MCAnalyzer -----------------------------
(***************************************************************************)
(* Instances of the Analyzer: documents of up to three definitions that    *)
(* share tests and extend one another.                                     *)
(***************************************************************************)
EXTENDS AnalyzerProperties, FiniteSetsExt, TLC

CONSTANTS d1, d2, d3, c1, c2, c3, k1, k2, k3, k4, t1, t2, x

MCNode == {d1, d2, d3, c1, c2, c3, k1, k2, k3, k4, t1, t2, x}

\* d1, d2 and d3 have the root criteria c1, c2 and c3; c1 has the leaves k1 and
\* k2, c2 has k3 and c3 has k4.  A leaf is a criterion or an extend_definition
\* according to what it refers to; x names no element.
KindOf(n, to) ==
  CASE n \in {d1, d2, d3} -> "definition"
    [] n \in {c1, c2, c3} -> "criteria"
    [] n \in {t1, t2} -> "test"
    [] n = x -> "missing"
    [] to[n] \in {d1, d2, d3} -> "extend_definition"
    [] OTHER -> "criterion"

KidsOf(n, to, bare) ==
  CASE n \in bare -> << >>
    [] n = d1 -> <<c1>>
    [] n = d2 -> <<c2>>
    [] n = d3 -> <<c3>>
    [] n = c1 -> <<k1, k2>>
    [] n = c2 -> <<k3>>
    [] n = c3 -> <<k4>>
    [] n \in DOMAIN to -> <<to[n]>>
    [] OTHER -> << >>

HeightOf == [n \in MCNode |->
  CASE n \in {t1, t2, x} -> 0
    [] n = k4 -> 1 [] n = c3 -> 2 [] n = d3 -> 3
    [] n = k3 -> 4 [] n = c2 -> 5 [] n = d2 -> 6
    [] n \in {k1, k2} -> 7 [] n = c1 -> 8 [] n = d1 -> 9]

\* order: document order.  to: what the leaves refer to.  neg: the negate
\* attributes.  bare: the (deprecated) definitions without criteria.
MCDocument(order, to, op, neg, bare) ==
  [definitions |-> order,
   kind |-> [n \in MCNode |-> KindOf(n, to)],
   kids |-> [n \in MCNode |-> KidsOf(n, to, bare)],
   op |-> [n \in MCNode |-> op],
   negate |-> [n \in MCNode |-> IF n \in DOMAIN neg THEN neg[n] ELSE ""],
   height |-> HeightOf]

\* A leaf of d1 may extend d2 or d3, one of d2 may extend d3.
Orders == {<<d1, d2, d3>>, <<d3, d2, d1>>}

References ==
  {(k1 :> a @@ k2 :> b @@ k3 :> c @@ k4 :> e) :
     a \in {d2, t1}, b \in {d3, t2}, c \in {d3, t1, x}, e \in {t1, t2}}

Shapes ==
  [order : Orders, to : References, op : {"AND"}, neg : {<< >>}, bare : {{}}]
  \cup
  [order : Orders, to : References, op : {"XOR"},
   neg : {c1 :> "true" @@ k3 :> "1" @@ k4 :> "false"}, bare : {{}}]
  \cup
  [order : Orders, to : {r \in References : r[k3] = t1}, op : {"OR"},
   neg : {k1 :> "0" @@ c3 :> "true"}, bare : {{d2}}]

MCDocuments == {MCDocument(s.order, s.to, s.op, s.neg, s.bare) : s \in Shapes}

MCRequests ==
  {[all |-> TRUE, ids |-> << >>]} \cup
  {[all |-> FALSE, ids |-> s] : s \in {<<d2, x>>, <<d1, d1>>, <<d3, d2>>}}
=============================================================================
