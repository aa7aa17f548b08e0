--------------------------- MODULE AnalyzerProofs ---------------------------
(***************************************************************************)
(* Proofs about the Analyzer for every document and every request.         *)
(*                                                                         *)
(* Type correctness already needs the discipline of the call stack: a      *)
(* criterion reads the first of its children's results, so that there has  *)
(* to be one.  The inductive invariant says of every frame what its loop   *)
(* has established so far, in terms of what lies below a node in the       *)
(* document: below a parsed node no reference is dangling, and below an    *)
(* evaluated one every definition and every test has its verdict.          *)
(***************************************************************************)
EXTENDS AnalyzerProperties, ProofLemmas

(***************************************************************************)
(* What lies below a node.  It is defined as the least set closed under    *)
(* Kids, which needs no recursion and no induction.                        *)
(***************************************************************************)
Closed(d, X) == \A k \in X : Kids(d, k) \subseteq X

Below(d, n) == {m \in Node : \A X \in SUBSET Node : n \in X /\ Closed(d, X) => m \in X}

\* Below n every reference names an element.
Whole(d, n) == \A m \in Below(d, n) : d.kind[m] # "missing"

\* Below n every definition and every test has a verdict.
Settled(d, an, n) ==
  \A m \in Below(d, n) : d.kind[m] \in {"definition", "test"} => m \in an

-----------------------------------------------------------------------------
(***************************************************************************)
(* The inductive invariant.                                                *)
(***************************************************************************)
\* What holds of the active frame f.
Ready(d, an, f) ==
  /\ f.next <= Len(d.kids[f.node]) + 1
  /\ f.call = "Parse" =>
       /\ f.next >= 1
       /\ d.kind[f.node] # "missing"
       /\ \A i \in 1..(f.next - 1) : Whole(d, d.kids[f.node][i])
  /\ f.call \in Evaluation =>
       /\ f.next >= 1
       /\ Len(f.got) = f.next - 1
       /\ Whole(d, f.node)
       /\ \A i \in 1..(f.next - 1) : Settled(d, an, d.kids[f.node][i])
  /\ f.call = "Write" => Settled(d, an, f.node)

\* The frame b as it was before its loop came to the next child.
BeforeAdvance(b) == [b EXCEPT !.next = @ - 1]

\* What holds of a frame b when a is the frame above it: b has called a for the
\* child it has just advanced over, or the two were started by Run together.
Waiting(d, an, a, b) ==
  \/ /\ a.call = b.call
     /\ b.next - 1 \in DOMAIN d.kids[b.node]
     /\ a.node = d.kids[b.node][b.next - 1]
     /\ Ready(d, an, BeforeAdvance(b))
  \/ a.call = "Parse" /\ b.call \in Evaluation /\ b = Called(b.call, a.node)
  \/ a.call \in Evaluation /\ b = Called("Write", a.node)

Links(d, an, s) == \A j \in 1..(Len(s) - 1) : Waiting(d, an, s[j], s[j + 1])

StackOK(d, an, s) == Links(d, an, s) /\ (s # << >> => Ready(d, an, s[1]))

CacheOK == \A n \in cache : Whole(doc, n)

AnalyzedOK == \A n \in analyzed : Settled(doc, analyzed, n)

IInv ==
  /\ TypeOK
  /\ doc \in Documents
  /\ StackOK(doc, analyzed, stack)
  /\ CacheOK
  /\ AnalyzedOK

-----------------------------------------------------------------------------
(***************************************************************************)
(* Lemmas about Below.                                                     *)
(***************************************************************************)
\* The children of a node are nodes.
LEMMA KidsType ==
  ASSUME NEW d \in Documents, NEW n \in Node
  PROVE  /\ d.kids[n] \in Seq(Node)
         /\ Kids(d, n) \subseteq Node
         /\ \A i \in 1..Len(d.kids[n]) : d.kids[n][i] \in Kids(d, n)
BY DocumentsAssumption DEF Document, Kids

\* A node lies below itself.
LEMMA BelowSelf ==
  ASSUME NEW d \in Documents, NEW n \in Node
  PROVE  n \in Below(d, n)
BY DEF Below

\* What lies below a child lies below its parent.
LEMMA BelowChild ==
  ASSUME NEW d \in Documents, NEW n \in Node, NEW k \in Kids(d, n)
  PROVE  Below(d, k) \subseteq Below(d, n)
<1> SUFFICES ASSUME NEW m \in Below(d, k), NEW X \in SUBSET Node,
                    n \in X, Closed(d, X)
             PROVE  m \in X
  BY DEF Below
<1> k \in X
  BY DEF Closed
<1> QED
  BY DEF Below

\* What lies below a node is the node and what lies below its children.
LEMMA BelowStep ==
  ASSUME NEW d \in Documents, NEW n \in Node, NEW m \in Below(d, n), m # n
  PROVE  \E k \in Kids(d, n) : m \in Below(d, k)
<1> SUFFICES ASSUME \A k \in Kids(d, n) : m \notin Below(d, k)
             PROVE  FALSE
  OBVIOUS
<1> DEFINE Y == {y \in Node : \E k \in Kids(d, n) : y \in Below(d, k)}
           X == {n} \cup Y
<1>1. Kids(d, n) \subseteq Y
  BY KidsType, BelowSelf
<1>2. ASSUME NEW y \in Y PROVE Kids(d, y) \subseteq Y
  <2> PICK k \in Kids(d, n) : y \in Below(d, k)
    OBVIOUS
  <2> SUFFICES ASSUME NEW z \in Kids(d, y) PROVE z \in Below(d, k)
    BY KidsType
  <2> z \in Node /\ k \in Node
    BY KidsType
  <2> SUFFICES ASSUME NEW Z \in SUBSET Node, k \in Z, Closed(d, Z) PROVE z \in Z
    BY DEF Below
  <2> y \in Z
    BY DEF Below
  <2> QED
    BY DEF Closed
<1>3. Closed(d, X)
  BY <1>1, <1>2 DEF Closed
<1>4. m \in X
  BY <1>3 DEF Below
<1> QED
  BY <1>4

\* A node whose children are whole is whole, and so are the children of a whole
\* node.
LEMMA WholeStep ==
  ASSUME NEW d \in Documents, NEW n \in Node
  PROVE  Whole(d, n) <=> /\ d.kind[n] # "missing"
                         /\ \A k \in Kids(d, n) : Whole(d, k)
BY BelowSelf, BelowChild, BelowStep DEF Whole

\* The same for Settled.
LEMMA SettledStep ==
  ASSUME NEW d \in Documents, NEW n \in Node, NEW an
  PROVE  Settled(d, an, n) <=>
           /\ d.kind[n] \in {"definition", "test"} => n \in an
           /\ \A k \in Kids(d, n) : Settled(d, an, k)
BY BelowSelf, BelowChild, BelowStep DEF Settled

-----------------------------------------------------------------------------
(***************************************************************************)
(* Lemmas about frames and stacks.                                         *)
(***************************************************************************)
\* Heads, tails and concatenations of stacks, as far as they are needed.
LEMMA StackType ==
  ASSUME NEW s \in Seq(Frame), s # << >>
  PROVE  /\ Head(s) \in Frame /\ Head(s) = s[1]
         /\ Tail(s) \in Seq(Frame) /\ Len(Tail(s)) = Len(s) - 1
         /\ \A j \in 1..(Len(s) - 1) : Tail(s)[j] = s[j + 1]
OBVIOUS

\* A call pushed on a stack: what is where.
LEMMA PushType ==
  ASSUME NEW f \in Frame, NEW t \in Seq(Frame)
  PROVE  /\ <<f>> \o t \in Seq(Frame)
         /\ <<f>> \o t # << >>
         /\ Len(<<f>> \o t) = Len(t) + 1
         /\ (<<f>> \o t)[1] = f
         /\ \A j \in 1..Len(t) : (<<f>> \o t)[j + 1] = t[j]
OBVIOUS

\* Two calls pushed on a stack.
LEMMA PushTwoType ==
  ASSUME NEW f \in Frame, NEW g \in Frame, NEW t \in Seq(Frame)
  PROVE  /\ <<f, g>> \o t \in Seq(Frame)
         /\ <<f, g>> \o t # << >>
         /\ Len(<<f, g>> \o t) = Len(t) + 2
         /\ (<<f, g>> \o t)[1] = f
         /\ (<<f, g>> \o t)[2] = g
         /\ \A j \in 1..Len(t) : (<<f, g>> \o t)[j + 2] = t[j]
OBVIOUS

\* A frame stays ready, and waiting, when more objects have a verdict.
LEMMA ReadyMonotone ==
  ASSUME NEW d, NEW an, NEW bn, an \subseteq bn, NEW f, Ready(d, an, f)
  PROVE  Ready(d, bn, f)
BY DEF Ready, Settled

\* More verdicts do not disturb a frame that waits for its callee.
LEMMA WaitingMonotone ==
  ASSUME NEW d, NEW an, NEW bn, an \subseteq bn, NEW a, NEW b,
         Waiting(d, an, a, b)
  PROVE  Waiting(d, bn, a, b)
BY ReadyMonotone DEF Waiting

\* Waiting looks at nothing of the upper frame but what it was called for.
LEMMA WaitingForCall ==
  ASSUME NEW d, NEW an, NEW a, NEW b, Waiting(d, an, a, b),
         NEW c, c.call = a.call, c.node = a.node
  PROVE  Waiting(d, an, c, b)
BY DEF Waiting

\* The frames below the head of a stack.
LEMMA LinksTail ==
  ASSUME NEW d, NEW an, NEW bn, an \subseteq bn,
         NEW s \in Seq(Frame), s # << >>, Links(d, an, s)
  PROVE  Links(d, bn, Tail(s))
BY StackType, WaitingMonotone DEF Links

\* The head may be replaced by another frame of the same call.
LEMMA ReplaceHead ==
  ASSUME NEW d, NEW an, NEW bn, an \subseteq bn,
         NEW s \in Seq(Frame), s # << >>, Links(d, an, s),
         NEW f \in Frame, f.call = s[1].call, f.node = s[1].node,
         Ready(d, bn, f)
  PROVE  /\ <<f>> \o Tail(s) \in Seq(Frame)
         /\ StackOK(d, bn, <<f>> \o Tail(s))
<1> DEFINE t == <<f>> \o Tail(s)
<1>1. /\ t \in Seq(Frame) /\ t # << >> /\ Len(t) = Len(s) /\ t[1] = f
      /\ \A j \in 2..Len(s) : t[j] = s[j]
  BY StackType, PushType
<1>2. ASSUME NEW j \in 1..(Len(t) - 1) PROVE Waiting(d, bn, t[j], t[j + 1])
  <2>1. Waiting(d, bn, s[j], s[j + 1])
    BY <1>1, WaitingMonotone DEF Links
  <2>2. t[j + 1] = s[j + 1]
    BY <1>1
  <2>3. CASE j = 1
    BY <1>1, <2>1, <2>2, <2>3, WaitingForCall
  <2>4. CASE j # 1
    BY <1>1, <2>1, <2>2, <2>4
  <2> QED
    BY <2>3, <2>4
<1> QED
  BY <1>1, <1>2 DEF StackOK, Links

\* A frame may be put on top of the head when the head waits for it.
LEMMA PushFrame ==
  ASSUME NEW d, NEW an,
         NEW s \in Seq(Frame), s # << >>, Links(d, an, s),
         NEW f \in Frame, f.call = s[1].call, f.node = s[1].node,
         NEW g \in Frame, Ready(d, an, g), Waiting(d, an, g, f)
  PROVE  /\ <<g, f>> \o Tail(s) \in Seq(Frame)
         /\ StackOK(d, an, <<g, f>> \o Tail(s))
<1> DEFINE t == <<g, f>> \o Tail(s)
<1>1. /\ t \in Seq(Frame) /\ t # << >> /\ Len(t) = Len(s) + 1 /\ t[1] = g /\ t[2] = f
      /\ \A j \in 2..Len(s) : t[j + 1] = s[j]
  <2>1. \A j \in 1..(Len(s) - 1) : t[j + 2] = s[j + 1]
    BY StackType, PushTwoType
  <2>2. \A j \in 2..Len(s) : j - 1 \in 1..(Len(s) - 1) /\ (j - 1) + 2 = j + 1
                             /\ (j - 1) + 1 = j
    OBVIOUS
  <2> QED
    BY <2>1, <2>2, StackType, PushTwoType
<1>2. ASSUME NEW j \in 1..(Len(t) - 1) PROVE Waiting(d, an, t[j], t[j + 1])
  <2>1. CASE j = 1
    BY <1>1, <2>1
  <2>2. CASE j = 2
    <3>1. Waiting(d, an, s[1], s[2])
      BY <1>1, <2>2 DEF Links
    <3>2. t[3] = s[2] /\ t[2] = f
      BY <1>1, <2>2
    <3> QED
      BY <2>2, <3>1, <3>2, WaitingForCall
  <2>3. CASE j > 2
    <3>1. j - 1 \in 1..(Len(s) - 1) /\ (j - 1) + 1 = j
      BY <1>1, <2>3
    <3>2. Waiting(d, an, s[j - 1], s[j])
      BY <3>1 DEF Links
    <3>3. t[j] = s[j - 1] /\ t[j + 1] = s[j]
      BY <1>1, <2>3
    <3> QED
      BY <3>2, <3>3
  <2> QED
    BY <2>1, <2>2, <2>3
<1> QED
  BY <1>1, <1>2 DEF StackOK, Links

\* Without its head a stack is still linked, and its new head is ready once what
\* it waited for is there.
LEMMA PopFrame ==
  ASSUME NEW d, NEW an, NEW bn, an \subseteq bn,
         NEW s \in Seq(Frame), s # << >>, Links(d, an, s),
         Tail(s) # << >> => Ready(d, bn, s[2])
  PROVE  /\ Tail(s) \in Seq(Frame)
         /\ StackOK(d, bn, Tail(s))
<1>1. Tail(s) # << >> => Tail(s)[1] = s[2]
  <2> SUFFICES ASSUME Tail(s) # << >> PROVE Tail(s)[1] = s[2]
    OBVIOUS
  <2>1. 1 \in 1..(Len(s) - 1)
    BY StackType
  <2> QED
    BY <2>1, StackType
<1> QED
  BY <1>1, StackType, LinksTail DEF StackOK

\* The second frame of a linked stack waits for the first.
LEMMA SecondFrame ==
  ASSUME NEW d, NEW an, NEW s \in Seq(Frame), s # << >>, Links(d, an, s),
         Tail(s) # << >>
  PROVE  /\ s[2] \in Frame
         /\ Head(Tail(s)) = s[2]
         /\ Waiting(d, an, s[1], s[2])
<1>1. 1 \in 1..(Len(s) - 1)
  BY StackType
<1> QED
  BY <1>1, StackType DEF Links

\* The fields of a frame that advances over a child, and back.
LEMMA AdvanceFields ==
  ASSUME NEW f \in Frame
  PROVE  /\ Advance(f) \in Frame
         /\ Advance(f).call = f.call /\ Advance(f).node = f.node
         /\ Advance(f).got = f.got /\ Advance(f).next = f.next + 1
BY DEF Frame, Advance

\* What BeforeAdvance leaves of a frame.
LEMMA BeforeFields ==
  ASSUME NEW f \in Frame
  PROVE  /\ BeforeAdvance(f).call = f.call /\ BeforeAdvance(f).node = f.node
         /\ BeforeAdvance(f).got = f.got /\ BeforeAdvance(f).next = f.next - 1
BY DEF Frame, BeforeAdvance

\* BeforeAdvance takes back Advance.
LEMMA BeforeAdvanced ==
  ASSUME NEW f \in Frame
  PROVE  BeforeAdvance(Advance(f)) = f
<1>1. f = [call |-> f.call, node |-> f.node, next |-> f.next, got |-> f.got]
  BY DEF Frame
<1>2. Advance(f) = [call |-> f.call, node |-> f.node, next |-> f.next + 1,
                    got |-> f.got]
  BY <1>1 DEF Frame, Advance
<1>3. BeforeAdvance(Advance(f)) =
        [call |-> f.call, node |-> f.node, next |-> (f.next + 1) - 1,
         got |-> f.got]
  BY <1>2 DEF BeforeAdvance
<1>4. (f.next + 1) - 1 = f.next
  BY DEF Frame
<1> QED
  BY <1>1, <1>3, <1>4

\* The fields of a frame that has got a result.
LEMMA PushBackFields ==
  ASSUME NEW f \in Frame, NEW r \in ResultEnumeration
  PROVE  /\ PushBack(f, r) \in Frame
         /\ PushBack(f, r).call = f.call /\ PushBack(f, r).node = f.node
         /\ PushBack(f, r).next = f.next
         /\ Len(PushBack(f, r).got) = Len(f.got) + 1
<1> DEFINE got == Append(f.got, r)
<1>1. /\ f.got \in Seq(ResultEnumeration)
      /\ f = [call |-> f.call, node |-> f.node, next |-> f.next, got |-> f.got]
      /\ f.call \in Call /\ f.node \in Node /\ f.next \in Nat
  BY DEF Frame
<1>2. got \in Seq(ResultEnumeration) /\ Len(got) = Len(f.got) + 1
  BY <1>1
<1>3. PushBack(f, r) = [f EXCEPT !.got = got]
  BY DEF PushBack
<1> HIDE DEF got
<1>4. PushBack(f, r) = [call |-> f.call, node |-> f.node, next |-> f.next,
                       got |-> got]
  BY <1>1, <1>3
<1> QED
  BY <1>1, <1>2, <1>4 DEF Frame

\* The frame of a new call.
LEMMA CalledFields ==
  ASSUME NEW call \in Call, NEW n \in Node
  PROVE  /\ Called(call, n) \in Frame
         /\ Called(call, n).call = call /\ Called(call, n).node = n
         /\ Called(call, n).got = << >>
         /\ Called(call, n).next = IF call = "Write" THEN 0 ELSE 1
BY DEF Frame, Called

\* A frame that calls a child waits for it.
LEMMA DescendWaits ==
  ASSUME NEW d, NEW an, NEW f \in Frame, Ready(d, an, f),
         f.next \in DOMAIN d.kids[f.node], d.kids[f.node][f.next] \in Node
  PROVE  Waiting(d, an, Called(f.call, d.kids[f.node][f.next]), Advance(f))
<1>1. f.call \in Call /\ f.next \in Nat
  BY DEF Frame
<1>2. Advance(f).next - 1 = f.next
  BY <1>1, AdvanceFields
<1> QED
  BY SMTT(30), <1>1, <1>2, AdvanceFields, BeforeAdvanced, CalledFields DEF Waiting

\* The results of combining are results.
LEMMA UndecidedType ==
  ASSUME NEW c
  PROVE  Undecided(c) \in ResultEnumeration
BY DEF Undecided, ResultEnumeration

\* Every operator yields a result.
LEMMA CombineType ==
  ASSUME NEW c, NEW op \in OperatorEnumeration
  PROVE  CombineResultsByOperator(c, op) \in ResultEnumeration
<1> USE UndecidedType DEF ResultEnumeration
<1>1. CombineAll(c) \in ResultEnumeration
  BY DEF CombineAll
<1>2. CombineOne(c) \in ResultEnumeration
  BY DEF CombineOne
<1>3. CombineAny(c) \in ResultEnumeration
  BY DEF CombineAny
<1>4. CombineXor(c) \in ResultEnumeration
  BY DEF CombineXor
<1> QED
  BY <1>1, <1>2, <1>3, <1>4 DEF CombineResultsByOperator, OperatorEnumeration

\* Negation yields a result.
LEMMA NegatedType ==
  ASSUME NEW negate \in BOOLEAN, NEW r \in ResultEnumeration
  PROVE  Negated(negate, r) \in ResultEnumeration
<1>1. NegateResult(r) \in ResultEnumeration
  BY DEF NegateResult, ResultEnumeration
<1> QED
  BY <1>1 DEF Negated

-----------------------------------------------------------------------------
(***************************************************************************)
(* The invariant holds initially and is kept by Parse.                     *)
(***************************************************************************)
\* What the actions of a call find at the head of the stack.
LEMMA TopFacts ==
  ASSUME IInv, stack # << >>
  PROVE  /\ doc \in Documents /\ doc \in Document
         /\ stack \in Seq(Frame) /\ Links(doc, analyzed, stack)
         /\ top \in Frame /\ top = stack[1]
         /\ Ready(doc, analyzed, top)
         /\ top.node \in Node /\ top.next \in Nat
         /\ doc.kids[top.node] \in Seq(Node)
         /\ DOMAIN doc.kids[top.node] = 1..Len(doc.kids[top.node])
         /\ HasChild => child \in Node /\ child \in Kids(doc, top.node)
<1>1. doc \in Documents /\ doc \in Document /\ stack \in Seq(Frame)
      /\ StackOK(doc, analyzed, stack)
  BY DEF IInv, TypeOK
<1>2. top \in Frame /\ top = stack[1]
  BY <1>1, StackType DEF top
<1>3. top.node \in Node /\ top.next \in Nat
  BY <1>2 DEF Frame
<1> QED
  BY <1>1, <1>2, <1>3, KidsType DEF StackOK, HasChild, child

\* The Analyzer starts with an empty stack and no verdicts.
LEMMA InitIInv == Init => IInv
<1> SUFFICES ASSUME Init PROVE IInv
  OBVIOUS
<1>1. TypeOK
  <2>1. doc \in Document /\ request \in Requests
    BY DocumentsAssumption DEF Init
  <2>2. phase \in Phase /\ cursor \in Nat \ {0}
    BY DEF Init, Phase
  <2>3. stack \in Seq(Frame) /\ output \in Seq([node : Node, result : ResultEnumeration])
    BY DEF Init
  <2>4. result \in [Node -> ResultEnumeration]
    BY DEF Init, ResultEnumeration
  <2>5. reports \in [ResultEnumeration ->
                       Seq([node : Node, result : ResultEnumeration])]
    BY DEF Init
  <2>6. cache \in SUBSET Node /\ analyzed \in SUBSET Node /\ written \in SUBSET Node
    BY DEF Init
  <2> QED
    BY <2>1, <2>2, <2>3, <2>4, <2>5, <2>6 DEF TypeOK
<1>2. StackOK(doc, analyzed, stack)
  BY DEF Init, StackOK, Links
<1> QED
  BY <1>1, <1>2 DEF Init, IInv, CacheOK, AnalyzedOK

\* Steps that leave the documents, the caches and the results alone and whose
\* stack is all right.
LEMMA StackStep ==
  ASSUME IInv,
         UNCHANGED <<doc, request, phase, cursor, cache, analyzed, result>>,
         written' \in SUBSET Node,
         output' \in Seq([node : Node, result : ResultEnumeration]),
         reports' = reports,
         stack' \in Seq(Frame), StackOK(doc, analyzed, stack')
  PROVE  IInv'
BY DEF IInv, TypeOK, CacheOK, AnalyzedOK

\* Descend: the child is ready to be called.
LEMMA DescendStack ==
  ASSUME IInv, stack # << >>, HasChild, Descend,
         top.call = "Parse" => doc.kind[child] # "missing"
  PROVE  stack' \in Seq(Frame) /\ StackOK(doc, analyzed, stack')
<1> USE TopFacts
<1> DEFINE g == Called(top.call, child)
<1>1. top.call \in Call /\ child \in Node
  BY DEF Frame
<1>2. /\ g \in Frame /\ g.call = top.call /\ g.node = child /\ g.got = << >>
      /\ g.next = IF top.call = "Write" THEN 0 ELSE 1
  BY <1>1, CalledFields
<1>3. /\ Advance(top) \in Frame /\ Advance(top).call = top.call
      /\ Advance(top).node = top.node
  BY AdvanceFields
<1>4. Waiting(doc, analyzed, g, Advance(top))
  BY <1>1, DescendWaits DEF HasChild, child
<1>5. Ready(doc, analyzed, g)
  <2>1. g.next <= Len(doc.kids[child]) + 1
    BY <1>1, <1>2, KidsType
  <2>2. top.call \in Evaluation => Whole(doc, child)
    BY WholeStep DEF Ready
  <2>3. top.call = "Write" => Settled(doc, analyzed, child)
    BY SettledStep DEF Ready
  <2>4. top.call \in Evaluation => top.call # "Write" /\ top.call # "Parse"
    BY DEF Evaluation
  <2> QED
    BY <1>2, <2>1, <2>2, <2>3, <2>4 DEF Ready
<1>6. stack' = <<g, Advance(top)>> \o Tail(stack)
  BY DEF Descend, Advanced
<1> QED
  BY <1>2, <1>3, <1>4, <1>5, <1>6, PushFrame

\* Step: the frame is ready for its next child.
LEMMA StepStack ==
  ASSUME IInv, stack # << >>, Step, Ready(doc, analyzed, Advance(top))
  PROVE  stack' \in Seq(Frame) /\ StackOK(doc, analyzed, stack')
<1> USE TopFacts
<1>1. stack' = <<Advance(top)>> \o Tail(stack)
  BY DEF Step, Advanced
<1> QED
  BY <1>1, AdvanceFields, ReplaceHead

\* Parse of a child: the child's frame starts below a node that exists.
LEMMA ParseChildInv == IInv /\ ParseChild => IInv'
<1> SUFFICES ASSUME IInv, ParseChild PROVE IInv'
  OBVIOUS
<1>1. stack # << >> /\ top.call = "Parse" /\ HasChild /\ doc.kind[child] # "missing"
  BY DEF ParseChild, Active
<1> USE <1>1, TopFacts
<1>2. stack' \in Seq(Frame) /\ StackOK(doc, analyzed, stack')
  <2>1. CASE Cached(child)
    <3>1. Step
      BY <2>1 DEF ParseChild
    <3>2. Whole(doc, child)
      BY <2>1 DEF Cached, IInv, CacheOK
    <3>3. Ready(doc, analyzed, Advance(top))
      <4>1. top.next \in 1..Len(doc.kids[top.node]) /\ child = doc.kids[top.node][top.next]
        BY DEF HasChild, child
      <4>2. /\ Advance(top).call = "Parse" /\ Advance(top).node = top.node
            /\ Advance(top).next = top.next + 1
        BY AdvanceFields
      <4>3. \A i \in 1..((top.next + 1) - 1) : Whole(doc, doc.kids[top.node][i])
        <5>1. \A i \in 1..((top.next + 1) - 1) : i \in 1..(top.next - 1) \/ i = top.next
          BY <4>1
        <5>2. \A i \in 1..(top.next - 1) : Whole(doc, doc.kids[top.node][i])
          BY DEF Ready
        <5> QED
          BY <3>2, <4>1, <5>1, <5>2
      <4>4. doc.kind[top.node] # "missing"
        BY DEF Ready
      <4> QED
        BY SMTT(30), <4>1, <4>2, <4>3, <4>4 DEF Ready, Evaluation
    <3> QED
      BY <3>1, <3>3, StepStack
  <2>2. CASE ~Cached(child)
    <3>1. Descend
      BY <2>2 DEF ParseChild
    <3> QED
      BY <3>1, DescendStack
  <2> QED
    BY <2>1, <2>2
<1> QED
  BY <1>2, StackStep DEF ParseChild, IInv, TypeOK

\* A call that has looked at all children of its node has looked at the node.
LEMMA EndOfLoop ==
  ASSUME IInv, stack # << >>, ~HasChild, top.next >= 1
  PROVE  /\ top.next = Len(doc.kids[top.node]) + 1
         /\ \A k \in Kids(doc, top.node) :
              \E i \in 1..(top.next - 1) : k = doc.kids[top.node][i]
<1> USE TopFacts
<1>1. top.next <= Len(doc.kids[top.node]) + 1
  BY DEF Ready
<1>2. top.next = Len(doc.kids[top.node]) + 1
  BY <1>1 DEF HasChild
<1> QED
  BY SMTT(30), <1>2 DEF Kids

\* When Parse has come to its last child nothing below its node is missing.
LEMMA ParsedIsWhole ==
  ASSUME IInv, stack # << >>, top.call = "Parse", ~HasChild
  PROVE  Whole(doc, top.node)
<1> USE TopFacts
<1>1. top.next >= 1 /\ doc.kind[top.node] # "missing"
      /\ \A i \in 1..(top.next - 1) : Whole(doc, doc.kids[top.node][i])
  BY DEF Ready
<1>2. \A k \in Kids(doc, top.node) : Whole(doc, k)
  BY <1>1, EndOfLoop
<1> QED
  BY <1>1, <1>2, WholeStep

\* A frame that waited for the parsing of a node is ready when it is parsed.
LEMMA ParsedReady ==
  ASSUME NEW d \in Documents, NEW an, NEW a \in Frame, NEW b \in Frame,
         a.call = "Parse", Whole(d, a.node), Waiting(d, an, a, b)
  PROVE  Ready(d, an, b)
<1>1. "Parse" \notin Evaluation
  BY DEF Evaluation
<1>2. CASE b.call = "Parse" /\ b.next - 1 \in DOMAIN d.kids[b.node]
             /\ a.node = d.kids[b.node][b.next - 1]
             /\ Ready(d, an, BeforeAdvance(b))
  <2> b.node \in Node /\ b.next \in Nat
    BY DEF Frame
  <2> d.kids[b.node] \in Seq(Node)
    BY KidsType
  <2>1. b.next - 1 \in 1..Len(d.kids[b.node])
    BY <1>2
  <2>2. /\ d.kind[b.node] # "missing"
        /\ \A i \in 1..((b.next - 1) - 1) : Whole(d, d.kids[b.node][i])
    BY <1>2, BeforeFields DEF Ready
  <2>3. \A i \in 1..(b.next - 1) : i \in 1..((b.next - 1) - 1) \/ i = b.next - 1
    BY <2>1
  <2>4. \A i \in 1..(b.next - 1) : Whole(d, d.kids[b.node][i])
    BY <1>2, <2>2, <2>3
  <2> QED
    BY SMTT(30), <1>1, <1>2, <2>1, <2>2, <2>4 DEF Ready
<1>3. CASE b.call \in Evaluation /\ b = Called(b.call, a.node)
  <2> a.node \in Node /\ b.call \in Call
    BY DEF Frame
  <2>1. b.node = a.node /\ b.got = << >> /\ b.next = 1
    BY <1>3, CalledFields DEF Evaluation
  <2>2. Len(d.kids[b.node]) \in Nat
    BY <2>1, KidsType
  <2>3. b.call # "Parse" /\ b.call # "Write"
    BY <1>3 DEF Evaluation
  <2> QED
    BY <2>1, <2>2, <2>3 DEF Ready
<1> QED
  BY <1>1, <1>2, <1>3 DEF Waiting

\* A Parse that returns hands its caller a node below which nothing is missing.
LEMMA ParseEndInv == IInv /\ ParseEnd => IInv'
<1> SUFFICES ASSUME IInv, ParseEnd PROVE IInv'
  OBVIOUS
<1>1. stack # << >> /\ top.call = "Parse" /\ ~HasChild /\ stack' = Tail(stack)
  BY DEF ParseEnd, Active, Return
<1> USE <1>1, TopFacts
<1>2. Whole(doc, top.node)
  BY ParsedIsWhole
<1>3. Tail(stack) # << >> => Ready(doc, analyzed, stack[2])
  BY <1>2, SecondFrame, ParsedReady
<1>4. stack' \in Seq(Frame) /\ StackOK(doc, analyzed, stack')
  BY <1>3, PopFrame
<1>5. cache' \in SUBSET Node /\ (\A n \in cache' : Whole(doc, n))
  BY <1>2 DEF ParseEnd, IInv, TypeOK, CacheOK
<1> QED
  BY <1>4, <1>5 DEF ParseEnd, IInv, TypeOK, CacheOK, AnalyzedOK

\* An exception leaves Run.
LEMMA EmptyStack ==
  ASSUME NEW d, NEW an
  PROVE  << >> \in Seq(Frame) /\ StackOK(d, an, << >>)
BY DEF StackOK, Links

\* An exception leaves no frame and no half of a verdict behind.
LEMMA AbortInv == IInv /\ Abort => IInv'
<1> SUFFICES ASSUME IInv, Abort PROVE IInv'
  OBVIOUS
<1>1. TypeOK'
  BY EmptyStack DEF Abort, IInv, TypeOK, Phase
<1>2. StackOK(doc, analyzed, stack)'
  BY EmptyStack DEF Abort
<1> QED
  BY <1>1, <1>2 DEF Abort, IInv, CacheOK, AnalyzedOK

-----------------------------------------------------------------------------
(***************************************************************************)
(* The invariant is kept by Analyze and NotEvaluated.                      *)
(***************************************************************************)
\* A frame that waited for the evaluation of a node is ready when the node is
\* settled: the frame of a parent once it has the result, the frame of a Write
\* at once.
LEMMA ResultReady ==
  ASSUME NEW d \in Documents, NEW an, NEW a \in Frame, NEW b \in Frame,
         a.call \in Evaluation, Settled(d, an, a.node), Waiting(d, an, a, b),
         NEW r \in ResultEnumeration
  PROVE  LET c == PushBack(b, r)
         IN  IF b.call \in Evaluation
               THEN c \in Frame /\ c.call = b.call /\ c.node = b.node
                    /\ Ready(d, an, c)
               ELSE Ready(d, an, b)
<1> a.node \in Node /\ b.node \in Node /\ b.next \in Nat /\ b.call \in Call
    /\ b.got \in Seq(ResultEnumeration)
  BY DEF Frame
<1>1. a.call # "Parse" /\ a.call # "Write"
  BY DEF Evaluation
<1>2. CASE a.call = b.call /\ b.next - 1 \in DOMAIN d.kids[b.node]
             /\ a.node = d.kids[b.node][b.next - 1]
             /\ Ready(d, an, BeforeAdvance(b))
  <2> DEFINE c == PushBack(b, r)
  <2>1. /\ c \in Frame /\ c.call = b.call /\ c.node = b.node /\ c.next = b.next
        /\ Len(c.got) = Len(b.got) + 1
    BY PushBackFields
  <2>2. d.kids[b.node] \in Seq(Node)
    BY KidsType
  <2>3. b.next - 1 \in 1..Len(d.kids[b.node])
    BY <1>2, <2>2
  <2>4. /\ Len(b.got) = (b.next - 1) - 1 /\ Whole(d, b.node)
        /\ \A i \in 1..((b.next - 1) - 1) : Settled(d, an, d.kids[b.node][i])
    BY <1>2, BeforeFields DEF Ready
  <2>5. \A i \in 1..(b.next - 1) : i \in 1..((b.next - 1) - 1) \/ i = b.next - 1
    BY <2>3
  <2>6. \A i \in 1..(b.next - 1) : Settled(d, an, d.kids[b.node][i])
    BY <1>2, <2>4, <2>5
  <2>7. Len(c.got) = b.next - 1
    BY <2>1, <2>3, <2>4
  <2>8. b.next <= Len(d.kids[b.node]) + 1 /\ b.next >= 1
    BY <2>2, <2>3
  <2>9. c.call # "Parse" /\ c.call # "Write"
    BY <1>1, <1>2, <2>1
  <2>10. Ready(d, an, c)
    BY <2>1, <2>4, <2>6, <2>7, <2>8, <2>9 DEF Ready
  <2> QED
    BY <1>2, <2>1, <2>10
<1>3. CASE b = Called("Write", a.node)
  <2>1. b.call = "Write" /\ b.node = a.node /\ b.next = 0
    BY <1>3, CalledFields DEF Call
  <2>2. Len(d.kids[b.node]) \in Nat
    BY KidsType
  <2>3. Ready(d, an, b)
    BY <2>1, <2>2 DEF Ready, Evaluation
  <2> QED
    BY <2>1, <2>3 DEF Evaluation
<1> QED
  BY <1>1, <1>2, <1>3 DEF Waiting

\* ReturnResult: the caller is ready for its next child.
LEMMA ReturnResultStack ==
  ASSUME IInv, stack # << >>, top.call \in Evaluation,
         NEW bn, analyzed \subseteq bn, Settled(doc, bn, top.node),
         NEW r \in ResultEnumeration, ReturnResult(r)
  PROVE  stack' \in Seq(Frame) /\ StackOK(doc, bn, stack')
<1> USE TopFacts
<1> DEFINE callers == Tail(stack)
           b == stack[2]
           c == PushBack(b, r)
<1>1. callers \in Seq(Frame) /\ Links(doc, bn, callers)
  BY StackType, LinksTail
<1>2. CASE callers = << >>
  <2>1. stack' = << >>
    BY <1>2 DEF ReturnResult
  <2> QED
    BY <2>1, EmptyStack
<1>3. CASE callers # << >>
  <2>1. b \in Frame /\ Head(callers) = b /\ Waiting(doc, analyzed, top, b)
    BY <1>3, SecondFrame
  <2>2. Waiting(doc, bn, top, b)
    BY <2>1, WaitingMonotone
  <2>3. IF b.call \in Evaluation
          THEN c \in Frame /\ c.call = b.call /\ c.node = b.node /\ Ready(doc, bn, c)
          ELSE Ready(doc, bn, b)
    BY <2>1, <2>2, ResultReady
  <2>4. CASE b.call \in Evaluation
    <3>1. stack' = <<c>> \o Tail(callers)
      BY <1>3, <2>1, <2>4 DEF ReturnResult
    <3>2. callers[1] = b
      BY <1>1, <1>3, <2>1, StackType
    <3> QED
      BY <1>1, <1>3, <2>3, <2>4, <3>1, <3>2, ReplaceHead
  <2>5. CASE b.call \notin Evaluation
    <3>1. stack' = callers
      BY <1>3, <2>1, <2>5 DEF ReturnResult
    <3> QED
      BY <2>3, <2>5, <3>1, PopFrame
  <2> QED
    BY <2>4, <2>5
<1> QED
  BY <1>2, <1>3

\* Steps of Analyze and NotEvaluated that give the node of the active frame a
\* verdict or leave the verdicts as they are.
LEMMA VerdictStep ==
  ASSUME IInv, stack # << >>, top.call \in Evaluation,
         UNCHANGED <<doc, request, phase, cursor, cache, written, output>>,
         NEW r \in ResultEnumeration, ReturnResult(r),
         result' \in [Node -> ResultEnumeration],
         reports' \in [ResultEnumeration ->
                         Seq([node : Node, result : ResultEnumeration])],
         analyzed' \in {analyzed, analyzed \cup {top.node}},
         Settled(doc, analyzed', top.node)
  PROVE  IInv'
<1>1. analyzed \subseteq analyzed' /\ analyzed' \in SUBSET Node
  BY TopFacts DEF IInv, TypeOK
<1>2. stack' \in Seq(Frame) /\ StackOK(doc, analyzed', stack')
  BY <1>1, ReturnResultStack
<1>3. \A n \in analyzed' : Settled(doc, analyzed', n)
  BY <1>1 DEF IInv, AnalyzedOK, Settled
<1>4. TypeOK'
  BY <1>1, <1>2 DEF IInv, TypeOK
<1> QED
  BY <1>2, <1>3, <1>4 DEF IInv, CacheOK, AnalyzedOK

\* An element that has its verdict returns it.
LEMMA AnalyzeAgainInv == IInv /\ AnalyzeAgain => IInv'
<1> SUFFICES ASSUME IInv, AnalyzeAgain PROVE IInv'
  OBVIOUS
<1>1. stack # << >> /\ top.call \in Evaluation /\ top.node \in analyzed
  BY DEF AnalyzeAgain, Active, IsAnalyzed
<1>2. result[top.node] \in ResultEnumeration /\ Settled(doc, analyzed, top.node)
  BY <1>1, TopFacts DEF IInv, TypeOK, AnalyzedOK
<1>3. /\ result' \in [Node -> ResultEnumeration]
      /\ reports' \in [ResultEnumeration ->
                         Seq([node : Node, result : ResultEnumeration])]
      /\ analyzed' = analyzed
  BY DEF AnalyzeAgain, IInv, TypeOK
<1> QED
  BY <1>1, <1>2, <1>3, VerdictStep DEF AnalyzeAgain

\* The loop over children descends into one that has been parsed.
LEMMA AnalyzeChildInv == IInv /\ AnalyzeChild => IInv'
<1> SUFFICES ASSUME IInv, AnalyzeChild PROVE IInv'
  OBVIOUS
<1>1. stack # << >> /\ top.call \in Evaluation /\ HasChild /\ Descend
  BY DEF AnalyzeChild, Active
<1>2. stack' \in Seq(Frame) /\ StackOK(doc, analyzed, stack')
  BY <1>1, DescendStack DEF Evaluation
<1> QED
  BY <1>2, StackStep DEF AnalyzeChild, IInv, TypeOK

\* What a frame knows when all children have been evaluated.
LEMMA EvaluatedFacts ==
  ASSUME IInv, stack # << >>, top.call \in Evaluation, ~HasChild
  PROVE  /\ top.got \in Seq(ResultEnumeration)
         /\ Len(top.got) = Len(doc.kids[top.node])
         /\ doc.kind[top.node] # "missing"
         /\ \A k \in Kids(doc, top.node) : Settled(doc, analyzed, k)
<1> USE TopFacts
<1>1. /\ top.next >= 1 /\ Len(top.got) = top.next - 1 /\ Whole(doc, top.node)
      /\ \A i \in 1..(top.next - 1) : Settled(doc, analyzed, doc.kids[top.node][i])
  BY DEF Ready
<1>2. top.got \in Seq(ResultEnumeration)
  BY DEF Frame
<1>3. doc.kind[top.node] # "missing"
  BY <1>1, WholeStep
<1>4. top.next = Len(doc.kids[top.node]) + 1
  BY <1>1, EndOfLoop
<1>5. \A k \in Kids(doc, top.node) : Settled(doc, analyzed, k)
  BY <1>1, EndOfLoop
<1> QED
  BY <1>1, <1>2, <1>3, <1>4, <1>5

\* What is made of the children's results is a result.
LEMMA CombinedType ==
  ASSUME IInv, stack # << >>, top.call \in Evaluation, ~HasChild,
         doc.kind[top.node] # "test"
  PROVE  Combined(top.node, top.got) \in ResultEnumeration
<1> USE TopFacts
<1> DEFINE n == top.node
           got == top.got
<1>1. /\ got \in Seq(ResultEnumeration) /\ Len(got) = Len(doc.kids[n])
      /\ doc.kind[n] # "missing"
  BY EvaluatedFacts
<1>2. /\ doc.kind[n] \in Kind /\ doc.op[n] \in OperatorEnumeration
      /\ Negates(n) \in BOOLEAN
  BY DEF Document, Negates
<1>3. CASE doc.kind[n] = "criteria"
  <2>1. Combined(n, got) = Negated(Negates(n),
                             CombineResultsByOperator(ResultTally(got), doc.op[n]))
    BY <1>3 DEF Combined
  <2> QED
    BY <1>2, <2>1, CombineType, NegatedType
<1>4. CASE doc.kind[n] \in {"criterion", "extend_definition"}
  <2>1. Len(doc.kids[n]) = 1
    BY <1>4, DocumentsAssumption DEF WellFormed
  <2>2. got[1] \in ResultEnumeration
    BY <1>1, <2>1
  <2>3. Combined(n, got) = Negated(Negates(n), got[1])
    BY <1>4 DEF Combined
  <2> QED
    BY <1>2, <2>2, <2>3, NegatedType
<1>5. CASE doc.kind[n] = "definition"
  <2>1. Combined(n, got) = IF got = << >> THEN "not evaluated" ELSE got[1]
    BY <1>5 DEF Combined
  <2>2. got # << >> => got[1] \in ResultEnumeration
    BY <1>1
  <2> QED
    BY <2>1, <2>2 DEF ResultEnumeration
<1> QED
  BY <1>1, <1>2, <1>3, <1>4, <1>5 DEF Kind

\* A line of the report is added to the list of its result.
LEMMA ReportType ==
  ASSUME IInv, NEW n \in Node, NEW r \in ResultEnumeration, Report(n, r)
  PROVE  reports' \in [ResultEnumeration ->
                         Seq([node : Node, result : ResultEnumeration])]
<1> DEFINE E == [node : Node, result : ResultEnumeration]
           e == [node |-> n, result |-> r]
           l == ListFor(top.call, r)
<1>1. e \in E
  OBVIOUS
<1>2. reports \in [ResultEnumeration -> Seq(E)]
  BY DEF IInv, TypeOK
<1>3. reports' = [reports EXCEPT ![l] = Append(reports[l], e)]
  BY DEF Report
<1>4. l \in ResultEnumeration
  BY DEF ListFor, ResultEnumeration
<1> HIDE DEF E, e, l
<1>5. Append(reports[l], e) \in Seq(E)
  BY <1>1, <1>2, <1>4
<1> QED
  BY <1>2, <1>3, <1>4, <1>5 DEF E

\* With its last child settled, an element gets its verdict.
LEMMA AnalyzeEndInv == IInv /\ AnalyzeEnd => IInv'
<1> SUFFICES ASSUME IInv, AnalyzeEnd PROVE IInv'
  OBVIOUS
<1> DEFINE r == Combined(top.node, top.got)
<1>1. /\ stack # << >> /\ top.call \in Evaluation /\ ~HasChild
      /\ doc.kind[top.node] # "test"
      /\ result' = [result EXCEPT ![top.node] = r]
      /\ ReturnResult(r)
      /\ UNCHANGED <<doc, request, phase, cursor, cache, written, output>>
  BY DEF AnalyzeEnd, Active, IsKind
<1>2. r \in ResultEnumeration
  BY <1>1, CombinedType
<1> HIDE DEF r
<1>3. result' \in [Node -> ResultEnumeration]
  BY <1>1, <1>2 DEF IInv, TypeOK
<1>4. CASE doc.kind[top.node] = "definition"
  <2>1. analyzed' = analyzed \cup {top.node} /\ Report(top.node, r)
    BY <1>4 DEF AnalyzeEnd, IsKind, r
  <2>2. Settled(doc, analyzed', top.node)
    <3>1. \A k \in Kids(doc, top.node) : Settled(doc, analyzed', k)
      BY <1>1, <2>1, EvaluatedFacts DEF Settled
    <3> QED
      BY <1>1, <2>1, <3>1, SettledStep, TopFacts
  <2> QED
    BY <1>1, <1>2, <1>3, <2>1, <2>2, TopFacts, ReportType, VerdictStep
<1>5. CASE doc.kind[top.node] # "definition"
  <2>1. analyzed' = analyzed /\ reports' = reports
    BY <1>5 DEF AnalyzeEnd, IsKind
  <2>2. Settled(doc, analyzed', top.node)
    BY <1>1, <1>5, <2>1, EvaluatedFacts, SettledStep, TopFacts
  <2>3. reports' \in [ResultEnumeration ->
                        Seq([node : Node, result : ResultEnumeration])]
    BY <2>1 DEF IInv, TypeOK
  <2> QED
    BY <1>1, <1>2, <1>3, <2>1, <2>2, <2>3, VerdictStep
<1> QED
  BY <1>4, <1>5

\* A test has no children, so its verdict settles it.
LEMMA SetTestResultInv ==
  ASSUME IInv, stack # << >>, top.call \in Evaluation,
         doc.kind[top.node] = "test", NEW r \in ResultEnumeration,
         SetTestResult(r)
  PROVE  IInv'
<1> USE TopFacts
<1>1. Kids(doc, top.node) = {}
  BY DocumentsAssumption DEF WellFormed, Kids
<1>2. analyzed' = analyzed \cup {top.node}
  BY DEF SetTestResult
<1>3. Settled(doc, analyzed', top.node)
  BY <1>1, <1>2, SettledStep
<1>4. /\ result' \in [Node -> ResultEnumeration]
      /\ reports' \in [ResultEnumeration ->
                         Seq([node : Node, result : ResultEnumeration])]
  BY DEF SetTestResult, IInv, TypeOK
<1> QED
  BY <1>2, <1>3, <1>4, VerdictStep DEF SetTestResult

\* A test gets its verdict at once, by whichever of the three ways.
LEMMA TestInv ==
  /\ \A r \in ResultEnumeration \ {"not evaluated"} :
       IInv /\ AnalyzeTest(r) => IInv'
  /\ IInv /\ SkipTest => IInv'
  /\ IInv /\ AnalyzeTestThrows => IInv'
BY SetTestResultInv, AbortInv
   DEF AnalyzeTest, SkipTest, AnalyzeTestThrows, Active, IsKind, Evaluation,
       ResultEnumeration

-----------------------------------------------------------------------------
(***************************************************************************)
(* The invariant is kept by Write and by the loops of Run.                 *)
(***************************************************************************)
\* A call of Write that is over leaves its caller ready.
LEMMA WriteReturnInv ==
  ASSUME IInv, stack # << >>, top.call = "Write", Return,
         UNCHANGED <<doc, request, phase, cursor, cache, analyzed, result, written,
                     output, reports>>
  PROVE  IInv'
<1> USE TopFacts
<1> DEFINE b == stack[2]
<1>1. Tail(stack) # << >> => Ready(doc, analyzed, b)
  <2> SUFFICES ASSUME Tail(stack) # << >> PROVE Ready(doc, analyzed, b)
    OBVIOUS
  <2>1. b \in Frame /\ Waiting(doc, analyzed, top, b)
    BY SecondFrame
  <2>2. /\ b.call = "Write" /\ b.next - 1 \in DOMAIN doc.kids[b.node]
        /\ Ready(doc, analyzed, BeforeAdvance(b))
    BY <2>1 DEF Waiting, Evaluation
  <2>3. b.node \in Node /\ b.next \in Nat
    BY <2>1 DEF Frame
  <2>4. b.next - 1 \in 1..Len(doc.kids[b.node])
    BY SMTT(30), <2>2, <2>3, KidsType
  <2>5. b.next <= Len(doc.kids[b.node]) + 1
    BY SMTT(30), <2>3, <2>4, KidsType
  <2>6. Settled(doc, analyzed, b.node)
    BY <2>1, <2>2, BeforeFields DEF Ready
  <2> QED
    BY <2>2, <2>5, <2>6 DEF Ready, Evaluation
<1>2. stack' \in Seq(Frame) /\ StackOK(doc, analyzed, stack')
  BY <1>1, PopFrame DEF Return
<1> QED
  BY <1>2, StackStep DEF IInv, TypeOK

\* What is added to the document is an element.
LEMMA AddElementType ==
  ASSUME IInv, AddElement
  PROVE  /\ written' \in SUBSET Node
         /\ output' \in Seq([node : Node, result : ResultEnumeration])
<1>1. stack # << >>
  BY DEF AddElement, Active
<1> USE <1>1, TopFacts
<1>2. written' \in SUBSET Node
  BY DEF AddElement, IInv, TypeOK
<1>3. output' \in Seq([node : Node, result : ResultEnumeration])
  <2>1. result[top.node] \in ResultEnumeration
    BY DEF IInv, TypeOK
  <2> DEFINE E == [node : Node, result : ResultEnumeration]
             e == [node |-> top.node, result |-> result[top.node]]
  <2>2. e \in E /\ output \in Seq(E) /\ output' = Append(output, e)
    BY <2>1 DEF AddElement, IInv, TypeOK
  <2> HIDE DEF E, e
  <2>3. output' \in Seq(E)
    BY <2>2
  <2> QED
    BY <2>3 DEF E
<1> QED
  BY <1>2, <1>3

\* Write of an element that is not yet in the document.
LEMMA WriteElementInv == IInv /\ WriteElement => IInv'
<1> SUFFICES ASSUME IInv, WriteElement PROVE IInv'
  OBVIOUS
<1>1. stack # << >> /\ top.call = "Write" /\ top.next = 0 /\ Step /\ AddElement
  BY DEF WriteElement, AddElement, Active
<1> USE <1>1, TopFacts
<1>2. Ready(doc, analyzed, Advance(top))
  <2>1. /\ Advance(top).call = "Write" /\ Advance(top).node = top.node
        /\ Advance(top).next = 1
    BY AdvanceFields
  <2> QED
    BY <2>1 DEF Ready, Evaluation
<1>3. stack' \in Seq(Frame) /\ StackOK(doc, analyzed, stack')
  BY <1>2, StepStack
<1> QED
  BY <1>3, AddElementType, StackStep DEF WriteElement, AddElement

\* An exception in the middle of a test leaves no frame behind, and the element.
LEMMA WriteTestThrowsInv == IInv /\ WriteTestThrows => IInv'
<1> SUFFICES ASSUME IInv, WriteTestThrows PROVE IInv'
  OBVIOUS
<1>1. TypeOK'
  BY AddElementType, EmptyStack DEF WriteTestThrows, AddElement, IInv, TypeOK, Phase
<1>2. StackOK(doc, analyzed, stack)'
  BY EmptyStack DEF WriteTestThrows
<1> QED
  BY <1>1, <1>2 DEF WriteTestThrows, AddElement, IInv, CacheOK, AnalyzedOK

\* Write of a child: everything below it is settled, as below its parent.
LEMMA WriteChildInv == IInv /\ WriteChild => IInv'
<1> SUFFICES ASSUME IInv, WriteChild PROVE IInv'
  OBVIOUS
<1>1. stack # << >> /\ top.call = "Write" /\ HasChild /\ Descend
  BY DEF WriteChild, Active
<1>2. stack' \in Seq(Frame) /\ StackOK(doc, analyzed, stack')
  BY <1>1, DescendStack
<1> QED
  BY <1>2, StackStep DEF WriteChild, IInv, TypeOK

\* The three calls Run makes for a definition wait for one another.
LEMMA ProcessStack ==
  ASSUME NEW d \in Documents, NEW an, NEW call \in Evaluation, NEW n \in Node,
         d.kind[n] # "missing"
  PROVE  Process(call, n) \in Seq(Frame) /\ StackOK(d, an, Process(call, n))
<1> DEFINE p == Called("Parse", n)
           e == Called(call, n)
           w == Called("Write", n)
           s == <<p, e, w>>
<1>1. {"Parse", "Write", call} \subseteq Call /\ call # "Write"
  BY DEF Call, Evaluation
<1>2. /\ p \in Frame /\ p.call = "Parse" /\ p.node = n /\ p.next = 1
      /\ e \in Frame /\ e.call = call /\ e.node = n
      /\ w \in Frame
  BY <1>1, CalledFields
<1>3. Ready(d, an, p)
  <2>1. Len(d.kids[n]) \in Nat
    BY KidsType
  <2> QED
    BY <1>2, <2>1 DEF Ready, Evaluation
<1>4. Waiting(d, an, p, e) /\ Waiting(d, an, e, w)
  BY <1>2 DEF Waiting
<1>5. s \in Seq(Frame) /\ Len(s) = 3 /\ s[1] = p /\ s[2] = e /\ s[3] = w
      /\ s # << >>
  <2> HIDE DEF p, e, w
  <2> QED
    BY <1>2
<1>6. Process(call, n) = s
  BY DEF Process
<1> HIDE DEF s
<1>7. ASSUME NEW j \in 1..(Len(s) - 1) PROVE Waiting(d, an, s[j], s[j + 1])
  <2>1. j = 1 \/ j = 2
    BY <1>5
  <2>2. j = 1 => Waiting(d, an, s[j], s[j + 1])
    BY <1>4, <1>5
  <2>3. j = 2 => Waiting(d, an, s[j], s[j + 1])
    BY <1>4, <1>5
  <2> QED
    BY <2>1, <2>2, <2>3
<1> QED
  BY <1>3, <1>5, <1>6, <1>7 DEF StackOK, Links

\* The loop over definitions calls Run on an empty stack.
LEMMA HandleInv ==
  ASSUME IInv, NEW call \in Evaluation, NEW n \in Node,
         doc.kind[n] # "missing", Handle(call, n)
  PROVE  IInv'
<1>1. doc \in Documents /\ cursor \in Nat \ {0}
  BY DEF IInv, TypeOK
<1>2. stack' \in Seq(Frame) /\ StackOK(doc, analyzed, stack')
  BY <1>1, EmptyStack, ProcessStack DEF Handle
<1>3. cursor' \in Nat \ {0}
  BY <1>1 DEF Handle
<1> QED
  BY <1>2, <1>3 DEF Handle, IInv, TypeOK, CacheOK, AnalyzedOK

\* Every step of the loop over definitions keeps the invariant.
LEMMA LoopInv ==
  /\ IInv /\ HandleRequested => IInv'
  /\ IInv /\ RequestedNotFound => IInv'
  /\ IInv /\ RequestedDone => IInv'
  /\ IInv /\ HandleNext => IInv'
  /\ IInv /\ Finish => IInv'
<1>1. ASSUME IInv, HandleRequested PROVE IInv'
  <2>1. request.ids[cursor] \in Node
    BY <1>1, DocumentsAssumption DEF HandleRequested, IInv, TypeOK, Request
  <2> QED
    BY <1>1, <2>1, HandleInv DEF HandleRequested, Evaluation
<1>2. ASSUME IInv, RequestedNotFound PROVE IInv'
  <2>1. phase' = phase /\ UNCHANGED <<doc, request, stack, cache, analyzed, result,
                                      written, output, reports>>
    BY <1>2 DEF RequestedNotFound
  <2>2. cursor' \in Nat \ {0}
    BY <1>2 DEF RequestedNotFound, IInv, TypeOK
  <2>3. TypeOK'
    BY <1>2, <2>1, <2>2 DEF IInv, TypeOK, Phase
  <2> QED
    BY <1>2, <2>1, <2>3 DEF IInv, CacheOK, AnalyzedOK
<1>3. ASSUME IInv, RequestedDone PROVE IInv'
  <2>1. phase' = "rest" /\ UNCHANGED <<doc, request, stack, cache, analyzed, result,
                                      written, output, reports>>
    BY <1>3 DEF RequestedDone
  <2>2. cursor' \in Nat \ {0}
    BY <1>3 DEF RequestedDone, IInv, TypeOK
  <2>3. TypeOK'
    BY <1>3, <2>1, <2>2 DEF IInv, TypeOK, Phase
  <2> QED
    BY <1>3, <2>1, <2>3 DEF IInv, CacheOK, AnalyzedOK
<1>4. ASSUME IInv, HandleNext PROVE IInv'
  <2> DEFINE n == doc.definitions[cursor]
  <2>1. doc \in Documents /\ doc \in Document /\ cursor \in DOMAIN doc.definitions
    BY <1>4 DEF HandleNext, IInv, TypeOK
  <2>2. n \in Node
    BY <2>1 DEF Document
  <2>3. doc.kind[n] = "definition"
    BY <2>1, <2>2, DocumentsAssumption DEF WellFormed
  <2> QED
    BY <1>4, <2>2, <2>3, HandleInv DEF HandleNext, Evaluation
<1>5. ASSUME IInv, Finish PROVE IInv'
  BY <1>5 DEF Finish, IInv, TypeOK, Phase, CacheOK, AnalyzedOK
<1> QED
  BY <1>1, <1>2, <1>3, <1>4, <1>5

-----------------------------------------------------------------------------
(***************************************************************************)
(* The invariant holds in every behaviour.                                 *)
(***************************************************************************)
LEMMA NextIInv == IInv /\ [Next]_vars => IInv'
<1> SUFFICES ASSUME IInv, [Next]_vars PROVE IInv'
  OBVIOUS
<1>1. CASE ParseChild \/ ParseEnd \/ ParseMissing
  BY <1>1, ParseChildInv, ParseEndInv, AbortInv DEF ParseMissing
<1>2. CASE AnalyzeAgain \/ AnalyzeChild \/ AnalyzeEnd
  BY <1>2, AnalyzeAgainInv, AnalyzeChildInv, AnalyzeEndInv
<1>3. CASE \/ \E r \in ResultEnumeration \ {"not evaluated"} : AnalyzeTest(r)
           \/ SkipTest \/ AnalyzeTestThrows
  BY <1>3, TestInv
<1>4. CASE WriteAgain \/ WriteEnd
  BY <1>4, WriteReturnInv DEF WriteAgain, WriteEnd, Active
<1>5. CASE WriteElement \/ WriteTestThrows \/ WriteChild
  BY <1>5, WriteElementInv, WriteTestThrowsInv, WriteChildInv
<1>6. CASE HandleRequested \/ RequestedNotFound \/ RequestedDone \/ HandleNext
           \/ Finish
  BY <1>6, LoopInv
<1>7. CASE UNCHANGED vars
  BY <1>7 DEF vars, IInv, TypeOK, CacheOK, AnalyzedOK
<1> QED
  BY <1>1, <1>2, <1>3, <1>4, <1>5, <1>6, <1>7 DEF Next, RunStep, Terminated

\* Every run keeps the inductive invariant.
THEOREM Invariance == Spec => []IInv
BY InitIInv, NextIInv, PTL DEF Spec

\* Every state of every run is a state the types describe: no result list, no
\* frame of the recursion and no loop ever holds anything else, and Combined is
\* applied to results that are there (Analyzer.cpp, Definition.cpp, Criteria.cpp).
THEOREM TypeCorrect == Spec => []TypeOK
<1>1. IInv => TypeOK
  BY DEF IInv
<1> QED
  BY <1>1, Invariance, PTL

-----------------------------------------------------------------------------
(***************************************************************************)
(* Verdicts and the results document.                                      *)
(***************************************************************************)
\* What a step that evaluates does to the verdicts: all stay, and at most the
\* node of the active frame gets one.
LEMMA EvaluationStep ==
  ASSUME IInv, [Next]_vars
  PROVE  \/ UNCHANGED <<doc, analyzed, result, reports>>
         \/ /\ UNCHANGED <<doc, written, output>>
            /\ stack # << >> /\ top.node \in Node /\ top.node \notin analyzed
            /\ \E r \in ResultEnumeration :
                 /\ result' = [result EXCEPT ![top.node] = r]
                 /\ \/ UNCHANGED <<analyzed, reports>>
                    \/ /\ analyzed' = analyzed \cup {top.node}
                       /\ IF doc.kind[top.node] = "definition"
                            THEN Report(top.node, r) ELSE UNCHANGED reports
<1>1. CASE ParseChild \/ ParseEnd \/ ParseMissing \/ WriteAgain \/ WriteEnd
           \/ WriteElement \/ WriteTestThrows \/ WriteChild
           \/ HandleRequested \/ RequestedNotFound \/ RequestedDone \/ HandleNext \/ Finish \/ AnalyzeTestThrows
           \/ AnalyzeAgain \/ AnalyzeChild \/ UNCHANGED vars
  BY <1>1 DEF ParseChild, ParseEnd, ParseMissing, WriteAgain, WriteEnd,
              WriteElement, WriteTestThrows, AddElement, WriteChild,
              HandleRequested, RequestedNotFound,
              RequestedDone, HandleNext, Finish, AnalyzeTestThrows, Abort,
              AnalyzeAgain, AnalyzeChild, Handle, vars
<1>2. ASSUME AnalyzeEnd
      PROVE  /\ UNCHANGED <<doc, written, output>>
             /\ stack # << >> /\ top.node \in Node /\ top.node \notin analyzed
             /\ \E r \in ResultEnumeration :
                  /\ result' = [result EXCEPT ![top.node] = r]
                  /\ \/ UNCHANGED <<analyzed, reports>>
                     \/ /\ analyzed' = analyzed \cup {top.node}
                        /\ IF doc.kind[top.node] = "definition"
                             THEN Report(top.node, r) ELSE UNCHANGED reports
  <2> DEFINE r == Combined(top.node, top.got)
  <2>1. stack # << >> /\ top.call \in Evaluation /\ ~HasChild
        /\ doc.kind[top.node] # "test" /\ top.node \notin analyzed
    BY <1>2 DEF AnalyzeEnd, Active, IsKind, IsAnalyzed
  <2>2. r \in ResultEnumeration /\ top.node \in Node
    BY <2>1, CombinedType, TopFacts
  <2>3. /\ result' = [result EXCEPT ![top.node] = r]
        /\ UNCHANGED <<doc, written, output>>
        /\ IF doc.kind[top.node] = "definition"
             THEN analyzed' = analyzed \cup {top.node} /\ Report(top.node, r)
             ELSE UNCHANGED <<analyzed, reports>>
    BY <1>2 DEF AnalyzeEnd, IsKind
  <2> HIDE DEF r
  <2> QED
    BY <2>1, <2>2, <2>3
<1>3. ASSUME NEW r \in ResultEnumeration, SetTestResult(r),
             stack # << >>, doc.kind[top.node] = "test", ~IsAnalyzed(top.node)
      PROVE  /\ UNCHANGED <<doc, written, output>>
             /\ stack # << >> /\ top.node \in Node /\ top.node \notin analyzed
             /\ result' = [result EXCEPT ![top.node] = r]
             /\ analyzed' = analyzed \cup {top.node}
             /\ doc.kind[top.node] # "definition" /\ UNCHANGED reports
  BY <1>3, TopFacts DEF SetTestResult, IsAnalyzed
<1>4. CASE \E r \in ResultEnumeration \ {"not evaluated"} : AnalyzeTest(r)
  BY <1>3, <1>4 DEF AnalyzeTest, Active, IsKind
<1>5. CASE SkipTest
  <2>1. "not evaluated" \in ResultEnumeration
    BY DEF ResultEnumeration
  <2> QED
    BY <1>3, <1>5, <2>1 DEF SkipTest, Active, IsKind
<1> QED
  BY <1>1, <1>2, <1>4, <1>5 DEF Next, RunStep, Terminated

\* No call of Analyze or NotEvaluated ever changes a verdict
\* (Definition.cpp, Test.cpp: if(this->GetAnalyzed())).
THEOREM FinalVerdicts == Spec => VerdictsAreFinal
<1>1. ASSUME IInv, [Next]_vars
      PROVE  analyzed \subseteq analyzed' /\ \A n \in analyzed : result'[n] = result[n]
  <2>1. analyzed \in SUBSET Node /\ result \in [Node -> ResultEnumeration]
    BY <1>1 DEF IInv, TypeOK
  <2> QED
    BY <1>1, <2>1, EvaluationStep
<1> QED
  BY <1>1, Invariance, PTL DEF Spec, VerdictsAreFinal

\* What appending one element leaves of a sequence, and what it adds.
LEMMA AppendFacts ==
  ASSUME NEW S, NEW q \in Seq(S), NEW e \in S
  PROVE  /\ \A i \in DOMAIN q : i \in DOMAIN Append(q, e) /\ Append(q, e)[i] = q[i]
         /\ \A i \in DOMAIN Append(q, e) : i \in DOMAIN q \/ i = Len(q) + 1
         /\ Len(q) + 1 \in DOMAIN Append(q, e)
         /\ Append(q, e)[Len(q) + 1] = e
         /\ Len(q) + 1 \notin DOMAIN q
OBVIOUS

\* Reporting a definition that has no verdict yet keeps the lists apart.
LEMMA ReportStep ==
  ASSUME IInv, ReportedExactlyOnce, stack # << >>, top.node \in Node,
         top.node \notin analyzed, doc.kind[top.node] = "definition",
         NEW r \in ResultEnumeration, Report(top.node, r), doc' = doc,
         analyzed' = analyzed \cup {top.node}
  PROVE  ReportedExactlyOnce'
<1> DEFINE n == top.node
           e == [node |-> n, result |-> r]
           l == ListFor(top.call, r)
           E == [node : Node, result : ResultEnumeration]
<1>1. reports \in [ResultEnumeration -> Seq(E)] /\ analyzed \in SUBSET Node
  BY DEF IInv, TypeOK
<1>2. l \in ResultEnumeration
  BY DEF ListFor, ResultEnumeration
<1>3. reports' = [reports EXCEPT ![l] = Append(reports[l], e)]
  BY DEF Report
<1>4. e.node = n /\ e \in E
  OBVIOUS
<1> HIDE DEF e, l, E
<1>5. \A s \in ResultEnumeration :
        /\ reports[s] \in Seq(E)
        /\ reports'[s] = IF s = l THEN Append(reports[s], e) ELSE reports[s]
  BY <1>1, <1>2, <1>3
<1> DEFINE q == reports[l]
<1>q. /\ \A i \in DOMAIN q :
            i \in DOMAIN reports'[l] /\ reports'[l][i] = q[i]
      /\ \A i \in DOMAIN reports'[l] : i \in DOMAIN q \/ i = Len(q) + 1
      /\ Len(q) + 1 \in DOMAIN reports'[l]
      /\ reports'[l][Len(q) + 1] = e
  <2>1. q \in Seq(E) /\ e \in E /\ reports'[l] = Append(q, e)
    BY <1>2, <1>4, <1>5
  <2> HIDE DEF q
  <2> QED
    BY <2>1, AppendFacts
<1>6. ASSUME NEW s \in ResultEnumeration, NEW i \in DOMAIN reports[s]
      PROVE  /\ i \in DOMAIN reports'[s] /\ reports'[s][i] = reports[s][i]
             /\ reports[s][i].node # n
  <2>1. i \in DOMAIN reports'[s] /\ reports'[s][i] = reports[s][i]
    <3>1. CASE s = l
      BY <1>q, <3>1
    <3>2. CASE s # l
      BY <1>5, <3>2
    <3> QED
      BY <3>1, <3>2
  <2>2. reports[s][i].node # n
    BY DEF ReportedExactlyOnce
  <2> QED
    BY <2>1, <2>2
<1>7. ASSUME NEW s \in ResultEnumeration, NEW i \in DOMAIN reports'[s],
             i \notin DOMAIN reports[s]
      PROVE  s = l /\ i = Len(q) + 1 /\ reports'[s][i] = e
  <2>1. CASE s = l
    BY <1>q, <1>7, <2>1
  <2>2. CASE s # l
    BY <1>5, <1>7, <2>2
  <2> QED
    BY <2>1, <2>2
<1>8. Len(q) + 1 \in DOMAIN reports'[l] /\ reports'[l][Len(q) + 1] = e
  BY <1>q
<1>9. ASSUME NEW s \in ResultEnumeration, NEW t \in ResultEnumeration,
             NEW i \in DOMAIN reports'[s], NEW j \in DOMAIN reports'[t],
             reports'[s][i].node = reports'[t][j].node
      PROVE  s = t /\ i = j
  <2>1. CASE i \in DOMAIN reports[s] /\ j \in DOMAIN reports[t]
    BY <1>6, <1>9, <2>1 DEF ReportedExactlyOnce
  <2>2. CASE i \notin DOMAIN reports[s]
    BY <1>4, <1>6, <1>7, <1>9, <2>2
  <2>3. CASE j \notin DOMAIN reports[t]
    BY <1>4, <1>6, <1>7, <1>9, <2>3
  <2> QED
    BY <2>1, <2>2, <2>3
<1>10. ASSUME NEW m \in Node
       PROVE  m \in analyzed' /\ doc'.kind[m] = "definition"
              <=> \E s \in ResultEnumeration : \E i \in DOMAIN reports'[s] :
                    reports'[s][i].node = m
  <2>1. CASE m = n
    BY <1>2, <1>4, <1>8, <2>1
  <2>2. CASE m # n
    <3>1. (\E s \in ResultEnumeration : \E i \in DOMAIN reports'[s] :
             reports'[s][i].node = m)
          <=> \E s \in ResultEnumeration : \E i \in DOMAIN reports[s] :
                reports[s][i].node = m
      BY <1>4, <1>6, <1>7, <2>2
    <3>2. m \in analyzed' /\ doc'.kind[m] = "definition"
          <=> m \in analyzed /\ doc.kind[m] = "definition"
      BY <2>2
    <3> QED
      BY <3>1, <3>2 DEF ReportedExactlyOnce
  <2> QED
    BY <2>1, <2>2
<1> QED
  BY <1>9, <1>10 DEF ReportedExactlyOnce

\* Every definition with a verdict is in one list at one place, and none is in a
\* list without a verdict (Definition.cpp: Analyzer::AppendResults and its
\* siblings, called from two methods).
THEOREM ExactlyOneReport == Spec => []ReportedExactlyOnce
<1>1. Init => ReportedExactlyOnce
  BY DEF Init, ReportedExactlyOnce
<1>2. IInv /\ ReportedExactlyOnce /\ [Next]_vars => ReportedExactlyOnce'
  <2> SUFFICES ASSUME IInv, ReportedExactlyOnce, [Next]_vars
               PROVE  ReportedExactlyOnce'
    OBVIOUS
  <2>1. CASE UNCHANGED <<doc, analyzed, reports>>
    BY <2>1 DEF ReportedExactlyOnce
  <2>2. ASSUME NEW r \in ResultEnumeration, stack # << >>, doc' = doc,
               top.node \in Node, top.node \notin analyzed,
               analyzed' = analyzed \cup {top.node},
               IF doc.kind[top.node] = "definition"
                 THEN Report(top.node, r) ELSE UNCHANGED reports
        PROVE  ReportedExactlyOnce'
    <3>1. CASE doc.kind[top.node] = "definition"
      BY <2>2, <3>1, ReportStep
    <3>2. CASE doc.kind[top.node] # "definition"
      BY <2>2, <3>2 DEF ReportedExactlyOnce
    <3> QED
      BY <3>1, <3>2
  <2> QED
    BY <2>1, <2>2, EvaluationStep
<1> QED
  BY <1>1, <1>2, Invariance, PTL DEF Spec

-----------------------------------------------------------------------------
(***************************************************************************)
(* Proofs that the results document shows every definition and every test  *)
(* at most once and with its final verdict, for every document and every   *)
(* request: the Analyzer implements the promise of module Verdicts.        *)
(*                                                                         *)
(* That Write finds a verdict to write is where the inductive invariant of *)
(* AnalyzerProofs is needed: Write follows references into definitions Run *)
(* has not come to, and only because everything below the node of a Write  *)
(* frame is settled does each of them carry a verdict.                     *)
(***************************************************************************)
\* What is in the results document is marked as written and shows its verdict.
OutputShowsVerdicts ==
  \A i \in DOMAIN output :
    LET e == output[i]
    IN  IsSubject(e.node) => /\ e.node \in written
                             /\ e.node \in analyzed
                             /\ e.result = result[e.node]

OInv == IInv /\ OutputShowsVerdicts /\ WrittenOnce

-----------------------------------------------------------------------------
\* Only steps that add an element write.
LEMMA OutputStep ==
  ASSUME [Next]_vars
  PROVE  \/ UNCHANGED <<doc, written, output>>
         \/ AddElement
BY DEF WriteElement, WriteTestThrows, Next, RunStep, Terminated, ParseChild, ParseEnd, ParseMissing,
       AnalyzeAgain, AnalyzeChild, AnalyzeEnd, AnalyzeTest, SkipTest,
       SetTestResult, AnalyzeTestThrows, WriteAgain, WriteChild, WriteEnd,
       HandleRequested, RequestedNotFound, RequestedDone, HandleNext, Handle,
       Finish, Abort, vars

\* The element that is added has, if it is a definition or a test, a
\* verdict and is not yet in the results document.
LEMMA AddElementStep ==
  ASSUME IInv, AddElement
  PROVE  /\ UNCHANGED <<doc, analyzed, result>>
         /\ top.node \in Node /\ top.node \notin written
         /\ output' = Append(output,
                        [node |-> top.node, result |-> result[top.node]])
         /\ IF IsSubject(top.node)
              THEN written' = written \cup {top.node} /\ top.node \in analyzed
              ELSE written' = written
<1>1. stack # << >> /\ top.call = "Write"
  BY DEF AddElement, Active
<1>2. doc \in Documents /\ top.node \in Node /\ Settled(doc, analyzed, top.node)
  BY <1>1, TopFacts DEF IInv, StackOK, Ready, Evaluation
<1>3. IsSubject(top.node) => top.node \in analyzed
  BY <1>2, SettledStep DEF IsSubject
<1> QED
  BY <1>2, <1>3 DEF AddElement, IsKind, IsSubject, IsWritten

-----------------------------------------------------------------------------
(***************************************************************************)
(* The invariant.                                                          *)
(***************************************************************************)
LEMMA InitOInv == Init => OInv
BY InitIInv DEF Init, OInv, OutputShowsVerdicts, WrittenOnce

\* Every step keeps what is in the document equal to the verdicts.
LEMMA NextOInv == OInv /\ [Next]_vars => OInv'
<1> SUFFICES ASSUME OInv, [Next]_vars PROVE OInv'
  OBVIOUS
<1>1. IInv /\ OutputShowsVerdicts /\ WrittenOnce
  BY DEF OInv
<1>2. IInv'
  BY <1>1, NextIInv
<1>3. /\ analyzed \in SUBSET Node /\ result \in [Node -> ResultEnumeration]
      /\ output \in Seq([node : Node, result : ResultEnumeration])
  BY <1>1 DEF IInv, TypeOK
<1>4. CASE UNCHANGED <<doc, written, output>>
  <2>1. doc' = doc /\ analyzed \subseteq analyzed'
        /\ \A n \in analyzed : result'[n] = result[n]
    BY <1>1, <1>3, <1>4, EvaluationStep
  <2>2. OutputShowsVerdicts'
    BY <1>1, <1>4, <2>1 DEF OutputShowsVerdicts, IsSubject
  <2>3. WrittenOnce'
    BY <1>1, <1>4 DEF WrittenOnce, IsSubject
  <2> QED
    BY <1>2, <2>2, <2>3 DEF OInv
<1>5. CASE AddElement
  <2> DEFINE E == [node : Node, result : ResultEnumeration]
             e == [node |-> top.node, result |-> result[top.node]]
  <2>1. /\ UNCHANGED <<doc, analyzed, result>> /\ output' = Append(output, e)
        /\ top.node \in Node /\ top.node \notin written
        /\ IF IsSubject(top.node)
             THEN written' = written \cup {top.node} /\ top.node \in analyzed
             ELSE written' = written
    BY <1>1, <1>5, AddElementStep
  <2>2. e \in E /\ e.node = top.node /\ e.result = result[top.node]
    BY <1>3, <2>1
  <2> HIDE DEF e, E
  <2>3. output \in Seq(E)
    BY <1>3 DEF E
  <2>4. /\ \A i \in DOMAIN output :
             i \in DOMAIN output' /\ output'[i] = output[i]
        /\ \A i \in DOMAIN output' :
             i \in DOMAIN output \/ i = Len(output) + 1
        /\ output'[Len(output) + 1] = e
    BY <2>1, <2>2, <2>3, AppendFacts
  <2>5. ASSUME NEW i \in DOMAIN output', IsSubject(output'[i].node)
        PROVE  /\ output'[i].node \in written'
               /\ output'[i].node \in analyzed'
               /\ output'[i].result = result'[output'[i].node]
    <3>1. CASE i \in DOMAIN output
      BY <1>1, <2>1, <2>4, <2>5, <3>1 DEF OutputShowsVerdicts
    <3>2. CASE i = Len(output) + 1
      BY <2>1, <2>2, <2>4, <2>5, <3>2
    <3> QED
      BY <2>4, <3>1, <3>2
  <2>6. ASSUME NEW i \in DOMAIN output', NEW j \in DOMAIN output',
               output'[i].node = output'[j].node, IsSubject(output'[i].node)
        PROVE  i = j
    <3>1. \A k \in DOMAIN output : IsSubject(output[k].node) =>
            output[k].node # top.node
      BY <1>1, <2>1 DEF OutputShowsVerdicts
    <3>2. CASE i \in DOMAIN output /\ j \in DOMAIN output
      BY <1>1, <2>4, <2>6, <3>2 DEF WrittenOnce
    <3>3. CASE i \notin DOMAIN output \/ j \notin DOMAIN output
      BY <2>2, <2>4, <2>6, <3>1, <3>3
    <3> QED
      BY <3>2, <3>3
  <2>7. \A n : IsSubject(n)' <=> IsSubject(n)
    BY <2>1 DEF IsSubject
  <2>8. OutputShowsVerdicts'
    BY <2>1, <2>5 DEF OutputShowsVerdicts, IsSubject
  <2>9. WrittenOnce'
    BY <2>1, <2>6 DEF WrittenOnce, IsSubject
  <2> QED
    BY <1>2, <2>8, <2>9 DEF OInv
<1> QED
  BY <1>4, <1>5, OutputStep

\* Definitions and tests are written at most once, although every reference to
\* them calls Write (Definition.cpp, Test.cpp: Write).
THEOREM AtMostOnceWritten == Spec => []WrittenOnce
<1>1. OInv => WrittenOnce
  BY DEF OInv
<1> QED
  BY <1>1, InitOInv, NextOInv, PTL DEF Spec

-----------------------------------------------------------------------------
(***************************************************************************)
(* The refinement.                                                         *)
(***************************************************************************)
LEMMA InitRefines == Init => Promise!Init
BY DEF Init, Promise!Init, VerdictOf, Shown

\* A step that gives a definition or a test its verdict decides; a step that
\* writes one publishes; every other step is invisible.
LEMMA StepRefines ==
  ASSUME OInv, [Next]_vars
  PROVE  [Promise!Next]_(Promise!vars)
<1>1. IInv /\ OutputShowsVerdicts /\ WrittenOnce
  BY DEF OInv
<1>2. /\ analyzed \in SUBSET Node /\ result \in [Node -> ResultEnumeration]
      /\ output \in Seq([node : Node, result : ResultEnumeration])
  BY <1>1 DEF IInv, TypeOK
<1>3. CASE UNCHANGED <<doc, written, output>>
  <2>1. Shown' = Shown
    BY <1>3 DEF Shown, IsSubject
  <2>2. CASE UNCHANGED <<doc, analyzed, result, reports>>
    BY <2>1, <2>2 DEF Promise!vars, VerdictOf
  <2>3. ASSUME NEW r \in ResultEnumeration, top.node \in Node,
               top.node \notin analyzed,
               result' = [result EXCEPT ![top.node] = r]
        PROVE  /\ analyzed' = analyzed => VerdictOf' = VerdictOf
               /\ analyzed' = analyzed \cup {top.node} =>
                    Promise!Decide(top.node, r)
    <3>1. \A n \in analyzed : result'[n] = result[n]
      BY <1>2, <2>3
    <3>2. result'[top.node] = r
      BY <1>2, <2>3
    <3>3. analyzed' = analyzed => VerdictOf' = VerdictOf
      BY <3>1 DEF VerdictOf
    <3>4. ASSUME analyzed' = analyzed \cup {top.node}
          PROVE  Promise!Decide(top.node, r)
      <4> DEFINE n == top.node
      <4>1. DOMAIN VerdictOf = analyzed
            /\ \A m \in analyzed : VerdictOf[m] = result[m]
        BY DEF VerdictOf
      <4>2. VerdictOf' = [t \in analyzed \cup {n} |->
                            IF t = n THEN r ELSE VerdictOf[t]]
        BY <3>1, <3>2, <3>4, <4>1 DEF VerdictOf
      <4> QED
        BY <2>1, <2>3, <4>1, <4>2 DEF Promise!Decide, Promise!Decided
    <3> QED
      BY <3>3, <3>4
  <2>4. \A r \in ResultEnumeration :
          top.node \in Node /\ Promise!Decide(top.node, r) => Promise!Next
    BY DEF Promise!Next
  <2>5. VerdictOf' = VerdictOf => UNCHANGED Promise!vars
    BY <2>1 DEF Promise!vars
  <2> QED
    BY <1>1, <2>2, <2>3, <2>4, <2>5, EvaluationStep
<1>4. CASE AddElement
  <2> DEFINE n == top.node
             e == [node |-> n, result |-> result[n]]
             E == [node : Node, result : ResultEnumeration]
  <2>1. /\ UNCHANGED <<doc, analyzed, result>> /\ output' = Append(output, e)
        /\ n \in Node /\ n \notin written
        /\ IsSubject(n) => n \in analyzed
    BY <1>1, <1>4, AddElementStep
  <2>2. e \in E /\ e.node = n
    BY <1>2, <2>1
  <2>3. VerdictOf' = VerdictOf
    BY <2>1 DEF VerdictOf
  <2> HIDE DEF e, E
  <2>4. /\ \A i \in DOMAIN output :
             i \in DOMAIN output' /\ output'[i] = output[i]
        /\ \A i \in DOMAIN output' :
             i \in DOMAIN output \/ i = Len(output) + 1
        /\ Len(output) + 1 \in DOMAIN output'
        /\ output'[Len(output) + 1] = e
    BY <1>2, <2>1, <2>2, AppendFacts DEF E
  <2>5. Shown' = IF IsSubject(n) THEN Shown \cup {e} ELSE Shown
    BY <2>1, <2>2, <2>4 DEF Shown, IsSubject
  <2>6. CASE IsSubject(n)
    <3>1. n \in DOMAIN VerdictOf /\ VerdictOf[n] = result[n]
      BY <2>1, <2>6 DEF VerdictOf
    <3>2. n \notin {f.node : f \in Shown}
      BY <1>1, <2>1 DEF OutputShowsVerdicts, Shown
    <3>3. Shown' = Shown \cup {[node |-> n, result |-> VerdictOf[n]]}
      BY <2>5, <2>6, <3>1 DEF e
    <3>4. Promise!Publish(n)
      BY <2>3, <3>1, <3>2, <3>3
         DEF Promise!Publish, Promise!Decided, Promise!Published
    <3> QED
      BY <2>1, <3>4 DEF Promise!Next
  <2>7. CASE ~IsSubject(n)
    BY <2>3, <2>5, <2>7 DEF Promise!vars
  <2> QED
    BY <2>6, <2>7
<1> QED
  BY <1>3, <1>4, OutputStep

\* Run implements the promise of module Verdicts, whatever the document shares
\* and whatever is asked for: a definition is decided by whichever call of
\* Analyze or NotEvaluated reaches it first and published by whichever call of
\* Write does (Definition.cpp, Test.cpp: analyzed, written).
THEOREM Refinement == Spec => ImplementsVerdicts
<1>1. OInv /\ [Next]_vars => [Promise!Next]_(Promise!vars)
  BY StepRefines
<1> QED
  BY <1>1, InitOInv, NextOInv, InitRefines, PTL
     DEF Spec, ImplementsVerdicts, Promise!Spec


-----------------------------------------------------------------------------
(***************************************************************************)
(* Proofs about the finished results document, for every definitions       *)
(* document and every request: it holds everything each definition refers  *)
(* to, exactly the tests that were asked for have been evaluated, and every *)
(* result follows from those of the children by the charts of the schema.  *)
(*                                                                         *)
(* Definitions are evaluated and written once although many calls reach    *)
(* them, and every shortcut takes something for granted: the loops of Run  *)
(* that a definition in the cache is written, Write that what has its flag *)
(* is in the document with all below it, Analyze that a verdict was made   *)
(* from the same children.  None of it holds at every moment: a definition *)
(* enters the cache before it is written, and its flag is set before its   *)
(* children are.  The invariants say who still has to do what is missing:  *)
(* the definition at hand or an active Write, whose heights show that no   *)
(* call can meet one that has not come to its end.                         *)
(***************************************************************************)
(***************************************************************************)
(* The invariant.                                                          *)
(***************************************************************************)
\* Everything below n is in the results document.
Complete(n) == Below(doc, n) \subseteq OutputNodes

\* The call of Write that Run has made itself: below all others.
Base == stack[Len(stack)]

Ended == stack = << >>

\* The definition Run has come to is complete, or it is the one at hand.
Handled(d) == Complete(d) \/ (~Ended /\ Base.node = d)

Writing(f) == f.call = "Write" /\ f.next >= 1

\* The calls on the stack are for what lies below one definition.
BaseOK ==
  ~Ended =>
    /\ Base.call = "Write" /\ Base.node \in Definitions
    /\ \A j \in DOMAIN stack : stack[j].node \in Below(doc, Base.node)

\* A Write has appended its element, and all there is below the children it has
\* come past.  The child a frame waits for is not one of those.  Only calls of
\* Write are above it, for what lies deeper.
WritingOK ==
  \A j \in DOMAIN stack : Writing(stack[j]) =>
    LET n == stack[j].node
    IN  /\ n \in OutputNodes
        /\ \A i \in DOMAIN doc.kids[n] :
             i < stack[j].next - (IF j = 1 THEN 0 ELSE 1) => Complete(doc.kids[n][i])
        /\ \A k \in 1..(j - 1) : /\ stack[k].call = "Write"
                                 /\ doc.height[stack[k].node] < doc.height[n]

\* The written flag is set before all is written: until then its Write is active.
WrittenOK ==
  \A n \in written :
    Complete(n) \/ \E j \in DOMAIN stack : Writing(stack[j]) /\ stack[j].node = n

\* A definition is in the cache before it is evaluated and written: until then
\* it lies below the definition at hand.
CachedOK ==
  \A n \in cache : Complete(n) \/ (~Ended /\ n \in Below(doc, Base.node))

OutputOK == \A i \in DOMAIN output : \E d \in Definitions : output[i].node \in Below(doc, d)

LoopsOK ==
  /\ phase = "ids" =>
       /\ ~request.all
       /\ \A i \in DOMAIN request.ids :
            i < cursor /\ request.ids[i] \in Definitions => Handled(request.ids[i])
  /\ phase = "rest" =>
       /\ \A i \in DOMAIN doc.definitions : i < cursor => Handled(doc.definitions[i])
       /\ ~request.all => \A d \in Requested : Complete(d)
  /\ phase = "done" => Ended /\ \A d \in Definitions : Complete(d)

DocumentOK == BaseOK /\ WritingOK /\ WrittenOK /\ CachedOK /\ OutputOK /\ LoopsOK

DInv ==
  /\ phase = "aborted" => Ended
  /\ phase # "aborted" => DocumentOK

\* Calls of Analyze are for what is needed, and calls of NotEvaluated come only
\* when all that is requested has been handled.
CallsOK ==
  \A j \in DOMAIN stack :
    /\ stack[j].call = "Analyze" => stack[j].node \in Needed
    /\ stack[j].call = "NotEvaluated" => phase = "rest" /\ ~request.all

\* Tests are evaluated where they are needed, and skipped only when those that
\* are needed have their verdicts.
NeededOK ==
  /\ \A t \in Tests \cap analyzed : (result[t] # "not evaluated") <=> t \in Needed
  /\ CallsOK

\* The results of everything below n are what the operators make of those of
\* the children.
KidResults(n) == [j \in DOMAIN doc.kids[n] |-> result[doc.kids[n][j]]]

Derived(n) ==
  /\ doc.kind[n] # "missing"
  /\ IsSubject(n) => n \in analyzed
  /\ doc.kind[n] \notin {"test", "missing"} => result[n] = Combined(n, KidResults(n))

Consistent(n) == \A m \in Below(doc, n) : Derived(m)

\* A frame was handed the results of its children, in their order.
Handed(f) ==
  \A i \in DOMAIN f.got : /\ i \in DOMAIN doc.kids[f.node]
                          /\ f.got[i] = result[doc.kids[f.node][i]]
                          /\ Consistent(doc.kids[f.node][i])

GotOK == \A j \in DOMAIN stack : stack[j].call \in Evaluation => Handed(stack[j])

\* Write is called for what is consistent; the call Run has made itself is so
\* once its turn has come.
WritesOK ==
  \A j \in DOMAIN stack :
    stack[j].call = "Write" /\ (j = 1 \/ stack[j].next >= 1) => Consistent(stack[j].node)

OutputResultsOK ==
  \A i \in DOMAIN output : /\ Consistent(output[i].node)
                           /\ output[i].result = result[output[i].node]

ResultsOK ==
  /\ \A n \in analyzed : Consistent(n)
  /\ GotOK /\ WritesOK /\ OutputResultsOK

-----------------------------------------------------------------------------
(***************************************************************************)
(* Reach, which the properties are stated with, is what lies below.        *)
(***************************************************************************)
\* The equation Reach is defined by.
LEMMA BelowEquation ==
  ASSUME NEW d \in Documents, NEW n \in Node
  PROVE  Below(d, n) = {n} \cup UNION {Below(d, k) : k \in Kids(d, n)}
BY BelowSelf, BelowChild, BelowStep

\* Heights fall from a node to its children.
LEMMA Heights ==
  ASSUME NEW d \in Documents
  PROVE  /\ d.height \in [Node -> Nat]
         /\ \A n \in Node : \A k \in Kids(d, n) : d.height[k] < d.height[n]
BY DocumentsAssumption DEF Document, WellFormed

\* The equation has one solution, since a node where two differ would have a
\* child, which is not as high, where they differ.
LEMMA ReachIsBelow ==
  ASSUME NEW d \in Documents, NEW n \in Node
  PROVE  Reach(d, n) = Below(d, n)
<1> DEFINE Body(f) == [m \in Node |-> {m} \cup UNION {f[k] : k \in Kids(d, m)}]
           b == [m \in Node |-> Below(d, m)]
           r == CHOOSE f : f = Body(f)
<1>1. b = Body(b)
  <2>1. \A m \in Node : \A k \in Kids(d, m) : k \in Node /\ b[k] = Below(d, k)
    BY KidsType
  <2>2. ASSUME NEW m \in Node
        PROVE  b[m] = {m} \cup UNION {b[k] : k \in Kids(d, m)}
    <3>1. {b[k] : k \in Kids(d, m)} = {Below(d, k) : k \in Kids(d, m)}
      BY <2>1
    <3> QED
      BY <3>1, BelowEquation
  <2> QED
    BY <2>2
<1>2. r = Body(r)
  <2> HIDE DEF b, Body
  <2> QED
    BY <1>1
<1>3. Reach(d, n) = r[n]
  BY DEF Reach
<1> DEFINE differ == {m \in Node : r[m] # b[m]}
           T == {d.height[m] : m \in differ}
<1>4. ASSUME differ # {} PROVE FALSE
  <2>1. T \subseteq Nat /\ T # {}
    <3>1. differ \subseteq Node
      OBVIOUS
    <3> HIDE DEF differ
    <3> QED
      BY <1>4, <3>1, Heights
  <2>2. PICK h \in T : \A g \in T : h <= g
    <3> HIDE DEF T
    <3> QED
      BY <2>1, LeastNatural
  <2>3. PICK m \in differ : h = d.height[m]
    BY <2>2
  <2>4. ASSUME NEW k \in Kids(d, m) PROVE r[k] = b[k]
    <3>1. k \in Node /\ m \in Node
      BY <2>3, KidsType
    <3>2. d.height[k] < d.height[m] /\ d.height[k] \in Nat /\ d.height[m] \in Nat
      BY <3>1, Heights
    <3>3. ASSUME k \in differ PROVE FALSE
      <4>1. d.height[k] \in T
        BY <3>3
      <4>2. d.height[m] <= d.height[k]
        BY <2>2, <2>3, <4>1
      <4> QED
        BY <3>2, <4>2
    <3> QED
      BY <3>1, <3>3
  <2>5. {r[k] : k \in Kids(d, m)} = {b[k] : k \in Kids(d, m)}
    BY <2>4
  <2>6. m \in Node /\ r[m] = {m} \cup UNION {r[k] : k \in Kids(d, m)}
    BY <1>2, <2>3
  <2>7. b[m] = {m} \cup UNION {b[k] : k \in Kids(d, m)}
    BY <1>1, <2>6
  <2> QED
    BY <2>3, <2>5, <2>6, <2>7
<1>5. r[n] = b[n]
  BY <1>4
<1> QED
  BY <1>3, <1>5
-----------------------------------------------------------------------------
(***************************************************************************)
(* What the steps do to the stack.                                         *)
(***************************************************************************)
SameBase == Base'.call = Base.call /\ Base'.node = Base.node

\* A frame but for the results it was handed.
Same(f, g) == f.call = g.call /\ f.node = g.node /\ f.next = g.next

Popped ==
  /\ Len(stack') = Len(stack) - 1
  /\ \A j \in 1..Len(stack') : Same(stack'[j], stack[j + 1])

\* The stack of a state of the invariant.
LEMMA StackFacts ==
  ASSUME IInv, ~Ended
  PROVE  /\ stack \in Seq(Frame) /\ Len(stack) \in Nat /\ Len(stack) >= 1
         /\ DOMAIN stack = 1..Len(stack)
         /\ top = stack[1] /\ top \in Frame
         /\ \A j \in 1..Len(stack) : stack[j] \in Frame
         /\ \A j \in 1..(Len(stack) - 1) : Waiting(doc, analyzed, stack[j], stack[j + 1])
<1>1. stack \in Seq(Frame) /\ stack # << >> /\ Links(doc, analyzed, stack)
  BY DEF IInv, TypeOK, StackOK, Ended
<1>2. Len(stack) \in Nat /\ Len(stack) >= 1 /\ DOMAIN stack = 1..Len(stack)
  BY <1>1
<1>3. \A j \in 1..Len(stack) : stack[j] \in Frame
  BY <1>1, <1>2
<1>4. top = stack[1] /\ top \in Frame
  BY <1>1, StackType DEF top
<1> QED
  BY <1>1, <1>2, <1>3, <1>4 DEF Links

\* The active call is the first frame.
LEMMA TopFrame ==
  ASSUME IInv, ~Ended
  PROVE  top = stack[1] /\ 1 \in DOMAIN stack /\ top.node \in Node
<1>1. 1 \in 1..Len(stack)
  BY StackFacts
<1> QED
  BY <1>1, StackFacts DEF Frame

\* The loop of the active call comes to its next child.
LEMMA StepShape ==
  ASSUME IInv, ~Ended, Step
  PROVE  /\ Len(stack') = Len(stack) /\ DOMAIN stack' = 1..Len(stack) /\ ~Ended'
         /\ stack'[1] = Advance(top)
         /\ \A j \in 2..Len(stack) : stack'[j] = stack[j]
         /\ SameBase
<1> USE StackFacts
<1>1. Tail(stack) \in Seq(Frame) /\ Len(Tail(stack)) = Len(stack) - 1
      /\ \A j \in 1..(Len(stack) - 1) : Tail(stack)[j] = stack[j + 1]
  BY StackType DEF Ended
<1>2. Advance(top) \in Frame /\ stack' = <<Advance(top)>> \o Tail(stack)
  BY AdvanceFields DEF Step, Advanced
<1>3. /\ stack' \in Seq(Frame) /\ Len(stack') = Len(stack)
      /\ stack'[1] = Advance(top)
      /\ \A j \in 1..(Len(stack) - 1) : stack'[j + 1] = Tail(stack)[j]
  BY <1>1, <1>2, PushType
<1>4. \A j \in 2..Len(stack) : stack'[j] = stack[j]
  <2> TAKE j \in 2..Len(stack)
  <2>1. j - 1 \in 1..(Len(stack) - 1) /\ (j - 1) + 1 = j
    OBVIOUS
  <2> QED
    BY <1>1, <1>3, <2>1
<1>5. DOMAIN stack' = 1..Len(stack) /\ ~Ended'
  BY <1>3 DEF Ended
<1>6. SameBase
  <2>1. CASE Len(stack) = 1
    BY <1>3, <2>1, AdvanceFields DEF SameBase, Base
  <2>2. CASE Len(stack) # 1
    <3>1. Len(stack) \in 2..Len(stack)
      BY <2>2
    <3> QED
      BY <1>3, <1>4, <3>1 DEF SameBase, Base
  <2> QED
    BY <2>1, <2>2
<1> QED
  BY <1>3, <1>4, <1>5, <1>6

\* The active call calls the same of its child.
LEMMA DescendShape ==
  ASSUME IInv, ~Ended, HasChild, Descend
  PROVE  /\ Len(stack') = Len(stack) + 1 /\ DOMAIN stack' = 1..(Len(stack) + 1) /\ ~Ended'
         /\ stack'[1] = Called(top.call, child)
         /\ stack'[2] = Advance(top)
         /\ \A j \in 3..(Len(stack) + 1) : stack'[j] = stack[j - 1]
         /\ SameBase
<1> USE StackFacts
<1>1. Tail(stack) \in Seq(Frame) /\ Len(Tail(stack)) = Len(stack) - 1
      /\ \A j \in 1..(Len(stack) - 1) : Tail(stack)[j] = stack[j + 1]
  BY StackType DEF Ended
<1>2. child \in Node /\ top.call \in Call
  BY TopFacts DEF Frame, Ended
<1>3. /\ Advance(top) \in Frame /\ Called(top.call, child) \in Frame
      /\ stack' = <<Called(top.call, child), Advance(top)>> \o Tail(stack)
  BY <1>2, AdvanceFields, CalledFields DEF Descend, Advanced
<1>4. /\ stack' \in Seq(Frame) /\ Len(stack') = Len(stack) + 1
      /\ stack'[1] = Called(top.call, child) /\ stack'[2] = Advance(top)
      /\ \A j \in 1..(Len(stack) - 1) : stack'[j + 2] = Tail(stack)[j]
  BY <1>1, <1>3, PushTwoType
<1>5. \A j \in 3..(Len(stack) + 1) : stack'[j] = stack[j - 1]
  <2> TAKE j \in 3..(Len(stack) + 1)
  <2>1. j - 2 \in 1..(Len(stack) - 1) /\ (j - 2) + 2 = j /\ (j - 2) + 1 = j - 1
    OBVIOUS
  <2> QED
    BY <1>1, <1>4, <2>1
<1>6. DOMAIN stack' = 1..(Len(stack) + 1) /\ ~Ended'
  BY <1>4 DEF Ended
<1>7. SameBase
  <2>1. CASE Len(stack) = 1
    BY <1>4, <2>1, AdvanceFields DEF SameBase, Base
  <2>2. CASE Len(stack) # 1
    <3>1. Len(stack) + 1 \in 3..(Len(stack) + 1) /\ (Len(stack) + 1) - 1 = Len(stack)
      BY <2>2
    <3> QED
      BY <1>4, <1>5, <3>1 DEF SameBase, Base
  <2> QED
    BY <2>1, <2>2
<1> QED
  BY <1>4, <1>5, <1>6, <1>7

\* The active call returns, with or without a result.
LEMMA PopShape ==
  ASSUME IInv, ~Ended, Return \/ \E r \in ResultEnumeration : ReturnResult(r)
  PROVE  Popped /\ stack' \in Seq(Frame)
<1> USE StackFacts
<1>1. Tail(stack) \in Seq(Frame) /\ Len(Tail(stack)) = Len(stack) - 1
      /\ \A j \in 1..(Len(stack) - 1) : Tail(stack)[j] = stack[j + 1]
  BY StackType DEF Ended
<1>2. CASE stack' = Tail(stack)
  BY <1>1, <1>2 DEF Popped, Same
<1>3. ASSUME NEW r \in ResultEnumeration, Tail(stack) # << >>,
             stack' = <<PushBack(Head(Tail(stack)), r)>> \o Tail(Tail(stack))
      PROVE  Popped /\ stack' \in Seq(Frame)
  <2> DEFINE t == Tail(stack)
             f == Head(t)
  <2>1. t \in Seq(Frame) /\ t # << >> /\ Len(t) \in Nat /\ Len(t) = Len(stack) - 1
        /\ \A j \in 1..Len(t) : t[j] = stack[j + 1]
    BY <1>1, <1>3
  <2> HIDE DEF t
  <2>2. /\ f \in Frame /\ f = t[1] /\ Tail(t) \in Seq(Frame) /\ Len(Tail(t)) = Len(t) - 1
        /\ \A j \in 1..(Len(t) - 1) : Tail(t)[j] = t[j + 1]
    BY <2>1, StackType
  <2>3. PushBack(f, r) \in Frame /\ Same(PushBack(f, r), f)
    BY <2>2, PushBackFields DEF Same
  <2>4. stack' = <<PushBack(f, r)>> \o Tail(t)
    BY <1>3 DEF t
  <2> HIDE DEF f
  <2>5. /\ stack' \in Seq(Frame) /\ Len(stack') = Len(Tail(t)) + 1
        /\ stack'[1] = PushBack(f, r)
        /\ \A j \in 1..Len(Tail(t)) : stack'[j + 1] = Tail(t)[j]
    BY <2>2, <2>3, <2>4, PushType
  <2>6. Len(t) >= 1 /\ Len(stack') = Len(t)
    <3>1. Len(t) # 0
      BY <2>1
    <3>2. Len(stack') = (Len(t) - 1) + 1
      BY <2>2, <2>5
    <3>3. \A n \in Nat : n # 0 => n >= 1 /\ (n - 1) + 1 = n
      OBVIOUS
    <3>4. Len(t) \in Nat
      BY <2>1
    <3> QED
      BY <3>1, <3>2, <3>3, <3>4
  <2>7. ASSUME NEW j \in 1..Len(t) PROVE Same(stack'[j], stack[j + 1])
    <3>1. CASE j = 1
      BY <2>1, <2>2, <2>3, <2>5, <3>1
    <3>2. CASE j # 1
      <4>1. j - 1 \in 1..(Len(t) - 1) /\ (j - 1) + 1 = j
        BY <2>1, <3>2
      <4>2. stack'[j] = Tail(t)[j - 1] /\ Tail(t)[j - 1] = t[j] /\ t[j] = stack[j + 1]
        BY <2>1, <2>2, <2>5, <4>1
      <4> QED
        BY <4>2 DEF Same
    <3> QED
      BY <3>1, <3>2
  <2>8. Len(stack') = Len(stack) - 1 /\ \A j \in 1..Len(stack') : Same(stack'[j], stack[j + 1])
    BY <2>1, <2>6, <2>7
  <2> QED
    BY <2>5, <2>8 DEF Popped
<1> QED
  BY <1>2, <1>3 DEF Return, ReturnResult

\* What a pop leaves.
LEMMA PoppedFacts ==
  ASSUME IInv, ~Ended, Popped, stack' \in Seq(Frame)
  PROVE  /\ DOMAIN stack' = 1..Len(stack')
         /\ Ended' <=> Len(stack) = 1
         /\ ~Ended' => SameBase
         /\ Ended' => Base = top
<1> USE StackFacts
<1>1. DOMAIN stack' = 1..Len(stack') /\ (stack' = << >> <=> Len(stack') = 0)
  OBVIOUS
<1>2. Len(stack') = Len(stack) - 1
  BY DEF Popped
<1>3. ASSUME Len(stack) # 1 PROVE SameBase
  <2>1. Len(stack') \in 1..Len(stack') /\ Len(stack') + 1 = Len(stack)
    BY <1>2, <1>3
  <2> QED
    BY <2>1 DEF SameBase, Base, Popped, Same
<1> QED
  BY <1>1, <1>2, <1>3 DEF Base, Ended
-----------------------------------------------------------------------------
(***************************************************************************)
(* The document: what calls that return, go on or descend leave of it.     *)
(***************************************************************************)
\* What lies below a node lies below the nodes that one lies below.
LEMMA BelowTransitive ==
  ASSUME NEW d \in Documents, NEW n \in Node, NEW m \in Below(d, n)
  PROVE  /\ m \in Node
         /\ Below(d, m) \subseteq Below(d, n)
         /\ Kids(d, m) \subseteq Below(d, n)
<1>1. m \in Node
  BY DEF Below
<1>2. ASSUME NEW X \in SUBSET Node, n \in X, Closed(d, X) PROVE m \in X /\ Kids(d, m) \subseteq X
  BY <1>2 DEF Below, Closed
<1>3. Below(d, m) \subseteq Below(d, n)
  BY <1>2 DEF Below
<1>4. Kids(d, m) \subseteq Below(d, m)
  <2> SUFFICES ASSUME NEW k \in Kids(d, m) PROVE k \in Below(d, m)
    OBVIOUS
  <2>1. k \in Node
    BY <1>1, KidsType
  <2> QED
    BY <1>1, <2>1, BelowSelf, BelowChild
<1> QED
  BY <1>1, <1>3, <1>4

\* A node is complete with its element and its children.
LEMMA CompleteStep ==
  ASSUME doc \in Documents, NEW n \in Node
  PROVE  Complete(n) <=> n \in OutputNodes /\ \A k \in Kids(doc, n) : Complete(k)
<1>1. Below(doc, n) = {n} \cup UNION {Below(doc, k) : k \in Kids(doc, n)}
  BY BelowEquation
<1> QED
  BY <1>1 DEF Complete

\* What is complete stays so when the document grows.
LEMMA Growth ==
  ASSUME doc' = doc, OutputNodes \subseteq OutputNodes'
  PROVE  /\ \A n : Complete(n) => Complete(n)'
         /\ Definitions' = Definitions
BY DEF Complete, Definitions

\* The loops of Run are where they were.
LEMMA SameLoops ==
  ASSUME LoopsOK, UNCHANGED <<doc, request, phase, cursor>>, OutputNodes \subseteq OutputNodes',
         \A d \in Node : Handled(d) => Handled(d)',
         doc \in Document, request \in Request, phase = "done" => Ended'
  PROVE  LoopsOK'
<1>1. /\ \A n : Complete(n) => Complete(n)'
      /\ Definitions' = Definitions /\ Requested' = Requested
  BY Growth DEF Requested, Definitions
<1>2. /\ \A i \in DOMAIN request.ids : request.ids[i] \in Node
      /\ \A i \in DOMAIN doc.definitions : doc.definitions[i] \in Node
  BY DEF Document, Request
<1> QED
  BY <1>1, <1>2 DEF LoopsOK

\* The child of the active call.
LEMMA ChildFacts ==
  ASSUME IInv, ~Ended, HasChild
  PROVE  /\ top.next \in 1..Len(doc.kids[top.node])
         /\ child = doc.kids[top.node][top.next] /\ child \in Node
         /\ child \in Kids(doc, top.node)
         /\ doc.height[child] < doc.height[top.node]
         /\ doc.height[child] \in Nat /\ doc.height[top.node] \in Nat
<1>1. /\ doc \in Documents /\ top.node \in Node
      /\ DOMAIN doc.kids[top.node] = 1..Len(doc.kids[top.node])
      /\ child \in Node /\ child \in Kids(doc, top.node)
  BY TopFacts DEF Ended
<1>2. /\ doc.height[child] < doc.height[top.node]
      /\ doc.height[child] \in Nat /\ doc.height[top.node] \in Nat
  BY <1>1, Heights
<1>3. top.next \in 1..Len(doc.kids[top.node]) /\ child = doc.kids[top.node][top.next]
  BY <1>1 DEF HasChild, child
<1> QED
  BY <1>1, <1>2, <1>3

\* Types that the proofs about the document use.
LEMMA DocumentTypes ==
  ASSUME IInv
  PROVE  /\ doc \in Documents /\ doc \in Document /\ request \in Request
         /\ cursor \in Nat \ {0} /\ doc.height \in [Node -> Nat]
         /\ OutputNodes \subseteq Node /\ written \subseteq Node /\ cache \subseteq Node
<1>1. /\ doc \in Documents /\ doc \in Document /\ request \in Request
      /\ cursor \in Nat \ {0} /\ written \subseteq Node /\ cache \subseteq Node
      /\ output \in Seq([node : Node, result : ResultEnumeration])
  BY DocumentsAssumption DEF IInv, TypeOK
<1>2. \A i \in DOMAIN output : output[i].node \in Node
  <2> DEFINE E == [node : Node, result : ResultEnumeration]
  <2>1. \A e \in E : e.node \in Node
    OBVIOUS
  <2>2. output \in Seq(E)
    BY <1>1
  <2> HIDE DEF E
  <2>3. \A i \in DOMAIN output : output[i] \in E
    BY <2>2
  <2> QED
    BY <2>1, <2>3
<1>3. OutputNodes \subseteq Node
  BY <1>2 DEF OutputNodes
<1>4. doc.height \in [Node -> Nat]
  BY <1>1, Heights
<1> QED
  BY <1>1, <1>3, <1>4

\* A call that descends leaves all it had to do to be done.
LEMMA DescendDocument ==
  ASSUME IInv, DocumentOK, ~Ended, HasChild, Descend, phase # "done",
         UNCHANGED <<doc, request, phase, cursor, cache, written, output>>
  PROVE  DocumentOK'
<1> DEFINE L == Len(stack)
<1>1. /\ L \in Nat /\ L >= 1 /\ DOMAIN stack = 1..L /\ top = stack[1] /\ top \in Frame
      /\ \A j \in 1..L : stack[j] \in Frame
  BY StackFacts
<1>2. /\ Len(stack') = L + 1 /\ DOMAIN stack' = 1..(L + 1) /\ ~Ended'
      /\ stack'[1] = Called(top.call, child)
      /\ stack'[2] = Advance(top)
      /\ \A j \in 3..(L + 1) : stack'[j] = stack[j - 1]
      /\ SameBase
  BY DescendShape
<1>3. /\ doc \in Documents /\ doc \in Document /\ request \in Request
      /\ doc.height \in [Node -> Nat]
  BY DocumentTypes
<1>4. /\ top.next \in 1..Len(doc.kids[top.node])
      /\ child = doc.kids[top.node][top.next] /\ child \in Node
      /\ child \in Kids(doc, top.node)
      /\ doc.height[child] < doc.height[top.node]
      /\ doc.height[child] \in Nat /\ doc.height[top.node] \in Nat
  BY ChildFacts
<1>5. /\ Advance(top).call = top.call /\ Advance(top).node = top.node
      /\ Advance(top).next = top.next + 1
      /\ Called(top.call, child).call = top.call /\ Called(top.call, child).node = child
      /\ top.call = "Write" => Called(top.call, child).next = 0
  <2>1. top.call \in Call
    BY <1>1 DEF Frame
  <2>2. /\ Called(top.call, child).call = top.call /\ Called(top.call, child).node = child
        /\ Called(top.call, child).next = IF top.call = "Write" THEN 0 ELSE 1
    BY SMTT(30), <1>4, <2>1, CalledFields
  <2> QED
    BY <1>1, <2>2, AdvanceFields
<1> HIDE DEF L
<1>6. /\ OutputNodes' = OutputNodes /\ Definitions' = Definitions
      /\ \A n : Complete(n)' <=> Complete(n)
  BY DEF OutputNodes, Definitions, Complete
<1>7. BaseOK'
  <2>1. Base.node \in Definitions /\ Base.node \in Node /\ Base.call = "Write"
    BY DEF DocumentOK, BaseOK, Definitions
  <2>2. \A j \in 1..L : stack[j].node \in Below(doc, Base.node)
    BY <1>1 DEF DocumentOK, BaseOK
  <2>3. child \in Below(doc, Base.node)
    <3>1. top.node \in Below(doc, Base.node)
      <4>1. 1 \in 1..L
        BY <1>1
      <4> QED
        BY <1>1, <2>2, <4>1
    <3>2. Kids(doc, top.node) \subseteq Below(doc, Base.node)
      BY <1>3, <2>1, <3>1, BelowTransitive
    <3> QED
      BY <1>4, <3>2
  <2>4. ASSUME NEW j \in 1..(L + 1) PROVE stack'[j].node \in Below(doc, Base.node)
    <3>1. CASE j = 1
      BY <1>2, <1>5, <2>3, <3>1
    <3>2. CASE j = 2
      BY <1>1, <1>2, <1>5, <2>2, <3>2
    <3>3. CASE j \in 3..(L + 1)
      <4>1. j - 1 \in 1..L
        BY <1>1, <3>3
      <4> QED
        BY <1>2, <2>2, <3>3, <4>1
    <3> QED
      BY <1>1, <3>1, <3>2, <3>3
  <2> QED
    BY <1>2, <1>6, <2>1, <2>4 DEF BaseOK, SameBase
<1>8. WritingOK'
  <2>1. /\ Writing(stack'[2]) => Writing(top)
        /\ ~Writing(stack'[1])
    <3>1. top.next >= 1 /\ ~(0 >= 1)
      BY SMTT(30), <1>4
    <3>2. stack'[2].call = top.call /\ stack'[1].call = top.call
      BY <1>2, <1>5
    <3>3. top.call = "Write" => stack'[1].next = 0
      BY <1>2, <1>5
    <3> QED
      BY <3>1, <3>2, <3>3 DEF Writing
  <2>2. ASSUME NEW j \in 1..L, Writing(stack[j])
        PROVE  /\ top.call = "Write" /\ doc.height[child] < doc.height[stack[j].node]
               /\ doc.height[top.node] <= doc.height[stack[j].node]
               /\ stack[j].node \in OutputNodes /\ stack[j].node \in Node
               /\ \A i \in DOMAIN doc.kids[stack[j].node] :
                    i < stack[j].next - (IF j = 1 THEN 0 ELSE 1)
                      => Complete(doc.kids[stack[j].node][i])
               /\ \A k \in 1..(j - 1) : /\ stack[k].call = "Write"
                                        /\ doc.height[stack[k].node] < doc.height[stack[j].node]
    <3>1. /\ stack[j].node \in OutputNodes
          /\ \A i \in DOMAIN doc.kids[stack[j].node] :
                    i < stack[j].next - (IF j = 1 THEN 0 ELSE 1)
                      => Complete(doc.kids[stack[j].node][i])
          /\ \A k \in 1..(j - 1) : /\ stack[k].call = "Write"
                                   /\ doc.height[stack[k].node] < doc.height[stack[j].node]
      BY <1>1, <2>2 DEF DocumentOK, WritingOK
    <3>2. stack[j].node \in Node /\ doc.height[stack[j].node] \in Nat
      BY <1>1, <1>3 DEF Frame
    <3>3. top.call = "Write" /\ doc.height[top.node] <= doc.height[stack[j].node]
      <4>1. CASE j = 1
        <5>1. stack[j] = top
          BY <1>1, <4>1
        <5>2. top.call = "Write"
          BY <2>2, <5>1 DEF Writing
        <5>3. doc.height[top.node] <= doc.height[top.node]
          BY SMTT(30), <1>4
        <5> QED
          BY <5>1, <5>2, <5>3
      <4>2. CASE j # 1
        <5>1. 1 \in 1..(j - 1)
          BY <4>2
        <5> QED
          <6>1. stack[1].call = "Write" /\ doc.height[stack[1].node] < doc.height[stack[j].node]
            BY <3>1, <5>1
          <6>2. top.call = "Write" /\ doc.height[top.node] < doc.height[stack[j].node]
            BY <1>1, <6>1
          <6> QED
            BY SMTT(30), <1>4, <3>2, <6>2
      <4> QED
        BY <4>1, <4>2
    <3>4. doc.height[child] < doc.height[stack[j].node]
      BY SMTT(30), <1>4, <3>2, <3>3
    <3> QED
      BY <3>1, <3>2, <3>3, <3>4
  <2>3. ASSUME NEW j \in 1..(L + 1), Writing(stack'[j])
        PROVE  /\ stack'[j].node \in OutputNodes
               /\ \A i \in DOMAIN doc.kids[stack'[j].node] :
                    i < stack'[j].next - (IF j = 1 THEN 0 ELSE 1)
                      => Complete(doc.kids[stack'[j].node][i])
               /\ \A k \in 1..(j - 1) : /\ stack'[k].call = "Write"
                                        /\ doc.height[stack'[k].node] < doc.height[stack'[j].node]
    <3>1. j # 1
      BY <2>1, <2>3
    <3>2. CASE j = 2
      <4>1. Writing(stack[1]) /\ 1 \in 1..L
        BY <1>1, <2>1, <2>3, <3>2
      <4>2. stack'[j].node = top.node /\ stack'[j].next = top.next + 1
        BY <1>2, <1>5, <3>2
      <4>3. \A i \in DOMAIN doc.kids[top.node] : i < top.next => Complete(doc.kids[top.node][i])
        <5>1. \A i \in DOMAIN doc.kids[stack[1].node] :
                i < stack[1].next - 0 => Complete(doc.kids[stack[1].node][i])
          BY <2>2, <4>1
        <5>2. top.next - 0 = top.next
          BY <1>4
        <5> QED
          BY <1>1, <5>1, <5>2
      <4>4. \A i \in DOMAIN doc.kids[top.node] :
              i < (top.next + 1) - 1 => Complete(doc.kids[top.node][i])
        BY SMTT(30), <1>4, <4>3
      <4>5. \A k \in 1..(j - 1) : k = 1
        BY <3>2
      <4>6. stack'[1].call = "Write" /\ doc.height[stack'[1].node] < doc.height[top.node]
        BY <1>1, <1>2, <1>4, <1>5, <2>2, <4>1
      <4> QED
        BY <1>1, <2>2, <3>2, <4>1, <4>2, <4>4, <4>5, <4>6
    <3>3. CASE j \in 3..(L + 1)
      <4>1. j - 1 \in 1..L /\ j - 1 # 1 /\ stack'[j] = stack[j - 1]
        BY <1>1, <1>2, <3>3
      <4>2. /\ top.call = "Write" /\ doc.height[child] < doc.height[stack[j - 1].node]
            /\ doc.height[top.node] <= doc.height[stack[j - 1].node]
            /\ stack[j - 1].node \in OutputNodes
            /\ \A i \in DOMAIN doc.kids[stack[j - 1].node] :
                 i < stack[j - 1].next - 1 => Complete(doc.kids[stack[j - 1].node][i])
            /\ \A k \in 1..((j - 1) - 1) :
                 /\ stack[k].call = "Write"
                 /\ doc.height[stack[k].node] < doc.height[stack[j - 1].node]
        BY <2>2, <2>3, <4>1
      <4>3. ASSUME NEW k \in 1..(j - 1)
            PROVE  /\ stack'[k].call = "Write"
                   /\ doc.height[stack'[k].node] < doc.height[stack'[j].node]
        <5>1. CASE k = 1
          BY <1>2, <1>5, <4>1, <4>2, <5>1
        <5>2. CASE k = 2
          <6>1. 1 \in 1..((j - 1) - 1)
            BY <3>3
          <6> QED
            BY <1>1, <1>2, <1>5, <4>1, <4>2, <5>2, <6>1
        <5>3. CASE k \in 3..(L + 1)
          <6>1. k - 1 \in 1..((j - 1) - 1) /\ stack'[k] = stack[k - 1]
            BY <1>2, <3>3, <5>3
          <6> QED
            BY <4>1, <4>2, <6>1
        <5> QED
          BY <1>1, <3>3, <5>1, <5>2, <5>3
      <4> QED
        BY <3>1, <4>1, <4>2, <4>3
    <3> QED
      BY <1>1, <3>1, <3>2, <3>3
  <2> QED
    BY <1>2, <1>6, <2>3 DEF WritingOK
<1>9. WrittenOK'
  <2> SUFFICES ASSUME NEW n \in written, ~Complete(n)
               PROVE  \E j \in 1..(L + 1) : Writing(stack'[j]) /\ stack'[j].node = n
    BY <1>2, <1>6 DEF WrittenOK
  <2>1. PICK j \in 1..L : Writing(stack[j]) /\ stack[j].node = n
    BY <1>1 DEF DocumentOK, WrittenOK
  <2>2. CASE j = 1
    <3>1. Writing(stack'[2]) /\ stack'[2].node = n /\ 2 \in 1..(L + 1)
      <4>1. top.call = "Write" /\ top.next >= 1 /\ top.node = n
        <5>1. stack[j] = top
          BY <1>1, <2>2
        <5> QED
          BY <2>1, <5>1 DEF Writing
      <4>2. stack'[2].call = "Write" /\ stack'[2].node = n /\ stack'[2].next = top.next + 1
        BY <1>2, <1>5, <4>1
      <4>3. top.next + 1 >= 1
        BY <1>4
      <4>4. 2 \in 1..(L + 1)
        BY <1>1
      <4> QED
        BY <4>2, <4>3, <4>4 DEF Writing
    <3> QED
      BY <3>1
  <2>3. CASE j # 1
    <3>1. j + 1 \in 3..(L + 1) /\ (j + 1) - 1 = j /\ j + 1 \in 1..(L + 1)
      BY <1>1, <2>3
    <3> QED
      BY <1>2, <2>1, <3>1
  <2> QED
    BY <2>2, <2>3
<1>10. CachedOK' /\ OutputOK'
  BY <1>2, <1>6 DEF DocumentOK, CachedOK, OutputOK, SameBase
<1>11. LoopsOK'
  <2>1. \A d \in Node : Handled(d) => Handled(d)'
    BY <1>2, <1>6 DEF Handled, SameBase
  <2> QED
    BY <1>3, <1>6, <2>1, SameLoops DEF DocumentOK
<1> QED
  BY <1>7, <1>8, <1>9, <1>10, <1>11 DEF DocumentOK
\* A call that returns: a Write has left nothing out, the others have none below
\* them but the one Run has made.
LEMMA PopDocument ==
  ASSUME IInv, DocumentOK, ~Ended, Popped, stack' \in Seq(Frame), phase # "done",
         UNCHANGED <<doc, request, phase, cursor, written, output>>,
         cache' \subseteq cache \cup {top.node},
         top.call = "Write" => Complete(top.node)
  PROVE  DocumentOK'
<1> DEFINE L == Len(stack)
<1>1. /\ L \in Nat /\ L >= 1 /\ DOMAIN stack = 1..L /\ top = stack[1] /\ top \in Frame
      /\ \A j \in 1..L : stack[j] \in Frame
      /\ \A j \in 1..(L - 1) : Waiting(doc, analyzed, stack[j], stack[j + 1])
  BY StackFacts
<1>2. /\ Len(stack') = L - 1 /\ DOMAIN stack' = 1..(L - 1)
      /\ \A j \in 1..(L - 1) : Same(stack'[j], stack[j + 1])
      /\ Ended' <=> L = 1
      /\ ~Ended' => SameBase
      /\ Ended' => Base = top
  BY PoppedFacts DEF Popped
<1>3. /\ doc \in Documents /\ doc \in Document /\ request \in Request
  BY DocumentTypes
<1> HIDE DEF L
<1>4. /\ OutputNodes' = OutputNodes /\ Definitions' = Definitions
      /\ \A n : Complete(n)' <=> Complete(n)
  BY DEF OutputNodes, Definitions, Complete
<1>5. /\ Base.node \in Definitions /\ Base.node \in Node /\ Base.call = "Write"
      /\ \A j \in 1..L : stack[j].node \in Below(doc, Base.node)
  BY <1>1 DEF DocumentOK, BaseOK, Definitions
<1>6. Ended' => \A n \in Below(doc, Base.node) : Complete(n)
  <2> SUFFICES ASSUME Ended', NEW n \in Below(doc, Base.node) PROVE Complete(n)
    OBVIOUS
  <2>1. Complete(Base.node)
    BY <1>2, <1>5
  <2>2. Below(doc, n) \subseteq Below(doc, Base.node)
    BY <1>3, <1>5, BelowTransitive
  <2> QED
    BY <2>1, <2>2 DEF Complete
<1>7. BaseOK'
  <2>1. ASSUME NEW j \in 1..(L - 1) PROVE stack'[j].node \in Below(doc, Base.node)
    <3>1. j + 1 \in 1..L
      BY <1>1
    <3> QED
      BY <1>2, <1>5, <3>1 DEF Same
  <2> QED
    BY <1>2, <1>4, <1>5, <2>1 DEF BaseOK, SameBase
<1>8. WritingOK'
  <2> SUFFICES ASSUME NEW j \in 1..(L - 1), Writing(stack'[j])
               PROVE  /\ stack'[j].node \in OutputNodes
                      /\ \A i \in DOMAIN doc.kids[stack'[j].node] :
                           i < stack'[j].next - (IF j = 1 THEN 0 ELSE 1)
                             => Complete(doc.kids[stack'[j].node][i])
                      /\ \A k \in 1..(j - 1) :
                           /\ stack'[k].call = "Write"
                           /\ doc.height[stack'[k].node] < doc.height[stack'[j].node]
    BY <1>2, <1>4 DEF WritingOK
  <2> DEFINE g == stack[j + 1]
  <2>1. /\ j + 1 \in 1..L /\ j + 1 # 1 /\ Same(stack'[j], g) /\ Writing(g)
        /\ g \in Frame
    BY <1>1, <1>2 DEF Same, Writing
  <2>2. /\ g.node \in OutputNodes
        /\ \A i \in DOMAIN doc.kids[g.node] :
             i < g.next - 1 => Complete(doc.kids[g.node][i])
        /\ \A k \in 1..((j + 1) - 1) : /\ stack[k].call = "Write"
                                       /\ doc.height[stack[k].node] < doc.height[g.node]
    BY <1>1, <2>1 DEF DocumentOK, WritingOK
  <2> HIDE DEF g
  <2>3. \A k \in 1..(j - 1) : /\ stack'[k].call = "Write"
                              /\ doc.height[stack'[k].node] < doc.height[g.node]
    <3> TAKE k \in 1..(j - 1)
    <3>1. k + 1 \in 1..((j + 1) - 1) /\ k \in 1..(L - 1)
      BY <1>1
    <3> QED
      BY <1>2, <2>2, <3>1 DEF Same
  <2>4. ASSUME j = 1, NEW i \in DOMAIN doc.kids[g.node], i < g.next
        PROVE  Complete(doc.kids[g.node][i])
    <3>1. Waiting(doc, analyzed, top, g) /\ top.call = "Write" /\ g.call = "Write" /\ g.next >= 1
      <4>1. 1 \in 1..(L - 1) /\ 1 \in 1..((j + 1) - 1) /\ g = stack[1 + 1]
        BY <1>1, <2>1, <2>4 DEF g
      <4> QED
        BY <1>1, <2>1, <2>2, <4>1 DEF Writing
    <3>2. top.node = doc.kids[g.node][g.next - 1]
      <4>1. g # Called("Write", top.node)
        BY SMTT(30), <1>1, <3>1, CalledFields DEF Frame, Call
      <4> QED
        BY <3>1, <4>1 DEF Waiting, Evaluation
    <3>3. i \in Nat /\ g.next \in Nat
      BY SMTT(30), <1>3, <2>1, KidsType DEF Frame
    <3>4. i < g.next - 1 \/ i = g.next - 1
      BY <2>4, <3>3
    <3> QED
      BY <2>2, <3>1, <3>2, <3>4
  <2>5. g.next - 0 = g.next
    BY <2>1 DEF Frame
  <2> QED
    BY <2>1, <2>2, <2>3, <2>4, <2>5 DEF Same
<1>9. WrittenOK'
  <2> SUFFICES ASSUME NEW n \in written, ~Complete(n)
               PROVE  \E j \in 1..(L - 1) : Writing(stack'[j]) /\ stack'[j].node = n
    BY <1>2, <1>4 DEF WrittenOK
  <2>1. PICK j \in 1..L : Writing(stack[j]) /\ stack[j].node = n
    BY <1>1 DEF DocumentOK, WrittenOK
  <2>2. j # 1
    BY <1>1, <2>1 DEF Writing
  <2>3. j - 1 \in 1..(L - 1) /\ (j - 1) + 1 = j
    BY <1>1, <2>2
  <2> QED
    BY <1>2, <2>1, <2>3 DEF Same, Writing
<1>10. CachedOK'
  <2> SUFFICES ASSUME NEW n \in cache', ~Complete(n)
               PROVE  ~Ended' /\ n \in Below(doc, Base'.node)
    BY <1>4 DEF CachedOK
  <2>1. n \in Below(doc, Base.node)
    BY <1>1, <1>5 DEF DocumentOK, CachedOK
  <2> QED
    BY <1>2, <1>6, <2>1 DEF SameBase
<1>11. OutputOK'
  BY <1>4 DEF DocumentOK, OutputOK
<1>12. LoopsOK'
  <2>1. Base.node \in Below(doc, Base.node)
    BY <1>3, <1>5, BelowSelf
  <2>2. \A d \in Node : Handled(d) => Handled(d)'
    BY <1>2, <1>4, <1>6, <2>1 DEF Handled, SameBase
  <2> QED
    BY <1>3, <1>4, <2>2, SameLoops DEF DocumentOK
<1> QED
  BY <1>7, <1>8, <1>9, <1>10, <1>11, <1>12 DEF DocumentOK

\* No Write has begun while Parse is active.
LEMMA ParseDocument ==
  ASSUME IInv, DocumentOK, ~Ended, top.call = "Parse", Step, phase # "done",
         UNCHANGED <<doc, request, phase, cursor, cache, written, output>>
  PROVE  DocumentOK'
<1> DEFINE L == Len(stack)
<1>1. /\ L \in Nat /\ L >= 1 /\ DOMAIN stack = 1..L /\ top = stack[1] /\ top \in Frame
      /\ \A j \in 1..L : stack[j] \in Frame
  BY StackFacts
<1>2. /\ DOMAIN stack' = 1..L /\ ~Ended'
      /\ stack'[1] = Advance(top)
      /\ \A j \in 2..L : stack'[j] = stack[j]
      /\ SameBase
  BY StepShape
<1>3. Advance(top).call = "Parse" /\ Advance(top).node = top.node
  BY <1>1, AdvanceFields
<1>4. /\ doc \in Documents /\ doc \in Document /\ request \in Request
  BY DocumentTypes
<1> HIDE DEF L
<1>5. \A j \in 1..L : j = 1 \/ (j \in 2..L /\ 1 \in 1..(j - 1))
  BY <1>1
<1>6. \A j \in 1..L : ~Writing(stack[j]) /\ ~Writing(stack'[j])
  <2> TAKE j \in 1..L
  <2>1. CASE j = 1
    BY <1>1, <1>2, <1>3, <2>1 DEF Writing
  <2>2. CASE j # 1
    BY <1>1, <1>2, <1>5, <2>2 DEF DocumentOK, WritingOK
  <2> QED
    BY <2>1, <2>2
<1>7. /\ OutputNodes' = OutputNodes /\ Definitions' = Definitions
      /\ \A n : Complete(n)' <=> Complete(n)
  BY DEF OutputNodes, Definitions, Complete
<1>8. BaseOK'
  <2>1. \A j \in 1..L : stack'[j].node = stack[j].node
    BY <1>1, <1>2, <1>3, <1>5
  <2> QED
    BY <1>1, <1>2, <1>7, <2>1 DEF DocumentOK, BaseOK, SameBase
<1>9. WritingOK' /\ WrittenOK'
  BY <1>1, <1>2, <1>6, <1>7 DEF DocumentOK, WritingOK, WrittenOK
<1>10. CachedOK' /\ OutputOK'
  BY <1>2, <1>7 DEF DocumentOK, CachedOK, OutputOK, SameBase
<1>11. LoopsOK'
  <2>1. \A d \in Node : Handled(d) => Handled(d)'
    BY <1>2, <1>7 DEF Handled, SameBase
  <2> QED
    BY <1>4, <1>7, <2>1, SameLoops DEF DocumentOK
<1> QED
  BY <1>8, <1>9, <1>10, <1>11 DEF DocumentOK
\* Write appends its element and sets the flag; what is below is its own to do.
LEMMA ElementDocument ==
  ASSUME IInv, DocumentOK, WriteElement, phase # "done"
  PROVE  DocumentOK'
<1> DEFINE L == Len(stack)
<1>1. /\ ~Ended /\ top.call = "Write" /\ top.next = 0 /\ Step
      /\ UNCHANGED <<doc, request, phase, cursor, cache>>
      /\ written' \subseteq written \cup {top.node}
  BY DEF WriteElement, AddElement, Active, Ended
<1>2. /\ L \in Nat /\ L >= 1 /\ DOMAIN stack = 1..L /\ top = stack[1] /\ top \in Frame
      /\ \A j \in 1..L : stack[j] \in Frame
  BY <1>1, StackFacts
<1>3. /\ DOMAIN stack' = 1..L /\ ~Ended'
      /\ stack'[1] = Advance(top)
      /\ \A j \in 2..L : stack'[j] = stack[j]
      /\ SameBase
  BY <1>1, StepShape
<1>4. /\ Advance(top).call = "Write" /\ Advance(top).node = top.node
      /\ Advance(top).next = 1
  BY <1>1, <1>2, AdvanceFields
<1>5. /\ doc \in Documents /\ doc \in Document /\ request \in Request
  BY DocumentTypes
<1> HIDE DEF L
<1>6. \A j \in 1..L : j = 1 \/ (j \in 2..L /\ 1 \in 1..(j - 1))
  BY <1>2
<1> DEFINE E == [node : Node, result : ResultEnumeration]
           e == [node |-> top.node, result |-> result[top.node]]
<1>7. /\ \A i \in DOMAIN output : i \in DOMAIN output' /\ output'[i] = output[i]
      /\ \A i \in DOMAIN output' : i \in DOMAIN output \/ i = Len(output) + 1
      /\ Len(output) + 1 \in DOMAIN output'
      /\ output'[Len(output) + 1].node = top.node
  <2>1. top.node \in Node /\ result[top.node] \in ResultEnumeration
    BY <1>2 DEF IInv, TypeOK, Frame
  <2>2. e \in E /\ output \in Seq(E) /\ output' = Append(output, e) /\ e.node = top.node
    BY <2>1 DEF IInv, TypeOK, WriteElement, AddElement
  <2> HIDE DEF e, E
  <2> QED
    BY <2>2, AppendFacts
<1>8. /\ OutputNodes \subseteq OutputNodes' /\ top.node \in OutputNodes'
      /\ Definitions' = Definitions
      /\ \A n : Complete(n) => Complete(n)'
  <2>1. OutputNodes \subseteq OutputNodes' /\ top.node \in OutputNodes'
    BY <1>7 DEF OutputNodes
  <2> QED
    BY <1>1, <2>1, Growth
<1>9. \A j \in 1..L : stack'[j].node = stack[j].node /\ stack'[j].call = stack[j].call
  BY <1>2, <1>3, <1>4, <1>1, <1>6
<1>10. BaseOK'
  BY <1>1, <1>2, <1>3, <1>8, <1>9 DEF DocumentOK, BaseOK, SameBase
<1>11. WritingOK'
  <2> SUFFICES ASSUME NEW j \in 1..L, Writing(stack'[j])
               PROVE  /\ stack'[j].node \in OutputNodes'
                      /\ \A i \in DOMAIN doc.kids[stack'[j].node] :
                           i < stack'[j].next - (IF j = 1 THEN 0 ELSE 1)
                             => \A m : m = doc.kids[stack'[j].node][i] => Complete(m)'
                      /\ \A k \in 1..(j - 1) :
                           /\ stack'[k].call = "Write"
                           /\ doc.height[stack'[k].node] < doc.height[stack'[j].node]
    BY <1>1, <1>3 DEF WritingOK
  <2>1. CASE j = 1
    <3>1. stack'[j].node = top.node /\ stack'[j].next = 1 /\ top.node \in Node
      BY <1>2, <1>3, <1>4, <2>1 DEF Frame
    <3>2. \A i \in DOMAIN doc.kids[top.node] : ~(i < 1 - 0)
      BY <1>5, <3>1, KidsType
    <3>3. 1..(j - 1) = {}
      BY <2>1
    <3> QED
      BY <1>8, <2>1, <3>1, <3>2, <3>3
  <2>2. CASE j # 1
    <3>1. j \in 2..L /\ stack'[j] = stack[j] /\ Writing(stack[j])
      BY <1>3, <1>6, <2>2
    <3>2. /\ stack[j].node \in OutputNodes
          /\ \A i \in DOMAIN doc.kids[stack[j].node] :
               i < stack[j].next - 1 => Complete(doc.kids[stack[j].node][i])
          /\ \A k \in 1..(j - 1) : /\ stack[k].call = "Write"
                                   /\ doc.height[stack[k].node] < doc.height[stack[j].node]
      BY <1>2, <2>2, <3>1 DEF DocumentOK, WritingOK
    <3>3. \A k \in 1..(j - 1) : k \in 1..L
      BY <1>2, <3>1
    <3>4. \A k \in 1..(j - 1) : /\ stack'[k].call = "Write"
                                /\ doc.height[stack'[k].node] < doc.height[stack'[j].node]
      BY <1>9, <3>1, <3>2, <3>3
    <3>5. \A i \in DOMAIN doc.kids[stack[j].node] :
            i < stack[j].next - 1
              => \A m : m = doc.kids[stack[j].node][i] => Complete(m)'
      BY <1>8, <3>2
    <3> QED
      BY <1>8, <2>2, <3>1, <3>2, <3>4, <3>5
  <2> QED
    BY <2>1, <2>2
<1>12. WrittenOK'
  <2> SUFFICES ASSUME NEW n \in written', ~Complete(n)'
               PROVE  \E j \in 1..L : Writing(stack'[j]) /\ stack'[j].node = n
    BY <1>3 DEF WrittenOK
  <2>1. CASE n = top.node
    <3>1. 1 \in 1..L /\ Writing(stack'[1]) /\ stack'[1].node = n
      BY <1>2, <1>3, <1>4, <2>1 DEF Writing
    <3> QED
      BY <3>1
  <2>2. CASE n # top.node
    <3>1. PICK j \in 1..L : Writing(stack[j]) /\ stack[j].node = n
      BY <1>1, <1>2, <1>8, <2>2 DEF DocumentOK, WrittenOK
    <3>2. j \in 2..L
      BY <1>2, <1>6, <2>2, <3>1
    <3> QED
      BY <1>3, <3>1, <3>2
  <2> QED
    BY <2>1, <2>2
<1>13. CachedOK'
  BY <1>1, <1>3, <1>8 DEF DocumentOK, CachedOK, SameBase
<1>14. OutputOK'
  <2> SUFFICES ASSUME NEW i \in DOMAIN output'
               PROVE  \E d \in Definitions : output'[i].node \in Below(doc, d)
    BY <1>1, <1>8 DEF OutputOK
  <2>1. CASE i \in DOMAIN output
    BY <1>7, <2>1 DEF DocumentOK, OutputOK
  <2>2. CASE i = Len(output) + 1
    <3>1. Base.node \in Definitions /\ top.node \in Below(doc, Base.node)
      BY <1>1, <1>2 DEF DocumentOK, BaseOK
    <3> QED
      BY <1>7, <2>2, <3>1
  <2> QED
    BY <1>7, <2>1, <2>2
<1>15. LoopsOK'
  <2>1. \A d \in Node : Handled(d) => Handled(d)'
    BY <1>3, <1>8 DEF Handled, SameBase
  <2> QED
    BY <1>1, <1>5, <1>8, <2>1, SameLoops DEF DocumentOK
<1> QED
  BY <1>10, <1>11, <1>12, <1>13, <1>14, <1>15 DEF DocumentOK

\* A Write that has come to its last child has left nothing out.
LEMMA WriteEndComplete ==
  ASSUME IInv, DocumentOK, WriteEnd
  PROVE  Complete(top.node)
<1>1. ~Ended /\ top.call = "Write" /\ top.next # 0 /\ ~HasChild
  BY DEF WriteEnd, Active, Ended
<1>2. /\ doc \in Documents /\ top \in Frame /\ top = stack[1] /\ 1 \in DOMAIN stack
      /\ top.node \in Node /\ top.next \in Nat
  BY <1>1, StackFacts, DocumentTypes DEF Frame
<1>3. /\ top.next = Len(doc.kids[top.node]) + 1
      /\ \A k \in Kids(doc, top.node) : \E i \in 1..(top.next - 1) : k = doc.kids[top.node][i]
  BY <1>1, <1>2, EndOfLoop DEF Ended
<1>4. DOMAIN doc.kids[top.node] = 1..(top.next - 1)
  BY <1>2, <1>3, KidsType
<1>5. Writing(stack[1])
  BY <1>1, <1>2 DEF Writing
<1>6. /\ stack[1].node \in OutputNodes
      /\ \A i \in DOMAIN doc.kids[stack[1].node] :
           i < stack[1].next - 0 => Complete(doc.kids[stack[1].node][i])
  BY <1>2, <1>5 DEF DocumentOK, WritingOK
<1>7. \A k \in Kids(doc, top.node) : Complete(k)
  <2> TAKE k \in Kids(doc, top.node)
  <2>1. PICK i \in 1..(top.next - 1) : k = doc.kids[top.node][i]
    BY <1>3
  <2>2. i \in DOMAIN doc.kids[top.node] /\ i < top.next - 0
    BY <1>2, <1>4
  <2> QED
    BY <1>2, <1>6, <2>1, <2>2
<1> QED
  BY <1>2, <1>6, <1>7, CompleteStep

\* A Write that finds the flag set does not meet one that is still active: its
\* node would be as high as itself.
LEMMA WriteAgainComplete ==
  ASSUME IInv, DocumentOK, WriteAgain
  PROVE  Complete(top.node)
<1>1. ~Ended /\ top.call = "Write" /\ top.next = 0 /\ top.node \in written
  BY DEF WriteAgain, Active, IsWritten, Ended
<1>2. /\ top \in Frame /\ top = stack[1] /\ DOMAIN stack = 1..Len(stack)
      /\ Len(stack) \in Nat /\ doc.height \in [Node -> Nat]
  BY <1>1, StackFacts, DocumentTypes
<1> SUFFICES ASSUME NEW j \in DOMAIN stack, Writing(stack[j]), stack[j].node = top.node
             PROVE  FALSE
  BY <1>1 DEF DocumentOK, WrittenOK
<1>3. j # 1
  BY <1>1, <1>2 DEF Writing
<1>4. 1 \in 1..(j - 1)
  BY <1>2, <1>3
<1>5. doc.height[top.node] < doc.height[top.node]
  BY <1>2, <1>4 DEF DocumentOK, WritingOK
<1>6. doc.height[top.node] \in Nat
  BY <1>2 DEF Frame
<1> QED
  BY <1>5, <1>6
-----------------------------------------------------------------------------
(***************************************************************************)
(* The document: the loops of Run.                                         *)
(***************************************************************************)
\* Between two definitions nothing is left to be done.
LEMMA Between ==
  ASSUME IInv, DocumentOK, Ended
  PROVE  /\ \A n \in written \cup cache : Complete(n)
         /\ \A d : Handled(d) => Complete(d)
         /\ DOMAIN stack = {}
<1>1. DOMAIN stack = {}
  BY DEF Ended
<1> QED
  BY <1>1 DEF DocumentOK, WrittenOK, CachedOK, Handled

\* The three calls that Run makes for a definition.
LEMMA ProcessShape ==
  ASSUME NEW call \in Evaluation, NEW n \in Node, stack' = Process(call, n)
  PROVE  /\ DOMAIN stack' = 1..3 /\ ~Ended'
         /\ stack'[1] = Called("Parse", n) /\ stack'[2] = Called(call, n)
         /\ Base' = Called("Write", n)
         /\ \A j \in 1..3 : stack'[j].node = n /\ ~Writing(stack'[j])
<1> DEFINE p == Called("Parse", n)
           e == Called(call, n)
           w == Called("Write", n)
<1>1. /\ p.call = "Parse" /\ p.node = n /\ e.call = call /\ e.node = n
      /\ w.call = "Write" /\ w.node = n /\ w.next = 0 /\ call # "Write"
  BY CalledFields DEF Call, Evaluation
<1>2. stack' = <<p, e, w>>
  BY DEF Process
<1> HIDE DEF p, e, w
<1>3. /\ DOMAIN stack' = 1..3 /\ Len(stack') = 3 /\ stack' # << >>
      /\ stack'[1] = p /\ stack'[2] = e /\ stack'[3] = w
  BY <1>2
<1>4. ASSUME NEW j \in 1..3 PROVE stack'[j].node = n /\ ~Writing(stack'[j])
  <2>1. j = 1 \/ j = 2 \/ j = 3
    OBVIOUS
  <2> QED
    BY <1>1, <1>3, <2>1 DEF Writing
<1> QED
  BY <1>3, <1>4 DEF Base, Ended, p, e, w

\* The loops come to a definition: it is in the cache and complete, or it is the
\* one at hand.
LEMMA HandleDocument ==
  ASSUME IInv, DocumentOK, Ended, NEW call \in Evaluation, NEW n \in Definitions,
         Handle(call, n),
         \/ (phase = "ids" /\ n = request.ids[cursor])
         \/ (phase = "rest" /\ n = doc.definitions[cursor])
  PROVE  DocumentOK'
<1>1. /\ UNCHANGED <<doc, request, phase, cache, written, output>>
      /\ cursor' = cursor + 1
      /\ stack' = IF Cached(n) THEN << >> ELSE Process(call, n)
  BY DEF Handle
<1>2. /\ doc \in Documents /\ doc \in Document /\ request \in Request
      /\ cursor \in Nat \ {0} /\ n \in Node
  BY DocumentTypes DEF Definitions
<1>3. /\ OutputNodes' = OutputNodes /\ Definitions' = Definitions /\ Requested' = Requested
      /\ \A m : Complete(m)' <=> Complete(m)
  BY <1>1 DEF OutputNodes, Definitions, Complete, Requested
<1>4. /\ \A m \in written \cup cache : Complete(m)
      /\ \A d : Handled(d) => Complete(d)
  BY Between
<1>5. /\ n \in Below(doc, n)
      /\ \A j \in DOMAIN stack' : stack'[j].node = n /\ ~Writing(stack'[j])
      /\ ~Ended' => Base'.call = "Write" /\ Base'.node = n
      /\ Ended' => Complete(n)
  <2>1. n \in Below(doc, n)
    BY <1>2, BelowSelf
  <2>2. CASE Cached(n)
    <3>1. stack' = << >> /\ Complete(n)
      BY <1>1, <1>4, <2>2 DEF Cached
    <3>2. DOMAIN stack' = {} /\ Ended'
      BY <3>1 DEF Ended
    <3> QED
      BY <2>1, <3>1, <3>2
  <2>3. CASE ~Cached(n)
    <3>1. stack' = Process(call, n)
      BY <1>1, <2>3
    <3>2. Called("Write", n).call = "Write" /\ Called("Write", n).node = n
      BY <1>2, CalledFields DEF Call
    <3> QED
      BY <1>2, <2>1, <3>1, <3>2, ProcessShape
  <2> QED
    BY <2>2, <2>3
<1>6. BaseOK' /\ WritingOK' /\ WrittenOK' /\ CachedOK' /\ OutputOK'
  <2>1. BaseOK'
    BY <1>1, <1>3, <1>5 DEF BaseOK
  <2>2. WritingOK'
    BY <1>5 DEF WritingOK
  <2> QED
    BY <1>1, <1>3, <1>4, <2>1, <2>2 DEF WrittenOK, CachedOK, OutputOK, DocumentOK
<1>7. \A d : Handled(d) => Handled(d)'
  BY <1>3, <1>4 DEF Handled
<1>8. Handled(n)'
  BY <1>3, <1>5 DEF Handled
<1>9. LoopsOK'
  <2>1. CASE phase = "ids" /\ n = request.ids[cursor]
    <3>1. \A i \in DOMAIN request.ids : i < cursor + 1 => i < cursor \/ i = cursor
      BY <1>2 DEF Request
    <3> QED
      BY <1>1, <1>3, <1>7, <1>8, <2>1, <3>1 DEF DocumentOK, LoopsOK
  <2>2. CASE phase = "rest" /\ n = doc.definitions[cursor]
    <3>1. \A i \in DOMAIN doc.definitions : i < cursor + 1 => i < cursor \/ i = cursor
      BY <1>2 DEF Document
    <3> QED
      BY <1>1, <1>3, <1>7, <1>8, <2>2, <3>1 DEF DocumentOK, LoopsOK
  <2> QED
    BY <2>1, <2>2
<1> QED
  BY <1>6, <1>9 DEF DocumentOK

\* The other steps of the loops.
LEMMA LoopDocument ==
  ASSUME IInv, DocumentOK, RequestedNotFound \/ RequestedDone \/ Finish
  PROVE  DocumentOK'
<1>1. Ended /\ stack' = stack /\ UNCHANGED <<doc, request, written, output>>
      /\ cache' \subseteq cache /\ Ended' /\ Base' = Base
  BY DEF RequestedNotFound, RequestedDone, Finish, Ended, Base
<1>2. /\ doc \in Documents /\ doc \in Document /\ request \in Request
      /\ cursor \in Nat \ {0}
  BY DocumentTypes
<1>3. /\ OutputNodes' = OutputNodes /\ Definitions' = Definitions /\ Requested' = Requested
      /\ \A m : Complete(m)' <=> Complete(m)
  BY <1>1 DEF OutputNodes, Definitions, Complete, Requested
<1>4. /\ \A m \in written \cup cache : Complete(m)
      /\ \A d : Handled(d) => Complete(d)
      /\ DOMAIN stack = {}
  BY <1>1, Between
<1>5. BaseOK' /\ WritingOK' /\ WrittenOK' /\ CachedOK' /\ OutputOK'
  BY <1>1, <1>3, <1>4 DEF DocumentOK, BaseOK, WritingOK, WrittenOK, CachedOK, OutputOK
<1>6. \A d : Handled(d) => Handled(d)'
  BY <1>3, <1>4 DEF Handled
<1>7. CASE RequestedNotFound
  <2>1. /\ phase = "ids" /\ phase' = phase /\ cursor' = cursor + 1
        /\ doc.kind[request.ids[cursor]] # "definition"
    BY <1>7 DEF RequestedNotFound
  <2>2. \A i \in DOMAIN request.ids :
          i < cursor + 1 /\ request.ids[i] \in Definitions => i < cursor
    <3>1. \A i \in DOMAIN request.ids : i < cursor + 1 => i < cursor \/ i = cursor
      BY <1>2 DEF Request
    <3> QED
      BY <2>1, <3>1 DEF Definitions
  <2> QED
    BY <1>1, <1>3, <1>5, <1>6, <2>1, <2>2 DEF DocumentOK, LoopsOK
<1>8. CASE RequestedDone
  <2>1. phase = "ids" /\ phase' = "rest" /\ cursor' = 1 /\ cursor \notin DOMAIN request.ids
    BY <1>8 DEF RequestedDone
  <2>2. ASSUME NEW d \in Requested PROVE Complete(d)
    <3>1. ~request.all
      BY <2>1 DEF DocumentOK, LoopsOK
    <3>2. PICK i \in DOMAIN request.ids : request.ids[i] = d /\ d \in Definitions
      BY <3>1 DEF Requested
    <3>3. i < cursor
      <4>1. request.ids \in Seq(Node)
        BY <1>2 DEF Request
      <4> QED
        BY <1>2, <2>1, <4>1
    <3> QED
      BY <1>4, <2>1, <3>2, <3>3 DEF DocumentOK, LoopsOK
  <2>3. \A i \in DOMAIN doc.definitions : ~(i < 1)
    BY <1>2 DEF Document
  <2> QED
    BY <1>1, <1>3, <1>5, <2>1, <2>2, <2>3 DEF DocumentOK, LoopsOK
<1>9. CASE Finish
  <2>1. phase = "rest" /\ phase' = "done" /\ cursor \notin DOMAIN doc.definitions
    BY <1>9 DEF Finish
  <2>2. ASSUME NEW d \in Definitions PROVE Complete(d)
    <3>1. PICK i \in DOMAIN doc.definitions : doc.definitions[i] = d
      BY <1>2, DocumentsAssumption DEF Definitions, WellFormed
    <3>2. i < cursor
      <4>1. doc.definitions \in Seq(Node)
        BY <1>2 DEF Document
      <4> QED
        BY <1>2, <2>1, <3>1, <4>1
    <3> QED
      BY <1>4, <2>1, <3>1, <3>2 DEF DocumentOK, LoopsOK
  <2> QED
    BY <1>1, <1>3, <1>5, <2>1, <2>2 DEF DocumentOK, LoopsOK
<1> QED
  BY <1>7, <1>8, <1>9

-----------------------------------------------------------------------------
(***************************************************************************)
(* The finished document.                                                  *)
(***************************************************************************)
\* Run starts with nothing to be done.
LEMMA InitDocument == Init => DInv
<1> SUFFICES ASSUME Init PROVE DInv
  OBVIOUS
<1>1. Ended /\ cursor = 1 /\ phase \in {"ids", "rest"} /\ (phase = "ids" <=> ~request.all)
      /\ DOMAIN stack = {} /\ DOMAIN output = {} /\ cache = {} /\ written = {}
      /\ doc \in Document /\ request \in Request
  BY DocumentsAssumption DEF Init, Ended, Request
<1>2. /\ \A i \in DOMAIN request.ids : ~(i < 1)
      /\ \A i \in DOMAIN doc.definitions : ~(i < 1)
  BY <1>1 DEF Document, Request
<1> QED
  BY <1>1, <1>2 DEF DInv, DocumentOK, BaseOK, WritingOK, WrittenOK, CachedOK, OutputOK, LoopsOK

\* Every step keeps what is still to be done in somebody's hands.
\* An exception leaves Run.
Leaves == Abort \/ WriteTestThrows

LEMMA NextDocument == IInv /\ DInv /\ [Next]_vars => DInv'
<1> SUFFICES ASSUME IInv, DInv, [Next]_vars PROVE DInv'
  OBVIOUS
<1>1. CASE UNCHANGED vars
  <2>1. UNCHANGED <<doc, request, phase, cursor, stack, cache, written, output>>
    BY <1>1 DEF vars
  <2>2. /\ UNCHANGED <<Ended, Base, OutputNodes, Definitions, Requested>>
        /\ \A n : Complete(n)' <=> Complete(n)
        /\ \A d : Handled(d)' <=> Handled(d)
    BY <2>1 DEF Ended, Base, OutputNodes, Definitions, Requested, Complete, Handled
  <2>3. BaseOK => BaseOK'
    BY <2>1, <2>2 DEF BaseOK
  <2>4. WritingOK => WritingOK'
    BY <2>1, <2>2 DEF WritingOK
  <2>5. WrittenOK => WrittenOK'
    BY <2>1, <2>2 DEF WrittenOK
  <2>6. CachedOK => CachedOK'
    BY <2>1, <2>2 DEF CachedOK
  <2>7. OutputOK => OutputOK'
    BY <2>1, <2>2 DEF OutputOK
  <2>8. LoopsOK => LoopsOK'
    BY <2>1, <2>2 DEF LoopsOK
  <2> QED
    BY <2>1, <2>2, <2>3, <2>4, <2>5, <2>6, <2>7, <2>8 DEF DInv, DocumentOK
<1>2. CASE Leaves
  BY <1>2 DEF Leaves, Abort, WriteTestThrows, DInv, Ended
<1>3. ASSUME RunStep, ~Leaves PROVE phase # "aborted" /\ phase # "done" /\ phase' # "aborted"
  <2>1. ~Ended \/ phase \in {"ids", "rest"}
    BY <1>3 DEF RunStep, ParseChild, ParseEnd, ParseMissing, AnalyzeAgain, AnalyzeChild,
                AnalyzeEnd, AnalyzeTest, SkipTest, AnalyzeTestThrows, WriteAgain, WriteElement,
                AddElement, WriteTestThrows, WriteChild, WriteEnd, HandleRequested,
                RequestedNotFound, RequestedDone, HandleNext, Finish, Active, Ended
  <2>2. phase # "aborted" /\ phase # "done"
    BY <2>1 DEF DInv, DocumentOK, LoopsOK
  <2>3. phase' \in {phase, "rest", "done"}
    BY <1>3 DEF RunStep, ParseChild, ParseEnd, ParseMissing, AnalyzeAgain, AnalyzeChild,
                AnalyzeEnd, AnalyzeTest, SkipTest, SetTestResult, AnalyzeTestThrows, WriteAgain,
                WriteElement, WriteChild, WriteEnd, HandleRequested, RequestedNotFound,
                RequestedDone, HandleNext, Handle, Finish, Leaves
  <2> QED
    BY <2>2, <2>3
<1>4. ASSUME RunStep, ~Leaves PROVE DocumentOK'
  <2> USE <1>3, <1>4
  <2>1. DocumentOK
    BY DEF DInv
  <2>2. CASE ParseChild
    <3>1. ~Ended /\ top.call = "Parse" /\ HasChild /\ (Step \/ Descend)
          /\ UNCHANGED <<doc, request, phase, cursor, cache, written, output>>
      BY <2>2 DEF ParseChild, Active, Ended
    <3> QED
      BY <2>1, <3>1, ParseDocument, DescendDocument
  <2>3. CASE ParseEnd
    <3>1. ~Ended /\ top.call = "Parse" /\ Return /\ cache' \subseteq cache \cup {top.node}
          /\ UNCHANGED <<doc, request, phase, cursor, written, output>>
      BY <2>3 DEF ParseEnd, Active, Ended
    <3> QED
      BY <2>1, <3>1, PopShape, PopDocument
  <2>4. CASE AnalyzeChild \/ WriteChild
    <3>1. ~Ended /\ HasChild /\ Descend
          /\ UNCHANGED <<doc, request, phase, cursor, cache, written, output>>
      BY <2>4 DEF AnalyzeChild, WriteChild, Active, Ended
    <3> QED
      BY <2>1, <3>1, DescendDocument
  <2>5. CASE AnalyzeAgain \/ AnalyzeEnd \/ SkipTest
             \/ \E r \in ResultEnumeration \ {"not evaluated"} : AnalyzeTest(r)
    <3>1. ~Ended /\ top.call \in Evaluation
          /\ UNCHANGED <<doc, request, phase, cursor, cache, written, output>>
      BY <2>5 DEF AnalyzeAgain, AnalyzeEnd, SkipTest, AnalyzeTest, SetTestResult, Active, Ended,
                  Evaluation
    <3>2. \E r \in ResultEnumeration : ReturnResult(r)
      <4>1. CASE AnalyzeAgain
        <5>1. result[top.node] \in ResultEnumeration
          BY <3>1, StackFacts DEF IInv, TypeOK, Frame
        <5> QED
          BY <4>1, <5>1 DEF AnalyzeAgain
      <4>2. CASE AnalyzeEnd
        <5>1. Combined(top.node, top.got) \in ResultEnumeration
          BY <3>1, <4>2, CombinedType DEF AnalyzeEnd, IsKind, Ended
        <5> QED
          BY <4>2, <5>1 DEF AnalyzeEnd
      <4>3. CASE SkipTest
        BY <4>3 DEF SkipTest, SetTestResult, ResultEnumeration
      <4>4. CASE \E r \in ResultEnumeration \ {"not evaluated"} : AnalyzeTest(r)
        BY <4>4 DEF AnalyzeTest, SetTestResult
      <4> QED
        BY <2>5, <4>1, <4>2, <4>3, <4>4
    <3>3. top.call # "Write"
      BY <3>1 DEF Evaluation
    <3> QED
      BY <2>1, <3>1, <3>2, <3>3, PopShape, PopDocument
  <2>6. CASE WriteElement
    BY <2>1, <2>6, ElementDocument
  <2>7. CASE WriteAgain \/ WriteEnd
    <3>1. ~Ended /\ Return
          /\ UNCHANGED <<doc, request, phase, cursor, cache, written, output>>
      BY <2>7 DEF WriteAgain, WriteEnd, Active, Ended
    <3>2. Complete(top.node)
      BY <2>1, <2>7, WriteAgainComplete, WriteEndComplete
    <3> QED
      BY <2>1, <3>1, <3>2, PopShape, PopDocument
  <2>8. CASE HandleRequested
    <3>1. request.ids[cursor] \in Node
      BY <2>8, DocumentTypes DEF HandleRequested, Request
    <3>2. request.ids[cursor] \in Definitions /\ "Analyze" \in Evaluation
      BY <2>8, <3>1 DEF HandleRequested, Definitions, Evaluation
    <3>3. /\ phase = "ids" /\ Ended /\ cursor \in DOMAIN request.ids
          /\ Handle("Analyze", request.ids[cursor])
      BY <2>8 DEF HandleRequested, Ended
    <3> QED
      BY <2>1, <3>2, <3>3, HandleDocument
  <2>9. CASE HandleNext
    <3>1. doc.definitions[cursor] \in Definitions
      <4>1. doc.definitions \in Seq(Node)
        BY DocumentTypes DEF Document
      <4>2. doc.definitions[cursor] \in Node
        BY <2>9, <4>1 DEF HandleNext
      <4> QED
        BY <2>9, <4>2, DocumentTypes, DocumentsAssumption DEF HandleNext, WellFormed, Definitions
    <3> QED
      BY <2>1, <2>9, <3>1, HandleDocument DEF HandleNext, Evaluation, Ended
  <2>10. CASE RequestedNotFound \/ RequestedDone \/ Finish
    BY <2>1, <2>10, LoopDocument
  <2>11. ~ParseMissing /\ ~AnalyzeTestThrows /\ ~WriteTestThrows
    BY DEF ParseMissing, AnalyzeTestThrows, Leaves
  <2> QED
    BY <2>2, <2>3, <2>4, <2>5, <2>6, <2>7, <2>8, <2>9, <2>10, <2>11 DEF RunStep
<1>5. [Next]_vars => UNCHANGED vars \/ RunStep
  BY DEF Next, Terminated
<1> QED
  BY <1>1, <1>2, <1>3, <1>4, <1>5 DEF DInv

\* The finished document holds every definition and everything below it, and
\* nothing else, although the cache and the flags cut most walks short
\* (Analyzer.cpp: Run, Definition.cpp, Test.cpp: Write).
THEOREM CompleteDocument == Spec => []DocumentIsComplete
<1>1. IInv /\ DInv => DocumentIsComplete
  <2> SUFFICES ASSUME IInv, DInv, phase = "done"
               PROVE  OutputNodes = UNION {Reach(doc, d) : d \in Definitions}
    BY DEF DocumentIsComplete
  <2>1. \A d \in Definitions : Reach(doc, d) = Below(doc, d)
    BY ReachIsBelow, DocumentTypes DEF Definitions
  <2>2. DocumentOK
    BY DEF DInv
  <2>3. \A d \in Definitions : Below(doc, d) \subseteq OutputNodes
    BY <2>2 DEF DocumentOK, LoopsOK, Complete
  <2>4. \A n \in OutputNodes : \E d \in Definitions : n \in Below(doc, d)
    BY <2>2 DEF DocumentOK, OutputOK, OutputNodes
  <2> QED
    BY <2>1, <2>3, <2>4
<1> QED
  BY <1>1, InitIInv, NextIInv, InitDocument, NextDocument, PTL DEF Spec

-----------------------------------------------------------------------------
(***************************************************************************)
(* The tests that are evaluated.                                           *)
(***************************************************************************)
\* What is needed are the requested definitions and what lies below them.
LEMMA NeededFacts ==
  ASSUME IInv
  PROVE  /\ Needed = UNION {Below(doc, d) : d \in Requested}
         /\ Requested \subseteq Needed
         /\ \A n \in Needed : n \in Node /\ Kids(doc, n) \subseteq Needed
<1>1. doc \in Documents /\ Requested \subseteq Node
  BY DocumentTypes DEF Requested, Definitions
<1>2. \A d \in Requested : Reach(doc, d) = Below(doc, d)
  BY <1>1, ReachIsBelow
<1>3. Needed = UNION {Below(doc, d) : d \in Requested}
  <2>1. {Reach(doc, d) : d \in Requested} = {Below(doc, d) : d \in Requested}
    BY <1>2
  <2> QED
    BY <2>1 DEF Needed
<1>4. Requested \subseteq Needed
  BY <1>1, <1>3, BelowSelf
<1>5. ASSUME NEW n \in Needed PROVE n \in Node /\ Kids(doc, n) \subseteq Needed
  <2>1. PICK d \in Requested : n \in Below(doc, d)
    BY <1>3
  <2> QED
    BY <1>1, <1>3, <2>1, BelowTransitive
<1> QED
  BY <1>3, <1>4, <1>5

\* A call that is active after a step of a recursion was active before, or is the
\* one the active call has made of its child.
LEMMA NewCalls ==
  ASSUME IInv, ~Ended, RunStep, ~Leaves
  PROVE  /\ UNCHANGED <<doc, request, phase>>
         /\ \A j \in DOMAIN stack' :
              \/ \E i \in DOMAIN stack : /\ stack'[j].call = stack[i].call
                                         /\ stack'[j].node = stack[i].node
              \/ /\ HasChild
                 /\ stack'[j].call = top.call /\ stack'[j].node = child
<1> DEFINE Old(f) == \E i \in DOMAIN stack : f.call = stack[i].call /\ f.node = stack[i].node
           New(f) == HasChild /\ f.call = top.call /\ f.node = child
<1>1. ~HandleRequested /\ ~RequestedNotFound /\ ~RequestedDone /\ ~HandleNext /\ ~Finish
      /\ ~ParseMissing /\ ~AnalyzeTestThrows /\ ~WriteTestThrows
  BY DEF HandleRequested, RequestedNotFound, RequestedDone, HandleNext, Finish, Ended,
         ParseMissing, AnalyzeTestThrows, Leaves
<1>2. UNCHANGED <<doc, request, phase>>
  BY <1>1 DEF RunStep, ParseChild, ParseEnd, AnalyzeAgain, AnalyzeChild, AnalyzeEnd, AnalyzeTest,
              SkipTest, SetTestResult, WriteAgain, WriteElement, AddElement, WriteChild,
              WriteEnd
<1>3. \/ Step
      \/ HasChild /\ Descend
      \/ Return
      \/ \E r \in ResultEnumeration : ReturnResult(r)
  <2>1. ASSUME AnalyzeAgain PROVE \E r \in ResultEnumeration : ReturnResult(r)
    <3>1. result[top.node] \in ResultEnumeration
      BY StackFacts DEF IInv, TypeOK, Frame
    <3> QED
      BY <2>1, <3>1 DEF AnalyzeAgain
  <2>2. ASSUME AnalyzeEnd PROVE \E r \in ResultEnumeration : ReturnResult(r)
    <3>1. Combined(top.node, top.got) \in ResultEnumeration
      BY <2>2, CombinedType DEF AnalyzeEnd, IsKind, Active
    <3> QED
      BY <2>2, <3>1 DEF AnalyzeEnd
  <2>3. ASSUME SkipTest \/ \E r \in ResultEnumeration \ {"not evaluated"} : AnalyzeTest(r)
        PROVE  \E r \in ResultEnumeration : ReturnResult(r)
    BY <2>3 DEF AnalyzeTest, SkipTest, SetTestResult, ResultEnumeration
  <2>4. CASE ParseChild \/ AnalyzeChild \/ WriteChild \/ WriteElement
    BY <2>4 DEF ParseChild, AnalyzeChild, WriteChild, WriteElement
  <2>5. CASE ParseEnd \/ WriteAgain \/ WriteEnd
    BY <2>5 DEF ParseEnd, WriteAgain, WriteEnd
  <2> QED
    BY <1>1, <2>1, <2>2, <2>3, <2>4, <2>5 DEF RunStep
<1>4. ASSUME NEW j \in DOMAIN stack' PROVE Old(stack'[j]) \/ New(stack'[j])
  <2> USE StackFacts
  <2>1. CASE Step
    <3>1. j \in DOMAIN stack
      BY <2>1, StepShape
    <3>2. stack'[j].call = stack[j].call /\ stack'[j].node = stack[j].node
      <4>1. CASE j = 1
        BY <2>1, <4>1, StepShape, AdvanceFields
      <4>2. CASE j # 1
        BY <2>1, <3>1, <4>2, StepShape
      <4> QED
        BY <4>1, <4>2
    <3> QED
      BY <3>1, <3>2
  <2>2. CASE HasChild /\ Descend
    <3>1. j \in 1..(Len(stack) + 1)
      BY <2>2, DescendShape
    <3>2. CASE j = 1
      <4>1. child \in Node /\ top.call \in Call
        BY <2>2, ChildFacts DEF Frame
      <4> QED
        BY <2>2, <3>2, <4>1, DescendShape, CalledFields
    <3>3. CASE j = 2
      BY <2>2, <3>3, DescendShape, AdvanceFields
    <3>4. CASE j # 1 /\ j # 2
      <4>1. j \in 3..(Len(stack) + 1) /\ j - 1 \in 1..Len(stack)
        BY <3>1, <3>4
      <4> QED
        BY <2>2, <4>1, DescendShape
    <3> QED
      BY <3>2, <3>3, <3>4
  <2>3. CASE Return \/ \E r \in ResultEnumeration : ReturnResult(r)
    <3>1. Popped /\ stack' \in Seq(Frame)
      BY <2>3, PopShape
    <3>2. j \in 1..Len(stack') /\ Len(stack') = Len(stack) - 1 /\ Same(stack'[j], stack[j + 1])
      BY <3>1 DEF Popped
    <3>3. j + 1 \in DOMAIN stack
      BY <3>2
    <3> QED
      BY <3>2, <3>3 DEF Same
  <2> QED
    BY <1>3, <2>1, <2>2, <2>3
<1> QED
  BY <1>2, <1>4

\* Calls pass on what they are for, and Run starts them for what is needed.
LEMMA NextCalls ==
  ASSUME IInv, CallsOK, RunStep
  PROVE  CallsOK' /\ Needed' = Needed
<1>0. Needed' = Needed
  <2>1. UNCHANGED <<doc, request>>
    BY DEF RunStep, ParseChild, ParseEnd, ParseMissing, AnalyzeAgain, AnalyzeChild,
           AnalyzeEnd, AnalyzeTest, SkipTest, SetTestResult, AnalyzeTestThrows, WriteAgain,
           WriteElement, AddElement, WriteTestThrows, WriteChild, WriteEnd,
           HandleRequested, RequestedNotFound,
           RequestedDone, HandleNext, Handle, Finish, Abort
  <2> QED
    BY <2>1 DEF Needed, Requested, Definitions
<1>1. CASE stack' = << >>
  <2>1. DOMAIN stack' = {}
    BY <1>1
  <2> QED
    BY <1>0, <2>1 DEF CallsOK
<1>2. CASE ~Ended /\ ~Leaves
  <2>1. UNCHANGED <<doc, request, phase>>
    BY <1>2, NewCalls
  <2>2. ASSUME NEW j \in DOMAIN stack'
        PROVE  /\ stack'[j].call = "Analyze" => stack'[j].node \in Needed
               /\ stack'[j].call = "NotEvaluated" => phase = "rest" /\ ~request.all
    <3>1. CASE \E i \in DOMAIN stack : /\ stack'[j].call = stack[i].call
                                       /\ stack'[j].node = stack[i].node
      BY <3>1 DEF CallsOK
    <3>2. CASE HasChild /\ stack'[j].call = top.call /\ stack'[j].node = child
      <4>1. top = stack[1] /\ 1 \in DOMAIN stack /\ child \in Kids(doc, top.node)
        BY <1>2, <3>2, StackFacts, ChildFacts
      <4> QED
        BY <3>2, <4>1, NeededFacts DEF CallsOK
    <3> QED
      BY <1>2, <3>1, <3>2, NewCalls
  <2> QED
    BY <1>0, <2>1, <2>2 DEF CallsOK
<1>3. ASSUME NEW call \in Evaluation, NEW n \in Definitions, Handle(call, n),
             UNCHANGED <<phase, request>>,
             call = "Analyze" => n \in Needed,
             call = "NotEvaluated" => phase = "rest" /\ ~request.all
      PROVE  CallsOK'
  <2>1. CASE stack' = << >>
    BY <1>1, <2>1
  <2>2. CASE stack' = Process(call, n)
    <3>1. n \in Node /\ "Parse" \in Call /\ "Write" \in Call /\ call \in Call
      BY DEF Definitions, Call
    <3>2. /\ DOMAIN stack' = 1..3 /\ stack'[1] = Called("Parse", n)
          /\ stack'[2] = Called(call, n) /\ stack'[3] = Called("Write", n)
      BY <2>2 DEF Process
    <3>3. /\ stack'[1].call = "Parse" /\ stack'[2].call = call /\ stack'[2].node = n
          /\ stack'[3].call = "Write"
      BY <3>1, <3>2, CalledFields
    <3>4. ASSUME NEW j \in DOMAIN stack'
          PROVE  /\ stack'[j].call = "Analyze" => stack'[j].node \in Needed
                 /\ stack'[j].call = "NotEvaluated" => phase = "rest" /\ ~request.all
      <4>1. j = 1 \/ j = 2 \/ j = 3
        BY <3>2
      <4> QED
        BY <1>3, <3>3, <4>1
    <3> QED
      BY <1>0, <1>3, <3>4 DEF CallsOK
  <2> QED
    BY <1>3, <2>1, <2>2 DEF Handle
<1>4. CASE HandleRequested
  <2>1. request.ids[cursor] \in Definitions /\ "Analyze" \in Evaluation
    BY <1>4, DocumentTypes DEF HandleRequested, Definitions, Evaluation, Request
  <2>2. request.ids[cursor] \in Requested
    BY <1>4, <2>1 DEF HandleRequested, Requested
  <2>3. Handle("Analyze", request.ids[cursor]) /\ UNCHANGED <<phase, request>>
    BY <1>4 DEF HandleRequested, Handle
  <2> QED
    BY <1>3, <1>0, <2>1, <2>2, <2>3, NeededFacts
<1>5. CASE HandleNext
  <2> DEFINE call == IF request.all THEN "Analyze" ELSE "NotEvaluated"
             n == doc.definitions[cursor]
  <2>1. n \in Definitions
    <3>1. doc.definitions \in Seq(Node)
      BY DocumentTypes DEF Document
    <3>2. doc.definitions[cursor] \in Node
      BY <1>5, <3>1 DEF HandleNext
    <3> QED
      BY <1>5, <3>2, DocumentTypes, DocumentsAssumption DEF HandleNext, WellFormed, Definitions
  <2>2. Handle(call, n) /\ phase = "rest" /\ UNCHANGED <<phase, request>>
    BY <1>5 DEF HandleNext, Handle
  <2>3. call \in Evaluation
    BY DEF Evaluation
  <2>4. call = "Analyze" => n \in Needed
    BY <2>1, NeededFacts DEF Requested
  <2>5. call = "NotEvaluated" => ~request.all
    OBVIOUS
  <2> HIDE DEF call, n
  <2> QED
    BY <1>3, <1>0, <2>1, <2>2, <2>3, <2>4, <2>5
<1>6. CASE Leaves \/ RequestedNotFound \/ RequestedDone \/ Finish
  <2>1. stack' = << >>
    BY <1>6 DEF Leaves, Abort, WriteTestThrows, RequestedNotFound, RequestedDone, Finish
  <2> QED
    BY <1>0, <1>1, <2>1
<1>7. ~Ended \/ HandleRequested \/ HandleNext \/ RequestedNotFound \/ RequestedDone \/ Finish
  BY DEF RunStep, ParseChild, ParseEnd, ParseMissing, AnalyzeAgain, AnalyzeChild,
         AnalyzeEnd, AnalyzeTest, SkipTest, AnalyzeTestThrows, WriteAgain, WriteElement,
         AddElement, WriteTestThrows, WriteChild, WriteEnd, Active, Ended
<1> QED
  BY <1>0, <1>2, <1>4, <1>5, <1>6, <1>7

\* What has all its elements in the results document is settled.
LEMMA CompleteIsSettled ==
  ASSUME OInv, NEW n \in Node, Complete(n)
  PROVE  Settled(doc, analyzed, n)
<1> SUFFICES ASSUME NEW m \in Below(doc, n), doc.kind[m] \in {"definition", "test"}
             PROVE  m \in analyzed
  BY DEF Settled
<1>1. PICK i \in DOMAIN output : output[i].node = m
  BY DEF Complete, OutputNodes
<1> QED
  BY <1>1 DEF OInv, OutputShowsVerdicts, IsSubject

\* A test is given a verdict by a call of Analyze, which is for what is needed, or
\* by one of NotEvaluated, when what is needed has verdicts.
LEMMA NextNeeded == OInv /\ DInv /\ NeededOK /\ [Next]_vars => NeededOK'
<1> SUFFICES ASSUME OInv, DInv, NeededOK, [Next]_vars PROVE NeededOK'
  OBVIOUS
<1>1. IInv
  BY DEF OInv
<1>2. CASE UNCHANGED vars
  <2>1. UNCHANGED <<doc, request, phase, stack, analyzed, result>>
    BY <1>2 DEF vars
  <2>2. UNCHANGED <<Tests, Needed>>
    BY <2>1 DEF Tests, Needed, Requested, Definitions
  <2> QED
    BY <2>1, <2>2 DEF NeededOK, CallsOK
<1>3. CASE RunStep
  <2>1. CallsOK' /\ Needed' = Needed /\ doc' = doc /\ Tests' = Tests
    <3>1. doc' = doc
      BY <1>3 DEF RunStep, ParseChild, ParseEnd, ParseMissing, AnalyzeAgain, AnalyzeChild,
             AnalyzeEnd, AnalyzeTest, SkipTest, SetTestResult, AnalyzeTestThrows, WriteAgain,
             WriteElement, AddElement, WriteTestThrows, WriteChild, WriteEnd,
             HandleRequested, RequestedNotFound,
             RequestedDone, HandleNext, Handle, Finish, Abort
    <3> QED
      BY <1>1, <1>3, <3>1, NextCalls DEF NeededOK, Tests
  <2>2. CASE UNCHANGED <<analyzed, result>>
    BY <2>1, <2>2 DEF NeededOK
  <2>3. ASSUME AnalyzeEnd
        PROVE  \A t \in Tests : (t \in analyzed' <=> t \in analyzed) /\ result'[t] = result[t]
    <3>1. /\ doc.kind[top.node] # "test" /\ analyzed' \in {analyzed, analyzed \cup {top.node}}
          /\ \E r : result' = [result EXCEPT ![top.node] = r]
      BY <2>3 DEF AnalyzeEnd, IsKind
    <3>2. result \in [Node -> ResultEnumeration] /\ Tests \subseteq Node /\ top.node \notin Tests
      BY <1>1, <3>1 DEF IInv, TypeOK, Tests
    <3> QED
      BY <3>1, <3>2
  <2>4. ASSUME NEW r \in ResultEnumeration, ~Ended, SetTestResult(r),
               (r # "not evaluated") <=> top.node \in Needed
        PROVE  NeededOK'
    <3>1. top.node \in Node /\ result \in [Node -> ResultEnumeration]
      BY <1>1, <2>4, StackFacts DEF IInv, TypeOK, Frame
    <3>2. /\ analyzed' = analyzed \cup {top.node}
          /\ \A t \in Node : result'[t] = IF t = top.node THEN r ELSE result[t]
      BY <2>4, <3>1 DEF SetTestResult
    <3>3. Tests \subseteq Node
      BY DEF Tests
    <3> QED
      BY <2>1, <2>4, <3>2, <3>3 DEF NeededOK
  <2>5. ASSUME NEW r \in ResultEnumeration \ {"not evaluated"}, AnalyzeTest(r)
        PROVE  NeededOK'
    <3>1. ~Ended /\ SetTestResult(r) /\ top.call = "Analyze"
      BY <2>5 DEF AnalyzeTest, Active, Ended
    <3>2. top = stack[1] /\ 1 \in DOMAIN stack
      BY <1>1, <3>1, TopFrame
    <3>3. top.node \in Needed
      BY <3>1, <3>2 DEF NeededOK, CallsOK
    <3> QED
      BY <2>4, <3>1, <3>3
  <2>6. ASSUME SkipTest PROVE NeededOK'
    <3>1. ~Ended /\ SetTestResult("not evaluated") /\ top.call = "NotEvaluated"
          /\ doc.kind[top.node] = "test" /\ top.node \notin analyzed
      BY <2>6 DEF SkipTest, Active, Ended, IsKind, IsAnalyzed
    <3>2. top = stack[1] /\ 1 \in DOMAIN stack
      BY <1>1, <3>1, TopFrame
    <3>3. phase = "rest" /\ ~request.all
      BY <3>1, <3>2 DEF NeededOK, CallsOK
    <3>4. \A d \in Requested : Complete(d) /\ d \in Node
      BY <3>3 DEF DInv, DocumentOK, LoopsOK, Requested, Definitions
    <3>5. \A d \in Requested : Settled(doc, analyzed, d)
      BY <3>4, CompleteIsSettled
    <3>6. top.node \notin Needed
      <4>1. \A d \in Requested : top.node \notin Below(doc, d)
        BY <3>1, <3>5 DEF Settled
      <4> QED
        BY <1>1, <4>1, NeededFacts
    <3>7. "not evaluated" \in ResultEnumeration
      BY DEF ResultEnumeration
    <3> QED
      BY <2>4, <3>1, <3>6, <3>7
  <2>7. CASE AnalyzeEnd
    BY <2>1, <2>3, <2>7 DEF NeededOK
  <2> QED
    BY <1>3, <2>2, <2>5, <2>6, <2>7
       DEF RunStep, ParseChild, ParseEnd, ParseMissing, AnalyzeAgain, AnalyzeChild,
           AnalyzeTestThrows, WriteAgain, WriteElement, AddElement, WriteTestThrows,
           WriteChild, WriteEnd, HandleRequested,
           RequestedNotFound, RequestedDone, HandleNext, Handle, Finish, Abort
<1> QED
  BY <1>2, <1>3 DEF Next, Terminated

\* The tests that are evaluated are those that the requested definitions depend
\* on: NotEvaluated reaches none of them, since Run comes to what was not asked
\* for when everything below what was is in the document and has its verdict
\* (Analyzer.cpp: Run(ids); Test.cpp: NotEvaluated).
THEOREM NeededTests == Spec => []ExactlyTheNeededTests
<1>1. Init => NeededOK
  <2> SUFFICES ASSUME Init PROVE NeededOK
    OBVIOUS
  <2>1. analyzed = {} /\ DOMAIN stack = {}
    BY DEF Init
  <2> QED
    BY <2>1 DEF NeededOK, CallsOK
<1>2. NeededOK => ExactlyTheNeededTests
  BY DEF NeededOK, ExactlyTheNeededTests
<1>3. OInv /\ DInv /\ [Next]_vars => DInv'
  BY NextDocument DEF OInv
<1> QED
  BY <1>1, <1>2, <1>3, InitOInv, NextOInv, InitDocument, NextNeeded, PTL DEF Spec

-----------------------------------------------------------------------------
(***************************************************************************)
(* The results.                                                            *)
(***************************************************************************)
\* What is consistent stays so, with its result.
Kept == \A n \in Node : Consistent(n) => Consistent(n)' /\ result'[n] = result[n]

\* Nothing is lost where no result changes.
LEMMA SameResults ==
  ASSUME UNCHANGED <<doc, analyzed, result>>
  PROVE  Kept /\ \A n : Consistent(n)' <=> Consistent(n)
<1>1. \A m : KidResults(m)' = KidResults(m)
  BY DEF KidResults
<1>2. \A m, got : Combined(m, got)' = Combined(m, got)
  BY DEF Combined, Negates
<1>3. \A m : Derived(m)' <=> Derived(m)
  BY <1>1, <1>2 DEF Derived, IsSubject
<1> QED
  BY <1>3 DEF Kept, Consistent

\* The active call has been handed the results of all children.
LEMMA AllHanded ==
  ASSUME IInv, ResultsOK, ~Ended, top.call \in Evaluation, ~HasChild
  PROVE  /\ top.got = KidResults(top.node)
         /\ \A k \in Kids(doc, top.node) : Consistent(k)
<1> DEFINE n == top.node
<1>1. /\ top.got \in Seq(ResultEnumeration) /\ Len(top.got) = Len(doc.kids[n])
      /\ doc.kids[n] \in Seq(Node) /\ DOMAIN doc.kids[n] = 1..Len(doc.kids[n])
  BY EvaluatedFacts, TopFacts DEF Ended
<1>2. Handed(top)
  BY TopFrame DEF ResultsOK, GotOK
<1>3. DOMAIN top.got = DOMAIN doc.kids[n]
  BY <1>1
<1>4. \A i \in DOMAIN doc.kids[n] : /\ top.got[i] = result[doc.kids[n][i]]
                                    /\ Consistent(doc.kids[n][i])
  BY <1>2, <1>3 DEF Handed
<1>5. top.got = [i \in DOMAIN doc.kids[n] |-> top.got[i]]
  BY <1>1, <1>3
<1>6. top.got = KidResults(n)
  BY <1>4, <1>5 DEF KidResults
<1> QED
  BY <1>4, <1>6 DEF Kids

\* A call that gives its node a result leaves what is consistent as it is: the
\* node is not below it, or its result is made again from the same results.
LEMMA ResultKeeps ==
  ASSUME IInv, ResultsOK, ~Ended, doc' = doc, analyzed \subseteq analyzed',
         doc.kind[top.node] # "missing", top.node \notin analyzed,
         NEW r, result' = [result EXCEPT ![top.node] = r],
         ~IsSubject(top.node) => r = Combined(top.node, KidResults(top.node))
  PROVE  Kept
<1> SUFFICES ASSUME NEW n \in Node, Consistent(n)
             PROVE  Consistent(n)' /\ result'[n] = result[n]
  BY DEF Kept
<1> DEFINE t == top.node
<1>1. /\ doc \in Documents /\ t \in Node /\ result \in [Node -> ResultEnumeration]
      /\ n \in Below(doc, n) /\ Below(doc, n) \subseteq Node
      /\ \A m \in Below(doc, n) : Kids(doc, m) \subseteq Below(doc, n)
  BY TopFrame, BelowSelf, BelowTransitive DEF IInv, TypeOK
<1>2. t \in Below(doc, n) => result[t] = r
  <2> SUFFICES ASSUME t \in Below(doc, n) PROVE result[t] = r
    OBVIOUS
  <2>1. Derived(t)
    BY DEF Consistent
  <2>2. ~IsSubject(t) /\ doc.kind[t] \notin {"test", "missing"}
    BY <2>1 DEF Derived, IsSubject
  <2> QED
    BY <2>1, <2>2 DEF Derived
<1>3. \A m \in Below(doc, n) : result'[m] = result[m]
  BY <1>1, <1>2
<1>4. ASSUME NEW m \in Below(doc, n) PROVE Derived(m)'
  <2>1. Derived(m)
    BY DEF Consistent
  <2>2. \A i \in DOMAIN doc.kids[m] : result'[doc.kids[m][i]] = result[doc.kids[m][i]]
    BY <1>1, <1>3 DEF Kids
  <2>3. KidResults(m)' = KidResults(m)
    BY <2>2 DEF KidResults
  <2>4. \A got : Combined(m, got)' = Combined(m, got)
    BY DEF Combined, Negates
  <2>5. result'[m] = result[m]
    BY <1>3
  <2> QED
    BY <2>1, <2>3, <2>4, <2>5 DEF Derived, IsSubject
<1> QED
  BY <1>1, <1>3, <1>4 DEF Consistent

\* What AnalyzeEnd makes of the children is consistent.
LEMMA EndResults ==
  ASSUME IInv, ResultsOK, AnalyzeEnd
  PROVE  Kept /\ \A n \in Node : n = top.node => Consistent(n)'
<1> DEFINE t == top.node
           r == Combined(top.node, top.got)
<1>1. /\ ~Ended /\ top.call \in Evaluation /\ ~HasChild /\ doc.kind[t] # "test"
      /\ t \notin analyzed /\ doc' = doc /\ result' = [result EXCEPT ![t] = r]
      /\ analyzed \subseteq analyzed' /\ (IsSubject(t) => t \in analyzed')
  BY DEF AnalyzeEnd, Active, Ended, IsKind, IsAnalyzed, IsSubject
<1>2. /\ top.got = KidResults(t)
      /\ \A k \in Kids(doc, t) : Consistent(k)
  BY <1>1, AllHanded
<1>3. /\ doc.kind[t] # "missing" /\ doc \in Documents /\ t \in Node
      /\ result \in [Node -> ResultEnumeration]
  BY <1>1, EvaluatedFacts, TopFrame DEF Ended, IInv, TypeOK
<1>4. Kept
  <2>1. r = Combined(t, KidResults(t))
    BY <1>2
  <2> HIDE DEF r
  <2> QED
    BY <1>1, <1>3, <2>1, ResultKeeps
<1>5. \A k \in Kids(doc, t) : k \in Node /\ Consistent(k)' /\ result'[k] = result[k]
  BY <1>2, <1>3, <1>4, KidsType DEF Kept
<1>6. \A n \in Node : n = t => Derived(n)'
  <2>1. \A i \in DOMAIN doc.kids[t] : result'[doc.kids[t][i]] = result[doc.kids[t][i]]
    BY <1>5 DEF Kids
  <2>2. \A n \in Node : n = t => KidResults(n)' = KidResults(n)
    BY <1>1, <2>1 DEF KidResults
  <2>3. \A n, got : Combined(n, got)' = Combined(n, got)
    BY <1>1 DEF Combined, Negates
  <2>4. result'[t] = Combined(t, KidResults(t))
    BY <1>1, <1>2, <1>3
  <2> QED
    BY <1>1, <1>3, <2>2, <2>3, <2>4 DEF Derived, IsSubject
<1>7. \A n \in Node : n = t => Consistent(n)'
  <2> SUFFICES ASSUME NEW n \in Node, n = t, NEW m \in Below(doc, n) PROVE Derived(m)'
    BY <1>1 DEF Consistent
  <2>1. CASE m = n
    BY <1>6, <2>1
  <2>2. CASE m # n
    <3>1. PICK k \in Kids(doc, n) : m \in Below(doc, k)
      BY <1>3, <2>2, BelowStep
    <3> QED
      BY <1>1, <1>5, <3>1 DEF Consistent
  <2> QED
    BY <2>1, <2>2
<1> QED
  BY <1>3, <1>4, <1>7

\* What a call that returns r leaves on the stack.
LEMMA ReturnShape ==
  ASSUME IInv, ~Ended, NEW r \in ResultEnumeration, ReturnResult(r)
  PROVE  \A j \in DOMAIN stack' :
           \/ stack'[j] = stack[j + 1]
           \/ j = 1 /\ stack[2].call \in Evaluation /\ stack'[1] = PushBack(stack[2], r)
<1> USE StackFacts
<1>1. Tail(stack) \in Seq(Frame) /\ Len(Tail(stack)) = Len(stack) - 1
      /\ \A j \in 1..(Len(stack) - 1) : Tail(stack)[j] = stack[j + 1]
  BY StackType DEF Ended
<1>2. CASE stack' = Tail(stack)
  BY <1>1, <1>2
<1>3. ASSUME Tail(stack) # << >>, Head(Tail(stack)).call \in Evaluation,
             stack' = <<PushBack(Head(Tail(stack)), r)>> \o Tail(Tail(stack)),
             NEW j \in DOMAIN stack'
      PROVE  \/ stack'[j] = stack[j + 1]
             \/ j = 1 /\ stack[2].call \in Evaluation /\ stack'[1] = PushBack(stack[2], r)
  <2> DEFINE t == Tail(stack)
             f == Head(t)
  <2>1. t \in Seq(Frame) /\ t # << >> /\ Len(t) \in Nat
        /\ \A k \in 1..Len(t) : t[k] = stack[k + 1]
    BY <1>1, <1>3
  <2> HIDE DEF t
  <2>2. /\ f \in Frame /\ f = t[1] /\ Tail(t) \in Seq(Frame) /\ Len(Tail(t)) = Len(t) - 1
        /\ \A k \in 1..(Len(t) - 1) : Tail(t)[k] = t[k + 1]
    BY <2>1, StackType
  <2>3. PushBack(f, r) \in Frame
    BY <2>2, PushBackFields
  <2>4. stack' = <<PushBack(f, r)>> \o Tail(t) /\ f.call \in Evaluation
    BY <1>3 DEF t
  <2> HIDE DEF f
  <2>5. /\ stack' \in Seq(Frame) /\ Len(stack') = Len(Tail(t)) + 1
        /\ stack'[1] = PushBack(f, r)
        /\ \A k \in 1..Len(Tail(t)) : stack'[k + 1] = Tail(t)[k]
    BY <2>2, <2>3, <2>4, PushType
  <2>6. Len(t) >= 1 /\ j \in 1..Len(t)
    <3>1. Len(t) # 0
      BY <2>1
    <3>2. Len(stack') = (Len(t) - 1) + 1 /\ j \in 1..Len(stack')
      <4>1. Len(stack') = (Len(t) - 1) + 1
        BY <2>2, <2>5
      <4>2. DOMAIN stack' = 1..Len(stack') /\ j \in DOMAIN stack'
        BY <1>3, <2>5
      <4> QED
        BY <4>1, <4>2
    <3>3. \A n \in Nat : n # 0 => n >= 1 /\ (n - 1) + 1 = n
      OBVIOUS
    <3> QED
      BY <2>1, <3>1, <3>2, <3>3
  <2>7. f = stack[2]
    BY <2>1, <2>2, <2>6
  <2>8. CASE j = 1
    BY <2>4, <2>5, <2>7, <2>8
  <2>9. CASE j # 1
    <3>1. j - 1 \in 1..(Len(t) - 1) /\ (j - 1) + 1 = j
      BY <2>1, <2>6, <2>9
    <3> QED
      BY <2>1, <2>2, <2>5, <2>6, <3>1
  <2> QED
    BY <2>8, <2>9
<1> QED
  BY <1>2, <1>3 DEF ReturnResult

\* A call that returns hands its result on, if its caller evaluates too.
LEMMA PopResults ==
  ASSUME IInv, ResultsOK, ~Ended, UNCHANGED <<doc, output>>, Kept,
         Popped, stack' \in Seq(Frame),
         \A j \in DOMAIN stack' :
           \/ stack'[j] = stack[j + 1]
           \/ /\ j = 1 /\ top.call \in Evaluation /\ stack[2].call \in Evaluation
              /\ stack'[1] = PushBack(stack[2], result'[top.node]),
         \A n \in analyzed' : n \in analyzed \/ (n = top.node /\ top.call \in Evaluation),
         top.call \in Evaluation => \A n \in Node : n = top.node => Consistent(n)',
         result'[top.node] \in ResultEnumeration
  PROVE  ResultsOK'
<1> DEFINE L == Len(stack)
<1>1. /\ L \in Nat /\ L >= 1 /\ top = stack[1] /\ top \in Frame /\ top.node \in Node
      /\ \A j \in 1..L : stack[j] \in Frame
      /\ \A j \in 1..(L - 1) : Waiting(doc, analyzed, stack[j], stack[j + 1])
      /\ DOMAIN stack = 1..L
      /\ doc \in Documents /\ analyzed \subseteq Node
  BY StackFacts, TopFrame DEF IInv, TypeOK
<1>2. /\ Len(stack') = L - 1 /\ DOMAIN stack' = 1..(L - 1)
  BY PoppedFacts DEF Popped
<1> HIDE DEF L
<1>3. \A n \in analyzed' : Consistent(n)'
  BY <1>1 DEF Kept, ResultsOK
<1>4. \A f \in Frame : /\ DOMAIN doc.kids[f.node] = 1..Len(doc.kids[f.node])
                       /\ \A i \in DOMAIN doc.kids[f.node] : doc.kids[f.node][i] \in Node
  <2> SUFFICES ASSUME NEW n \in Node PROVE doc.kids[n] \in Seq(Node)
    BY DEF Frame
  <2> QED
    BY <1>1, KidsType
<1>5. ASSUME NEW j \in 1..(L - 1), stack'[j].call \in Evaluation,
             NEW i \in DOMAIN stack'[j].got
      PROVE  /\ i \in DOMAIN doc.kids[stack'[j].node]
             /\ stack'[j].got[i] = result'[doc.kids[stack'[j].node][i]]
             /\ \A n \in Node : n = doc.kids[stack'[j].node][i] => Consistent(n)'
  <2>1. j + 1 \in 1..L
    BY <1>1
  <2>2. ASSUME NEW f \in Frame, Handed(f), NEW k \in DOMAIN f.got
        PROVE  /\ k \in DOMAIN doc.kids[f.node]
               /\ f.got[k] = result'[doc.kids[f.node][k]]
               /\ \A n \in Node : n = doc.kids[f.node][k] => Consistent(n)'
    BY <1>4, <2>2 DEF Handed, Kept
  <2>3. CASE stack'[j] = stack[j + 1]
    <3>1. stack[j + 1] \in Frame /\ Handed(stack[j + 1])
      BY <1>1, <1>5, <2>1, <2>3 DEF ResultsOK, GotOK
    <3> QED
      BY <1>5, <2>2, <2>3, <3>1
  <2>4. CASE /\ j = 1 /\ top.call \in Evaluation /\ stack[2].call \in Evaluation
             /\ stack'[1] = PushBack(stack[2], result'[top.node])
    <3> DEFINE b == stack[2]
               r == result'[top.node]
    <3>1. /\ b \in Frame /\ Handed(b) /\ Waiting(doc, analyzed, top, b)
      <4>1. 1 \in 1..(L - 1) /\ 1 + 1 = 2 /\ 2 \in 1..L
        BY <1>1, <2>1, <2>4
      <4> QED
        BY <1>1, <2>4, <4>1 DEF ResultsOK, GotOK
    <3>2. /\ b.next - 1 \in DOMAIN doc.kids[b.node]
          /\ top.node = doc.kids[b.node][b.next - 1]
          /\ Ready(doc, analyzed, BeforeAdvance(b))
      <4>1. Called("Write", top.node).call = "Write"
        BY <1>1, CalledFields DEF Call
      <4> QED
        BY <2>4, <3>1, <4>1 DEF Waiting, Evaluation
    <3>3. Len(b.got) = b.next - 2 /\ b.got \in Seq(ResultEnumeration) /\ b.next \in Nat
      <4>1. Len(b.got) = (b.next - 1) - 1
        BY <2>4, <3>1, <3>2, BeforeFields DEF Ready
      <4> QED
        BY <3>1, <4>1 DEF Frame
    <3>4. stack'[j].got = Append(b.got, r) /\ stack'[j].node = b.node
      <4>1. \A f \in Frame : PushBack(f, r).got = Append(f.got, r)
                             /\ PushBack(f, r).node = f.node
        BY DEF PushBack, Frame
      <4> QED
        BY <2>4, <3>1, <4>1
    <3> HIDE DEF b, r
    <3>5. i \in DOMAIN b.got \/ i = Len(b.got) + 1
      BY <1>5, <3>3, <3>4, AppendFacts
    <3>6. CASE i \in DOMAIN b.got
      <4>1. stack'[j].got[i] = b.got[i]
        BY <3>3, <3>4, <3>6
      <4> QED
        BY <2>2, <3>1, <3>4, <3>6, <4>1
    <3>7. CASE i = Len(b.got) + 1
      <4>1. stack'[j].got[i] = r /\ i = b.next - 1
        BY <3>3, <3>4, <3>7
      <4> QED
        BY <2>4, <3>2, <3>4, <4>1 DEF r
    <3> QED
      BY <3>5, <3>6, <3>7
  <2> QED
    BY <1>2, <2>3, <2>4
<1>6. GotOK'
  <2>1. \A j \in 1..(L - 1) : stack'[j] \in Frame
    BY <1>2
  <2> QED
    BY <1>2, <1>4, <1>5, <2>1 DEF GotOK, Handed
<1>7. ASSUME NEW j \in 1..(L - 1), stack'[j].call = "Write", j = 1 \/ stack'[j].next >= 1,
             NEW n \in Node, n = stack'[j].node
      PROVE  Consistent(n)'
  <2>1. j + 1 \in 1..L /\ j + 1 # 1
    BY <1>1
  <2>2. stack'[j] = stack[j + 1]
    <3>1. ASSUME j = 1, stack[2].call \in Evaluation,
                 stack'[1] = PushBack(stack[2], result'[top.node])
          PROVE  FALSE
      <4>1. stack[2] \in Frame
        BY <1>1, <2>1, <3>1
      <4>2. stack'[j].call = stack[2].call
        BY <3>1, <4>1, PushBackFields
      <4> QED
        BY <1>7, <3>1, <4>2 DEF Evaluation
    <3> QED
      BY <1>2, <3>1
  <2>3. CASE stack'[j].next >= 1
    BY <1>1, <1>7, <2>1, <2>2, <2>3 DEF ResultsOK, WritesOK, Kept
  <2>4. CASE j = 1 /\ ~(stack'[j].next >= 1)
    <3> DEFINE b == stack[2]
    <3>1. b \in Frame /\ Waiting(doc, analyzed, top, b) /\ b.call = "Write" /\ ~(b.next >= 1)
          /\ n = b.node
      <4>1. 1 \in 1..(L - 1) /\ 1 + 1 = 2 /\ 2 \in 1..L
        BY <1>1, <2>1, <2>4
      <4> QED
        BY <1>1, <1>7, <2>2, <2>4, <4>1
    <3>2. b.next - 1 \notin DOMAIN doc.kids[b.node]
      BY <1>4, <3>1 DEF Frame
    <3> HIDE DEF b
    <3>3. top.call \in Evaluation /\ b = Called("Write", top.node)
      BY <3>1, <3>2 DEF Waiting, Evaluation
    <3>4. n = top.node
      BY <1>1, <3>1, <3>3, CalledFields DEF Call
    <3> QED
      BY <3>3, <3>4
  <2> QED
    BY <1>7, <2>3, <2>4
<1>8. WritesOK'
  <2>1. \A j \in 1..(L - 1) : stack'[j].node \in Node
    <3>1. \A j \in 1..(L - 1) : stack'[j] \in Frame
      BY <1>2
    <3> QED
      BY <3>1 DEF Frame
  <2>2. \A j \in 1..(L - 1) :
          stack'[j].call = "Write" /\ (j = 1 \/ stack'[j].next >= 1) =>
            \A n \in Node : n = stack'[j].node => Consistent(n)'
    BY <1>7
  <2> QED
    BY <1>2, <2>1, <2>2 DEF WritesOK
<1>9. OutputResultsOK'
  <2>1. \A i \in DOMAIN output : output[i].node \in Node
    BY DocumentTypes DEF OutputNodes
  <2> QED
    BY <2>1 DEF ResultsOK, OutputResultsOK, Kept
<1> QED
  BY <1>3, <1>6, <1>8, <1>9 DEF ResultsOK

\* A child is consistent if its parent is.
LEMMA ConsistentChild ==
  ASSUME doc \in Documents, NEW n \in Node, Consistent(n), NEW k \in Kids(doc, n)
  PROVE  Consistent(k)
BY BelowChild, KidsType DEF Consistent

\* What a frame was handed is not changed by a step that leaves the results.
LEMMA SameHanded ==
  ASSUME UNCHANGED <<doc, analyzed, result>>
  PROVE  \A f : Handed(f)' <=> Handed(f)
BY SameResults DEF Handed

\* The loop of the active call comes to its next child.
LEMMA StepResults ==
  ASSUME IInv, ResultsOK, ~Ended, Step, UNCHANGED <<doc, analyzed, result>>
  PROVE  GotOK' /\ WritesOK'
<1>1. /\ DOMAIN stack' = DOMAIN stack /\ stack'[1] = Advance(top)
      /\ \A j \in DOMAIN stack : j # 1 => stack'[j] = stack[j]
  BY StepShape, StackFacts
<1>2. /\ top = stack[1] /\ 1 \in DOMAIN stack
      /\ Advance(top).call = top.call /\ Advance(top).node = top.node
      /\ Advance(top).got = top.got
  BY TopFrame, StackFacts, AdvanceFields
<1>3. \A n : Consistent(n)' <=> Consistent(n)
  BY SameResults
<1>4. ASSUME NEW j \in DOMAIN stack', stack'[j].call \in Evaluation
      PROVE  \A f : f = stack'[j] => Handed(f)'
  <2>1. CASE j = 1
    <3>1. Handed(top)
      BY <1>1, <1>2, <1>4, <2>1 DEF ResultsOK, GotOK
    <3>2. Handed(Advance(top))
      BY <1>2, <3>1 DEF Handed
    <3> QED
      BY <1>1, <2>1, <3>2, SameHanded
  <2>2. CASE j # 1
    BY <1>1, <1>4, <2>2, SameHanded DEF ResultsOK, GotOK
  <2> QED
    BY <2>1, <2>2
<1>5. ASSUME NEW j \in DOMAIN stack', stack'[j].call = "Write", j = 1 \/ stack'[j].next >= 1
      PROVE  Consistent(stack'[j].node)
  <2>1. CASE j = 1
    BY <1>1, <1>2, <1>5, <2>1 DEF ResultsOK, WritesOK
  <2>2. CASE j # 1
    BY <1>1, <1>5, <2>2 DEF ResultsOK, WritesOK
  <2> QED
    BY <2>1, <2>2
<1> QED
  BY <1>3, <1>4, <1>5 DEF GotOK, WritesOK

\* The active call calls the same of its child.
LEMMA DescendResults ==
  ASSUME IInv, ResultsOK, ~Ended, HasChild, Descend,
         UNCHANGED <<doc, analyzed, result>>
  PROVE  GotOK' /\ WritesOK'
<1>1. /\ DOMAIN stack' = 1..(Len(stack) + 1)
      /\ stack'[1] = Called(top.call, child) /\ stack'[2] = Advance(top)
      /\ \A j \in 3..(Len(stack) + 1) : stack'[j] = stack[j - 1]
  BY DescendShape
<1>2. /\ top = stack[1] /\ 1 \in DOMAIN stack /\ DOMAIN stack = 1..Len(stack)
      /\ Len(stack) \in Nat /\ doc \in Documents /\ top.node \in Node
      /\ Advance(top).call = top.call /\ Advance(top).node = top.node
      /\ Advance(top).got = top.got
      /\ child \in Kids(doc, top.node)
  BY TopFrame, StackFacts, AdvanceFields, ChildFacts DEF IInv
<1>3. /\ Called(top.call, child).call = top.call /\ Called(top.call, child).node = child
      /\ Called(top.call, child).got = << >>
  BY StackFacts, ChildFacts, CalledFields DEF Frame
<1>4. \A n : Consistent(n)' <=> Consistent(n)
  BY SameResults
<1>5. \A j \in 1..(Len(stack) + 1) :
        j = 1 \/ j = 2 \/ (j \in 3..(Len(stack) + 1) /\ j - 1 \in 1..Len(stack) /\ j - 1 # 1)
  BY <1>2
<1>6. ASSUME NEW j \in DOMAIN stack', stack'[j].call \in Evaluation
      PROVE  \A f : f = stack'[j] => Handed(f)'
  <2>1. CASE j = 1
    <3>1. DOMAIN stack'[j].got = {}
      BY <1>1, <1>3, <2>1
    <3>2. Handed(stack'[j])
      BY <3>1 DEF Handed
    <3> QED
      BY <3>2, SameHanded
  <2>2. CASE j = 2
    <3>1. Handed(top)
      BY <1>1, <1>2, <1>6, <2>2 DEF ResultsOK, GotOK
    <3>2. Handed(Advance(top))
      BY <1>2, <3>1 DEF Handed
    <3> QED
      BY <1>1, <2>2, <3>2, SameHanded
  <2>3. CASE j \in 3..(Len(stack) + 1) /\ j - 1 \in 1..Len(stack)
    BY <1>1, <1>2, <1>6, <2>3, SameHanded DEF ResultsOK, GotOK
  <2> QED
    BY <1>1, <1>5, <2>1, <2>2, <2>3
<1>7. ASSUME NEW j \in DOMAIN stack', stack'[j].call = "Write", j = 1 \/ stack'[j].next >= 1
      PROVE  Consistent(stack'[j].node)
  <2>1. top.call = "Write" => Consistent(top.node)
    BY <1>2 DEF ResultsOK, WritesOK
  <2>2. CASE j = 1
    BY <1>1, <1>2, <1>3, <1>7, <2>1, <2>2, ConsistentChild
  <2>3. CASE j = 2
    BY <1>1, <1>2, <1>7, <2>1, <2>3
  <2>4. CASE j \in 3..(Len(stack) + 1) /\ j - 1 \in 1..Len(stack) /\ j - 1 # 1
    <3>1. j # 1
      BY <2>4
    <3> QED
      BY <1>1, <1>2, <1>7, <2>4, <3>1 DEF ResultsOK, WritesOK
  <2> QED
    BY <1>1, <1>5, <2>2, <2>3, <2>4
<1> QED
  BY <1>4, <1>6, <1>7 DEF GotOK, WritesOK

\* The calls Run starts with have been handed nothing and write nothing yet.
LEMMA LoopResults ==
  ASSUME IInv, UNCHANGED <<doc, analyzed, result>>,
         stack' = << >> \/ \E call \in Evaluation, n \in Node : stack' = Process(call, n)
  PROVE  GotOK' /\ WritesOK'
<1>1. CASE stack' = << >>
  <2>1. DOMAIN stack' = {}
    BY <1>1
  <2> QED
    BY <2>1 DEF GotOK, WritesOK
<1>2. ASSUME NEW call \in Evaluation, NEW n \in Node, stack' = Process(call, n)
      PROVE  GotOK' /\ WritesOK'
  <2> DEFINE p == Called("Parse", n)
             e == Called(call, n)
             w == Called("Write", n)
  <2>1. /\ p.call = "Parse" /\ e.call = call /\ w.call = "Write" /\ w.next = 0
        /\ e.got = << >>
    BY CalledFields DEF Call, Evaluation
  <2>2. stack' = <<p, e, w>>
    BY <1>2 DEF Process
  <2> HIDE DEF p, e, w
  <2>3. /\ DOMAIN stack' = 1..3 /\ stack'[1] = p /\ stack'[2] = e /\ stack'[3] = w
    BY <2>2
  <2>4. \A j \in 1..3 : j = 1 \/ j = 2 \/ j = 3
    OBVIOUS
  <2>5. DOMAIN e.got = {} /\ ~(w.next >= 1) /\ call # "Write"
    BY <2>1 DEF Evaluation
  <2>6. \A j \in DOMAIN stack' : stack'[j].call \in Evaluation => DOMAIN stack'[j].got = {}
    BY <2>1, <2>3, <2>4, <2>5 DEF Evaluation
  <2>7. \A j \in DOMAIN stack' : stack'[j].call = "Write" => j # 1 /\ ~(stack'[j].next >= 1)
    BY <2>1, <2>3, <2>4, <2>5
  <2> QED
    BY <2>6, <2>7 DEF GotOK, WritesOK, Handed
<1> QED
  BY <1>1, <1>2

\* A call that evaluates returns with a result that is its node's.
LEMMA ReturnedResults ==
  ASSUME IInv, ResultsOK, ~Ended, top.call \in Evaluation, UNCHANGED <<doc, output>>, Kept,
         NEW r \in ResultEnumeration, ReturnResult(r), r = result'[top.node],
         \A n \in analyzed' : n \in analyzed \/ n = top.node,
         \A n \in Node : n = top.node => Consistent(n)'
  PROVE  ResultsOK'
<1>1. Popped /\ stack' \in Seq(Frame)
  BY PopShape
<1>2. \A j \in DOMAIN stack' :
        \/ stack'[j] = stack[j + 1]
        \/ /\ j = 1 /\ top.call \in Evaluation /\ stack[2].call \in Evaluation
           /\ stack'[1] = PushBack(stack[2], result'[top.node])
  BY ReturnShape
<1> QED
  BY <1>1, <1>2, PopResults

\* A call of Parse or Write returns.
LEMMA ReturnKeepsResults ==
  ASSUME IInv, ResultsOK, ~Ended, top.call \notin Evaluation, Return,
         UNCHANGED <<doc, analyzed, result, output>>
  PROVE  ResultsOK'
<1>1. Popped /\ stack' \in Seq(Frame)
  BY PopShape
<1>2. \A j \in DOMAIN stack' : stack'[j] = stack[j + 1]
  BY <1>1, StackFacts, StackType DEF Popped, Return, Ended
<1>3. Kept
  BY SameResults
<1>4. result'[top.node] \in ResultEnumeration
  BY TopFrame DEF IInv, TypeOK
<1> QED
  BY <1>1, <1>2, <1>3, <1>4, PopResults

\* Every step hands on results that the charts give.
LEMMA NextResults == IInv /\ ResultsOK /\ [Next]_vars => ResultsOK'
<1> SUFFICES ASSUME IInv, ResultsOK, [Next]_vars PROVE ResultsOK'
  OBVIOUS
<1>1. ASSUME UNCHANGED <<doc, analyzed, result>>, GotOK', WritesOK', OutputResultsOK'
      PROVE  ResultsOK'
  BY <1>1, SameResults DEF ResultsOK
<1>2. ASSUME UNCHANGED <<doc, analyzed, result, output>> PROVE OutputResultsOK'
  BY <1>2, SameResults DEF ResultsOK, OutputResultsOK
<1>3. CASE UNCHANGED vars
  <2>1. UNCHANGED <<doc, analyzed, result, output, stack>>
    BY <1>3 DEF vars
  <2>2. GotOK' /\ WritesOK'
    BY <2>1, SameHanded, SameResults DEF ResultsOK, GotOK, WritesOK
  <2> QED
    BY <1>1, <1>2, <2>1, <2>2
<1>4. CASE Abort \/ HandleRequested \/ RequestedNotFound \/ RequestedDone \/ HandleNext \/ Finish
  <2>1. UNCHANGED <<doc, analyzed, result, output>>
    BY <1>4 DEF Abort, HandleRequested, RequestedNotFound, RequestedDone, HandleNext, Handle,
                Finish
  <2>2. stack' = << >> \/ \E call \in Evaluation, n \in Node : stack' = Process(call, n)
    <3>1. CASE HandleRequested
      <4>1. request.ids[cursor] \in Node /\ "Analyze" \in Evaluation
        BY <3>1, DocumentTypes DEF HandleRequested, Request, Evaluation
      <4> QED
        BY <3>1, <4>1 DEF HandleRequested, Handle
    <3>2. CASE HandleNext
      <4>1. doc.definitions \in Seq(Node)
        BY DocumentTypes DEF Document
      <4>2. doc.definitions[cursor] \in Node
        BY <3>2, <4>1 DEF HandleNext
      <4>3. (IF request.all THEN "Analyze" ELSE "NotEvaluated") \in Evaluation
        BY DEF Evaluation
      <4> QED
        BY <3>2, <4>2, <4>3 DEF HandleNext, Handle
    <3> QED
      BY <1>4, <3>1, <3>2 DEF Abort, RequestedNotFound, RequestedDone, Finish
  <2> QED
    BY <1>1, <1>2, <2>1, <2>2, LoopResults
<1>5. CASE ParseChild \/ AnalyzeChild \/ WriteChild
  <2>1. ~Ended /\ HasChild /\ (Step \/ Descend)
        /\ UNCHANGED <<doc, analyzed, result, output>>
    BY <1>5 DEF ParseChild, AnalyzeChild, WriteChild, Active, Ended
  <2> QED
    BY <1>1, <1>2, <2>1, StepResults, DescendResults
<1>6. CASE ParseEnd \/ WriteAgain \/ WriteEnd
  <2>1. ~Ended /\ top.call \notin Evaluation /\ Return
        /\ UNCHANGED <<doc, analyzed, result, output>>
    BY <1>6 DEF ParseEnd, WriteAgain, WriteEnd, Active, Ended, Evaluation
  <2> QED
    BY <2>1, ReturnKeepsResults
<1>7. CASE WriteElement \/ WriteTestThrows
  <2>1. /\ ~Ended /\ top.call = "Write" /\ UNCHANGED <<doc, analyzed, result>>
        /\ Step \/ stack' = << >>
        /\ output' = Append(output, [node |-> top.node, result |-> result[top.node]])
    BY <1>7 DEF WriteElement, WriteTestThrows, AddElement, Active, Ended
  <2>2. Consistent(top.node) /\ top.node \in Node
    BY <2>1, TopFrame DEF ResultsOK, WritesOK
  <2> DEFINE E == [node : Node, result : ResultEnumeration]
             e == [node |-> top.node, result |-> result[top.node]]
  <2>3. output \in Seq(E) /\ e \in E /\ e.node = top.node /\ e.result = result[top.node]
    BY <2>2 DEF IInv, TypeOK
  <2>4. output' = Append(output, e)
    BY <2>1
  <2> HIDE DEF E, e
  <2>5. \A i \in DOMAIN output' : (i \in DOMAIN output /\ output'[i] = output[i]) \/ output'[i] = e
    BY <2>3, <2>4, AppendFacts
  <2>6. \A i \in DOMAIN output' : /\ Consistent(output'[i].node)
                                  /\ output'[i].result = result[output'[i].node]
    BY <2>2, <2>3, <2>5 DEF ResultsOK, OutputResultsOK
  <2>7. OutputResultsOK'
    BY <2>1, <2>6, SameResults DEF OutputResultsOK
  <2>8. stack' = << >> => GotOK' /\ WritesOK'
    BY DEF GotOK, WritesOK
  <2> QED
    BY <1>1, <2>1, <2>7, <2>8, StepResults
<1>8. CASE AnalyzeAgain
  <2>1. /\ ~Ended /\ top.call \in Evaluation /\ top.node \in analyzed
        /\ ReturnResult(result[top.node])
        /\ UNCHANGED <<doc, analyzed, result, output>>
    BY <1>8 DEF AnalyzeAgain, Active, Ended, IsAnalyzed
  <2>2. result[top.node] \in ResultEnumeration
    BY <2>1, TopFrame DEF IInv, TypeOK
  <2>3. Kept /\ \A n \in Node : n = top.node => Consistent(n)'
    BY <2>1, SameResults DEF ResultsOK
  <2> QED
    BY <2>1, <2>2, <2>3, ReturnedResults
<1>9. CASE AnalyzeEnd
  <2> DEFINE r == Combined(top.node, top.got)
  <2>1. /\ ~Ended /\ top.call \in Evaluation /\ ~HasChild /\ doc.kind[top.node] # "test"
        /\ ReturnResult(r) /\ UNCHANGED <<doc, output>>
        /\ result' = [result EXCEPT ![top.node] = r]
        /\ \A n \in analyzed' : n \in analyzed \/ n = top.node
    BY <1>9 DEF AnalyzeEnd, Active, Ended, IsKind
  <2>2. r \in ResultEnumeration
    BY <2>1, CombinedType DEF Ended
  <2> HIDE DEF r
  <2>3. r = result'[top.node]
    BY <2>1, TopFrame DEF IInv, TypeOK
  <2> QED
    BY <1>9, <2>1, <2>2, <2>3, EndResults, ReturnedResults
<1>10. ASSUME NEW r \in ResultEnumeration, ~Ended, top.call \in Evaluation, SetTestResult(r),
              doc.kind[top.node] = "test", top.node \notin analyzed
       PROVE  ResultsOK'
  <2>1. /\ UNCHANGED <<doc, output>> /\ result' = [result EXCEPT ![top.node] = r]
        /\ analyzed' = analyzed \cup {top.node} /\ ReturnResult(r)
    BY <1>10 DEF SetTestResult
  <2>2. Kept
    BY <1>10, <2>1, ResultKeeps DEF IsSubject
  <2>3. /\ r = result'[top.node] /\ doc \in Documents /\ top.node \in Node
    BY <1>10, <2>1, TopFrame DEF IInv, TypeOK
  <2>4. ASSUME NEW n \in Node, n = top.node PROVE Consistent(n)'
    <3>1. Kids(doc, n) = {}
      BY <1>10, <2>3, <2>4, DocumentsAssumption DEF WellFormed, Kids
    <3>2. Below(doc, n) = {n}
      BY <2>3, <3>1, BelowEquation
    <3>3. Derived(n)'
      BY <1>10, <2>1, <2>4 DEF Derived
    <3> QED
      BY <2>1, <3>2, <3>3 DEF Consistent
  <2> QED
    BY <1>10, <2>1, <2>2, <2>3, <2>4, ReturnedResults
<1>11. CASE SkipTest \/ \E r \in ResultEnumeration \ {"not evaluated"} : AnalyzeTest(r)
  <2>1. PICK r \in ResultEnumeration :
          ~Ended /\ top.call \in Evaluation /\ SetTestResult(r)
          /\ doc.kind[top.node] = "test" /\ top.node \notin analyzed
    BY <1>11 DEF SkipTest, AnalyzeTest, Active, Ended, IsKind, IsAnalyzed, Evaluation,
                 ResultEnumeration
  <2> QED
    BY <1>10, <2>1
<1> QED
  BY <1>3, <1>4, <1>5, <1>6, <1>7, <1>8, <1>9, <1>11
     DEF Next, RunStep, Terminated, ParseMissing, AnalyzeTestThrows

\* The results of the children are as many.
LEMMA KidResultsType ==
  ASSUME NEW n, doc.kids[n] \in Seq(Node), result \in [Node -> ResultEnumeration]
  PROVE  /\ KidResults(n) \in Seq(ResultEnumeration)
         /\ Len(KidResults(n)) = Len(doc.kids[n])
         /\ doc.kids[n] # << >> => KidResults(n) # << >>
<1> DEFINE kids == KidResults(n)
<1>1. DOMAIN doc.kids[n] = 1..Len(doc.kids[n]) /\ Len(doc.kids[n]) \in Nat
      /\ (doc.kids[n] # << >> => Len(doc.kids[n]) # 0)
  OBVIOUS
<1>2. \A j \in DOMAIN doc.kids[n] : doc.kids[n][j] \in Node
  OBVIOUS
<1>3. kids \in [1..Len(doc.kids[n]) -> ResultEnumeration]
  BY <1>1, <1>2 DEF KidResults
<1> HIDE DEF kids
<1>4. kids \in Seq(ResultEnumeration) /\ Len(kids) = Len(doc.kids[n])
  BY <1>1, <1>3
<1> QED
  BY <1>1, <1>4 DEF kids

\* What follows from the children's results is what the charts allow, where the
\* negate attribute is read as the schema has it.
LEMMA DerivedMeetsCharts ==
  ASSUME IInv, NEW n \in Node, Derived(n), doc.negate[n] # "0"
  PROVE  result[n] \in SchemaResults(n)
<1> DEFINE kids == KidResults(n)
           flip(r) == IF doc.negate[n] \notin {"true", "1"} THEN r
                      ELSE IF r = "true" THEN "false"
                      ELSE IF r = "false" THEN "true" ELSE r
<1>1. doc \in Documents /\ doc \in Document /\ result \in [Node -> ResultEnumeration]
  BY DocumentTypes DEF IInv, TypeOK
<1>2. \A r : flip(r) = Negated(Negates(n), r)
  <2>1. doc.negate[n] \in {"", "true", "false", "1"}
    BY <1>1 DEF Document, BooleanText
  <2>2. Negates(n) <=> doc.negate[n] \in {"true", "1"}
    BY <2>1 DEF Negates
  <2> QED
    BY <2>2 DEF Negated, NegateResult
<1>3. doc.kind[n] \notin {"test", "missing"} => result[n] = Combined(n, kids)
  BY DEF Derived
<1> HIDE DEF flip
<1>4. ASSUME doc.kind[n] = "criteria"
      PROVE  result[n] \in {flip(r) : r \in ChartResults(OperatorChart(doc.op[n]),
                                              ResultColumns, ResultTally(kids))}
  <2>1. doc.kids[n] \in Seq(Node) /\ doc.kids[n] # << >> /\ doc.op[n] \in OperatorEnumeration
    BY <1>1, <1>4, DocumentsAssumption DEF Document, WellFormed
  <2>2. kids \in Seq(ResultEnumeration) /\ kids # << >>
    BY <1>1, <2>1, KidResultsType
  <2> DEFINE r == CombineResultsByOperator(ResultTally(kids), doc.op[n])
  <2>3. r \in ChartResults(OperatorChart(doc.op[n]), ResultColumns, ResultTally(kids))
    <3> HIDE DEF kids
    <3> QED
      BY <2>1, <2>2, CountsOfResults, OperatorsMeetTheirCharts
  <2>4. result[n] = Negated(Negates(n), r)
    BY <1>3, <1>4 DEF Combined
  <2> HIDE DEF r
  <2> QED
    BY <1>2, <2>3, <2>4
<1>5. doc.kind[n] \in {"criterion", "extend_definition"} => result[n] = flip(kids[1])
  BY <1>2, <1>3 DEF Combined
<1>6. doc.kind[n] = "definition" =>
        result[n] = IF kids = << >> THEN "not evaluated" ELSE kids[1]
  BY <1>3 DEF Combined
<1>7. kids = [j \in DOMAIN doc.kids[n] |-> result[doc.kids[n][j]]]
  BY DEF KidResults
<1> HIDE DEF kids
<1>8. result[n] \in ResultEnumeration
  BY <1>1
<1> QED
  BY <1>4, <1>5, <1>6, <1>7, <1>8 DEF flip, SchemaResults

\* A count that is zero passes none of the tests for a result that occurs.
LEMMA ZeroCount == ~(0 > 0) /\ ~(0 >= 2) /\ 0 # 1
  OBVIOUS

\* Operators make not evaluated of what is not evaluated.
LEMMA NothingEvaluated ==
  ASSUME NEW s \in Seq(ResultEnumeration), s # << >>, NEW op \in OperatorEnumeration,
         \A i \in DOMAIN s : s[i] = "not evaluated"
  PROVE  CombineResultsByOperator(ResultTally(s), op) = "not evaluated"
<1> DEFINE c == ResultTally(s)
<1>0. ~(0 > 0) /\ ~(0 >= 2) /\ 0 # 1
  BY ZeroCount
<1>1. c \in Counts
  BY CountsOfResults
<1>2. ASSUME NEW v \in ResultEnumeration, v # "not evaluated" PROVE c[v] = 0
  <2>1. {i \in DOMAIN s : s[i] = v} = {}
    BY <1>2
  <2>2. c[v] = Cardinality({i \in DOMAIN s : s[i] = v})
    BY DEF ResultTally, Tally
  <2> QED
    BY <2>1, <2>2, FS_EmptySet
<1> HIDE DEF c
<1>3. /\ c["true"] = 0 /\ c["false"] = 0 /\ c["error"] = 0 /\ c["unknown"] = 0
      /\ c["not applicable"] = 0
  BY <1>2 DEF ResultEnumeration
<1>4. c["not evaluated"] > 0 /\ c["not evaluated"] # 0
  BY <1>0, <1>1, <1>3, SixCounts, Zenon
<1>5. ~Empty(c) /\ ~AllNotApplicable(c)
  BY <1>0, <1>1, <1>3, Zenon DEF Counts, AllNotApplicable
<1>6. ~Only(c, {"true", "false", "not applicable"}) /\ ~Only(c, {"true", "not applicable"})
      /\ ~Only(c, {"false", "not applicable"})
  BY <1>1, <1>4, OnlySome, Zenon
<1>7. Undecided(c) = "not evaluated"
  BY <1>0, <1>3, <1>4, Zenon DEF Undecided
<1>8. op = "AND" \/ op = "ONE" \/ op = "OR" \/ op = "XOR"
  BY DEF OperatorEnumeration
<1>9. CombineAll(c) = "not evaluated"
  BY <1>0, <1>3, <1>7, Zenon DEF CombineAll
<1>10. CombineOne(c) = "not evaluated"
  BY <1>0, <1>3, <1>6, <1>7, Zenon DEF CombineOne
<1>11. CombineAny(c) = "not evaluated"
  BY <1>0, <1>3, <1>7, Zenon DEF CombineAny
<1>12. CombineXor(c) = "not evaluated"
  BY <1>6, <1>7 DEF CombineXor
<1>13. CombineResultsByOperator(c, op) = "not evaluated"
  BY <1>5, <1>8, <1>9, <1>10, <1>11, <1>12 DEF CombineResultsByOperator
<1> QED
  BY <1>13 DEF c

\* What is consistent and depends on nothing that is needed is not evaluated.
LEMMA IdleIsNotEvaluated ==
  ASSUME IInv, NeededOK, NEW n \in Node, Consistent(n), Below(doc, n) \cap Needed = {}
  PROVE  result[n] = "not evaluated"
<1> DEFINE N == Below(doc, n)
           P == {m \in N : result[m] = "not evaluated"}
           h == [m \in N |-> doc.height[m]]
<1>1. /\ doc \in Documents /\ doc \in Document /\ result \in [Node -> ResultEnumeration]
      /\ N \subseteq Node /\ n \in N
  BY DocumentTypes, BelowSelf DEF IInv, TypeOK, Below
<1>2. h \in [N -> Nat]
  BY <1>1, Heights
<1>3. ASSUME NEW m \in N, \A k \in N : h[k] < h[m] => k \in P PROVE m \in P
  <2>1. /\ m \in Node /\ Derived(m) /\ m \notin Needed
    BY <1>1 DEF Consistent
  <2>2. ASSUME NEW k \in Kids(doc, m) PROVE k \in Node /\ result[k] = "not evaluated"
    <3>1. k \in N /\ k \in Node
      BY <1>1, <2>1, KidsType, BelowTransitive
    <3>2. h[k] < h[m]
      BY <1>1, <2>1, <3>1, Heights
    <3> QED
      BY <1>3, <3>1, <3>2
  <2> DEFINE kids == KidResults(m)
  <2>3. \A j \in DOMAIN kids : kids[j] = "not evaluated"
    BY <2>2 DEF KidResults, Kids
  <2>4. doc.kind[m] \notin {"test", "missing"} => result[m] = Combined(m, kids)
    BY <2>1 DEF Derived
  <2>5. \A b : Negated(b, "not evaluated") = "not evaluated"
    BY DEF Negated, NegateResult
  <2>6. /\ doc.kids[m] \in Seq(Node) /\ doc.op[m] \in OperatorEnumeration
        /\ doc.kind[m] \in Kind /\ doc.kind[m] # "missing"
    BY <1>1, <2>1 DEF Document, Derived
  <2>7. kids \in Seq(ResultEnumeration) /\ Len(kids) = Len(doc.kids[m])
        /\ (doc.kids[m] # << >> => kids # << >>)
    BY <1>1, <2>6, KidResultsType
  <2> HIDE DEF kids
  <2>8. CASE doc.kind[m] = "test"
    <3>1. m \in Tests \cap analyzed
      BY <2>1, <2>8 DEF Tests, Derived, IsSubject
    <3> QED
      BY <2>1, <3>1 DEF NeededOK
  <2>9. CASE doc.kind[m] = "criteria"
    <3>1. doc.kids[m] # << >>
      BY <1>1, <2>1, <2>9, DocumentsAssumption DEF WellFormed
    <3>2. CombineResultsByOperator(ResultTally(kids), doc.op[m]) = "not evaluated"
      BY <2>3, <2>6, <2>7, <3>1, NothingEvaluated
    <3>3. result[m] = "not evaluated"
      BY <2>4, <2>5, <2>9, <3>2 DEF Combined
    <3> QED
      BY <3>3
  <2>10. CASE doc.kind[m] \in {"criterion", "extend_definition"}
    <3>1. Len(doc.kids[m]) = 1
      BY <1>1, <2>1, <2>10, DocumentsAssumption DEF WellFormed
    <3>0. 1 \in DOMAIN kids
      BY <2>7, <3>1
    <3>2. kids[1] = "not evaluated"
      BY <2>3, <3>0
    <3>3. Combined(m, kids) = Negated(Negates(m), kids[1])
      BY <2>10, Zenon DEF Combined
    <3>4. result[m] = "not evaluated"
      BY <2>4, <2>5, <2>10, <3>2, <3>3
    <3> QED
      BY <3>4
  <2>11. CASE doc.kind[m] = "definition"
    <3>0. kids # << >> => 1 \in DOMAIN kids
      BY <2>7
    <3>1. kids # << >> => kids[1] = "not evaluated"
      BY <2>3, <3>0
    <3>2. Combined(m, kids) = IF kids = << >> THEN "not evaluated" ELSE kids[1]
      BY <2>11, Zenon DEF Combined
    <3>3. result[m] = "not evaluated"
      BY <2>4, <2>11, <3>1, <3>2
    <3> QED
      BY <3>3
  <2> QED
    BY <2>6, <2>8, <2>9, <2>10, <2>11 DEF Kind
<1> HIDE DEF N, P, h
<1>4. N \subseteq P
  BY <1>2, <1>3, ByHeight
<1> QED
  BY <1>1, <1>4 DEF P

\* Every result the requested definitions depend on follows, in the finished
\* document, by the charts from the results the children ended with, whichever
\* call evaluated them and however often they were evaluated again; and what has
\* nothing to do with them is not evaluated (Criteria.cpp, Criterion.cpp,
\* ExtendedDefinition.cpp, Definition.cpp: Analyze and NotEvaluated).
THEOREM Charts == Spec => []ResultsFollowTheSchema
<1>1. Init => ResultsOK /\ NeededOK
  <2> SUFFICES ASSUME Init PROVE ResultsOK /\ NeededOK
    OBVIOUS
  <2>1. analyzed = {} /\ DOMAIN stack = {} /\ DOMAIN output = {}
    BY DEF Init
  <2> QED
    BY <2>1 DEF ResultsOK, GotOK, WritesOK, OutputResultsOK, NeededOK, CallsOK
<1>2. ASSUME IInv, NeededOK, ResultsOK PROVE ResultsFollowTheSchema
  <2>1. ASSUME NEW i \in DOMAIN output
        PROVE  LET n == output[i].node
               IN  /\ doc.negate[n] # "0" => output[i].result \in SchemaResults(n)
                   /\ Reach(doc, n) \cap Needed = {} => output[i].result = "not evaluated"
    <3> DEFINE n == output[i].node
    <3>1. n \in OutputNodes /\ n \in Node /\ doc \in Documents
      BY <1>2, DocumentTypes DEF OutputNodes
    <3>2. Consistent(n) /\ output[i].result = result[n]
      BY <1>2 DEF ResultsOK, OutputResultsOK
    <3>3. Derived(n)
      BY <3>1, <3>2, BelowSelf DEF Consistent
    <3>4. Reach(doc, n) = Below(doc, n)
      BY <3>1, ReachIsBelow
    <3> HIDE DEF n
    <3>5. doc.negate[n] # "0" => result[n] \in SchemaResults(n)
      BY <1>2, <3>1, <3>3, DerivedMeetsCharts
    <3>6. Below(doc, n) \cap Needed = {} => result[n] = "not evaluated"
      BY <1>2, <3>1, <3>2, IdleIsNotEvaluated
    <3> QED
      BY <3>2, <3>4, <3>5, <3>6 DEF n
  <2> QED
    BY <2>1 DEF ResultsFollowTheSchema
<1>3. OInv /\ DInv /\ [Next]_vars => DInv'
  BY NextDocument DEF OInv
<1> QED
  BY <1>1, <1>2, <1>3, InitOInv, NextOInv, InitDocument, NextNeeded, NextResults, PTL
     DEF Spec, OInv
=============================================================================
