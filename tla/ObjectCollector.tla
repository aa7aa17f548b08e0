--------------------------- MODULE ObjectCollector ---------------------------
(***************************************************************************)
(* The collection of a document's objects: the loop of AbsDataCollector::  *)
(* Run, AbsObjectCollector::Run with the sets and filters it processes,    *)
(* and the collected objects it leaves behind.                             *)
(*                                                                         *)
(* An object is collected by a probe, or it is a set: a tree of set        *)
(* operations whose leaves refer to other objects.  Collecting a set       *)
(* collects the objects it refers to, so that collection is a recursion    *)
(* over a graph with a cache, CollectedObject::collectedObjectsMap, and an *)
(* exception ends in the nearest object that is being collected.           *)
(***************************************************************************)
EXTENDS OvalEnum, SchemaTables, Sequences

CONSTANTS
  Node,      \* objects and the set elements inside them
  Item,      \* what probes may find, each with the status it is reported with
  Status,    \* item -> SCStatus
  Found,     \* object -> what its probe may come back with, sets of items
  Documents  \* the definitions documents a run may be given

\* set object: one set.  set: one or two sets, or one or two objects, which are
\* its object_references.
Kind == {"Object", "SetObject", "Set"}

\* A filter's state, as the result of comparing it with each item that exists.
Filter == [excluding : BOOLEAN, state : [Item -> ResultEnumeration]]

\* varFlag: the flag of the first variable that is not complete among those the
\* node's own entities or filters refer to; complete if all are.
Document ==
  [objects : Seq(Node),                  \* in document order
   kind    : [Node -> Kind],
   kids    : [Node -> Seq(Node)],
   setOp   : [Node -> SetOperatorEnumeration],
   filters : [Node -> Seq(Filter)],
   varFlag : [Node -> FlagEnumeration],
   height  : [Node -> Nat]]              \* shows that kids is acyclic

WellFormed(d) ==
  /\ \A n \in Node : \A i \in DOMAIN d.kids[n] :
       d.height[d.kids[n][i]] < d.height[n]
  /\ \A n \in Node :
       /\ d.kind[n] = "Object" => d.kids[n] = << >>
       /\ d.kind[n] = "SetObject" =>
            Len(d.kids[n]) = 1 /\ d.kind[d.kids[n][1]] = "Set"
       /\ d.kind[n] = "Set" =>
            /\ Len(d.kids[n]) \in {1, 2}
            /\ \A i, j \in DOMAIN d.kids[n] :
                 d.kind[d.kids[n][i]] = "Set" => d.kind[d.kids[n][j]] = "Set"
  /\ \A n \in Node : d.kind[n] # "Set" <=>
                       \E i \in DOMAIN d.objects : d.objects[i] = n
  /\ \A i, j \in DOMAIN d.objects : d.objects[i] = d.objects[j] => i = j

ASSUME CollectorAssumption ==
  /\ IsFiniteSet(Item) /\ Status \in [Item -> SCStatus]
  /\ Found \in [Node -> SUBSET SUBSET Item]
  /\ \A d \in Documents : d \in Document /\ WellFormed(d)

VARIABLES
  doc,        \* the document that is being processed
  phase,      \* whether the loop of AbsDataCollector::Run is active
  cursor,     \* its position
  stack,      \* the sets and set objects being processed, innermost first
  collected,  \* CollectedObject::collectedObjectsMap
  probed,     \* the objects a probe was started for, in that order
  sc          \* the collected objects in the system characteristics document

vars == <<doc, phase, cursor, stack, collected, probed, sc>>

\* A CollectedObject or a CollectedSet, without variable values and messages.
Collection == [flag : FlagEnumeration, items : SUBSET Item]

\* got: the CollectedSets of the children processed so far.
Frame == [node : Node, got : Seq(Collection)]

TypeOK ==
  /\ doc \in Document
  /\ phase \in {"collecting", "written"}
  /\ cursor \in Nat \ {0}
  /\ stack \in Seq(Frame)
  /\ DOMAIN collected \subseteq Node
  /\ \A o \in DOMAIN collected : collected[o] \in Collection
  /\ probed \in Seq(Node)
  /\ DOMAIN sc \subseteq Node
  /\ \A o \in DOMAIN sc : sc[o] \in Collection

Nothing == [o \in {} |-> [flag |-> "error", items |-> {}]]

Init ==
  /\ doc \in Documents
  /\ phase = "collecting"
  /\ cursor = 1
  /\ stack = << >>
  /\ collected = Nothing
  /\ probed = << >>
  /\ sc = Nothing

-----------------------------------------------------------------------------
(***************************************************************************)
(* Flags.                                                                  *)
(***************************************************************************)
\* CollectedObject::AppendReferencesAndComputeFlag
FlagOfItems(items) ==
  LET statuses == {Status[i] : i \in items}
  IN  IF "error" \in statuses THEN "error"
      ELSE IF "not collected" \in statuses THEN "incomplete"
      ELSE IF "exists" \in statuses THEN "complete"
      ELSE "does not exist"

\* Faulty form: what is left of a complete object is at worst incomplete.
ComplementIsAtWorstIncomplete(f1, f2) ==
  CASE f1 \in {"complete", "incomplete"} /\ f2 = "incomplete" -> "incomplete"
    [] f1 \in {"complete", "incomplete"} /\ f2 \in {"complete", "does not exist"}
         -> f1
    [] f1 = "does not exist" -> f1
    [] OTHER -> "error"

ComplementFlag(f1, f2) ==
  CASE f1 \in {"complete", "incomplete"} /\ f2 \in {"complete", "does not exist"}
         -> f1
    [] f1 = "does not exist" /\ f2 # "not applicable" -> f1
    [] f1 = "not collected" /\ f2 \notin {"not applicable", "error"} -> f1
    [] OTHER -> "error"

\* Not symmetric: an incomplete first object absorbs one that was not collected
\* and is lost to one that is not applicable.
IntersectionFlag(f1, f2) ==
  LET decisive == {"error", "does not exist"}
  IN  IF f1 \in decisive THEN f1
      ELSE IF f2 \in decisive THEN f2
      ELSE IF f1 = "not applicable" THEN f2
      ELSE IF f1 = "incomplete" /\ f2 = "not applicable" THEN f2
      ELSE IF f1 = "complete" /\ f2 # "not applicable" THEN f2
      ELSE f1

UnionFlag(f1, f2) ==
  LET f == {f1, f2}
  IN  IF "error" \in f THEN "error"
      ELSE IF "incomplete" \in f THEN "incomplete"
      ELSE IF "not collected" \in f
        THEN IF f \subseteq {"not collected", "not applicable"}
               THEN "not collected" ELSE "incomplete"
      ELSE IF "complete" \in f THEN "complete"
      ELSE IF "does not exist" \in f THEN "does not exist"
      ELSE "not applicable"

CombineFlagBySetOperator(op, f1, f2) ==
  CASE op = "COMPLEMENT"   -> ComplementFlag(f1, f2)
    [] op = "INTERSECTION" -> IntersectionFlag(f1, f2)
    [] op = "UNION"        -> UnionFlag(f1, f2)

CombineItems(op, s1, s2) ==
  CASE op = "COMPLEMENT"   -> s1 \ s2
    [] op = "INTERSECTION" -> s1 \cap s2
    [] op = "UNION"        -> s1 \cup s2

\* The end of ProcessSet: got holds one CollectedSet or two.
CombinedSet(op, got) ==
  LET c == IF Len(got) = 1 THEN got[1]
           ELSE [flag |-> CombineFlagBySetOperator(op, got[1].flag, got[2].flag),
                 items |-> CombineItems(op, got[1].items, got[2].items)]
  IN  IF c.flag = "complete" /\ c.items = {}
        THEN [c EXCEPT !.flag = "does not exist"] ELSE c

-----------------------------------------------------------------------------
(***************************************************************************)
(* Filters.  Filter::DoFilter throws when the state yields neither true    *)
(* nor false, as it does for every item that was not collected.            *)
(***************************************************************************)
FilterResult(f, item) ==
  CASE Status[item] \in {"error", "not collected"} -> "error"
    [] Status[item] = "does not exist" -> "false"
    [] Status[item] = "exists" -> f.state[item]

Keeps(f, item) == FilterResult(f, item) = IF f.excluding THEN "false" ELSE "true"

\* The items that reach the filter at position i.
ReachesFilter(filters, i, items) ==
  {item \in items : \A j \in 1..(i - 1) : Keeps(filters[j], item)}

ApplyFilters(filters, items) ==
  {item \in items : \A i \in DOMAIN filters : Keeps(filters[i], item)}

ApplyFiltersThrows(filters, items) ==
  \E i \in DOMAIN filters : \E item \in ReachesFilter(filters, i, items) :
    FilterResult(filters[i], item) \notin {"true", "false"}

-----------------------------------------------------------------------------
(***************************************************************************)
(* AbsObjectCollector::Run.                                                *)
(***************************************************************************)
\* ObjectFactory::GetObjectById parses an object with everything it refers to;
\* the first variable that has no complete value ends that, and its flag goes to
\* the object being collected.
ParseFlag(d) ==
  LET parse[n \in Node] ==
        LET bad == {i \in DOMAIN d.kids[n] :
                      parse[d.kids[n][i]] # "complete"}
        IN  IF bad = {} THEN d.varFlag[n]
            ELSE parse[d.kids[n][CHOOSE i \in bad : \A j \in bad : i <= j]]
  IN  parse

Cached(o) == o \in DOMAIN collected

top == Head(stack)
HasChild == stack # << >> /\ Len(top.got) < Len(doc.kids[top.node])
child == doc.kids[top.node][Len(top.got) + 1]

\* Run has been called for o, by the loop or by ProcessSet.
Called(o) ==
  /\ phase = "collecting"
  /\ IF stack = << >>
       THEN cursor \in DOMAIN doc.objects /\ o = doc.objects[cursor]
       ELSE HasChild /\ o = child /\ doc.kind[o] # "Set"

\* Faulty form: the cache is not looked at.
CollectingAgain(o) == Called(o)

\* ... and has not found it in the cache.
Collecting(o) == Called(o) /\ ~Cached(o)

Parses(o) == ParseFlag(doc)[o] = "complete"

\* CollectedObject::Create and what follows it up to the return of Run.
Create(o, flag, items) ==
  collected' = [p \in DOMAIN collected \cup {o} |->
                  IF p = o THEN [flag |-> flag, items |-> items]
                  ELSE collected[p]]

ParseFails(o) ==
  /\ Collecting(o) /\ ~Parses(o)
  /\ Create(o, ParseFlag(doc)[o], {})
  /\ UNCHANGED <<doc, phase, cursor, stack, probed, sc>>

\* ProcessObject
NotApplicable(o) ==
  /\ Collecting(o) /\ Parses(o) /\ doc.kind[o] = "Object"
  /\ Create(o, "not applicable", {})
  /\ UNCHANGED <<doc, phase, cursor, stack, probed, sc>>

NotSupported(o) ==
  /\ Collecting(o) /\ Parses(o) /\ doc.kind[o] = "Object"
  /\ Create(o, "not collected", {})
  /\ UNCHANGED <<doc, phase, cursor, stack, probed, sc>>

\* AbsProbe::Run: items is what CollectItems returns.
Probe(o, items) ==
  /\ Collecting(o) /\ Parses(o) /\ doc.kind[o] = "Object"
  /\ IF ApplyFiltersThrows(doc.filters[o], items)
       THEN Create(o, "error", {})
       ELSE LET kept == ApplyFilters(doc.filters[o], items)
            IN  Create(o, FlagOfItems(kept), kept)
  /\ probed' = Append(probed, o)
  /\ UNCHANGED <<doc, phase, cursor, stack, sc>>

ProbeThrows(o) ==
  /\ Collecting(o) /\ Parses(o) /\ doc.kind[o] = "Object"
  /\ Create(o, "error", {})
  /\ probed' = Append(probed, o)
  /\ UNCHANGED <<doc, phase, cursor, stack, sc>>

Enter(n) == stack' = <<[node |-> n, got |-> << >>]>> \o stack

\* ProcessSetObject
EnterSetObject(o) ==
  /\ Collecting(o) /\ Parses(o) /\ doc.kind[o] = "SetObject"
  /\ Enter(o)
  /\ UNCHANGED <<doc, phase, cursor, collected, probed, sc>>

-----------------------------------------------------------------------------
(***************************************************************************)
(* ProcessSet.                                                             *)
(***************************************************************************)
\* The result c of the innermost call goes to its caller.
GiveTo(frames, c) ==
  <<[Head(frames) EXCEPT !.got = Append(@, c)]>> \o Tail(frames)

EnterSet ==
  /\ HasChild /\ doc.kind[child] = "Set"
  /\ Enter(child)
  /\ UNCHANGED <<doc, phase, cursor, collected, probed, sc>>

\* Faulty form: the set's filters are applied to the first reference only.
SecondReferenceIsUnfiltered ==
  /\ HasChild /\ doc.kind[child] # "Set" /\ Cached(child)
  /\ LET filters == IF top.got = << >> THEN doc.filters[top.node] ELSE << >>
         object == collected[child]
     IN  /\ ~ApplyFiltersThrows(filters, object.items)
         /\ stack' = GiveTo(stack,
                       [object EXCEPT !.items = ApplyFilters(filters, @)])
  /\ UNCHANGED <<doc, phase, cursor, collected, probed, sc>>

TakeReference ==
  /\ HasChild /\ doc.kind[child] # "Set" /\ Cached(child)
  /\ LET filters == doc.filters[top.node]
         object == collected[child]
     IN  /\ ~ApplyFiltersThrows(filters, object.items)
         /\ stack' = GiveTo(stack,
                       [object EXCEPT !.items = ApplyFilters(filters, @)])
  /\ UNCHANGED <<doc, phase, cursor, collected, probed, sc>>

\* The exception leaves the calls of ProcessSet and ends in the Run of the set
\* object they work for: the frames above it are gone and it is an error.
Innermost(s) ==
  CHOOSE i \in DOMAIN s :
    /\ doc.kind[s[i].node] = "SetObject"
    /\ \A j \in 1..(i - 1) : doc.kind[s[j].node] = "Set"

FilterThrows ==
  /\ HasChild /\ doc.kind[child] # "Set" /\ Cached(child)
  /\ ApplyFiltersThrows(doc.filters[top.node], collected[child].items)
  /\ Create(stack[Innermost(stack)].node, "error", {})
  /\ stack' = SubSeq(stack, Innermost(stack) + 1, Len(stack))
  /\ UNCHANGED <<doc, phase, cursor, probed, sc>>

CombineSets ==
  /\ stack # << >> /\ ~HasChild /\ doc.kind[top.node] = "Set"
  /\ stack' = GiveTo(Tail(stack), CombinedSet(doc.setOp[top.node], top.got))
  /\ UNCHANGED <<doc, phase, cursor, collected, probed, sc>>

SetObjectDone ==
  /\ stack # << >> /\ ~HasChild /\ doc.kind[top.node] = "SetObject"
  /\ Create(top.node, top.got[1].flag, top.got[1].items)
  /\ stack' = Tail(stack)
  /\ UNCHANGED <<doc, phase, cursor, probed, sc>>

-----------------------------------------------------------------------------
(***************************************************************************)
(* AbsDataCollector::Run.                                                  *)
(***************************************************************************)
NextObject ==
  /\ phase = "collecting" /\ stack = << >>
  /\ cursor \in DOMAIN doc.objects /\ Cached(doc.objects[cursor])
  /\ cursor' = cursor + 1
  /\ UNCHANGED <<doc, phase, stack, collected, probed, sc>>

\* CollectedObject::WriteCollectedObjects
WriteCollectedObjects ==
  /\ phase = "collecting" /\ stack = << >>
  /\ cursor \notin DOMAIN doc.objects
  /\ sc' = collected
  /\ collected' = Nothing
  /\ phase' = "written"
  /\ UNCHANGED <<doc, cursor, stack, probed>>

CollectorStep ==
  \/ \E o \in Node :
       \/ ParseFails(o) \/ NotApplicable(o) \/ NotSupported(o)
       \/ \E items \in Found[o] : Probe(o, items)
       \/ ProbeThrows(o) \/ EnterSetObject(o)
  \/ EnterSet \/ TakeReference \/ FilterThrows \/ CombineSets \/ SetObjectDone
  \/ NextObject \/ WriteCollectedObjects

Terminated == phase = "written" /\ UNCHANGED vars

Next == CollectorStep \/ Terminated

Spec == Init /\ [][Next]_vars

-----------------------------------------------------------------------------
(***************************************************************************)
(* What the collection of objects promises.                                *)
(***************************************************************************)
Objects == {n \in Node : doc.kind[n] # "Set"}
Probed == {o \in Objects : doc.kind[o] = "Object"}

Existing(items) == {i \in items : Status[i] = "exists"}

\* What the set n takes from its kid at i: a set that refers to objects filters
\* their items (ProcessSet).
KidItems(d, items, n, i) ==
  LET k == d.kids[n][i]
  IN  IF d.kind[k] = "Set" THEN items[k] ELSE ApplyFilters(d.filters[n], items[k])

SetItems(d, items, n) ==
  IF Len(d.kids[n]) = 1 THEN KidItems(d, items, n, 1)
  ELSE CombineItems(d.setOp[n], KidItems(d, items, n, 1), KidItems(d, items, n, 2))

\* The items of n when those of some objects are given.
ItemsAt(d, given, items, n) ==
  IF n \in DOMAIN given THEN given[n]
  ELSE CASE d.kind[n] = "Object" -> {}
         [] d.kind[n] = "SetObject" -> items[d.kids[n][1]]
         [] d.kind[n] = "Set" -> SetItems(d, items, n)

ItemsOf(d, given) ==
  LET items[n \in Node] == ItemsAt(d, given, items, n) IN items

\* The flag of a collected object is right about the system when the items that
\* match the object there are those of real.
Sound(c, real) ==
  /\ c.flag = "complete" => Existing(c.items) = real
  /\ c.flag = "incomplete" => Existing(c.items) \subseteq real
  /\ c.flag \in {"does not exist", "not applicable"} => real = {}

\* Whatever the system holds: if the flags of all probed objects are right about
\* it, so are the flags the set operations compute from them, through filters,
\* nesting, shared references and the flag tables.  Only a set above an object
\* whose variables failed is left out: it takes the variable's flag, e.g. does
\* not exist, whatever its operator makes of its other objects (Set::Parse).
SetsAreSound ==
  phase = "written" =>
    LET parsed == {o \in Objects : ParseFlag(doc)[o] \in {"complete", "error"}}
    IN  \A real \in [Probed -> SUBSET Existing(Item)] :
          (\A o \in Probed : Sound(sc[o], real[o])) =>
            LET matching == ItemsOf(doc, real)
            IN  \A o \in parsed : Sound(sc[o], matching[o])

\* A set object is what its set makes of the collected objects the set refers to:
\* neither the place of its leaves in the document, nor what the cache held, nor
\* an exception in another set that shares them has left a trace.
SetsFollowTheirReferences ==
  LET items == ItemsOf(doc, [o \in DOMAIN collected |-> collected[o].items])
  IN  \A o \in DOMAIN collected :
        doc.kind[o] = "SetObject" /\ collected[o].flag # "error" /\ Parses(o) =>
          collected[o].items = items[doc.kids[o][1]]

\* An object is probed at most once in a run, however many sets refer to it.
ProbedOnce ==
  \A i, j \in DOMAIN probed : probed[i] = probed[j] => i = j
=============================================================================
