----------------------------- MODULE MainProofs -----------------------------
(***************************************************************************)
(* What a user relies on, for every command line, every file system and    *)
(* every document.                                                         *)
(*                                                                         *)
(* The first part is about the marks of ApplyAll, which spread to exactly  *)
(* what the definitions reported in full need, whatever the order of       *)
(* definitions and references.  WalkReferences is a search of a graph in   *)
(* which an id is walked from when its mark becomes full.  MarksInv says   *)
(* where the search is: what a full element refers to is full, or still    *)
(* among the references a call on the stack has to come to; and no set     *)
(* that has the definitions reported in full, and what its members refer   *)
(* to, lacks a full element.  When the stack is empty the marks are the    *)
(* least such set.                                                         *)
(*                                                                         *)
(* The second part shows that Directives implement Reporting: the          *)
(* recursion of Reported!Closure comes to the least set that is closed     *)
(* under references (module ProofLemmas), and that is what the marks are   *)
(* when the walk ends.                                                     *)
(*                                                                         *)
(* The third part is about main.  That success is honest is no invariant   *)
(* by itself: what a phase has done is known at the end only because every *)
(* later phase writes elsewhere and none is passed over that was wanted.   *)
(* MainInv says of each place in the order of phases what lies behind it,  *)
(* and that what was written was written under the names of outputs, none  *)
(* of which is the place of an input.                                      *)
(***************************************************************************)
EXTENDS Main, ProofLemmas, SequenceTheorems

Mark == {"none", "thin", "full"}

Walked(id) == source.kind[id] # "state"

\* What is walked from has what it refers to.
Spread(C) == \A x \in C : Walked(x) => \A r \in References(x) : r.to \in C

Asked(content) ==
  {d \in DefinitionsOf(source) :
     GetDirective(d).reported /\ GetDirective(d).content = content}

Call == [id : Id, rest : SUBSET Reference]

DirectivesTypeOK ==
  /\ source \in Sources
  /\ config \in Configs \cup {Unreadable}
  /\ directives \in [DOMAIN directives -> DirectiveMap]
  /\ phase # "load" => Default \in DOMAIN directives
  /\ includeSource \in BOOLEAN
  /\ kept \subseteq Id
  /\ criteria \subseteq Id
  /\ contentType \in [Id -> Mark]
  /\ marking \in Seq(Id)
  /\ frames \in Seq(Call)
  /\ phase \in {"load", "loaded", "apply", "mark", "remove", "applied", "terminated"}

Calls == Range(frames)
ToMark == Range(marking)

\* Definitions the loop has come to have their marks.
Handled ==
  /\ ToMark \subseteq DefinitionsOf(source)
  /\ \A d \in DefinitionsOf(source) \ ToMark :
       /\ d \in Asked("full") => contentType[d] = "full"
       /\ d \in Asked("thin") => contentType[d] # "none"

\* A call has a full element, and references of it.
CallsOK ==
  \A f \in Calls : /\ contentType[f.id] = "full" /\ Walked(f.id)
                   /\ f.rest \subseteq References(f.id)

Searched ==
  \A x \in Marked("full") : Walked(x) =>
    \A r \in References(x) :
      \/ contentType[r.to] = "full"
      \/ \E f \in Calls : f.id = x /\ r \in f.rest

\* No mark without a reason.
Justified ==
  /\ Marked("thin") \subseteq Asked("thin")
  /\ \A C \in SUBSET Id : Asked("full") \subseteq C /\ Spread(C) => Marked("full") \subseteq C

MarksInv == Handled /\ CallsOK /\ Searched /\ Justified

\* The marks are as they should be.
MarksDone ==
  /\ Asked("full") \subseteq Marked("full")
  /\ Spread(Marked("full"))
  /\ Asked("thin") \subseteq Marked("full") \cup Marked("thin")
  /\ Justified

Untouched == kept = InResults(source) /\ criteria = source.criteria

Start ==
  /\ Untouched
  /\ marking = << >> /\ frames = << >>
  /\ contentType = [id \in Id |-> "none"]

DirectivesInv ==
  /\ DirectivesTypeOK
  /\ phase # "mark" => frames = << >>
  /\ phase \in {"load", "loaded", "apply"} => Start
  /\ phase \in {"mark", "remove"} => ~Skip
  /\ phase = "mark" => Untouched /\ MarksInv
  /\ phase = "remove" =>
       /\ MarksDone
       /\ kept = InResults(source) \ (DefinitionsOf(source) \cap Marked("none"))
       /\ criteria = source.criteria \cap Marked("full")
  /\ phase = "applied" =>
       \/ Skip /\ Untouched
       \/ /\ ~Skip /\ MarksDone
          /\ kept = InResults(source) \ ((DefinitionsOf(source) \cap Marked("none"))
                                           \cup Unwanted)
          /\ criteria = source.criteria \cap Marked("full")

-----------------------------------------------------------------------------
\* What the schema says of references.
LEMMA SourceFacts ==
  ASSUME DirectivesTypeOK
  PROVE  /\ source.references \subseteq Reference
         /\ source.definitions \in Seq(Id)
         /\ source.kind \in [Id -> ElementType]
         /\ source.class \in [Id -> Class]
         /\ source.result \in [Id -> ResultEnumeration]
         /\ source.criteria \subseteq Id
         /\ DefinitionsOf(source) = Range(source.definitions)
<1>1. WellFormed(source)
  BY SourcesAssumption DEF DirectivesTypeOK
<1>2. /\ source.references \subseteq Reference
      /\ source.definitions \in Seq(Id)
      /\ source.kind \in [Id -> ElementType]
      /\ source.class \in [Id -> Class]
      /\ source.result \in [Id -> ResultEnumeration]
      /\ source.criteria \subseteq Id
  BY <1>1 DEF WellFormed, Source
<1>3. \A d \in Id : d \in DefinitionsOf(source) <=>
        \E i \in DOMAIN source.definitions : source.definitions[i] = d
  BY <1>1 DEF WellFormed, DefinitionsOf
<1>4. \A i \in DOMAIN source.definitions : source.definitions[i] \in Id
  BY <1>2
<1>5. DefinitionsOf(source) \subseteq Id
  BY DEF DefinitionsOf
<1> QED
  BY <1>2, <1>3, <1>4, <1>5 DEF Range

\* A reference that is walked along belongs to its element, leads to an id and is
\* of the kind BuildReferences has looked for (Directive.cpp: BuildReferences).
LEMMA ReferenceFacts ==
  ASSUME DirectivesTypeOK, NEW x \in Id, NEW r \in References(x)
  PROVE  /\ r \in source.references
         /\ r.from = x /\ r.to \in Id
         /\ RefersTo(r) = source.kind[r.to]
         /\ source.kind[x] # "item"
         /\ source.kind[x] = "variable" => source.kind[r.to] = "object"
<1>1. WellFormed(source) /\ source.references \subseteq Reference
  BY SourcesAssumption, SourceFacts DEF DirectivesTypeOK
<1>2. /\ r \in source.references /\ r.from = x
      /\ r.attribute \in DOMAIN Refnames[source.kind[x]]
  BY DEF References
<1>3. source.kind[r.to] = Refnames[source.kind[x]][r.attribute]
  BY <1>1, <1>2 DEF WellFormed
<1>4. r.to \in Id
  BY <1>1, <1>2 DEF Reference
<1>5. source.kind[x] # "item"
  BY <1>2 DEF Refnames
<1>6. source.kind[x] = "variable" => source.kind[r.to] = "object"
  BY <1>2, <1>3 DEF Refnames
<1> QED
  BY <1>2, <1>3, <1>4, <1>5, <1>6 DEF RefersTo
-----------------------------------------------------------------------------
\* A sequence with a head has its members.
LEMMA RangeOfTail ==
  ASSUME NEW S, NEW s \in Seq(S), s # << >>
  PROVE  Range(s) = {Head(s)} \cup Range(Tail(s))
<1>1. /\ Head(s) = s[1] /\ Tail(s) \in Seq(S) /\ Len(s) \in Nat \ {0}
      /\ Len(Tail(s)) = Len(s) - 1
      /\ \A i \in 1..Len(Tail(s)) : Tail(s)[i] = s[i + 1]
  BY HeadTailProperties, EmptySeq
<1>0. Range(s) = {s[i] : i \in 1..Len(s)} /\ Range(Tail(s)) = {Tail(s)[i] : i \in 1..Len(Tail(s))}
  BY ZenonT(40), <1>1, RangeEquality
<1>2. Range(s) \subseteq {Head(s)} \cup Range(Tail(s))
  <2> SUFFICES ASSUME NEW i \in 1..Len(s)
               PROVE  s[i] \in {Head(s)} \cup Range(Tail(s))
    BY <1>0
  <2>1. CASE i = 1
    BY <2>1, <1>1
  <2>2. CASE i # 1
    <3>1. i - 1 \in 1..Len(Tail(s)) /\ Tail(s)[i - 1] = s[i]
      BY <2>2, <1>1
    <3> QED
      BY <3>1, <1>0
  <2> QED
    BY <2>1, <2>2
<1>3. {Head(s)} \cup Range(Tail(s)) \subseteq Range(s)
  <2>1. Head(s) \in Range(s)
    BY <1>0, <1>1
  <2>2. \A i \in 1..Len(Tail(s)) : i + 1 \in 1..Len(s)
    BY <1>1
  <2>3. Range(Tail(s)) \subseteq Range(s)
    BY <2>2, <1>0, <1>1
  <2> QED
    BY <2>1, <2>3
<1> QED
  BY <1>2, <1>3

\* The elements of a stack with one call, and of an empty one.
LEMMA RangeOfSingle == \A x : Range(<<x>>) = {x}
BY DEF Range

\* There is none in an empty stack.
LEMMA RangeOfEmpty == Range(<< >>) = {}
BY DEF Range

\* A sequence put together of two and an element between them.
LEMMA RangeOfThree ==
  ASSUME NEW S, NEW s \in Seq(S), NEW x \in S, NEW t \in Seq(S)
  PROVE  /\ s \o <<x>> \o t \in Seq(S)
         /\ Range(s \o <<x>> \o t) = Range(s) \cup {x} \cup Range(t)
<1>0. <<x>> \in Seq(S)
  OBVIOUS
<1>1. PICK m \in Seq(S) : m = <<x>>
  BY <1>0, Zenon
<1>2. Range(m) = {x}
  BY <1>1, RangeOfSingle
<1>3. s \o m \in Seq(S)
  BY ConcatProperties
<1>4. Range(s \o m) = Range(s) \cup Range(m)
  BY RangeConcatenation
<1>5. (s \o m) \o t \in Seq(S)
  BY <1>3, ConcatProperties
<1>6. Range((s \o m) \o t) = Range(s \o m) \cup Range(t)
  BY ZenonT(40), <1>3, RangeConcatenation
<1> QED
  BY <1>1, <1>2, <1>4, <1>5, <1>6

\* The directive of a definition is one.
LEMMA DirectiveTyped ==
  ASSUME DirectivesTypeOK, phase # "load", NEW d \in Id
  PROVE  GetDirective(d) \in Directive
<1>1. source.result[d] \in ResultEnumeration
  BY SourceFacts
<1>2. \A c \in DOMAIN directives : directives[c] \in DirectiveMap
  BY DEF DirectivesTypeOK
<1>3. Default \in DOMAIN directives
  BY DEF DirectivesTypeOK
<1> QED
  BY <1>1, <1>2, <1>3 DEF GetDirective, DirectiveMap

\* A new call has the references of its element to come to.
LEMMA FrameTyped ==
  ASSUME DirectivesTypeOK, NEW x \in Id
  PROVE  Frame(x) \in Call
BY SourceFacts DEF Frame, References, Call
-----------------------------------------------------------------------------
\* What depends on the document and the directives only.
LEMMA SameDocument ==
  ASSUME UNCHANGED source
  PROVE  /\ DefinitionsOf(source)' = DefinitionsOf(source)
         /\ InResults(source)' = InResults(source)
         /\ \A x : References(x)' = References(x)
         /\ \A x : Walked(x)' = Walked(x)
         /\ \A C : Spread(C)' = Spread(C)
BY DEF DefinitionsOf, InResults, References, Walked, Spread

\* What is asked for depends on the directives and the evaluated document only.
LEMMA SameAsked ==
  ASSUME UNCHANGED <<source, directives, includeSource>>
  PROVE  /\ \A c : Asked(c)' = Asked(c)
         /\ \A d : GetDirective(d)' = GetDirective(d)
         /\ Skip' = Skip
         /\ Unwanted' = (Id \ DefinitionsOf(source)) \ (Marked("full")')
BY DEF Asked, GetDirective, Skip, Full, DefinitionsOf, Unwanted

\* The start of a run, on a document and a file of directives of the kind
\* ApplyAll is given.
LEMMA DirectivesInit ==
  ASSUME DirectivesStart, source \in Sources, config \in Configs \cup {Unreadable}
  PROVE  DirectivesInv
<1>1. WellFormed(source)
  BY SourcesAssumption
<1>2. source.criteria \subseteq Id /\ InResults(source) \subseteq Id
  BY <1>1 DEF WellFormed, Source, InResults
<1>3. << >> \in Seq(Id) /\ << >> \in Seq(Call)
  OBVIOUS
<1>4. DirectivesTypeOK
  BY <1>2, <1>3 DEF DirectivesStart, DirectivesTypeOK, Mark
<1> QED
  BY <1>4 DEF DirectivesStart, DirectivesInv, Start, Untouched

\* What is stated is typed, whether there is a file or not.
LEMMA StatedFacts ==
  ASSUME DirectivesTypeOK
  PROVE  /\ \A c \in DOMAIN StatedDirectives : StatedDirectives[c] \in StatedMap
         /\ Default \in DOMAIN StatedDirectives
         /\ StatedSource \in BooleanText
<1>1. CASE config = Unreadable
  <2>1. [r \in ResultEnumeration |-> [reported |-> "true", content |-> "full"]] \in StatedMap
    BY DEF StatedMap, StatedDirective, BooleanText, Content
  <2> QED
    BY <1>1, <2>1 DEF StatedDirectives, StatedSource, BooleanText
<1>2. CASE config # Unreadable
  <2>1. Config(config)
    BY <1>2, ConfigsAssumption DEF DirectivesTypeOK
  <2> QED
    BY <1>2, <2>1 DEF StatedDirectives, StatedSource, Config
<1> QED
  BY <1>1, <1>2

\* What is read is a directive for every result.
LEMMA ReadMapTyped ==
  ASSUME NEW m \in StatedMap
  PROVE  ReadMap(m) \in DirectiveMap
<1>1. \A r \in ResultEnumeration : m[r].content \in Content
  BY DEF StatedMap, StatedDirective
<1>2. \A r \in ResultEnumeration :
        [reported |-> AsRead(m[r].reported), content |-> m[r].content] \in Directive
  BY <1>1 DEF Directive, AsRead
<1> QED
  BY <1>2 DEF ReadMap, DirectiveMap

\* Reading the directives leaves the marks and the document as they are.
LEMMA LoadStep ==
  ASSUME DirectivesInv, LoadDirectives
  PROVE  DirectivesInv'
<1>1. DirectivesTypeOK /\ Start /\ phase' = "loaded"
  BY DEF DirectivesInv, LoadDirectives
<1>2. directives' \in [DOMAIN directives' -> DirectiveMap] /\ Default \in DOMAIN directives'
      /\ includeSource' \in BOOLEAN
  <2>1. CASE config = Unreadable
    <3>1. AllFull \in DirectiveMap
      BY DEF AllFull, DirectiveMap, Directive, Content
    <3> QED
      BY <2>1, <3>1, <1>1 DEF LoadDirectives, DirectivesTypeOK
  <2>2. CASE config # Unreadable
    <3>1. \A c \in DOMAIN StatedDirectives : ReadMap(StatedDirectives[c]) \in DirectiveMap
      BY <1>1, StatedFacts, ReadMapTyped
    <3>2. Default \in DOMAIN StatedDirectives /\ AsRead(StatedSource) \in BOOLEAN
      BY <1>1, StatedFacts DEF AsRead
    <3> QED
      BY <2>2, <3>1, <3>2, <1>1 DEF LoadDirectives
  <2> QED
    BY <2>1, <2>2
<1>3. DirectivesTypeOK'
  BY <1>1, <1>2 DEF LoadDirectives, DirectivesTypeOK
<1>4. Start'
  BY <1>1, SameDocument DEF LoadDirectives, Start, Untouched
<1> QED
  BY <1>1, <1>3, <1>4 DEF DirectivesInv, Start

\* So does the evaluation in between.
LEMMA EvaluatedStep ==
  ASSUME DirectivesInv, Evaluated
  PROVE  DirectivesInv'
<1>1. DirectivesTypeOK /\ Start /\ phase = "loaded" /\ phase' = "apply"
  BY DEF DirectivesInv, Evaluated
<1>2. DirectivesTypeOK'
  BY <1>1 DEF Evaluated, DirectivesTypeOK
<1>3. Start'
  BY <1>1, SameDocument DEF Evaluated, Start, Untouched
<1> QED
  BY <1>1, <1>2, <1>3 DEF DirectivesInv, Start

\* ApplyAll begins with no marks and all definitions to come, so that MarksInv
\* holds of an empty search; or it has nothing to do.
LEMMA ApplyAllStep ==
  ASSUME DirectivesInv, ApplyAll
  PROVE  DirectivesInv'
<1>1. DirectivesTypeOK /\ Start /\ phase = "apply"
  BY DEF DirectivesInv, ApplyAll
<1>2. UNCHANGED <<source, config, directives, includeSource, kept, criteria, contentType, frames>>
  BY DEF ApplyAll
<1>3. marking' = source.definitions /\ phase' \in {"applied", "terminated", "mark"}
      /\ (phase' = "applied" => Skip) /\ (phase' = "mark" => ~Skip)
  BY DEF ApplyAll
<1>4. DirectivesTypeOK'
  BY <1>1, <1>2, <1>3, SourceFacts DEF DirectivesTypeOK
<1>5. Untouched' /\ (Skip <=> Skip')
  BY <1>1, <1>2, SameDocument, SameAsked DEF Start, Untouched
<1>7. frames' = << >>
  BY <1>1, <1>2 DEF Start
<1>6. MarksInv'
  <2>1. ToMark' = DefinitionsOf(source)'
    BY <1>1, <1>2, <1>3, SourceFacts, SameDocument DEF ToMark
  <2>2. Calls' = {}
    BY <1>1, <1>2, RangeOfEmpty DEF Start, Calls
  <2>3. (\A id \in Id : contentType'[id] = "none") /\ Marked("thin")' = {} /\ Marked("full")' = {}
    BY <1>1, <1>2 DEF Start, Marked
  <2> QED
    BY <2>1, <2>2, <2>3 DEF MarksInv, Handled, CallsOK, Searched, Justified
<1> QED
  BY <1>3, <1>4, <1>5, <1>6, <1>7 DEF DirectivesInv

\* Marks are only added, by the steps of the loop and of the recursion.
LEMMA MarkedMore ==
  ASSUME DirectivesTypeOK, NEW d \in Id, NEW content \in Content,
         contentType' = [contentType EXCEPT ![d] = CombineResultContent(@, content)]
  PROVE  /\ contentType' \in [Id -> Mark]
         /\ content = "full" => /\ Marked("full")' = Marked("full") \cup {d}
                                /\ Marked("thin")' \subseteq Marked("thin")
         /\ content = "thin" => /\ Marked("full")' = Marked("full")
                                /\ Marked("thin")' \subseteq Marked("thin") \cup {d}
         /\ contentType'[d] # "none"
         /\ \A x \in Id : contentType[x] = "full" => contentType'[x] = "full"
         /\ \A x \in Id : contentType[x] # "none" => contentType'[x] # "none"
<1>1. contentType \in [Id -> Mark]
  BY DEF DirectivesTypeOK
<1>2. CombineResultContent(contentType[d], content)
        = IF contentType[d] = "full" \/ content = "full" THEN "full" ELSE "thin"
  BY DEF CombineResultContent
<1>3. \A x \in Id : contentType'[x] = IF x = d THEN CombineResultContent(contentType[d], content)
                                      ELSE contentType[x]
  BY <1>1
<1>4. contentType' \in [Id -> Mark]
  BY <1>1, <1>2 DEF Mark
<1> QED
  BY <1>2, <1>3, <1>4 DEF Marked, Content

\* A definition that gets its mark is handled; in full, its call is the one that
\* has all its references still before it.
LEMMA MarkStep ==
  ASSUME DirectivesInv, MarkDefinition
  PROVE  DirectivesInv'
<1> DEFINE d == Head(marking)
           directive == GetDirective(d)
<1>1. /\ DirectivesTypeOK /\ Untouched /\ MarksInv
      /\ phase = "mark" /\ frames = << >> /\ marking # << >>
  BY DEF DirectivesInv, MarkDefinition
<1>2. /\ UNCHANGED <<source, config, directives, includeSource, kept, criteria, phase>>
      /\ marking' = Tail(marking)
  BY DEF MarkDefinition
<1>3. /\ ToMark = {d} \cup ToMark' /\ marking' \in Seq(Id) /\ d \in Id
  BY <1>1, <1>2, RangeOfTail, HeadTailProperties DEF ToMark, DirectivesTypeOK
<1>4. /\ d \in DefinitionsOf(source) /\ Walked(d)
      /\ directive \in Directive
  BY <1>1, <1>3, DirectiveTyped DEF MarksInv, Handled, DefinitionsOf, Walked
<1>5. /\ directive.reported /\ directive.content = "full" => d \in Asked("full")
      /\ directive.reported /\ directive.content = "thin" => d \in Asked("thin")
      /\ d \in Asked("full") => directive.reported /\ directive.content = "full"
      /\ d \in Asked("thin") => directive.reported /\ directive.content = "thin"
  BY <1>4 DEF Asked
<1>6. Calls = {}
  BY <1>1, RangeOfEmpty DEF Calls
<1>7. Untouched' /\ (\A c : Asked(c)' = Asked(c)) /\ DefinitionsOf(source)' = DefinitionsOf(source)
  BY <1>1, <1>2, SameAsked, SameDocument DEF Untouched
<1>8. \/ ~directive.reported /\ UNCHANGED <<contentType, frames>>
      \/ /\ directive.reported /\ directive.content \in Content
         /\ contentType' = [contentType EXCEPT ![d] = CombineResultContent(@, directive.content)]
         /\ frames' = IF directive.content # "thin" THEN <<Frame(d)>> ELSE << >>
  BY <1>1, <1>4 DEF MarkDefinition, Directive
<1>a. /\ contentType' \in [Id -> Mark]
      /\ \A x \in Id : contentType[x] = "full" => contentType'[x] = "full"
      /\ \A x \in Id : contentType[x] # "none" => contentType'[x] # "none"
      /\ d \in Asked("full") => contentType'[d] = "full"
      /\ d \in Asked("thin") => contentType'[d] # "none"
      /\ Marked("full")' \subseteq Marked("full") \cup ({d} \cap Asked("full"))
      /\ Marked("thin")' \subseteq Marked("thin") \cup ({d} \cap Asked("thin"))
  <2>1. CASE ~directive.reported /\ UNCHANGED <<contentType, frames>>
    BY <2>1, <1>1, <1>5 DEF DirectivesTypeOK, Marked
  <2>2. CASE /\ directive.reported /\ directive.content \in Content
             /\ contentType' = [contentType EXCEPT
                                  ![d] = CombineResultContent(@, directive.content)]
    <3>1. /\ contentType' \in [Id -> Mark]
          /\ directive.content = "full" =>
               /\ Marked("full")' = Marked("full") \cup {d}
               /\ Marked("thin")' \subseteq Marked("thin")
          /\ directive.content = "thin" =>
               /\ Marked("full")' = Marked("full")
               /\ Marked("thin")' \subseteq Marked("thin") \cup {d}
          /\ contentType'[d] # "none"
          /\ \A x \in Id : contentType[x] = "full" => contentType'[x] = "full"
          /\ \A x \in Id : contentType[x] # "none" => contentType'[x] # "none"
      <4> HIDE DEF d, directive
      <4> QED
        BY <2>2, <1>1, <1>3, MarkedMore
    <3>2. directive.content = "full" => contentType'[d] = "full"
      BY <3>1 DEF Marked
    <3>3. directive.content \in {"full", "thin"}
      BY <2>2 DEF Content
    <3> HIDE DEF d, directive
    <3> QED
      BY <3>1, <3>2, <3>3, <1>5, <2>2
  <2> QED
    BY <1>8, <2>1, <2>2
<1>b. frames' \in Seq(Call) /\ Calls' \subseteq {Frame(d)}
      /\ (Frame(d) \in Calls' => d \in Marked("full")')
      /\ (d \in Marked("full")' \ Marked("full") => Frame(d) \in Calls')
  <2>1. CASE ~directive.reported /\ UNCHANGED <<contentType, frames>>
    BY <2>1, <1>1, <1>6, RangeOfEmpty DEF DirectivesTypeOK, Marked, Calls
  <2>2. CASE directive.reported /\ directive.content = "full"
    <3>1. frames' = <<Frame(d)>> /\ Frame(d) \in Call
      BY <2>2, <1>8, <1>1, <1>3, FrameTyped
    <3>2. Calls' = {Frame(d)}
      BY <3>1, RangeOfSingle DEF Calls
    <3>3. d \in Marked("full")'
      BY <1>a, <1>5, <1>3, <2>2 DEF Marked
    <3> HIDE DEF d
    <3> QED
      BY <3>1, <3>2, <3>3
  <2>3. CASE directive.reported /\ directive.content = "thin"
    <3>1. frames' = << >>
      BY <2>3, <1>8
    <3>2. Calls' = {}
      BY <3>1, RangeOfEmpty DEF Calls
    <3>3. d \notin Marked("full")' \ Marked("full")
      <4>1. d \notin Asked("full")
        BY <1>5, <2>3
      <4> QED
        BY <4>1, <1>a
    <3> QED
      BY <3>1, <3>2, <3>3
  <2> QED
    BY <1>8, <2>1, <2>2, <2>3 DEF Content
<1>c. DirectivesTypeOK'
  BY <1>1, <1>2, <1>3, <1>a, <1>b DEF DirectivesTypeOK
<1> HIDE DEF d, directive
<1>d. Handled'
  <2>1. Handled /\ (ToMark' \subseteq DefinitionsOf(source))
    BY <1>1, <1>3 DEF MarksInv, Handled
  <2>2. SUFFICES ASSUME NEW e \in DefinitionsOf(source) \ ToMark'
                 PROVE  /\ e \in Asked("full") => contentType'[e] = "full"
                        /\ e \in Asked("thin") => contentType'[e] # "none"
    BY <2>1, <1>7 DEF Handled
  <2>3. CASE e = d
    BY <2>3, <1>a
  <2>4. CASE e # d
    BY <2>4, <2>1, <2>2, <1>3, <1>a DEF Handled, DefinitionsOf
  <2> QED
    BY <2>3, <2>4
<1>e. CallsOK'
  <2>1. Frame(d).id = d /\ Frame(d).rest = References(d)
    BY DEF Frame
  <2> QED
    BY <2>1, <1>2, <1>4, <1>b, SameDocument DEF CallsOK, Marked
<1>f. Searched'
  <2> SUFFICES ASSUME NEW x \in Marked("full")', Walked(x), NEW r \in References(x)
               PROVE  \/ contentType'[r.to] = "full"
                      \/ \E f \in Calls' : f.id = x /\ r \in f.rest
    BY <1>2, SameDocument DEF Searched
  <2>1. CASE x \in Marked("full")
    <3>1. contentType[r.to] = "full"
      BY <2>1, <1>1, <1>6 DEF MarksInv, Searched
    <3>2. r.to \in Id
      BY <2>1, <1>1, ReferenceFacts DEF Marked
    <3> QED
      BY <3>1, <3>2, <1>a
  <2>2. CASE x \notin Marked("full")
    <3>1. x = d /\ Frame(d) \in Calls'
      BY <2>2, <1>a, <1>b
    <3> QED
      BY <3>1 DEF Frame
  <2> QED
    BY <2>1, <2>2
<1>g. Justified'
  <2>1. Marked("thin")' \subseteq Asked("thin")
    BY <1>1, <1>a DEF MarksInv, Justified
  <2>2. \A C \in SUBSET Id : Asked("full") \subseteq C /\ Spread(C) => Marked("full")' \subseteq C
    BY <1>1, <1>a DEF MarksInv, Justified
  <2> QED
    BY <2>1, <2>2, <1>2, <1>7, SameDocument DEF Justified
<1>h. phase' = "mark" /\ ~Skip'
  BY <1>1, <1>2, SameAsked DEF DirectivesInv
<1> QED
  BY <1>1, <1>2, <1>7, <1>h, <1>c, <1>d, <1>e, <1>f, <1>g DEF DirectivesInv, MarksInv

\* Walking along a reference makes its target full; the target's own references
\* are before it in a new call, or were walked along when it became full.
LEMMA WalkStep ==
  ASSUME DirectivesInv, WalkReferences
  PROVE  DirectivesInv'
<1> DEFINE h == Head(frames)
<1>1. DirectivesTypeOK /\ frames # << >>
  BY DEF DirectivesInv, WalkReferences
<1>2. UNCHANGED <<source, config, directives, includeSource, kept, criteria, marking, phase>>
  BY DEF WalkReferences
<1>3. h \in Call /\ Tail(frames) \in Seq(Call) /\ Calls = {h} \cup Range(Tail(frames))
  BY <1>1, RangeOfTail, HeadTailProperties DEF Calls, DirectivesTypeOK
<1>4. PICK r \in h.rest :
        /\ contentType' = [contentType EXCEPT ![r.to] = CombineResultContent(@, "full")]
        /\ frames' = (IF WalksFrom(r) THEN <<Frame(r.to)>> ELSE << >>)
                     \o <<[h EXCEPT !.rest = @ \ {r}]>> \o Tail(frames)
  BY DEF WalkReferences
<1> DEFINE left == [h EXCEPT !.rest = @ \ {r}]
           new == IF WalksFrom(r) THEN <<Frame(r.to)>> ELSE << >>
<1>5. h.rest \in SUBSET Reference /\ h.id \in Id /\ r \in Reference /\ r.to \in Id
  BY <1>3, <1>4 DEF Call, Reference
<1>6. /\ contentType' \in [Id -> Mark]
      /\ Marked("full")' = Marked("full") \cup {r.to}
      /\ Marked("thin")' \subseteq Marked("thin")
      /\ \A x \in Id : contentType[x] = "full" => contentType'[x] = "full"
      /\ \A x \in Id : contentType[x] # "none" => contentType'[x] # "none"
  BY <1>1, <1>4, <1>5, MarkedMore DEF Content
<1>7. left \in Call /\ left.id = h.id /\ left.rest = h.rest \ {r}
  BY <1>3, <1>5 DEF Call
<1>a. new \in Seq(Call) /\ Range(new) = IF WalksFrom(r) THEN {Frame(r.to)} ELSE {}
  <2>1. Frame(r.to) \in Call
    BY <1>1, <1>5, FrameTyped
  <2> HIDE DEF h
  <2>2. CASE WalksFrom(r)
    BY <2>1, <2>2, RangeOfSingle
  <2>3. CASE ~WalksFrom(r)
    BY <2>3, RangeOfEmpty
  <2> QED
    BY <2>2, <2>3
<1>8. /\ frames' \in Seq(Call)
      /\ Calls' = Range(new) \cup {left} \cup Range(Tail(frames))
  <2>1. frames' = new \o <<left>> \o Tail(frames)
    BY <1>4
  <2> HIDE DEF left, new, h
  <2>2. /\ new \o <<left>> \o Tail(frames) \in Seq(Call)
        /\ Range(new \o <<left>> \o Tail(frames)) = Range(new) \cup {left} \cup Range(Tail(frames))
    <3>1. new \in Seq(Call) /\ left \in Call /\ Tail(frames) \in Seq(Call)
      BY <1>3, <1>7, <1>a
    <3>2. \A a, b \in Seq(Call) : \A l \in Call :
            /\ a \o <<l>> \o b \in Seq(Call)
            /\ Range(a \o <<l>> \o b) = Range(a) \cup {l} \cup Range(b)
      BY RangeOfThree
    <3> QED
      BY <3>1, <3>2
  <2> QED
    BY <2>1, <2>2 DEF Calls
<1>9. DirectivesTypeOK'
  BY <1>1, <1>2, <1>6, <1>8 DEF DirectivesTypeOK
<1> HIDE DEF left, new, h
<1>10. phase = "mark"
  BY <1>1 DEF DirectivesInv
<1>11. MarksInv' /\ Untouched'
  <2>1. Untouched /\ MarksInv
    BY <1>10 DEF DirectivesInv
  <2>2. Untouched' /\ (\A c : Asked(c)' = Asked(c)) /\ DefinitionsOf(source)' = DefinitionsOf(source)
    BY <2>1, <1>2, SameAsked, SameDocument DEF Untouched
  <2>3. h \in Calls /\ contentType[h.id] = "full" /\ Walked(h.id) /\ r \in References(h.id)
    BY <2>1, <1>3, <1>4 DEF MarksInv, CallsOK
  <2>4. Handled'
    <3>1. ToMark' = ToMark
      BY <1>2 DEF ToMark
    <3> QED
      BY <3>1, <2>1, <2>2, <1>6 DEF MarksInv, Handled, DefinitionsOf
  <2>5. RefersTo(r) = source.kind[r.to]
    BY <2>3, <1>1, <1>5, ReferenceFacts
  <2>6. CallsOK'
    <3> SUFFICES ASSUME NEW f \in Calls'
                 PROVE  contentType'[f.id] = "full" /\ Walked(f.id) /\ f.rest \subseteq References(f.id)
      BY <1>2, SameDocument DEF CallsOK
    <3>1. CASE f \in Range(Tail(frames))
      <4>1. f \in Calls /\ f \in Call
        BY <3>1, <1>3 DEF Range
      <4> QED
        BY <4>1, <2>1, <1>6 DEF MarksInv, CallsOK, Call
    <3>2. CASE f = left
      BY <3>2, <2>1, <2>3, <1>5, <1>6, <1>7 DEF MarksInv, CallsOK
    <3>3. CASE f \in Range(new)
      <4>1. f = Frame(r.to) /\ WalksFrom(r)
        BY <3>3, <1>a
      <4>2. Walked(r.to)
        BY <4>1, <2>5 DEF WalksFrom, Walked
      <4>3. contentType'[r.to] = "full"
        BY <1>6, <1>5 DEF Marked
      <4> QED
        BY <4>1, <4>2, <4>3 DEF Frame
    <3> QED
      BY <1>8, <3>1, <3>2, <3>3
  <2>7. Searched'
    <3> SUFFICES ASSUME NEW x \in Marked("full")', Walked(x), NEW q \in References(x)
                 PROVE  \/ contentType'[q.to] = "full"
                        \/ \E f \in Calls' : f.id = x /\ q \in f.rest
      BY <1>2, SameDocument DEF Searched
    <3>0. x \in Id /\ q.to \in Id /\ source.kind[x] # "item"
      BY <1>1, <1>5, <1>6, ReferenceFacts DEF Marked
    <3>1. CASE x \in Marked("full")
      <4>1. CASE contentType[q.to] = "full"
        BY <4>1, <3>0, <1>6
      <4>2. ASSUME NEW f \in Calls, f.id = x, q \in f.rest
            PROVE  \/ contentType'[q.to] = "full"
                   \/ \E g \in Calls' : g.id = x /\ q \in g.rest
        <5>1. CASE f \in Range(Tail(frames))
          BY <5>1, <4>2, <1>8
        <5>2. CASE f = h /\ q = r
          BY <5>2, <1>5, <1>6 DEF Marked
        <5>3. CASE f = h /\ q # r
          BY <5>3, <4>2, <1>7, <1>8
        <5> QED
          BY <1>3, <5>1, <5>2, <5>3
      <4> QED
        BY <4>1, <4>2, <3>1, <2>1 DEF MarksInv, Searched
    <3>2. CASE x \notin Marked("full")
      <4>1. x = r.to /\ contentType[r.to] # "full"
        BY <3>2, <1>6, <1>5 DEF Marked
      <4>2. WalksFrom(r)
        BY <4>1, <2>5, <3>0 DEF WalksFrom, Walked
      <4>3. Frame(r.to) \in Calls'
        BY <4>2, <1>a, <1>8
      <4>4. Frame(r.to).id = x /\ q \in Frame(r.to).rest
        BY <4>1 DEF Frame
      <4> QED
        BY <4>3, <4>4
    <3> QED
      BY <3>1, <3>2
  <2>8. Justified'
    <3>1. \A C \in SUBSET Id : Asked("full") \subseteq C /\ Spread(C) => Marked("full")' \subseteq C
      <4> SUFFICES ASSUME NEW C \in SUBSET Id, Asked("full") \subseteq C, Spread(C)
                   PROVE  Marked("full")' \subseteq C
        OBVIOUS
      <4>1. Marked("full") \subseteq C
        BY <2>1 DEF MarksInv, Justified
      <4>2. h.id \in C
        BY <4>1, <2>3, <1>5 DEF Marked
      <4> QED
        BY <4>1, <4>2, <2>3, <1>6 DEF Spread
    <3>2. Marked("thin")' \subseteq Asked("thin")
      BY <2>1, <1>6 DEF MarksInv, Justified
    <3> QED
      BY <3>1, <3>2, <2>2, <1>2, SameDocument DEF Justified
  <2> QED
    BY <2>2, <2>4, <2>6, <2>7, <2>8 DEF MarksInv
<1>12. ~Skip'
  BY <1>2, <1>10, SameAsked DEF DirectivesInv
<1> QED
  BY <1>2, <1>9, <1>10, <1>11, <1>12 DEF DirectivesInv

\* A call that returns has come to all references of its element.
LEMMA ReturnStep ==
  ASSUME DirectivesInv, WalkReturns
  PROVE  DirectivesInv'
<1> DEFINE h == Head(frames)
<1>1. DirectivesTypeOK /\ frames # << >> /\ h.rest = {} /\ phase = "mark" /\ Untouched /\ MarksInv
  BY DEF DirectivesInv, WalkReturns
<1>2. /\ UNCHANGED <<source, config, directives, includeSource, kept, criteria, contentType,
                     marking, phase>>
      /\ frames' = Tail(frames)
  BY DEF WalkReturns
<1>3. frames' \in Seq(Call) /\ Calls = {h} \cup Calls'
  BY <1>1, <1>2, RangeOfTail, HeadTailProperties DEF Calls, DirectivesTypeOK
<1> HIDE DEF h
<1>4. DirectivesTypeOK'
  BY <1>1, <1>2, <1>3 DEF DirectivesTypeOK
<1>5. Untouched' /\ (\A c : Asked(c)' = Asked(c)) /\ DefinitionsOf(source)' = DefinitionsOf(source)
  BY <1>1, <1>2, SameAsked, SameDocument DEF Untouched
<1>6. Handled' /\ Justified'
  BY <1>1, <1>2, <1>5, SameDocument DEF MarksInv, Handled, Justified, ToMark, Marked
<1>7. CallsOK'
  BY <1>1, <1>2, <1>3, SameDocument DEF MarksInv, CallsOK
<1>8. Searched'
  BY <1>1, <1>2, <1>3, SameDocument DEF MarksInv, Searched, Marked
<1>9. ~Skip'
  BY <1>1, <1>2, SameAsked DEF DirectivesInv
<1> QED
  BY <1>1, <1>2, <1>4, <1>5, <1>6, <1>7, <1>8, <1>9 DEF DirectivesInv, MarksInv

\* When the loop and the recursion have come to their end the marks are the
\* least set.
LEMMA MarksComeToBeDone ==
  ASSUME DirectivesTypeOK, MarksInv, marking = << >>, frames = << >>
  PROVE  MarksDone
<1>1. ToMark = {} /\ Calls = {}
  BY RangeOfEmpty DEF ToMark, Calls
<1>2. contentType \in [Id -> Mark]
  BY DEF DirectivesTypeOK
<1>3. /\ Asked("full") \subseteq Marked("full")
      /\ Asked("thin") \subseteq Marked("full") \cup Marked("thin")
  BY <1>1, <1>2 DEF MarksInv, Handled, Asked, Marked, DefinitionsOf, Mark
<1>4. Spread(Marked("full"))
  <2> SUFFICES ASSUME NEW x \in Marked("full"), Walked(x), NEW r \in References(x)
               PROVE  r.to \in Marked("full")
    BY DEF Spread
  <2>1. r.to \in Id
    BY ReferenceFacts DEF Marked
  <2>2. contentType[r.to] = "full"
    BY <1>1 DEF MarksInv, Searched
  <2> QED
    BY <2>1, <2>2 DEF Marked
<1> QED
  BY <1>3, <1>4 DEF MarksDone, MarksInv

\* The removals do not touch the marks.
LEMMA SameMarksDone ==
  ASSUME MarksDone, UNCHANGED <<source, directives, includeSource, contentType>>
  PROVE  MarksDone'
BY SameAsked, SameDocument DEF MarksDone, Justified, Marked

\* When the loops over the definitions end, the search is over and the marks are
\* the least that do: only now definitions are removed.
LEMMA RemoveDefinitionsStep ==
  ASSUME DirectivesInv, RemoveDefinitions
  PROVE  DirectivesInv'
<1>1. /\ DirectivesTypeOK /\ frames = << >> /\ marking = << >> /\ phase = "mark"
      /\ Untouched /\ MarksInv
  BY DEF DirectivesInv, RemoveDefinitions
<1>2. UNCHANGED <<source, config, directives, includeSource, contentType, marking, frames>>
  BY DEF RemoveDefinitions
<1>3. \/ /\ kept' = kept \ (DefinitionsOf(source) \cap Marked("none"))
         /\ criteria' = criteria \cap Marked("full")
         /\ phase' = "remove"
      \/ phase' = "terminated" /\ UNCHANGED <<kept, criteria>>
  BY DEF RemoveDefinitions
<1>4. DirectivesTypeOK'
  BY <1>1, <1>2, <1>3 DEF DirectivesTypeOK
<1>5. MarksDone'
  BY <1>1, <1>2, MarksComeToBeDone, SameMarksDone
<1>6. /\ DefinitionsOf(source)' = DefinitionsOf(source) /\ InResults(source)' = InResults(source)
      /\ \A c : Marked(c)' = Marked(c)
  BY <1>2, SameDocument DEF Marked
<1>7. ~Skip'
  BY <1>1, <1>2, SameAsked DEF DirectivesInv
<1> QED
  BY <1>1, <1>2, <1>3, <1>4, <1>5, <1>6, <1>7 DEF DirectivesInv, Untouched

\* What else is not marked in full is removed afterwards.
LEMMA RemoveUnwantedStep ==
  ASSUME DirectivesInv, RemoveUnwanted
  PROVE  DirectivesInv'
<1>1. /\ DirectivesTypeOK /\ phase = "remove" /\ frames = << >> /\ MarksDone /\ ~Skip
      /\ kept = InResults(source) \ (DefinitionsOf(source) \cap Marked("none"))
      /\ criteria = source.criteria \cap Marked("full")
  BY DEF DirectivesInv, RemoveUnwanted
<1>2. /\ UNCHANGED <<source, config, directives, includeSource, criteria, contentType, marking,
                     frames>>
      /\ kept' = kept \ Unwanted /\ phase' = "applied"
  BY DEF RemoveUnwanted
<1>3. DirectivesTypeOK'
  BY <1>1, <1>2 DEF DirectivesTypeOK
<1>4. MarksDone'
  BY <1>1, <1>2, SameMarksDone
<1>5. /\ DefinitionsOf(source)' = DefinitionsOf(source) /\ InResults(source)' = InResults(source)
      /\ \A c : Marked(c)' = Marked(c)
      /\ Unwanted' = Unwanted
  BY <1>2, SameDocument DEF Marked, Unwanted
<1>6. /\ kept' = InResults(source) \ ((DefinitionsOf(source) \cap Marked("none")) \cup Unwanted)
      /\ criteria' = source.criteria \cap Marked("full")
  BY <1>1, <1>2
<1>7. ~Skip'
  BY <1>1, <1>2, SameAsked
<1> QED
  BY <1>1, <1>2, <1>3, <1>4, <1>5, <1>6, <1>7 DEF DirectivesInv

\* Steps of the rest of the program keep the invariant.
LEMMA DirectivesStutter ==
  ASSUME DirectivesInv, UNCHANGED directiveVars
  PROVE  DirectivesInv'
<1>1. UNCHANGED <<source, config, directives, includeSource, kept, criteria, contentType,
                  marking, frames, phase>>
  BY DEF directiveVars
<1>2. DirectivesTypeOK'
  BY <1>1 DEF DirectivesInv, DirectivesTypeOK
<1>3. /\ (Untouched => Untouched') /\ (Start => Start')
      /\ Skip' = Skip /\ Unwanted' = Unwanted
      /\ \A c : Asked(c)' = Asked(c) /\ Marked(c)' = Marked(c)
      /\ DefinitionsOf(source)' = DefinitionsOf(source) /\ InResults(source)' = InResults(source)
  BY <1>1, SameAsked, SameDocument DEF Untouched, Start, Marked, Unwanted
<1>4. Calls' = Calls /\ ToMark' = ToMark
  BY <1>1 DEF Calls, ToMark
<1>5. MarksInv => MarksInv'
  BY <1>1, <1>3, <1>4, SameDocument DEF MarksInv, Handled, CallsOK, Searched, Justified
<1>6. MarksDone => MarksDone'
  BY <1>1, SameMarksDone
<1> QED
  BY <1>1, <1>2, <1>3, <1>5, <1>6 DEF DirectivesInv

\* Every step of ApplyAll keeps the invariant.
LEMMA ApplyingStep ==
  ASSUME DirectivesInv, Applying
  PROVE  DirectivesInv'
BY ApplyAllStep, MarkStep, WalkStep, ReturnStep, RemoveDefinitionsStep, RemoveUnwantedStep
   DEF Applying

-----------------------------------------------------------------------------
\* In a finished report every mark that keeps an element is a full one, but for
\* definitions, and what it refers to is kept as well.
LEMMA KeptClosed ==
  ASSUME DirectivesInv, phase = "applied",
         NEW x \in kept, x \notin DefinitionsOf(source) \/ x \notin Marked("thin"),
         NEW r \in References(x)
  PROVE  /\ r.to \in InResults(source) => r.to \in kept
         /\ source.kind[r.to] = "variable" => \A q \in References(r.to) : q.to \in kept
<1>1. DirectivesTypeOK /\ kept \subseteq InResults(source) /\ x \in Id
  BY DEF DirectivesInv, DirectivesTypeOK, Untouched
<1>2. /\ r.to \in Id
      /\ \A q \in References(r.to) :
           q.to \in Id /\ (source.kind[r.to] = "variable" => source.kind[q.to] = "object")
  BY <1>1, ReferenceFacts
<1>3. \A y \in Id : source.kind[y] = "object" => y \in InResults(source)
  BY DEF InResults
<1>4. CASE kept = InResults(source)
  BY <1>2, <1>3, <1>4
<1>5. CASE /\ MarksDone
           /\ kept = InResults(source) \ ((DefinitionsOf(source) \cap Marked("none")) \cup Unwanted)
  <2>1. x \in Marked("full")
    <3>1. contentType[x] \in Mark
      BY <1>1 DEF DirectivesTypeOK
    <3> QED
      BY <3>1, <1>1, <1>5 DEF Unwanted, Marked, Mark
  <2>2. Walked(x)
    BY <1>1 DEF Walked, InResults
  <2>3. r.to \in Marked("full")
    BY <2>1, <2>2, <1>5 DEF MarksDone, Spread
  <2>4. \A y \in Marked("full") : y \in InResults(source) => y \in kept
    BY <1>5 DEF Unwanted, Marked
  <2>5. source.kind[r.to] = "variable" =>
          \A q \in References(r.to) : q.to \in Marked("full")
    BY <2>3, <1>5 DEF MarksDone, Spread, Walked
  <2> QED
    BY <2>3, <2>4, <2>5, <1>2, <1>3
<1> QED
  BY <1>4, <1>5 DEF DirectivesInv, Untouched

-----------------------------------------------------------------------------
(***************************************************************************)
(* Directives implement Reporting.                                         *)
(***************************************************************************)
\* What Reporting says one element needs of another is what a call walks along.
LEMMA NeedsAreReferences ==
  ASSUME DirectivesTypeOK, NEW x \in Id, NEW y \in Id
  PROVE  Reported!Needs(x, y) <=> Walked(x) /\ \E r \in References(x) : r.to = y
<1>1. WellFormed(source)
  BY SourcesAssumption DEF DirectivesTypeOK
<1>2. ASSUME NEW r \in source.references, r.from = x, r.to = y,
             ~(source.kind[x] = "variable" /\ source.kind[y] = "variable")
      PROVE  r \in References(x)
  BY <1>1, <1>2 DEF WellFormed, References
<1>3. ASSUME NEW r \in References(x), r.to = y
      PROVE  /\ r \in source.references /\ r.from = x
             /\ ~(source.kind[x] = "variable" /\ source.kind[y] = "variable")
  BY <1>3, ReferenceFacts
<1> QED
  BY <1>2, <1>3 DEF Reported!Needs, Walked

\* The recursion of Closure comes to the least closed set within as many steps
\* as there are ids.
LEMMA ClosureIsLeast ==
  ASSUME DirectivesTypeOK, NEW S \in SUBSET Id
  PROVE  /\ Reported!Closure(S) \subseteq Id
         /\ S \subseteq Reported!Closure(S)
         /\ Spread(Reported!Closure(S))
         /\ \A C \in SUBSET Id : S \subseteq C /\ Spread(C) => Reported!Closure(S) \subseteq C
<1> DEFINE k == Cardinality(Id)
           Next1(X) == UNION {{x} \cup {y \in Reported!Ids : Reported!Needs(x, y)} : x \in X}
           Body(w) == [n \in 0..Reported!Cardinality(Reported!Ids) |->
                         IF n = 0 THEN S ELSE Next1(w[n - 1])]
           W == CHOOSE w : w = Body(w)
           F == [X \in SUBSET Id |-> Next1(X)]
<1>1. Reported!Closure(S) = W[Reported!Cardinality(Reported!Ids)]
  BY DEF Reported!Closure
<1>2. Reported!Ids = Id
  BY SourceFacts DEF Reported!Ids
<1>3. \A s : Reported!Cardinality(s) = Cardinality(s)
  BY DEF Reported!Cardinality, Cardinality
<1>4. Reported!Cardinality(Reported!Ids) = k /\ k \in Nat
  BY <1>2, <1>3, IdAssumption, FS_CardinalityType
<1>5. \A X : \A y : y \in Next1(X) <=> y \in X \/ (y \in Id /\ \E x \in X : Reported!Needs(x, y))
  BY <1>2
<1>6. F \in [SUBSET Id -> SUBSET Id] /\ \A X \in SUBSET Id : X \subseteq F[X] /\ F[X] = Next1(X)
  <2> HIDE DEF Next1
  <2>1. \A X \in SUBSET Id : Next1(X) \in SUBSET Id /\ X \subseteq Next1(X)
    BY <1>5
  <2> QED
    BY <2>1
<1>7. W = Body(W)
  <2>1. PICK g \in [0..k -> SUBSET Id] : g[0] = S /\ \A m \in 1..k : g[m] = F[g[m - 1]]
    <3>1. Iterations(SUBSET Id, F, S, k) # {}
      <4> HIDE DEF F, k
      <4> QED
        BY <1>4, <1>6, IterationExists
    <3> HIDE DEF F, k
    <3> QED
      BY <3>1 DEF Iterations
  <2>2. ASSUME NEW m \in 1..k PROVE g[m] = Next1(g[m - 1])
    <3>1. m - 1 \in 0..k
      BY <1>4
    <3> HIDE DEF F, k, Next1
    <3> QED
      BY <3>1, <2>1, <1>6
  <2>3. g = Body(g)
    <3> HIDE DEF F, k, Next1
    <3>1. \A n \in 0..k : n = 0 \/ n \in 1..k
      BY <1>4
    <3> QED
      BY <3>1, <2>1, <2>2, <1>4
  <2> HIDE DEF Body
  <2> QED
    BY <2>3
<1> HIDE DEF W
<1>8. /\ W[0] = S
      /\ \A m \in 1..k : W[m] = Next1(W[m - 1])
  <2> HIDE DEF Next1, k
  <2>1. \A m \in 1..k : m \in 0..k /\ m # 0
    BY <1>4
  <2> QED
    BY <1>4, <1>7, <2>1
<1>9. \A n \in 0..k : W[n] \in SUBSET Id
  <2> DEFINE Q == {n \in 0..k : W[n] \in SUBSET Id}
  <2>1. 0 \in Q
    BY <1>4, <1>8
  <2>2. ASSUME NEW n \in 0..(k - 1), n \in Q PROVE n + 1 \in Q
    <3>1. n + 1 \in 1..k /\ n + 1 \in 0..k /\ (n + 1) - 1 = n
      BY <1>4
    <3> HIDE DEF Next1, F, k
    <3> QED
      BY <3>1, <2>2, <1>6, <1>8
  <2>3. 0..k \subseteq Q
    <3> HIDE DEF Q, k
    <3> QED
      BY <2>1, <2>2, <1>4, UpTo
  <2> QED
    BY <2>3
<1>10. \A m \in 1..k : W[m] = F[W[m - 1]]
  <2>1. \A m \in 1..k : m - 1 \in 0..k
    BY <1>4
  <2> HIDE DEF Next1, F, k
  <2> QED
    BY <2>1, <1>6, <1>8, <1>9
<1> HIDE DEF F, Next1
<1>11. F[W[k]] = W[k]
  <2> DEFINE g == [n \in 0..k |-> W[n]]
  <2>1. g \in [0..k -> SUBSET Id]
    BY <1>9
  <2>2. \A m \in 1..k : g[m] = F[g[m - 1]]
    <3>1. \A m \in 1..k : m \in 0..k /\ m - 1 \in 0..k
      BY <1>4
    <3> HIDE DEF k
    <3> QED
      BY <3>1, <1>10
  <2>3. F[g[k]] = g[k]
    <3> HIDE DEF g
    <3> QED
      BY <2>1, <2>2, <1>6, IdAssumption, GrowthStops
  <2>4. k \in 0..k
    BY <1>4
  <2> QED
    BY <2>3, <2>4
<1>12. ASSUME NEW C \in SUBSET Id, S \subseteq C, Spread(C)
       PROVE  \A n \in 0..k : W[n] \subseteq C
  <2>1. W[0] \in SUBSET C
    BY <1>8, <1>12
  <2>2. \A X \in SUBSET C : F[X] \in SUBSET C
    BY <1>5, <1>6, <1>12, NeedsAreReferences DEF Spread
  <2>3. \A n \in 0..k : W[n] \in SUBSET C
    <3> HIDE DEF k
    <3> QED
      BY <2>1, <2>2, <1>4, <1>10, IteratesKeep
  <2> QED
    BY <2>3
<1>13. S \subseteq W[k]
  <2> DEFINE P == {X \in SUBSET Id : S \subseteq X}
  <2>1. W[0] \in P /\ \A X \in P : F[X] \in P
    BY <1>6, <1>8
  <2>2. \A n \in 0..k : W[n] \in P
    <3> HIDE DEF k, P
    <3> QED
      BY <2>1, <1>4, <1>10, IteratesKeep
  <2> QED
    BY <2>2, <1>4
<1>14. Spread(W[k])
  <2> SUFFICES ASSUME NEW x \in W[k], Walked(x), NEW r \in References(x)
               PROVE  r.to \in W[k]
    BY DEF Spread
  <2>1. W[k] \in SUBSET Id
    BY <1>4, <1>9
  <2>2. x \in Id /\ r.to \in Id
    BY <2>1, ReferenceFacts
  <2>3. Reported!Needs(x, r.to)
    BY <2>2, NeedsAreReferences
  <2> HIDE DEF k
  <2>4. r.to \in F[W[k]]
    BY <2>1, <2>2, <2>3, <1>5, <1>6
  <2> QED
    BY <2>4, <1>11
<1> QED
  BY <1>1, <1>4, <1>9, <1>12, <1>13, <1>14

-----------------------------------------------------------------------------
(***************************************************************************)
(* The directives within the run.                                          *)
(***************************************************************************)
\* The document, the directives and the marks change only in the phases that
\* read, evaluate and apply.
LEMMA StepsOfDirectives ==
  ASSUME Step
  PROVE  \/ LoadDirectives \/ Evaluated \/ Applying
         \/ UNCHANGED directiveVars
BY DEF Step, Arguments, InitLog, GenerateMD5, Verify, Succeeds, ReadDirectives, Analyze,
       ApplyDirectives, Save, Validate, Transform, Throws, ThrowsWarning, Footer

\* The marks are right in every state of every run (Main.cpp: main; Directive.cpp).
THEOREM MarksInvariant == Spec => []DirectivesInv
<1>1. ASSUME Init PROVE DirectivesInv
  BY <1>1, InputsAssumption, DirectivesInit DEF Init
<1>2. ASSUME DirectivesInv, [Step]_vars PROVE DirectivesInv'
  BY <1>2, StepsOfDirectives, LoadStep, EvaluatedStep, ApplyingStep, DirectivesStutter DEF vars
<1> QED
  BY <1>1, <1>2, PTL DEF Spec

\* Whatever the definitions, references and directives, an element that is
\* reported refers to elements that are reported (Directive.cpp: ApplyAll).
THEOREM ReportsAreClosed == Spec => []KeptIsClosed
<1>1. ASSUME DirectivesInv PROVE KeptIsClosed
  <2> SUFFICES ASSUME phase = "applied", NEW x \in kept \ ThinDefinitions, NEW r \in References(x)
               PROVE  /\ r.to \in InResults(source) => r.to \in kept
                      /\ source.kind[r.to] = "variable" => \A q \in References(r.to) : q.to \in kept
    BY DEF KeptIsClosed
  <2>1. x \notin DefinitionsOf(source) \/ x \notin Marked("thin")
    BY DEF ThinDefinitions, DefinitionsOf
  <2> QED
    BY <1>1, <2>1, KeptClosed
<1> QED
  BY <1>1, MarksInvariant, PTL

-----------------------------------------------------------------------------
(***************************************************************************)
(* The refinement of Reporting.                                            *)
(***************************************************************************)
\* The directives are those that are stated, each text read as the code reads it.
Loaded ==
  /\ directives = [c \in DOMAIN StatedDirectives |-> ReadMap(StatedDirectives[c])]
  /\ includeSource = AsRead(StatedSource)

LoadedInv == IF phase = "load" THEN includeSource = TRUE ELSE Loaded

\* From their reading on the directives are what the file states, or what holds
\* without one (Directive.cpp: LoadDirectives).
THEOREM DirectivesAreStated == Spec => []LoadedInv
<1>1. ASSUME Init PROVE LoadedInv
  BY <1>1 DEF Init, DirectivesStart, LoadedInv
<1>2. ASSUME LoadedInv, DirectivesInv, [Step]_vars PROVE LoadedInv'
  <2>1. CASE LoadDirectives
    <3>1. config' = config /\ phase = "load" /\ phase' # "load"
          /\ StatedDirectives' = StatedDirectives /\ StatedSource' = StatedSource
      BY <2>1 DEF LoadDirectives, StatedDirectives, StatedSource
    <3>2. CASE config = Unreadable
      <4> DEFINE stated == [r \in ResultEnumeration |-> [reported |-> "true", content |-> "full"]]
      <4>1. StatedDirectives = [c \in {Default} |-> stated] /\ StatedSource = ""
        BY <3>2 DEF StatedDirectives, StatedSource
      <4>2. ReadMap(stated) = AllFull
        BY DEF ReadMap, AllFull, AsRead
      <4>3. directives' = [c \in {Default} |-> AllFull] /\ includeSource' = TRUE
        BY <2>1, <3>1, <3>2, <1>2 DEF LoadDirectives, LoadedInv
      <4> HIDE DEF stated
      <4>4. directives' = [c \in DOMAIN StatedDirectives |-> ReadMap(StatedDirectives[c])]
        BY <4>1, <4>2, <4>3
      <4> QED
        BY <3>1, <4>1, <4>3, <4>4 DEF LoadedInv, Loaded, AsRead
    <3>3. CASE config # Unreadable
      <4>1. /\ directives' = [c \in DOMAIN StatedDirectives |-> ReadMap(StatedDirectives[c])]
            /\ includeSource' = AsRead(StatedSource)
        BY <2>1, <3>3 DEF LoadDirectives
      <4> QED
        BY <3>1, <4>1 DEF LoadedInv, Loaded
    <3> QED
      BY <3>2, <3>3
  <2>2. CASE ~LoadDirectives
    <3>1. UNCHANGED <<config, directives, includeSource>>
          /\ (phase' = phase \/ (phase # "load" /\ phase' # "load"))
      BY <2>2, <1>2, StepsOfDirectives DEF vars, directiveVars, Evaluated, Applying, ApplyAll,
         MarkDefinition, WalkReferences, WalkReturns, RemoveDefinitions, RemoveUnwanted
    <3>2. StatedDirectives' = StatedDirectives /\ StatedSource' = StatedSource
      BY <3>1 DEF StatedDirectives, StatedSource
    <3> QED
      BY <1>2, <3>1, <3>2 DEF LoadedInv, Loaded
  <2> QED
    BY <2>1, <2>2
<1> QED
  BY <1>1, <1>2, MarksInvariant, PTL DEF Spec

\* Where no truth value is spelt "0", a text is read as what it means.
LEMMA ReadAsMeant ==
  ASSUME DirectivesTypeOK, Loaded, Reported!Plain
  PROVE  /\ DOMAIN directives = DOMAIN StatedDirectives
         /\ includeSource <=> Reported!IsTrue(StatedSource)
         /\ \A c \in DOMAIN directives : \A r \in ResultEnumeration :
              /\ directives[c][r].reported <=> Reported!IsTrue(StatedDirectives[c][r].reported)
              /\ directives[c][r].content = StatedDirectives[c][r].content
<1>1. \A text \in BooleanText \ {"0"} : AsRead(text) <=> Reported!IsTrue(text)
  BY DEF BooleanText, AsRead, Reported!IsTrue
<1>2. StatedSource \in BooleanText \ {"0"}
  BY StatedFacts DEF Reported!Plain
<1>3. DOMAIN directives = DOMAIN StatedDirectives
  BY DEF Loaded
<1>4. ASSUME NEW c \in DOMAIN directives, NEW r \in ResultEnumeration
      PROVE  /\ directives[c][r].reported <=> Reported!IsTrue(StatedDirectives[c][r].reported)
             /\ directives[c][r].content = StatedDirectives[c][r].content
  <2>1. StatedDirectives[c] \in StatedMap /\ c \in DOMAIN StatedDirectives
    BY <1>3, <1>4, StatedFacts
  <2>2. StatedDirectives[c][r] \in StatedDirective /\ r \in DOMAIN StatedDirectives[c]
    BY <2>1, <1>4 DEF StatedMap
  <2>3. StatedDirectives[c][r].reported \in BooleanText \ {"0"}
    BY <2>1, <2>2 DEF StatedDirective, Reported!Plain
  <2>4. directives[c] = ReadMap(StatedDirectives[c])
    BY <2>1 DEF Loaded
  <2>5. directives[c][r] = [reported |-> AsRead(StatedDirectives[c][r].reported),
                            content |-> StatedDirectives[c][r].content]
    BY <2>4, <1>4 DEF ReadMap
  <2> QED
    BY <1>1, <2>3, <2>5
<1> QED
  BY <1>1, <1>2, <1>3, <1>4 DEF Loaded

\* The definitions the directives ask for are the same in both.
LEMMA SameReported ==
  ASSUME DirectivesTypeOK, Loaded, Reported!Plain
  PROVE  \A content : Reported!Reported(content) = Asked(content)
<1>1. Reported!Definitions = DefinitionsOf(source)
  BY SourceFacts DEF Reported!Definitions, Reported!Ids, DefinitionsOf
<1>2. ASSUME NEW d \in DefinitionsOf(source)
      PROVE  /\ GetDirective(d).reported <=> Reported!IsTrue(Reported!Directive(d).reported)
             /\ GetDirective(d).content = Reported!Directive(d).content
  <2> DEFINE c == IF source.class[d] \in DOMAIN directives THEN source.class[d] ELSE Default
  <2>1. GetDirective(d) = directives[c][source.result[d]]
    BY DEF GetDirective
  <2>2. Reported!Directive(d) = StatedDirectives[c][source.result[d]]
    BY ReadAsMeant DEF Reported!Directive, Default
  <2>3. c \in DOMAIN directives /\ source.result[d] \in ResultEnumeration
    BY <1>2, StatedFacts, ReadAsMeant, SourceFacts DEF DefinitionsOf
  <2> QED
    BY <2>1, <2>2, <2>3, ReadAsMeant
<1> QED
  BY <1>1, <1>2 DEF Reported!Reported, Asked

\* Skip knows when nothing is to be left out.
LEMMA SkipsWhenEverything ==
  ASSUME DirectivesTypeOK, Loaded, Reported!Plain
  PROVE  Skip <=> Reported!Everything
<1>1. DOMAIN directives = {"default"} =>
        /\ directives["default"] \in DirectiveMap
        /\ DOMAIN directives["default"] = ResultEnumeration
        /\ \A r \in ResultEnumeration : directives["default"][r] \in Directive
  BY DEF DirectivesTypeOK, DirectiveMap
<1>2. \A x \in Directive : x = [reported |-> TRUE, content |-> "full"]
                           <=> x.reported /\ x.content = "full"
  BY DEF Directive
<1>3. DOMAIN directives = {"default"} =>
        DOMAIN StatedDirectives["default"] = ResultEnumeration
  BY ReadAsMeant, StatedFacts DEF StatedMap
<1>4. Full(directives[Default]) <=>
        \A r \in ResultEnumeration :
          directives[Default][r] = [reported |-> TRUE, content |-> "full"]
  BY DEF Full
<1>5. Reported!Everything <=>
        /\ includeSource
        /\ DOMAIN directives = {"default"}
        /\ \A r \in ResultEnumeration :
             directives["default"][r].reported /\ directives["default"][r].content = "full"
  BY <1>3, ReadAsMeant DEF Reported!Everything
<1> QED
  BY <1>1, <1>2, <1>4, <1>5 DEF Skip, Default

\* What has an element in the results.
LEMMA SameWhole ==
  ASSUME DirectivesTypeOK
  PROVE  Reported!Whole = [elements |-> InResults(source), criteria |-> source.criteria]
<1>1. {x \in Reported!Ids : source.kind[x] \notin {"state", "variable"}} = InResults(source)
  <2>1. Reported!Ids = Id
    BY SourceFacts DEF Reported!Ids
  <2>2. \A x \in Id : source.kind[x] \in ElementType
    BY SourceFacts
  <2> QED
    BY <2>1, <2>2 DEF InResults, ElementType
<1> QED
  BY <1>1 DEF Reported!Whole

\* The full marks are the closure of the definitions asked for in full.
LEMMA MarksAreClosure ==
  ASSUME DirectivesTypeOK, Loaded, Reported!Plain, MarksDone
  PROVE  Reported!Closure(Reported!Reported("full")) = Marked("full")
<1>1. Reported!Reported("full") = Asked("full") /\ Asked("full") \in SUBSET Id
  BY SameReported DEF Asked, DefinitionsOf
<1> DEFINE C == Reported!Closure(Asked("full"))
<1>2. /\ C \subseteq Id /\ Asked("full") \subseteq C /\ Spread(C)
      /\ \A D \in SUBSET Id : Asked("full") \subseteq D /\ Spread(D) => C \subseteq D
  BY <1>1, ClosureIsLeast
<1> HIDE DEF C
<1>3. Marked("full") \in SUBSET Id
  BY DEF Marked
<1>4. C \subseteq Marked("full") /\ Marked("full") \subseteq C
  BY <1>2, <1>3 DEF MarksDone, Justified
<1> QED
  BY <1>1, <1>4 DEF C

\* The report that is left is the one Reporting asks for.
LEMMA ReportIsAsked ==
  ASSUME DirectivesInv, LoadedInv, Reported!Plain, phase = "applied"
  PROVE  [elements |-> kept, criteria |-> criteria] = Reported!Asked
<1>1. DirectivesTypeOK /\ Loaded
  BY DEF DirectivesInv, LoadedInv
<1>2. Skip <=> Reported!Everything
  BY <1>1, SkipsWhenEverything
<1>3. Reported!Whole.elements = InResults(source) /\ Reported!Whole.criteria = source.criteria
      /\ Reported!Whole = [elements |-> InResults(source), criteria |-> source.criteria]
  BY <1>1, SameWhole
<1>4. CASE Skip
  BY <1>2, <1>3, <1>4 DEF Reported!Asked, DirectivesInv, Untouched
<1>5. CASE ~Skip
  <2>1. /\ MarksDone
        /\ kept = InResults(source) \ ((DefinitionsOf(source) \cap Marked("none")) \cup Unwanted)
        /\ criteria = source.criteria \cap Marked("full")
    BY <1>5 DEF DirectivesInv
  <2>2. Reported!Asked = [elements |-> InResults(source) \cap (Marked("full") \cup Asked("thin")),
                          criteria |-> source.criteria \cap Marked("full")]
    BY <1>1, <1>2, <1>3, <1>5, <2>1, MarksAreClosure, SameReported DEF Reported!Asked
  <2>3. kept = InResults(source) \cap (Marked("full") \cup Asked("thin"))
    <3> SUFFICES ASSUME NEW x \in InResults(source)
                 PROVE  x \in kept <=> x \in Marked("full") \cup Asked("thin")
      BY <2>1
    <3>1. x \in Id /\ contentType[x] \in Mark
      BY <1>1 DEF InResults, DirectivesTypeOK
    <3>2. Asked("thin") \subseteq Marked("full") \cup Marked("thin")
          /\ Marked("thin") \subseteq Asked("thin") /\ Asked("thin") \subseteq DefinitionsOf(source)
      BY <2>1 DEF MarksDone, Justified, Asked
    <3>3. CASE x \in DefinitionsOf(source)
      BY <3>1, <3>2, <3>3, <2>1 DEF Marked, Mark, Unwanted
    <3>4. CASE x \notin DefinitionsOf(source)
      BY <3>1, <3>2, <3>4, <2>1 DEF Marked, Unwanted
    <3> QED
      BY <3>3, <3>4
  <2> QED
    BY <2>1, <2>2, <2>3
<1> QED
  BY <1>4, <1>5

\* Until the directives are applied the report is the whole; the step after
\* which they are makes it what is asked for; and that is the last change.
LEMMA ReportingStep ==
  ASSUME DirectivesInv, DirectivesInv', LoadedInv', [Step]_vars
  PROVE  [Reported!Publish]_(Reported!vars)
<1>1. DirectivesTypeOK /\ DirectivesTypeOK'
  BY DEF DirectivesInv
<1>2. source' = source /\ config' = config
  BY StepsOfDirectives DEF vars, directiveVars, LoadDirectives, Evaluated, Applying, ApplyAll,
     MarkDefinition, WalkReferences, WalkReturns, RemoveDefinitions, RemoveUnwanted
<1>0. StatedDirectives' = StatedDirectives /\ StatedSource' = StatedSource
  BY <1>2 DEF StatedDirectives, StatedSource
<1>3. CASE phase = "applied"
  <2>1. UNCHANGED directiveVars
    BY <1>3, StepsOfDirectives DEF vars, LoadDirectives, Evaluated, Applying, ApplyAll,
       MarkDefinition, WalkReferences, WalkReturns, RemoveDefinitions, RemoveUnwanted,
       DirectivesInv
  <2> QED
    BY <1>0, <2>1, SameDocument DEF Reported!vars, directiveVars
<1>4. CASE phase # "applied" /\ phase' # "applied"
  BY <1>0, <1>4, <1>2, SameDocument DEF Reported!vars
<1>5. CASE phase # "applied" /\ phase' = "applied"
  <2>1. UNCHANGED <<source, StatedDirectives, StatedSource>>
    BY <1>0, <1>2
  <2>2. Reported!Asked' = Reported!Asked
    BY <2>1 DEF Reported!Asked, Reported!Closure, Reported!Reported, Reported!Definitions,
       Reported!Ids, Reported!Directive, Reported!Needs, Reported!Whole, Reported!Everything,
       Reported!IsTrue
  <2>3. Reported!Plain' <=> Reported!Plain
    BY <2>1 DEF Reported!Plain
  <2>4. ASSUME Reported!Plain
        PROVE  [elements |-> kept', criteria |-> criteria'] = Reported!Asked'
    <3>1. (phase = "applied" /\ Reported!Plain
             => [elements |-> kept, criteria |-> criteria] = Reported!Asked)'
      BY ReportIsAsked, PTL
    <3> QED
      BY <2>3, <2>4, <3>1, <1>5
  <2> QED
    BY <2>1, <2>2, <2>4, <1>5 DEF Reported!Publish
<1> QED
  BY <1>3, <1>4, <1>5

\* Every run of the program reports what its directives ask for, as one step of
\* module Reporting, unless their file spells a truth value as "0" (Directive.cpp:
\* LoadDirectives, ApplyAll, WalkReferences).
THEOREM ReportingRefinement == Spec => ImplementsReporting
<1>1. ASSUME Init PROVE Reported!Init
  <2>1. phase = "load" /\ DirectivesTypeOK
    BY <1>1, InputsAssumption, DirectivesInit DEF Init, DirectivesStart, DirectivesInv
  <2> QED
    BY <2>1, SameWhole DEF Reported!Init
<1>2. DirectivesInv /\ DirectivesInv' /\ LoadedInv' /\ [Step]_vars
        => [Reported!Publish]_(Reported!vars)
  BY ReportingStep
<1> QED
  BY <1>1, <1>2, MarksInvariant, DirectivesAreStated, PTL DEF Spec, ImplementsReporting, Reported!Spec

-----------------------------------------------------------------------------
(***************************************************************************)
(* The command line and the files.                                         *)
(***************************************************************************)
StyleSheets == {"c", "j", "k", "t"}

Members ==
  {"data", "provided", "xmlfile", "output", "xsl", "xslOutput", "noXsl", "variables",
   "directives", "idsFile", "limited", "verify", "md5", "generate", "schema", "log",
   "stylesheet", "validate", "given"}

\* The static members of Common.
CommonOK(c) ==
  /\ DOMAIN c = Members
  /\ \A m \in {"data", "xmlfile", "output", "xsl", "xslOutput", "variables", "directives"} :
       c[m] \in Name
  /\ \A m \in {"provided", "noXsl", "limited", "verify", "md5", "generate"} : c[m] \in BOOLEAN
  /\ c.idsFile \in Name \cup {NoName}
  /\ c.schema \in Directory /\ c.log \in Directory
  /\ c.stylesheet \in [StyleSheets -> Name]
  /\ c.validate \subseteq MayHaveOperand /\ c.given \subseteq StyleSheets

FileContents == {"absent", "input", "log", "data", "results", "html", "partial"}

Phases == {Try[i] : i \in DOMAIN Try}

MainTypeOK ==
  /\ WellTyped(args)
  /\ CommonOK(common)
  /\ exit \in {"running", "success", "failure", "terminated"}
  /\ disk \in [File -> FileContents]
  /\ pc \in {"arguments", "log", "verify", "footer", "stopped"} \cup Phases
  /\ verified \in BOOLEAN
  /\ validated \subseteq MayHaveOperand
  /\ unseen \subseteq MayHaveOperand \cup {"ids"}

\* No output is a file that is there as an input.
Separate ==
  \A n \in InputNames(common) \ {NoName} : \A m \in OutputNames(common) :
    Initially[Realpath[n]] = "input" => Realpath[m] # Realpath[n]

\* Main has left the phase p behind.
Past(p) == pc = "footer" \/ \E i \in DOMAIN Try : pc = Try[i] /\ Position(p) < i

FilesInv ==
  /\ pc \in {"arguments", "log"} => disk = Initially
  /\ pc \notin {"arguments", "stopped"} => Separate
  /\ \/ disk = Initially
     \/ /\ Separate
        /\ \A f \in File : disk[f] # Initially[f] => f \in Files(OutputNames(common))

\* What is wanted and lies behind is done, unless a warning has cut the phases
\* short, which leads to the footer at once.
PhasesInv ==
  /\ pc # "stopped" => exit = "running"
  /\ pc \in Phases => Wanted(pc)
  /\ pc \in Phases \cup {"footer"} => ~common.generate /\ verified = common.verify
  /\ pc \notin {"footer", "stopped"} => "ids" \notin unseen
  /\ "ids" \notin unseen =>
       /\ Past("apply") => phase = "applied"
       /\ \A s \in common.validate :
            Past(ValidationOf[s]) /\ Wanted(ValidationOf[s]) => s \in validated \cup unseen
       /\ OutputsDiffer =>
            /\ Past("save data") /\ ~common.provided => disk[Realpath[common.data]] = "data"
            /\ Past("save results") => disk[Realpath[common.output]] = "results"

MainInv == MainTypeOK /\ FilesInv /\ PhasesInv /\ SuccessMeansResults

-----------------------------------------------------------------------------
(* Types of what the command line sets.                                       *)

\* What is left of a line once its first arguments are consumed.
LEMMA LineLeft ==
  ASSUME WellTyped(args), NEW n \in 1..Len(args)
  PROVE  WellTyped(SubSeq(args, n + 1, Len(args)))
<1> DEFINE T == Switch \cup Name \cup Directory
           left == SubSeq(args, n + 1, Len(args))
<1>1. args \in Seq(T) /\ Len(args) \in Nat /\ DOMAIN args = 1..Len(args)
  BY DEF WellTyped
<1>2. \A i \in (n + 1)..Len(args) : args[i] \in T
  BY <1>1
<1>3. /\ left \in Seq(T)
      /\ Len(left) = Len(args) - n
      /\ \A i \in 1..(Len(args) - n) : left[i] = args[n + i]
  <2>1. Len(left) = IF n + 1 <= Len(args) THEN Len(args) - (n + 1) + 1 ELSE 0
    BY <1>1, <1>2, SubSeqProperties
  <2>2. left \in Seq(T)
    BY <1>1, <1>2, SubSeqProperties
  <2>3. \A i \in 1..(Len(args) - (n + 1) + 1) : left[i] = args[(n + 1) + i - 1]
    BY <1>1, <1>2, SubSeqProperties
  <2> HIDE DEF left, T
  <2>4. Len(left) = Len(args) - n
    <3>1. \A l \in Nat : n \in 1..l => n + 1 <= l \/ n = l
      OBVIOUS
    <3>2. CASE n + 1 <= Len(args)
      BY <1>1, <2>1, <3>2
    <3>3. CASE n = Len(args)
      BY <1>1, <2>1, <3>3
    <3> QED
      BY <1>1, <3>1, <3>2, <3>3
  <2>5. \A i \in 1..(Len(args) - n) : left[i] = args[n + i]
    <3> TAKE i \in 1..(Len(args) - n)
    <3>1. i \in 1..(Len(args) - (n + 1) + 1) /\ (n + 1) + i - 1 = n + i
      BY <1>1
    <3> QED
      BY <3>1, <2>3
  <2> QED
    BY <2>2, <2>4, <2>5
<1> HIDE DEF left, T
<1>4. DOMAIN left = 1..(Len(args) - n)
  BY <1>1, <1>3
<1>5. ASSUME NEW i \in DOMAIN left, i + 1 \in DOMAIN left
      PROVE  /\ n + i \in DOMAIN args /\ (n + i) + 1 \in DOMAIN args
             /\ left[i] = args[n + i] /\ left[i + 1] = args[(n + i) + 1]
  <2>1. i \in 1..(Len(args) - n) /\ i + 1 \in 1..(Len(args) - n)
    BY <1>4, <1>5
  <2>2. n + i \in 1..Len(args) /\ (n + i) + 1 \in 1..Len(args) /\ n + (i + 1) = (n + i) + 1
    BY <2>1, <1>1
  <2> QED
    BY SMTT(30), <2>1, <2>2, <1>1, <1>3
<1> QED
  BY <1>3, <1>5 DEF WellTyped, left, T

\* An operand has the type its switch asks for.
LEMMA OperandTyped ==
  ASSUME WellTyped(args), args # << >>, HasOperand
  PROVE  /\ Len(args) \in Nat /\ Len(args) > 1
         /\ Head(args) \in {"a", "y"} => args[2] \in Directory
         /\ Head(args) \in (NeedsOperand \cup MayHaveOperand) \ {"a", "y", "e", "l"} =>
              args[2] \in Name
<1>1. Len(args) \in Nat /\ DOMAIN args = 1..Len(args) /\ Len(args) > 1 /\ args[2] \notin Switch
  BY DEF HasOperand, WellTyped
<1>2. 1 \in DOMAIN args /\ 1 + 1 \in DOMAIN args /\ 1 + 1 = 2 /\ Head(args) = args[1]
  BY <1>1
<1> QED
  BY <1>1, <1>2 DEF WellTyped

\* Consuming a switch, and its operand if it has one, leaves a typed line.
LEMMA ConsumeTyped ==
  ASSUME WellTyped(args), NEW n \in 1..2, args # << >>, n = 2 => HasOperand, Consume(n)
  PROVE  WellTyped(args)'
<1>1. Len(args) \in Nat \ {0}
  BY EmptySeq DEF WellTyped
<1>2. n \in 1..Len(args)
  BY <1>1 DEF HasOperand
<1>3. WellTyped(SubSeq(args, n + 1, Len(args)))
  BY <1>2, LineLeft
<1>4. args' = SubSeq(args, n + 1, Len(args))
  BY DEF Consume
<1> QED
  BY <1>3, <1>4 DEF WellTyped

\* A switch sets a member to a value of its type.
LEMMA SetNameTyped ==
  ASSUME WellTyped(args), CommonOK(common), SetName
  PROVE  CommonOK(common')
<1> DEFINE s == Head(args)
           x == args[2]
<1>1. CASE UNCHANGED common
  BY <1>1
<1>2. CASE common' = [common EXCEPT
                        ![Member[s]] = x,
                        !.provided = @ \/ s = "i",
                        !.limited = @ \/ s = "f",
                        !.given = IF s = "t" THEN @ \cup {"t"} ELSE @]
  <2>1. /\ s \in {"a", "y"} => x \in Directory
        /\ s \in {"d", "i", "f", "o", "r", "t", "x", "v", "g"} => x \in Name
        /\ s \in {"d", "i", "f", "o", "r", "t", "x", "y", "v", "g", "a"}
    <3>1. args # << >> /\ HasOperand /\ s \in NeedsOperand \ {"e", "l"}
      BY DEF SetName, AtSwitch
    <3> QED
      BY <3>1, OperandTyped DEF NeedsOperand
  <2> HIDE DEF s, x
  <2>2. CASE s \in {"d", "i"}
    <3>1. Member[s] = "data"
      BY <2>2 DEF Member
    <3> QED
      BY <2>1, <2>2, <3>1, <1>2 DEF CommonOK, Members, StyleSheets
  <2>3. CASE s = "f"
    <3>1. Member[s] = "idsFile"
      BY <2>3 DEF Member
    <3> QED
      BY <2>1, <2>3, <3>1, <1>2 DEF CommonOK, Members, StyleSheets
  <2>4. CASE s = "o"
    <3>1. Member[s] = "xmlfile"
      BY <2>4 DEF Member
    <3> QED
      BY <2>1, <2>4, <3>1, <1>2 DEF CommonOK, Members, StyleSheets
  <2>5. CASE s = "r"
    <3>1. Member[s] = "output"
      BY <2>5 DEF Member
    <3> QED
      BY <2>1, <2>5, <3>1, <1>2 DEF CommonOK, Members, StyleSheets
  <2>6. CASE s = "t"
    <3>1. Member[s] = "xsl"
      BY <2>6 DEF Member
    <3> QED
      BY <2>1, <2>6, <3>1, <1>2 DEF CommonOK, Members, StyleSheets
  <2>7. CASE s = "x"
    <3>1. Member[s] = "xslOutput"
      BY <2>7 DEF Member
    <3> QED
      BY <2>1, <2>7, <3>1, <1>2 DEF CommonOK, Members, StyleSheets
  <2>8. CASE s = "v"
    <3>1. Member[s] = "variables"
      BY <2>8 DEF Member
    <3> QED
      BY <2>1, <2>8, <3>1, <1>2 DEF CommonOK, Members, StyleSheets
  <2>9. CASE s = "g"
    <3>1. Member[s] = "directives"
      BY <2>9 DEF Member
    <3> QED
      BY <2>1, <2>9, <3>1, <1>2 DEF CommonOK, Members, StyleSheets
  <2>10. CASE s = "a"
    <3>1. Member[s] = "schema"
      BY <2>10 DEF Member
    <3> QED
      BY <2>1, <2>10, <3>1, <1>2 DEF CommonOK, Members, StyleSheets
  <2>11. CASE s = "y"
    <3>1. Member[s] = "log"
      BY <2>11 DEF Member
    <3> QED
      BY <2>1, <2>11, <3>1, <1>2 DEF CommonOK, Members, StyleSheets
  <2> QED
    BY <2>1, <2>2, <2>3, <2>4, <2>5, <2>6, <2>7, <2>8, <2>9, <2>10, <2>11
<1> QED
  BY <1>1, <1>2 DEF SetName, Usage

\* Whatever an argument is, it leaves a typed line and typed members.
LEMMA ReadArgumentTyped ==
  ASSUME WellTyped(args), CommonOK(common), ReadArgument
  PROVE  WellTyped(args)' /\ CommonOK(common')
<1>1. ASSUME UNCHANGED args PROVE WellTyped(args)'
  BY <1>1 DEF WellTyped
<1>2. CASE Digest
  <2>1. args # << >>
    BY <1>2 DEF Digest
  <2>2. CASE Consume(1) /\ common' = [common EXCEPT !.md5 = TRUE]
    BY <2>1, <2>2, ConsumeTyped DEF CommonOK, Members
  <2> QED
    BY <1>1, <1>2, <2>2 DEF Digest, Usage
<1>3. CASE WithoutItsOperand
  BY <1>1, <1>3 DEF WithoutItsOperand, Usage
<1>4. CASE SetName
  <2>1. args # << >> /\ HasOperand
    BY <1>4 DEF SetName, AtSwitch
  <2>2. UNCHANGED args \/ Consume(2)
    BY <1>4 DEF SetName, Usage
  <2> QED
    BY <1>1, <1>4, <2>1, <2>2, ConsumeTyped, SetNameTyped
<1>5. CASE SetText
  <2>1. args # << >> /\ HasOperand /\ Consume(2)
        /\ common' = [common EXCEPT !.limited = @ \/ Head(args) = "e"]
    BY <1>5 DEF SetText, AtSwitch
  <2>2. CommonOK(common')
    BY <2>1 DEF CommonOK, Members
  <2> QED
    BY <2>1, <2>2, ConsumeTyped
<1>6. CASE SetStylesheet
  <2> DEFINE s == Head(args)
  <2>1. /\ args # << >> /\ HasOperand /\ s \in MayHaveOperand
        /\ \/ UNCHANGED <<args, common>>
           \/ /\ Consume(2)
              /\ common' = [common EXCEPT !.stylesheet[s] = args[2],
                                          !.validate = @ \cup {s},
                                          !.given = @ \cup {s}]
    BY <1>6 DEF SetStylesheet, AtSwitch, Usage
  <2>2. args[2] \in Name /\ s \in StyleSheets
    BY <2>1, OperandTyped DEF MayHaveOperand, StyleSheets
  <2> HIDE DEF s
  <2>3. CASE UNCHANGED <<args, common>>
    BY <1>1, <2>3
  <2>4. CASE /\ Consume(2)
             /\ common' = [common EXCEPT !.stylesheet[s] = args[2],
                                         !.validate = @ \cup {s},
                                         !.given = @ \cup {s}]
    <3> DEFINE sheets == [common.stylesheet EXCEPT ![s] = args[2]]
    <3>1. sheets \in [StyleSheets -> Name]
      BY <2>2 DEF CommonOK
    <3>2. common' = [common EXCEPT !.stylesheet = sheets, !.validate = @ \cup {s},
                                   !.given = @ \cup {s}]
      BY <2>4
    <3> HIDE DEF sheets
    <3>3. CommonOK(common')
      BY <2>1, <2>2, <3>1, <3>2 DEF CommonOK, Members
    <3> QED
      BY <2>1, <2>4, <3>3, ConsumeTyped
  <2> QED
    BY <2>1, <2>3, <2>4
<1>7. CASE SetFlag
  <2>1. args # << >> /\ Consume(1)
    BY <1>7 DEF SetFlag, AtSwitch
  <2>2. CommonOK(common')
    BY <1>7 DEF SetFlag, CommonOK, Members
  <2> QED
    BY <2>1, <2>2, ConsumeTyped
<1>8. CASE Help
  BY <1>1, <1>8 DEF Help, Usage
<1> QED
  BY <1>2, <1>3, <1>4, <1>5, <1>6, <1>7, <1>8 DEF ReadArgument

\* Style sheets that were not given are taken from the directory of schemas.
LEMMA WithSchemaTyped ==
  ASSUME CommonOK(common)
  PROVE  CommonOK(WithSchema(common))
<1>1. SchemaFile[common.schema] \in [StyleSheets -> Name]
  BY FilesAssumption DEF CommonOK, Members, StyleSheets
<1>2. [s \in DOMAIN common.stylesheet |-> IF s \in common.given THEN common.stylesheet[s]
                                          ELSE SchemaFile[common.schema][s]]
        \in [StyleSheets -> Name]
  BY <1>1 DEF CommonOK, Members
<1>3. SchemaFile[common.schema].t \in Name
  BY <1>1 DEF StyleSheets
<1> QED
  BY <1>2, <1>3 DEF WithSchema, CommonOK, Members

\* The static members have values of their types before main begins.
LEMMA DefaultsTyped == CommonOK(CommonDefaults)
<1>1. SchemaFile[Defaults.schema] \in [StyleSheets -> Name]
  BY FilesAssumption DEF StyleSheets
<1>2. SchemaFile[Defaults.schema].t \in Name
  BY <1>1 DEF StyleSheets
<1> QED
  BY <1>1, <1>2, FilesAssumption DEF CommonDefaults, CommonOK, Members

-----------------------------------------------------------------------------
(* The order of the phases.                                                   *)

\* What each of the phases is, by its number.
LEMMA PhaseNames ==
  /\ DOMAIN Try = 1..12
  /\ Try[1] = "definitions" /\ Try[2] = "directives" /\ Try[3] = "validate c"
  /\ Try[4] = "collect" /\ Try[5] = "save data" /\ Try[6] = "validate j"
  /\ Try[7] = "read data" /\ Try[8] = "analyze" /\ Try[9] = "apply"
  /\ Try[10] = "save results" /\ Try[11] = "validate k" /\ Try[12] = "transform"
BY DEF Try

\* A phase has one place in the order, and Position finds it.
LEMMA Positions ==
  /\ DOMAIN Try = 1..12
  /\ \A i, j \in 1..12 : Try[i] = Try[j] => i = j
  /\ \A i \in 1..12 : Position(Try[i]) = i
<1>1. DOMAIN Try = 1..12
  BY PhaseNames
<1>2. \A i, j \in 1..12 : Try[i] = Try[j] => i = j
  <2> SUFFICES ASSUME NEW i \in 1..12, NEW j \in 1..12, Try[i] = Try[j]
               PROVE  i = j
    OBVIOUS
  <2>1. i \in {1, 2, 3, 4, 5, 6, 7, 8, 9, 10, 11, 12} /\ j \in {1, 2, 3, 4, 5, 6, 7, 8, 9, 10, 11, 12}
    OBVIOUS
  <2> USE <2>1, PhaseNames
  <2>c1. CASE i = 1 BY <2>c1
  <2>c2. CASE i = 2 BY <2>c2
  <2>c3. CASE i = 3 BY <2>c3
  <2>c4. CASE i = 4 BY <2>c4
  <2>c5. CASE i = 5 BY <2>c5
  <2>c6. CASE i = 6 BY <2>c6
  <2>c7. CASE i = 7 BY <2>c7
  <2>c8. CASE i = 8 BY <2>c8
  <2>c9. CASE i = 9 BY <2>c9
  <2>c10. CASE i = 10 BY <2>c10
  <2>c11. CASE i = 11 BY <2>c11
  <2>c12. CASE i = 12 BY <2>c12
  <2> QED
    BY <2>c1, <2>c2, <2>c3, <2>c4, <2>c5, <2>c6, <2>c7, <2>c8, <2>c9, <2>c10, <2>c11, <2>c12
<1>3. ASSUME NEW i \in 1..12 PROVE Position(Try[i]) = i
  <2>1. \E j \in DOMAIN Try : Try[j] = Try[i]
    BY <1>1
  <2>2. Position(Try[i]) \in DOMAIN Try /\ Try[Position(Try[i])] = Try[i]
    BY <2>1 DEF Position
  <2> QED
    BY <2>2, <1>1, <1>2
<1> QED
  BY <1>1, <1>2, <1>3

\* The places of the phases that apply the directives and the style sheet.
LEMMA LastPlaces ==
  Position("apply") = 9 /\ Position("transform") = 12
<1>1. Position(Try[9]) = 9 /\ Position(Try[12]) = 12
  <2>1. 9 \in 1..12 /\ 12 \in 1..12
    OBVIOUS
  <2> QED
    BY <2>1, Positions
<1>2. Try[9] = "apply" /\ Try[12] = "transform"
  BY PhaseNames
<1> QED
  BY <1>1, <1>2

\* The phases by their names.
LEMMA PhasesAre ==
  Phases = {"definitions", "directives", "validate c", "collect", "save data",
            "validate j", "read data", "analyze", "apply", "save results",
            "validate k", "transform"}
<1> DEFINE Names == {"definitions", "directives", "validate c", "collect", "save data",
                     "validate j", "read data", "analyze", "apply", "save results",
                     "validate k", "transform"}
<1>1. ASSUME NEW i \in 1..12 PROVE Try[i] \in Names
  <2>1. i \in {1, 2, 3, 4, 5, 6, 7, 8, 9, 10, 11, 12}
    OBVIOUS
  <2> QED
    BY <2>1, PhaseNames
<1>2. Names \subseteq Phases
  <2>1. \A i \in 1..12 : Try[i] \in Phases
    BY PhaseNames DEF Phases
  <2>2. /\ Try[1] \in Phases /\ Try[2] \in Phases /\ Try[3] \in Phases /\ Try[4] \in Phases
        /\ Try[5] \in Phases /\ Try[6] \in Phases /\ Try[7] \in Phases /\ Try[8] \in Phases
        /\ Try[9] \in Phases /\ Try[10] \in Phases /\ Try[11] \in Phases /\ Try[12] \in Phases
    BY <2>1
  <2> QED
    BY ZenonT(40), <2>2, PhaseNames
<1> HIDE DEF Names
<1>3. Phases \subseteq Names
  BY <1>1, PhaseNames DEF Phases
<1> QED
  BY <1>2, <1>3 DEF Names

\* The phases of the validations.
LEMMA ValidationPhases ==
  /\ ValidationOf["c"] = "validate c" /\ ValidationOf["j"] = "validate j"
  /\ ValidationOf["k"] = "validate k"
  /\ \A s \in MayHaveOperand : ValidationOf[s] \in {"validate c", "validate j", "validate k"}
  /\ \A s \in MayHaveOperand : ValidationOf[s] \in Phases
  /\ \A s, q \in MayHaveOperand : ValidationOf[s] = ValidationOf[q] => s = q
<1>1. ValidationOf["c"] = "validate c" /\ ValidationOf["j"] = "validate j"
      /\ ValidationOf["k"] = "validate k"
  BY DEF ValidationOf
<1> QED
  BY <1>1, PhasesAre DEF MayHaveOperand

\* When main goes on, what comes to lie behind is the phase it has finished and
\* others that were not wanted.
LEMMA NextPhase ==
  ASSUME pc \in Phases, pc' = Next(pc), UNCHANGED common
  PROVE  /\ pc' \in Phases \cup {"footer"}
         /\ pc' \in Phases => Wanted(pc')
         /\ \A p \in Phases : Past(p)' /\ Wanted(p) => Past(p) \/ p = pc
<1>1. PICK i \in 1..12 : pc = Try[i] /\ Position(pc) = i
  BY Positions DEF Phases
<1> DEFINE later == {k \in DOMAIN Try : k > Position(pc) /\ Wanted(Try[k])}
<1>2. later = {k \in 1..12 : k > i /\ Wanted(Try[k])}
  BY <1>1, Positions
<1>3. ASSUME NEW k \in 1..12, Past(Try[k])
      PROVE  pc = "footer" \/ k < i
  BY <1>1, <1>3, Positions DEF Past
<1>4. ASSUME NEW k \in 1..12, ~Past(Try[k])
      PROVE  k >= i
  BY <1>1, <1>4, Positions DEF Past
<1>5. CASE later = {}
  <2>1. pc' = "footer"
    BY <1>5 DEF Next
  <2>2. "footer" \notin Phases
    BY PhasesAre
  <2>3. ASSUME NEW p \in Phases, Wanted(p) PROVE Past(p) \/ p = pc
    <3>1. PICK k \in 1..12 : p = Try[k]
      BY Positions DEF Phases
    <3>2. ~(k > i)
      BY <1>2, <1>5, <2>3, <3>1
    <3> QED
      BY <1>1, <1>4, <3>1, <3>2
  <2> QED
    BY <2>1, <2>2, <2>3
<1>6. CASE later # {}
  <2>1. PICK n \in later : \A m \in later : n <= m
    <3>1. later \subseteq Nat
      BY <1>2
    <3> HIDE DEF later
    <3> QED
      BY <3>1, <1>6, LeastNatural
  <2> DEFINE c == CHOOSE k \in later : \A j \in later : k <= j
  <2>2. c \in later /\ \A m \in later : c <= m
    <3> HIDE DEF later
    <3> QED
      BY <2>1
  <2>3. pc' = Try[c]
    BY <1>6 DEF Next
  <2> HIDE DEF c
  <2>4. c \in 1..12 /\ c > i /\ Wanted(Try[c])
    BY <1>2, <2>2
  <2>5. pc' \in Phases
    BY <2>3, <2>4, Positions DEF Phases
  <2>6. pc' # "footer"
    BY <2>5, PhasesAre
  <2>7. ASSUME NEW p \in Phases, Past(p)', Wanted(p) PROVE Past(p) \/ p = pc
    <3>1. PICK k \in 1..12 : p = Try[k] /\ Position(p) = k
      BY Positions DEF Phases
    <3>2. k < c
      BY <2>3, <2>4, <2>6, <2>7, <3>1, Positions DEF Past
    <3>3. ~(k > i)
      BY <1>2, <2>2, <2>4, <2>7, <3>1, <3>2
    <3> QED
      BY <1>1, <1>4, <3>1, <3>3
  <2> QED
    BY <2>3, <2>4, <2>5, <2>7
<1> QED
  BY <1>5, <1>6

\* Nothing lies behind main outside of the phases.
LEMMA NothingPast ==
  ASSUME pc \notin Phases \cup {"footer"}
  PROVE  \A p : ~Past(p)
BY DEF Past, Phases

\* Whether a phase is wanted is in the command line.
LEMMA SameWanted ==
  ASSUME UNCHANGED common
  PROVE  \A p : Wanted(p)' = Wanted(p)
BY DEF Wanted

\* Which phases the members ask for (Main.cpp: the conditions around each part).
LEMMA WantedIs ==
  /\ \A p \in {"definitions", "directives", "analyze", "apply", "save results"} : Wanted(p)
  /\ Wanted("save data") <=> ~common.provided
  /\ Wanted("validate c") <=> "c" \in common.validate
  /\ Wanted("validate j") <=> ~common.provided /\ "j" \in common.validate
  /\ Wanted("validate k") <=> "k" \in common.validate
BY DEF Wanted

-----------------------------------------------------------------------------
(* Names, files and what is written to them.                                  *)

\* The names that CheckCommandLine compares are names.
LEMMA NamesTyped ==
  ASSUME NEW c, CommonOK(c)
  PROVE  InputNames(c) \subseteq Name \cup {NoName} /\ OutputNames(c) \subseteq Name
<1>1. c.stylesheet \in [StyleSheets -> Name]
  BY DEF CommonOK
<1>2. \A s \in c.validate \cap {"c"} : c.stylesheet[s] \in Name
  BY <1>1 DEF StyleSheets
<1>3. /\ c.xmlfile \in Name /\ c.variables \in Name /\ c.xsl \in Name /\ c.directives \in Name
      /\ c.data \in Name /\ c.output \in Name /\ c.xslOutput \in Name
      /\ c.idsFile \in Name \cup {NoName}
  BY DEF CommonOK
<1>4. LogFile[c.log] \in Name
  BY FilesAssumption DEF CommonOK
<1> QED
  BY <1>2, <1>3, <1>4 DEF InputNames, OutputNames

\* As long as nothing has been written, a command line that passes the check
\* has no input under the real path of an output.
LEMMA CheckedSeparate ==
  ASSUME NEW c, CommonOK(c), disk = Initially, ~Overwrites(c),
         NEW n \in InputNames(c) \ {NoName}, NEW m \in OutputNames(c),
         Initially[Realpath[n]] = "input"
  PROVE  Realpath[m] # Realpath[n]
<1> SUFFICES ASSUME Realpath[m] = Realpath[n] PROVE FALSE
  OBVIOUS
<1>1. n \in Name /\ m \in Name /\ m # NoName
  BY NamesTyped, FilesAssumption
<1>2. Exists(n) /\ Exists(m)
  BY DEF Exists
<1>3. GetFullPath(n) = Realpath[n] /\ GetFullPath(m) = Realpath[n]
  BY <1>1, <1>2 DEF GetFullPath
<1> QED
  BY <1>3 DEF Overwrites

\* An output that is written leaves the inputs as they were.
LEMMA WritingOutput ==
  ASSUME MainTypeOK, FilesInv, pc \notin {"arguments", "stopped"},
         NEW name \in OutputNames(common), NEW what \in FileContents, Written(name, what),
         UNCHANGED common, pc' \notin {"arguments", "log"}
  PROVE  FilesInv' /\ disk' \in [File -> FileContents]
<1>1. disk' \in [File -> FileContents]
  BY DEF MainTypeOK, Written
<1>2. Separate /\ Separate'
  BY DEF FilesInv, Separate, InputNames, OutputNames
<1>3. ASSUME NEW f \in File, disk'[f] # Initially[f]
      PROVE  f \in Files(OutputNames(common))
  <2>1. CASE f = Realpath[name]
    BY <2>1 DEF Files
  <2>2. CASE f # Realpath[name]
    <3>1. disk[f] # Initially[f]
      BY <1>3, <2>2 DEF Written, MainTypeOK
    <3> QED
      BY <3>1 DEF FilesInv
  <2> QED
    BY <2>1, <2>2
<1>4. Files(OutputNames(common))' = Files(OutputNames(common))
  BY DEF Files, OutputNames
<1> QED
  BY <1>1, <1>2, <1>3, <1>4 DEF FilesInv

\* Steps that write nothing.
LEMMA WritingNothing ==
  ASSUME FilesInv, UNCHANGED <<disk, common>>, pc' \notin {"arguments", "log"},
         pc \notin {"arguments", "stopped"}
  PROVE  FilesInv'
BY DEF FilesInv, Separate, InputNames, OutputNames, Files

\* In particular outputs with different files do not overwrite one another.
LEMMA DifferentOutputs ==
  ASSUME CommonOK(common), OutputsDiffer
  PROVE  /\ Realpath[common.output] # Realpath[common.xslOutput]
         /\ ~common.provided => /\ Realpath[common.data] # Realpath[common.output]
                                /\ Realpath[common.data] # Realpath[common.xslOutput]
<1> DEFINE o == Realpath[common.output]
           x == Realpath[common.xslOutput]
           l == Realpath[LogFile[common.log]]
           d == Realpath[common.data]
<1>0. \A a, b, e : Cardinality({a, b, e}) <= 3 /\ Cardinality({a, b}) <= 2
  <2> TAKE a, b, e
  <2>1. IsFiniteSet({a}) /\ Cardinality({a}) = 1
    BY FS_Singleton
  <2>2. IsFiniteSet({a, b}) /\ Cardinality({a, b}) \in {1, 2}
    <3>1. {a} \cup {b} = {a, b}
      OBVIOUS
    <3> QED
      BY <2>1, <3>1, FS_AddElement
  <2>3. Cardinality({a, b, e}) \in {1, 2, 3}
    <3>1. {a, b} \cup {e} = {a, b, e}
      OBVIOUS
    <3> QED
      BY <2>2, <3>1, FS_AddElement
  <2> QED
    BY <2>2, <2>3
<1>1. CASE common.provided
  <2>1. Files(OutputNames(common)) = {o, x, l} /\ {common.provided} \cap {TRUE} = {TRUE}
    BY <1>1 DEF Files, OutputNames, CommonOK
  <2>0. Cardinality({TRUE}) = 1
    BY FS_Singleton
  <2>2. Cardinality({o, x, l}) = 3
    <3>1. Cardinality(Files(OutputNames(common))) = 4 - Cardinality({common.provided} \cap {TRUE})
      BY DEF OutputsDiffer
    <3>2. Cardinality(Files(OutputNames(common))) = 4 - 1
      BY <2>0, <2>1, <3>1, Zenon
    <3> HIDE DEF o, x, l
    <3> QED
      BY <2>1, <3>2
  <2>3. o # x
    <3> SUFFICES ASSUME o = x PROVE FALSE
      OBVIOUS
    <3>1. {o, x, l} = {o, l}
      OBVIOUS
    <3> HIDE DEF o, x, l
    <3>2. Cardinality({o, l}) <= 2
      BY <1>0
    <3> QED
      BY <3>1, <3>2, <2>2
  <2> QED
    BY <2>3, <1>1
<1>2. CASE ~common.provided
  <2>1. Files(OutputNames(common)) = {o, x, l, d} /\ {common.provided} \cap {TRUE} = {}
    BY <1>2 DEF Files, OutputNames
  <2>2. Cardinality({o, x, l, d}) = 4
    BY <2>1, FS_EmptySet DEF OutputsDiffer
  <2>3. o # x /\ d # o /\ d # x
    <3>1. /\ o = x => {o, x, l, d} = {o, l, d}
          /\ d = o => {o, x, l, d} = {o, x, l}
          /\ d = x => {o, x, l, d} = {o, x, l}
      OBVIOUS
    <3> HIDE DEF o, x, l, d
    <3>2. Cardinality({o, l, d}) <= 3 /\ Cardinality({o, x, l}) <= 3
      BY <1>0
    <3>3. ~(4 <= 3)
      OBVIOUS
    <3>4. {o, x, l, d} # {o, l, d} /\ {o, x, l, d} # {o, x, l}
      BY <2>2, <3>2, <3>3
    <3> QED
      BY <3>1, <3>4
  <2> QED
    BY <2>3
<1> QED
  BY <1>1, <1>2

-----------------------------------------------------------------------------
(* The steps of main.                                                         *)

\* The program starts before its first argument, with the disk as it is.
LEMMA MainInit ==
  ASSUME Init
  PROVE  MainInv
<1>1. WellTyped(args)
  BY InputsAssumption DEF Init
<1>2. disk = Initially /\ Initially \in [File -> FileContents]
  <2>1. Initially \in [File -> {"absent", "input"}]
    BY FilesAssumption
  <2> QED
    BY <2>1 DEF Init, FileContents
<1>3. MainTypeOK
  BY <1>1, <1>2, DefaultsTyped DEF Init, MainTypeOK
<1>4. pc = "arguments" /\ exit = "running" /\ pc \notin Phases \cup {"footer"}
  BY PhasesAre DEF Init
<1>5. "ids" \notin unseen
  BY DEF Init
<1>6. \A p : ~Past(p)
  BY <1>4, NothingPast
<1>7. PhasesInv
  BY <1>4, <1>5, <1>6 DEF PhasesInv
<1> QED
  BY <1>2, <1>3, <1>4, <1>7 DEF MainInv, FilesInv, SuccessMeansResults

\* Inside main's try block there has been no warning.
LEMMA NoWarning ==
  ASSUME MainInv, pc \in Phases \/ pc = "verify" \/ pc = "log" \/ pc = "arguments"
  PROVE  "ids" \notin unseen
BY PhasesAre DEF MainInv, PhasesInv

\* The arguments are read and checked without touching the disk; past the check
\* no output is at the place of an input.
LEMMA ArgumentsStep ==
  ASSUME MainInv, Arguments
  PROVE  MainInv'
<1>1. MainTypeOK /\ FilesInv /\ pc = "arguments" /\ exit = "running" /\ disk = Initially
  BY DEF MainInv, Arguments, FilesInv, PhasesInv
<1>2. UNCHANGED <<disk, verified, validated, unseen>>
      /\ pc' = IF exit' # "running" THEN "stopped" ELSE IF args = << >> THEN "log" ELSE "arguments"
  BY DEF Arguments, Goto
<1>3. CASE ReadArgument
  <2>1. WellTyped(args)' /\ CommonOK(common')
    BY <1>1, <1>3, ReadArgumentTyped DEF MainTypeOK
  <2>2. args # << >> /\ exit' \in {"running", "success", "failure"}
        /\ (exit' = "success" => UNCHANGED args)
    BY <1>1, <1>3 DEF ReadArgument, Digest, WithoutItsOperand, SetName, SetText, SetStylesheet,
       SetFlag, Help, AtSwitch, Usage, Consume
  <2>3. MainTypeOK'
    BY <1>1, <1>2, <2>1, <2>2 DEF MainTypeOK
  <2>4. pc' \in {"stopped", "arguments"} /\ (pc' # "stopped" => exit' = "running")
    BY <1>2, <2>2
  <2>5. FilesInv'
    BY <1>1, <1>2, <2>4 DEF FilesInv
  <2>6. PhasesInv'
    <3>1. pc' \notin Phases \cup {"footer"} /\ Phases' = Phases
      BY <2>4, PhasesAre DEF Phases
    <3>2. \A p : ~Past(p)'
      BY <3>1 DEF Past, Phases
    <3>3. "ids" \notin unseen'
      BY <1>1, <1>2, NoWarning
    <3> QED
      BY <2>4, <3>1, <3>2, <3>3 DEF PhasesInv
  <2>7. SuccessMeansResults'
    BY <2>2 DEF SuccessMeansResults
  <2> QED
    BY <2>3, <2>5, <2>6, <2>7 DEF MainInv
<1>4. CASE CheckCommandLine
  <2>1. args = << >> /\ args' = args /\ common' = WithSchema(common)
        /\ exit' \in {"running", "failure"} /\ (exit' = "running" => ~Overwrites(common'))
    BY <1>4 DEF CheckCommandLine
  <2>2. CommonOK(common')
    BY <1>1, <2>1, WithSchemaTyped DEF MainTypeOK
  <2>3. WellTyped(args)'
    BY <1>1, <2>1 DEF MainTypeOK, WellTyped
  <2>4. MainTypeOK'
    BY <1>1, <1>2, <2>1, <2>2, <2>3 DEF MainTypeOK
  <2>5. pc' \in {"stopped", "log"} /\ (pc' = "log" => exit' = "running")
    BY <1>2, <2>1
  <2>6. exit' = "running" => Separate'
    BY <1>1, <2>1, <2>2, CheckedSeparate DEF Separate
  <2>7. FilesInv'
    BY <1>1, <1>2, <2>5, <2>6 DEF FilesInv
  <2>8. PhasesInv'
    <3>1. pc' \notin Phases \cup {"footer"} /\ Phases' = Phases
      BY <2>5, PhasesAre DEF Phases
    <3>2. \A p : ~Past(p)'
      BY <3>1 DEF Past, Phases
    <3>3. "ids" \notin unseen'
      BY <1>1, <1>2, NoWarning
    <3> QED
      BY <2>5, <3>1, <3>2, <3>3 DEF PhasesInv
  <2>9. SuccessMeansResults'
    BY <2>1 DEF SuccessMeansResults
  <2> QED
    BY <2>4, <2>7, <2>8, <2>9 DEF MainInv
<1> QED
  BY <1>3, <1>4 DEF Arguments

\* The program ends without success.
LEMMA StopStep ==
  ASSUME MainInv, pc \notin {"arguments", "stopped"}, UNCHANGED <<args, common>>,
         pc' = "stopped", exit' \in {"failure", "terminated"} \/ (exit' = "success" /\ common.generate),
         disk' = disk \/ \E name \in OutputNames(common) : Written(name, "partial"),
         verified' = verified, UNCHANGED <<validated, unseen>>
  PROVE  MainInv'
<1>1. MainTypeOK /\ FilesInv
  BY DEF MainInv
<1>2. FilesInv' /\ disk' \in [File -> FileContents]
  <2>1. CASE UNCHANGED disk
    BY <2>1, <1>1, WritingNothing DEF MainTypeOK
  <2>2. CASE \E name \in OutputNames(common) : Written(name, "partial")
    <3>1. "partial" \in FileContents
      BY DEF FileContents
    <3> QED
      BY <2>2, <3>1, <1>1, WritingOutput
  <2> QED
    BY <2>1, <2>2
<1>3. MainTypeOK'
  BY <1>1, <1>2 DEF MainTypeOK, WellTyped
<1>4. "stopped" \notin Phases \cup {"footer"} /\ Phases' = Phases
  BY PhasesAre DEF Phases
<1>5. \A p : ~Past(p)'
  BY <1>4 DEF Past, Phases
<1>6. PhasesInv'
  BY <1>4, <1>5 DEF PhasesInv
<1>7. SuccessMeansResults'
  BY DEF SuccessMeansResults
<1> QED
  BY <1>2, <1>3, <1>6, <1>7 DEF MainInv

\* The log is the first thing that is written, in a directory and not at the
\* place of an input.
LEMMA InitLogStep ==
  ASSUME MainInv, InitLog
  PROVE  MainInv'
<1>1. MainTypeOK /\ FilesInv /\ pc = "log" /\ exit = "running"
  BY DEF MainInv, InitLog, PhasesInv
<1>2. UNCHANGED <<args, common, verified, validated, unseen>>
  BY DEF InitLog
<1>3. CASE Written(LogFile[common.log], "log") /\ Goto("verify") /\ UNCHANGED exit
  <2>1. LogFile[common.log] \in OutputNames(common) /\ "log" \in FileContents
    BY DEF OutputNames, FileContents
  <2>2. FilesInv' /\ disk' \in [File -> FileContents]
    BY <1>1, <1>2, <1>3, <2>1, WritingOutput DEF Goto
  <2>3. MainTypeOK'
    BY <1>1, <1>2, <1>3, <2>2 DEF MainTypeOK, WellTyped, Goto
  <2>4. pc' = "verify" /\ "verify" \notin Phases \cup {"footer"} /\ Phases' = Phases
    BY <1>3, PhasesAre DEF Phases, Goto
  <2>5. \A p : ~Past(p)'
    BY <2>4 DEF Past, Phases
  <2>6. PhasesInv' /\ SuccessMeansResults'
    BY <1>1, <1>2, <1>3, <2>4, <2>5 DEF MainInv, PhasesInv, SuccessMeansResults
  <2> QED
    BY <2>2, <2>3, <2>6 DEF MainInv
<1>4. CASE Stop("failure") /\ UNCHANGED disk
  <2>1. pc' = "stopped" /\ exit' = "failure" /\ UNCHANGED disk
        /\ verified' = verified /\ UNCHANGED <<validated, unseen, args, common>>
    BY <1>2, <1>4 DEF Stop, Goto
  <2>2. pc \notin {"arguments", "stopped"}
    BY <1>1
  <2>3. exit' \in {"failure", "terminated"}
    BY <2>1
  <2> QED
    BY <2>1, <2>2, <2>3, StopStep
<1> QED
  BY <1>3, <1>4 DEF InitLog

\* The digest is printed and the program ends.
LEMMA GenerateStep ==
  ASSUME MainInv, GenerateMD5
  PROVE  MainInv'
BY StopStep DEF GenerateMD5, Stop, Goto

\* Main goes past the digest only when it is right or not to be verified.
LEMMA VerifyStep ==
  ASSUME MainInv, Verify
  PROVE  MainInv'
<1>1. MainTypeOK /\ FilesInv /\ pc = "verify" /\ exit = "running" /\ ~common.generate
  BY DEF MainInv, Verify, PhasesInv
<1>2. UNCHANGED <<args, common, disk, validated, unseen>>
  BY DEF Verify
<1>3. CASE verified' = common.verify /\ Goto("definitions") /\ UNCHANGED exit
  <2>1. pc' = "definitions" /\ pc' \in Phases /\ Try[1] = pc'
    BY <1>3, PhasesAre, PhaseNames DEF Goto
  <2>2. FilesInv'
    BY <1>1, <1>2, <2>1, WritingNothing
  <2>3. MainTypeOK'
    BY <1>1, <1>2, <1>3, <2>1 DEF MainTypeOK, WellTyped, CommonOK, Phases
  <2>4. \A p \in Phases : ~Past(p)'
    BY <2>1, Positions DEF Past, Phases
  <2>5. Wanted(pc)'
    BY <2>1 DEF Wanted
  <2>6. \A s \in MayHaveOperand : ValidationOf[s] \in Phases
    BY ValidationPhases
  <2>7. "apply" \in Phases /\ "save data" \in Phases /\ "save results" \in Phases
    BY PhasesAre
  <2>8. common'.validate \subseteq MayHaveOperand
    BY <2>3 DEF MainTypeOK, CommonOK
  <2>10. "ids" \notin unseen'
    BY <1>1, <1>2, NoWarning DEF Verify
  <2>9. PhasesInv' /\ SuccessMeansResults'
    BY <1>1, <1>2, <1>3, <2>1, <2>4, <2>5, <2>6, <2>7, <2>8, <2>10 DEF PhasesInv, SuccessMeansResults
  <2> QED
    BY <2>2, <2>3, <2>9 DEF MainInv
<1>4. CASE Stop("failure") /\ UNCHANGED verified
  <2>1. pc' = "stopped" /\ exit' = "failure" /\ UNCHANGED disk
        /\ verified' = verified /\ UNCHANGED <<validated, unseen, args, common>>
    BY <1>2, <1>4 DEF Stop, Goto
  <2>2. pc \notin {"arguments", "stopped"}
    BY <1>1
  <2>3. exit' \in {"failure", "terminated"}
    BY <2>1
  <2> QED
    BY <2>1, <2>2, <2>3, StopStep
<1> QED
  BY <1>3, <1>4 DEF Verify

\* Main goes on to the next phase that is wanted, and the phase it leaves is done.
LEMMA AdvanceStep ==
  ASSUME MainInv, pc \in Phases, pc' = Next(pc),
         UNCHANGED <<args, common, exit, verified>>,
         FilesInv', MainTypeOK',
         phase' = "applied" \/ (phase # "applied" /\ pc # "apply"),
         validated \subseteq validated', unseen \subseteq unseen', "ids" \notin unseen',
         \A s \in MayHaveOperand : ValidationOf[s] = pc => s \in validated' \cup unseen',
         OutputsDiffer /\ ~common.provided
           /\ (pc = "save data" \/ disk[Realpath[common.data]] = "data")
           => disk'[Realpath[common.data]] = "data",
         OutputsDiffer /\ (pc = "save results" \/ disk[Realpath[common.output]] = "results")
           => disk'[Realpath[common.output]] = "results"
  PROVE  MainInv'
<1>1. MainTypeOK /\ PhasesInv /\ exit = "running" /\ ~common.generate /\ verified = common.verify
      /\ pc # "stopped" /\ "ids" \notin unseen
  BY PhasesAre DEF MainInv, PhasesInv
<1>2. /\ pc' \in Phases \cup {"footer"}
      /\ pc' \in Phases => Wanted(pc')
      /\ \A p \in Phases : Past(p)' /\ Wanted(p) => Past(p) \/ p = pc
  BY NextPhase
<1>3. Phases' = Phases /\ (\A p : Wanted(p)' = Wanted(p)) /\ (OutputsDiffer' <=> OutputsDiffer)
  BY SameWanted DEF Phases, OutputsDiffer, Files, OutputNames
<1>4. /\ "apply" \in Phases /\ "save data" \in Phases /\ "save results" \in Phases
      /\ \A s \in MayHaveOperand : ValidationOf[s] \in Phases
  BY ValidationPhases, PhasesAre
<1>5. Past("apply")' => phase' = "applied"
  BY <1>1, <1>2, <1>4, WantedIs DEF PhasesInv
<1>6. ASSUME NEW s \in common.validate, Past(ValidationOf[s])', Wanted(ValidationOf[s])
      PROVE  s \in validated' \cup unseen'
  <2>1. s \in MayHaveOperand
    BY <1>1 DEF MainTypeOK, CommonOK
  <2> QED
    BY <2>1, <1>1, <1>2, <1>4, <1>6 DEF PhasesInv
<1>7. ASSUME OutputsDiffer
      PROVE  /\ Past("save data")' /\ ~common.provided => disk'[Realpath[common.data]] = "data"
             /\ Past("save results")' => disk'[Realpath[common.output]] = "results"
  BY <1>1, <1>2, <1>4, <1>7, WantedIs DEF PhasesInv
<1>8. Wanted(pc)' <=> Wanted(pc')
  BY DEF Wanted
<1>9. PhasesInv'
  BY <1>1, <1>2, <1>3, <1>5, <1>6, <1>7, <1>8 DEF PhasesInv
<1>10. SuccessMeansResults'
  BY <1>1 DEF SuccessMeansResults
<1> QED
  BY <1>9, <1>10 DEF MainInv

\* The phases that write nothing and validate nothing.
LEMMA QuietStep ==
  ASSUME MainInv, pc \in Phases \ {"save data", "save results", "validate c", "validate j",
                                   "validate k"},
         pc' = Next(pc), UNCHANGED <<commandVars, disk, verified, validated, unseen>>,
         phase' = "applied" \/ (phase # "applied" /\ pc # "apply")
  PROVE  MainInv'
<1>1. UNCHANGED <<args, common, exit, disk, verified, validated, unseen>>
  BY DEF commandVars
<1>2. pc \notin {"arguments", "log", "stopped"} /\ pc' \in Phases \cup {"footer"}
      /\ pc' \notin {"arguments", "log"}
  BY <1>1, NextPhase, PhasesAre
<1>3. FilesInv'
  BY <1>1, <1>2, WritingNothing DEF MainInv
<1>4. MainTypeOK'
  BY <1>1, <1>2 DEF MainInv, MainTypeOK, WellTyped, CommonOK, Phases
<1>5. (\A s \in MayHaveOperand : ValidationOf[s] # pc) /\ "ids" \notin unseen
  BY <1>2, ValidationPhases, NoWarning
<1> QED
  BY <1>1, <1>3, <1>4, <1>5, AdvanceStep

\* A validation that succeeds is recorded for the phase it was made in; one that
\* fails ends the program.
LEMMA ValidateStep ==
  ASSUME MainInv, Validate
  PROVE  MainInv'
<1>1. UNCHANGED <<args, common, disk, verified>> /\ UNCHANGED directiveVars
  BY DEF Validate
<1>2. PICK s \in MayHaveOperand :
        /\ pc = ValidationOf[s]
        /\ \/ /\ Goto(Next(pc)) /\ UNCHANGED exit
              /\ \/ validated' = validated \cup {s} /\ UNCHANGED unseen
                 \/ unseen' = unseen \cup {s} /\ UNCHANGED validated
           \/ Stop("failure") /\ UNCHANGED <<validated, unseen>>
  BY DEF Validate
<1>3. /\ pc \in {"validate c", "validate j", "validate k"} /\ pc \in Phases
      /\ \A q \in MayHaveOperand : ValidationOf[q] = pc => q = s
  BY <1>2, ValidationPhases
<1>4. CASE /\ pc' = Next(pc) /\ UNCHANGED exit
           /\ \/ validated' = validated \cup {s} /\ UNCHANGED unseen
              \/ unseen' = unseen \cup {s} /\ UNCHANGED validated
  <2>1. pc' \in Phases \cup {"footer"} /\ pc' \notin {"arguments", "log"}
    BY <1>1, <1>3, <1>4, NextPhase, PhasesAre
  <2>2. FilesInv'
    BY <1>1, <1>3, <2>1, WritingNothing DEF MainInv
  <2>3. MainTypeOK'
    BY <1>1, <1>4, <2>1 DEF MainInv, MainTypeOK, WellTyped, CommonOK, Phases
  <2>4. phase' = phase /\ pc # "apply"
    BY <1>1, <1>3 DEF directiveVars
  <2>5. phase' = "applied" \/ (phase # "applied" /\ pc # "apply")
    BY <2>4
  <2>6. "ids" \notin unseen' /\ validated \subseteq validated' /\ unseen \subseteq unseen'
        /\ s \in validated' \cup unseen'
    BY <1>3, <1>4, NoWarning DEF MayHaveOperand
  <2>7. \A q \in MayHaveOperand : ValidationOf[q] = pc => q \in validated' \cup unseen'
    BY <1>3, <2>6
  <2>8. pc \notin {"save data", "save results"} /\ disk' = disk
    BY <1>1, <1>3
  <2> QED
    BY <1>1, <1>3, <1>4, <2>2, <2>3, <2>5, <2>6, <2>7, <2>8, AdvanceStep
<1>5. CASE Stop("failure") /\ UNCHANGED <<validated, unseen>>
  <2>1. pc' = "stopped" /\ exit' = "failure" /\ disk' = disk
        /\ verified' = verified /\ UNCHANGED <<validated, unseen>> /\ UNCHANGED <<args, common>>
    BY <1>1, <1>5 DEF Stop, Goto
  <2>2. pc \notin {"arguments", "stopped"} /\ exit' \in {"failure", "terminated"}
    BY <1>3, <2>1
  <2> QED
    BY <2>1, <2>2, StopStep
<1> QED
  BY <1>2, <1>4, <1>5 DEF Goto

\* Saving puts the document at its name; whatever was written before under
\* another name stays.
LEMMA SaveStep ==
  ASSUME MainInv, Save
  PROVE  MainInv'
<1>1. UNCHANGED <<args, common, exit, verified, validated, unseen>> /\ phase' = phase
      /\ pc' = Next(pc)
  BY DEF Save, commandVars, directiveVars, Goto
<1>2. pc \in {"save data", "save results"} /\ pc \in Phases /\ Wanted(pc)
  BY PhasesAre DEF Save, MainInv, PhasesInv
<1>3. pc' \in Phases \cup {"footer"} /\ pc' \notin {"arguments", "log"}
  BY <1>1, <1>2, NextPhase, PhasesAre
<1>4. MainTypeOK /\ FilesInv /\ CommonOK(common)
  BY DEF MainInv, MainTypeOK
<1>5. OutputsDiffer /\ ~common.provided => Realpath[common.data] # Realpath[common.output]
  BY <1>4, DifferentOutputs
<1>6. /\ disk \in [File -> FileContents]
      /\ Realpath[common.data] \in File /\ Realpath[common.output] \in File
  BY <1>4 DEF MainTypeOK, CommonOK, File
<1>7. PICK name \in OutputNames(common), what \in {"data", "results"} :
        /\ Written(name, what)
        /\ \/ pc = "save data" /\ name = common.data /\ what = "data" /\ ~common.provided
           \/ pc = "save results" /\ name = common.output /\ what = "results"
  <2>1. CASE pc = "save data" /\ Written(common.data, "data")
    <3>1. ~common.provided
      BY <1>2, <2>1, WantedIs
    <3> QED
      BY <2>1, <3>1 DEF OutputNames
  <2>2. CASE pc = "save results" /\ Written(common.output, "results")
    BY <2>2 DEF OutputNames
  <2> QED
    BY <2>1, <2>2 DEF Save
<1>8. FilesInv' /\ disk' \in [File -> FileContents]
  <2>1. what \in FileContents
    BY DEF FileContents
  <2> QED
    BY <2>1, <1>1, <1>2, <1>3, <1>4, <1>7, WritingOutput
<1>9. MainTypeOK'
  BY <1>1, <1>3, <1>8 DEF MainInv, MainTypeOK, WellTyped, CommonOK, Phases
<1>10. (\A s \in MayHaveOperand : ValidationOf[s] # pc) /\ "ids" \notin unseen
  BY <1>2, ValidationPhases, NoWarning
<1>11. OutputsDiffer /\ ~common.provided
         /\ (pc = "save data" \/ disk[Realpath[common.data]] = "data")
         => disk'[Realpath[common.data]] = "data"
  BY <1>5, <1>6, <1>7 DEF Written
<1>12. OutputsDiffer /\ (pc = "save results" \/ disk[Realpath[common.output]] = "results")
         => disk'[Realpath[common.output]] = "results"
  BY <1>5, <1>6, <1>7 DEF Written
<1> QED
  BY <1>1, <1>2, <1>8, <1>9, <1>10, <1>11, <1>12, AdvanceStep

\* The transformation writes the last output, at another place than the results
\* where the names differ.
LEMMA TransformStep ==
  ASSUME MainInv, Transform
  PROVE  MainInv'
<1>1. pc = "transform" /\ pc' = "footer" /\ phase' = phase
      /\ UNCHANGED <<args, common, exit, verified, validated, unseen>>
  BY DEF Transform, Goto, commandVars, directiveVars
<1>2. pc \in Phases /\ Next(pc) = "footer"
  <2>1. Try[12] = pc /\ Position(pc) = 12
    BY <1>1, PhaseNames, LastPlaces
  <2>2. {i \in DOMAIN Try : i > Position(pc) /\ Wanted(Try[i])} = {}
    BY <2>1, Positions
  <2> QED
    BY <1>1, <2>2, PhasesAre DEF Next
<1>3. MainTypeOK /\ FilesInv /\ CommonOK(common) /\ disk \in [File -> FileContents]
  BY DEF MainInv, MainTypeOK
<1>4. FilesInv' /\ disk' \in [File -> FileContents]
  <2>1. CASE Written(common.xslOutput, "html")
    <3>1. common.xslOutput \in OutputNames(common) /\ "html" \in FileContents
      BY DEF OutputNames, FileContents
    <3> QED
      BY <2>1, <3>1, <1>1, <1>3, WritingOutput
  <2>2. CASE UNCHANGED disk
    BY <2>2, <1>1, <1>3, WritingNothing
  <2> QED
    BY <2>1, <2>2 DEF Transform
<1>5. MainTypeOK'
  BY <1>1, <1>3, <1>4 DEF MainTypeOK, WellTyped, Phases
<1>6. (\A s \in MayHaveOperand : ValidationOf[s] # pc) /\ "ids" \notin unseen
  BY <1>1, <1>2, ValidationPhases, NoWarning
<1>7. Past("apply")
  <2>1. Try[12] = pc /\ Try[9] = "apply" /\ Position("apply") = 9
    BY <1>1, PhaseNames, LastPlaces
  <2> QED
    BY <2>1, Positions DEF Past
<1>8. phase' = "applied"
  BY <1>1, <1>6, <1>7 DEF MainInv, PhasesInv
<1>9. /\ Realpath[common.data] \in File /\ Realpath[common.output] \in File
      /\ OutputsDiffer => Realpath[common.output] # Realpath[common.xslOutput]
      /\ OutputsDiffer /\ ~common.provided => Realpath[common.data] # Realpath[common.xslOutput]
  BY <1>3, DifferentOutputs DEF CommonOK, File
<1>10. UNCHANGED disk \/ Written(common.xslOutput, "html")
  BY DEF Transform
<1>11. OutputsDiffer /\ ~common.provided
         /\ (pc = "save data" \/ disk[Realpath[common.data]] = "data")
         => disk'[Realpath[common.data]] = "data"
  BY <1>1, <1>3, <1>9, <1>10 DEF Written
<1>12. OutputsDiffer /\ (pc = "save results" \/ disk[Realpath[common.output]] = "results")
         => disk'[Realpath[common.output]] = "results"
  BY <1>1, <1>3, <1>9, <1>10 DEF Written
<1> QED
  BY <1>1, <1>2, <1>4, <1>5, <1>6, <1>8, <1>11, <1>12, AdvanceStep

\* A phase that throws leads to the catch clause and to a failing exit.
LEMMA ThrowsStep ==
  ASSUME MainInv, Throws
  PROVE  MainInv'
<1>1. pc' = "stopped" /\ exit' = "failure" /\ UNCHANGED <<args, common>>
      /\ verified' = verified /\ UNCHANGED <<validated, unseen>>
  BY DEF Throws, Stop, Goto
<1>2. pc \in Phases
  BY DEF Throws, Phases
<1>3. pc \notin {"arguments", "stopped"} /\ exit' \in {"failure", "terminated"}
  BY <1>1, <1>2, PhasesAre
<1>4. disk' = disk \/ \E name \in OutputNames(common) : Written(name, "partial")
  <2>1. pc = "save data" => common.data \in OutputNames(common)
    BY <1>2, WantedIs DEF MainInv, PhasesInv, OutputNames
  <2>2. common.output \in OutputNames(common)
    BY DEF OutputNames
  <2> QED
    BY <2>1, <2>2 DEF Throws
<1> QED
  BY <1>1, <1>3, <1>4, StopStep

\* The warning leads to the footer; from then on nothing is said of the phases.
LEMMA WarningStep ==
  ASSUME MainInv, ThrowsWarning
  PROVE  MainInv'
<1>1. pc = "analyze" /\ pc' = "footer" /\ "ids" \in unseen' /\ pc \in Phases
      /\ UNCHANGED <<args, common, exit, disk, verified, validated>>
  BY PhasesAre DEF ThrowsWarning, Goto, commandVars
<1>2. MainTypeOK /\ FilesInv /\ exit = "running" /\ ~common.generate /\ verified = common.verify
  BY <1>1 DEF MainInv, PhasesInv
<1>3. FilesInv'
  BY <1>1, <1>2, WritingNothing
<1>4. unseen' \subseteq MayHaveOperand \cup {"ids"}
  BY <1>2 DEF MainTypeOK, ThrowsWarning
<1>5. MainTypeOK'
  BY <1>1, <1>2, <1>4 DEF MainTypeOK, WellTyped
<1>6. pc' \notin Phases' /\ Phases' = Phases
  BY <1>1, PhasesAre DEF Phases
<1>7. PhasesInv'
  BY <1>1, <1>2, <1>6 DEF PhasesInv
<1>8. SuccessMeansResults'
  BY <1>1, <1>2 DEF SuccessMeansResults
<1> QED
  BY <1>3, <1>5, <1>7, <1>8 DEF MainInv

\* Success is reported only from the end of the last phase that was wanted, or
\* after a warning.
LEMMA FooterStep ==
  ASSUME MainInv, Footer
  PROVE  MainInv'
<1>1. pc = "footer" /\ pc' = "stopped" /\ exit' = "success"
      /\ UNCHANGED <<args, common, disk, verified, validated, unseen>> /\ phase' = phase
  BY DEF Footer, Stop, Goto, directiveVars
<1>2. MainTypeOK /\ FilesInv /\ PhasesInv
  BY DEF MainInv
<1>3. \A p : Past(p)
  BY <1>1 DEF Past
<1>4. FilesInv'
  BY <1>1, <1>2, WritingNothing
<1>5. MainTypeOK'
  BY <1>1, <1>2 DEF MainTypeOK, WellTyped
<1>6. PhasesInv'
  <2>1. "stopped" \notin Phases \cup {"footer"} /\ Phases' = Phases
    BY PhasesAre DEF Phases
  <2>2. \A p : ~Past(p)'
    BY <1>1, <2>1 DEF Past, Phases
  <2> QED
    BY <1>1, <2>1, <2>2 DEF PhasesInv
<1>7. verified = common.verify /\ ("ids" \notin unseen => phase = "applied")
  BY <1>1, <1>2, <1>3 DEF PhasesInv
<1>8. "ids" \notin unseen =>
        common.validate \ (IF common.provided THEN {"j"} ELSE {}) \subseteq validated \cup unseen
  <2> SUFFICES ASSUME "ids" \notin unseen,
                      NEW s \in common.validate \ (IF common.provided THEN {"j"} ELSE {})
               PROVE  s \in validated \cup unseen
    OBVIOUS
  <2>1. s \in MayHaveOperand
    BY <1>2 DEF MainTypeOK, CommonOK
  <2>2. Wanted(ValidationOf[s])
    BY <2>1, ValidationPhases, WantedIs DEF MayHaveOperand
  <2> QED
    BY <2>2, <1>2, <1>3 DEF PhasesInv
<1>9. "ids" \notin unseen /\ OutputsDiffer =>
        /\ disk[Realpath[common.output]] = "results"
        /\ ~common.provided => disk[Realpath[common.data]] = "data"
  BY <1>2, <1>3 DEF PhasesInv
<1>10. OutputsDiffer' <=> OutputsDiffer
  BY <1>1 DEF OutputsDiffer, Files, OutputNames
<1>11. SuccessMeansResults'
  BY <1>1, <1>7, <1>8, <1>9, <1>10 DEF SuccessMeansResults
<1> QED
  BY <1>4, <1>5, <1>6, <1>11 DEF MainInv

\* The recursion goes on, or comes to its end, or is cut short by an exception.
LEMMA ApplyStep ==
  ASSUME MainInv, ApplyDirectives
  PROVE  MainInv'
<1>1. pc = "apply" /\ pc \in Phases /\ UNCHANGED <<args, common, disk, verified, validated, unseen>>
  BY PhasesAre DEF ApplyDirectives
<1>2. CASE phase' = "applied" /\ pc' = Next(pc) /\ UNCHANGED exit
  <2>1. UNCHANGED <<commandVars, disk, verified, validated, unseen>>
    BY <1>1, <1>2 DEF commandVars
  <2> QED
    BY <1>1, <1>2, <2>1, QuietStep
<1>3. CASE Stop("terminated")
  <2>1. pc' = "stopped" /\ exit' \in {"failure", "terminated"} /\ disk' = disk
        /\ verified' = verified /\ UNCHANGED <<validated, unseen>>
    BY <1>1, <1>3 DEF Stop, Goto
  <2>2. pc \notin {"arguments", "stopped"} /\ UNCHANGED <<args, common>>
    BY <1>1
  <2> QED
    BY <2>1, <2>2, StopStep
<1>4. CASE UNCHANGED <<pc, exit>>
  <2>1. FilesInv' /\ MainTypeOK'
    BY <1>1, <1>4, WritingNothing DEF MainInv, MainTypeOK, WellTyped, Phases
  <2>2. Phases' = Phases /\ (\A p : Past(p)' <=> Past(p)) /\ (\A p : Wanted(p)' <=> Wanted(p))
        /\ (OutputsDiffer' <=> OutputsDiffer)
    BY <1>1, <1>4, SameWanted DEF Phases, Past, OutputsDiffer, Files, OutputNames
  <2>3. ~Past("apply")
    <3>1. Try[9] = pc /\ Position("apply") = 9
      BY <1>1, PhaseNames, LastPlaces
    <3>2. \A i \in DOMAIN Try : pc = Try[i] => i = 9
      BY <3>1, Positions
    <3> QED
      BY <1>1, <3>1, <3>2 DEF Past
  <2>4. Wanted(pc)' <=> Wanted(pc)
    BY <1>1, <1>4 DEF Wanted
  <2>5. PhasesInv'
    BY <1>1, <1>4, <2>2, <2>3, <2>4 DEF MainInv, PhasesInv
  <2>6. exit = "running"
    BY <1>1 DEF MainInv, PhasesInv
  <2>7. SuccessMeansResults'
    BY <1>4, <2>6 DEF SuccessMeansResults
  <2> QED
    BY <2>1, <2>5, <2>7 DEF MainInv
<1> QED
  BY <1>2, <1>3, <1>4 DEF ApplyDirectives, Goto

\* The phases that are one step without an effect on files.
LEMMA PhaseStep ==
  ASSUME MainInv, Succeeds \/ ReadDirectives \/ Analyze
  PROVE  MainInv'
<1>1. /\ pc \in {"definitions", "directives", "collect", "read data", "analyze"}
      /\ pc' = Next(pc) /\ UNCHANGED <<commandVars, disk, verified, validated, unseen>>
  BY DEF Succeeds, ReadDirectives, Analyze, Goto
<1>2. phase' = "applied" \/ phase # "applied"
  BY DEF Succeeds, ReadDirectives, Analyze, directiveVars, LoadDirectives, Evaluated
<1>3. pc \in Phases /\ pc # "apply"
      /\ pc \notin {"save data", "save results", "validate c", "validate j", "validate k"}
  BY <1>1, PhasesAre
<1> QED
  BY <1>1, <1>2, <1>3, QuietStep

\* A step that changes nothing of main keeps its invariant.
LEMMA MainStutter ==
  ASSUME MainInv, UNCHANGED vars
  PROVE  MainInv'
<1>1. UNCHANGED <<args, common, exit, disk, pc, verified, validated, unseen>> /\ phase' = phase
  BY DEF vars, commandVars, mainVars, directiveVars
<1>2. MainTypeOK' /\ FilesInv'
  BY <1>1 DEF MainInv, MainTypeOK, WellTyped, Phases, FilesInv, Separate, InputNames,
     OutputNames, Files
<1>3. Phases' = Phases /\ (\A p : Past(p)' <=> Past(p)) /\ (\A p : Wanted(p)' <=> Wanted(p))
      /\ (OutputsDiffer' <=> OutputsDiffer) /\ (Wanted(pc)' <=> Wanted(pc))
  BY <1>1, SameWanted DEF Phases, Past, OutputsDiffer, Files, OutputNames, Wanted
<1>4. PhasesInv' /\ SuccessMeansResults'
  BY <1>1, <1>3 DEF MainInv, PhasesInv, SuccessMeansResults
<1> QED
  BY <1>2, <1>4 DEF MainInv

-----------------------------------------------------------------------------
\* The invariant of main: what has been written is an output, and outputs are no
\* inputs; what is behind main is done (Main.cpp: ProcessCommandLine, main).
THEOREM MainInvariant == Spec => []MainInv
<1>1. ASSUME MainInv, [Step]_vars PROVE MainInv'
  BY <1>1, ArgumentsStep, InitLogStep, GenerateStep, VerifyStep, PhaseStep, ApplyStep, SaveStep,
     ValidateStep, TransformStep, ThrowsStep, WarningStep, FooterStep, MainStutter DEF Step
<1> QED
  BY <1>1, MainInit, PTL DEF Spec

\* Whatever the names, their aliases, the switches and the way the program ends,
\* no input is written over (Main.cpp: ProcessCommandLine).
THEOREM InputsAreSafe == Spec => []InputsSurvive
<1>1. ASSUME MainInv PROVE InputsSurvive
  <2> SUFFICES ASSUME NEW n \in InputNames(common) \ {NoName}, Initially[Realpath[n]] = "input"
               PROVE  disk[Realpath[n]] = "input"
    BY DEF InputsSurvive
  <2>1. n \in Name /\ Realpath[n] \in File
    BY <1>1, NamesTyped DEF MainInv, MainTypeOK, File
  <2>2. CASE disk = Initially
    BY <2>2
  <2>3. CASE /\ Separate
             /\ \A f \in File : disk[f] # Initially[f] => f \in Files(OutputNames(common))
    BY <2>1, <2>3 DEF Separate, Files
  <2> QED
    BY <1>1, <2>2, <2>3 DEF MainInv, FilesInv
<1> QED
  BY <1>1, MainInvariant, PTL

\* Success is reported for complete runs only, but for the two failures the code
\* does not see (Main.cpp: main, SchematronValidate).
THEOREM SuccessIsHonest == Spec => []SuccessMeansResults
<1>1. MainInv => SuccessMeansResults
  BY DEF MainInv
<1> QED
  BY <1>1, MainInvariant, PTL
=============================================================================
