----------------------------- MODULE Directives -----------------------------
(***************************************************************************)
(* Directives: what of a finished results document is reported.  The file  *)
(* with the directives is read before anything is evaluated, and applied   *)
(* to the document before it is written: definitions are marked with the   *)
(* content their directive asks for, the marks spread along references,    *)
(* and what has no mark is removed.                                        *)
(*                                                                         *)
(* The recursion of WalkReferences is the variable frames, its head the    *)
(* active call; the order in which a call comes to the references of one   *)
(* element (that of a map of ids) is left open.                            *)
(***************************************************************************)
EXTENDS OvalEnum, Sequences

CONSTANTS
  Id,         \* ids of the elements of a results document
  Class,      \* classes of definitions
  Sources,    \* the results documents ApplyAll may be given: see Source
  Configs,    \* the files of directives: see Config
  Unreadable  \* no such file, or one that is not valid

Default == "default"        \* CLASS_DEFAULT

\* OvalEnum::ToResultContent
Content == {"full", "thin"}
Directive == [reported : BOOLEAN, content : Content]
DirectiveMap == [ResultEnumeration -> Directive]

\* An xsd:boolean as a file spells it; "" where the attribute is absent.
BooleanText == {"", "true", "false", "1", "0"}
StatedDirective == [reported : BooleanText \ {""}, content : Content]
StatedMap == [ResultEnumeration -> StatedDirective]

ElementType == {"definition", "test", "object", "state", "variable", "item"}

\* The attributes BuildReferences takes for references, and what they refer
\* to.  For objects "object_reference" and "filter" are child elements of a
\* set, whose text is the reference.  The var_ref of a variable_component,
\* which refers to another variable, is not among them.
Refnames ==
  [definition |-> [definition_ref |-> "definition", test_ref |-> "test"],
   test       |-> [state_ref |-> "state", object_ref |-> "object"],
   object     |-> [item_ref |-> "item", state_ref |-> "state",
                   object_ref |-> "object", var_ref |-> "variable",
                   object_reference |-> "object", filter |-> "state"],
   variable   |-> [object_ref |-> "object"],
   state      |-> [var_ref |-> "variable"],
   item       |-> << >>]

Reference == [from : Id, attribute : STRING, to : Id]

\* definitions: those of the results, in their order; none when the document
\* evaluated has no definitions.  criteria: the definitions that have criteria,
\* which a deprecated one need not.
Source ==
  [definitions : Seq(Id),
   kind        : [Id -> ElementType],
   class       : [Id -> Class],
   result      : [Id -> ResultEnumeration],
   criteria    : SUBSET Id,
   references  : SUBSET Reference]

\* The schema's keys: an attribute refers to an element of its type, the one of
\* a variable_component to another variable, and the results have each definition.
WellFormed(s) ==
  /\ s \in Source
  /\ \A r \in s.references : r.attribute \notin DOMAIN Refnames[s.kind[r.from]] =>
       s.kind[r.from] = "variable" /\ s.kind[r.to] = "variable"
  /\ \A r \in s.references : r.attribute \in DOMAIN Refnames[s.kind[r.from]] =>
       s.kind[r.to] = Refnames[s.kind[r.from]][r.attribute]
  /\ \A d \in Id : s.kind[d] = "definition" <=>
                     \E i \in DOMAIN s.definitions : s.definitions[i] = d

\* A valid file has a directive for every result, of all definitions and of
\* each class it mentions.
Config(c) ==
  /\ c.default \in StatedMap
  /\ c.source \in BooleanText
  /\ DOMAIN c.classes \subseteq Class
  /\ c.classes \in [DOMAIN c.classes -> StatedMap]

ASSUME IdAssumption == IsFiniteSet(Id)
ASSUME SourcesAssumption == \A s \in Sources : WellFormed(s)
ASSUME ConfigsAssumption ==
  /\ \A c \in Configs : Config(c)
  /\ Unreadable \notin Configs
  /\ Default \notin Class

VARIABLES
  source,         \* the results document as the analysis leaves it
  config,         \* the file of directives
  directives,     \* the maps of directives, by class
  includeSource,
  kept,           \* the ids with an element in the results
  criteria,       \* the definitions whose criteria are in the results
  contentType,    \* the marks; "none" for an id without one
  marking,        \* the definitions the loop has not come to
  frames,         \* calls of WalkReferences, the active one first
  phase

directiveVars ==
  <<source, config, directives, includeSource, kept, criteria, contentType, marking,
    frames, phase>>

-----------------------------------------------------------------------------
Full(map) == \A r \in ResultEnumeration :
               map[r] = [reported |-> TRUE, content |-> "full"]

\* The directives when no file is read.
AllFull == [r \in ResultEnumeration |-> [reported |-> TRUE, content |-> "full"]]

\* What is stated, by the file or by there being none.
StatedDirectives ==
  IF config = Unreadable
    THEN [c \in {Default} |->
            [r \in ResultEnumeration |-> [reported |-> "true", content |-> "full"]]]
    ELSE [c \in {Default} \cup DOMAIN config.classes |->
            IF c = Default THEN config.default ELSE config.classes[c]]

StatedSource == IF config = Unreadable THEN "" ELSE config.source

\* Every text but one is read as true, "0" as well.
AsRead(text) == text # "false"

ReadMap(map) ==
  [r \in ResultEnumeration |->
     [reported |-> AsRead(map[r].reported), content |-> map[r].content]]

LoadDirectives ==
  /\ phase = "load"
  /\ IF config = Unreadable
       THEN /\ directives' = [c \in {Default} |-> AllFull]
            /\ UNCHANGED includeSource
       ELSE /\ directives' = [c \in DOMAIN StatedDirectives |-> ReadMap(StatedDirectives[c])]
            /\ includeSource' = AsRead(StatedSource)
  /\ phase' = "loaded"
  /\ UNCHANGED <<source, config, kept, criteria, contentType, marking, frames>>

\* The directive of a definition: that of its class, if its class has any.
GetDirective(d) ==
  LET class == source.class[d]
  IN  directives[IF class \in DOMAIN directives THEN class ELSE Default][source.result[d]]

\* Faulty form: the directives of classes are forgotten.
SkipByDefault == includeSource /\ Full(directives[Default])

\* Nothing would be removed.
Skip ==
  includeSource /\ DOMAIN directives = {Default} /\ Full(directives[Default])

\* A document without definitions has no element the loops could start from:
\* a null pointer is dereferenced.
ApplyAll ==
  /\ phase = "apply"
  /\ phase' = CASE Skip -> "applied"
                [] ~Skip /\ source.definitions = << >> -> "terminated"
                [] OTHER -> "mark"
  /\ marking' = source.definitions
  /\ UNCHANGED <<source, config, directives, includeSource, kept, criteria, contentType,
                 frames>>

-----------------------------------------------------------------------------
\* BuildReferences
References(id) ==
  {r \in source.references :
     r.from = id /\ r.attribute \in DOMAIN Refnames[source.kind[id]]}

RefersTo(r) == Refnames[source.kind[r.from]][r.attribute]

CombineResultContent(old, new) ==
  IF "full" \in {old, new} THEN "full" ELSE "thin"

Frame(id) == [id |-> id, rest |-> References(id)]

\* The references of a thin definition are not walked.
MarkDefinition ==
  /\ phase = "mark" /\ frames = << >> /\ marking # << >>
  /\ LET d == Head(marking)
         directive == GetDirective(d)
     IN  IF directive.reported
           THEN /\ contentType' = [contentType EXCEPT
                     ![d] = CombineResultContent(@, directive.content)]
                /\ frames' = IF directive.content # "thin" THEN <<Frame(d)>>
                             ELSE << >>
           ELSE UNCHANGED <<contentType, frames>>
  /\ marking' = Tail(marking)
  /\ UNCHANGED <<source, config, directives, includeSource, kept, criteria, phase>>

\* Faulty form: a definition marked thin before is taken for walked.
WalksFromUnmarked(r) ==
  RefersTo(r) \notin {"item", "state"} /\ contentType[r.to] = "none"

\* A mark that did not change was walked from before; states and items are
\* never walked from.
WalksFrom(r) ==
  RefersTo(r) \notin {"item", "state"} /\ contentType[r.to] # "full"

\* The type that is handed down is full, the only one but thin.
WalkReferences ==
  /\ frames # << >>
  /\ \E r \in Head(frames).rest :
       /\ contentType' = [contentType EXCEPT ![r.to] = CombineResultContent(@, "full")]
       /\ frames' = (IF WalksFrom(r) THEN <<Frame(r.to)>> ELSE << >>)
                    \o <<[Head(frames) EXCEPT !.rest = @ \ {r}]>> \o Tail(frames)
  /\ UNCHANGED <<source, config, directives, includeSource, kept, criteria, marking, phase>>

WalkReturns ==
  /\ frames # << >> /\ Head(frames).rest = {}
  /\ frames' = Tail(frames)
  /\ UNCHANGED <<source, config, directives, includeSource, kept, criteria, contentType,
                 marking, phase>>

-----------------------------------------------------------------------------
DefinitionsOf(s) == {d \in Id : s.kind[d] = "definition"}

Marked(content) == {id \in Id : contentType[id] = content}

\* A thin definition without criteria has no node to remove: an exception of
\* the DOM no caller knows.
RemoveDefinitions ==
  /\ phase = "mark" /\ frames = << >> /\ marking = << >>
  /\ LET thin == DefinitionsOf(source) \cap Marked("thin")
     IN  IF thin \subseteq criteria
           THEN /\ kept' = kept \ (DefinitionsOf(source) \cap Marked("none"))
                /\ criteria' = criteria \cap Marked("full")
                /\ phase' = "remove"
           ELSE /\ phase' = "terminated"
                /\ UNCHANGED <<kept, criteria>>
  /\ UNCHANGED <<source, config, directives, includeSource, contentType, marking, frames>>

Unwanted == (Id \ DefinitionsOf(source)) \ Marked("full")

\* The tests, the collected objects and the items.
RemoveUnwanted ==
  /\ phase = "remove"
  /\ kept' = kept \ Unwanted
  /\ phase' = "applied"
  /\ UNCHANGED <<source, config, directives, includeSource, criteria, contentType, marking,
                 frames>>

-----------------------------------------------------------------------------
\* What has an element in the results.
InResults(s) == {id \in Id : s.kind[id] \in {"definition", "test", "object", "item"}}

DirectivesStart ==
  /\ directives = [c \in {} |-> AllFull]
  /\ includeSource = TRUE
  /\ kept = InResults(source)
  /\ criteria = source.criteria
  /\ contentType = [id \in Id |-> "none"]
  /\ marking = << >>
  /\ frames = << >>
  /\ phase = "load"

\* The definitions are evaluated in between.
Evaluated ==
  /\ phase = "loaded"
  /\ phase' = "apply"
  /\ UNCHANGED <<source, config, directives, includeSource, kept, criteria,
                 contentType, marking, frames>>

Applying ==
  \/ ApplyAll \/ MarkDefinition \/ WalkReferences \/ WalkReturns
  \/ RemoveDefinitions \/ RemoveUnwanted

=============================================================================
