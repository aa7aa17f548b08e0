------------------------------- MODULE Probing --------------------------------
(***************************************************************************)
(* What all probes share: the entities of the object they are asked for,    *)
(* how a text is held against one (AbsEntity.cpp), and how a search ends.   *)
(***************************************************************************)
EXTENDS PathText, Naturals

CONSTANT Ordinal  \* a name as an integer, where an entity is one

ASSUME OrdinalAssumption == Ordinal \in [Name -> Nat]

StringOperation == {"equals", "not equal", "case insensitive equals",
                    "case insensitive not equal", "pattern match"}

\* An entity of an object has its operation op, the texts values (several of a
\* variable), ref when they come from one, its check, and nil for xsi:nil.

\* An exception takes the place of what was found before it.
Found(set) == [throws |-> FALSE, found |-> set]
Throws == [throws |-> TRUE, found |-> {}]

Together(outcomes) ==
  IF \E o \in outcomes : o.throws THEN Throws
  ELSE Found(UNION {o.found : o \in outcomes})

\* Of the integers there are here.
Bits(n) == {i \in 0..15 : (n \div 2^i) % 2 = 1}

\* EntityComparator::CompareInteger, as far as it differs from comparing texts.
CompareInteger(op, given, t) ==
  LET g == Ordinal[Head(given)] n == Ordinal[Head(t)]
  IN  CASE op = "greater than" -> n > g
        [] op = "greater than or equal" -> n >= g
        [] op = "less than" -> n < g
        [] op = "less than or equal" -> n <= g
        [] op = "bitwise and" -> Bits(g) \subseteq Bits(n)
        [] op = "bitwise or" -> Bits(n) \subseteq Bits(g)

Compare(op, given, t) ==
  IF op \in StringOperation THEN CompareString(op, given, t) ELSE CompareInteger(op, given, t)

Analyze(e, t) ==
  LET one(v) == IF Compare(e.op, v, t) THEN "true" ELSE "false"
  IN  IF e.ref
        THEN CombineResultsByCheck(
               ResultTally([i \in DOMAIN e.values |-> one(e.values[i])]), e.check)
        ELSE one(e.values[1])

\* The values of a variable only bring a text up; whether the entity is true of
\* it depends on all of them.
Filtered(e, outcome) ==
  IF e.ref THEN [outcome EXCEPT !.found = {t \in @ : Analyze(e, t) = "true"}] ELSE outcome

-----------------------------------------------------------------------------
(* A system as a probe sees it is a tree: the key of a node is the sequence   *)
(* of texts that leads to it, a user, a hive with a key and a name, a path    *)
(* with a file and a line.  What is listed may be refused when it is read, or *)
(* be gone by then, like a process.                                           *)

\* "there", "unreadable", "gone" or "absent".
At(sys, key) == IF key \in DOMAIN sys.nodes THEN sys.nodes[key] ELSE "absent"

\* Found by a look at the one thing itself.
Exists(sys, key) == At(sys, key) \in {"there", "unreadable"}

\* What a listing of everything below a key shows.
Listed(sys, key) ==
  {Last(k) : k \in {k \in DOMAIN sys.nodes : k # << >> /\ Front(k) = key}}

\* What else is known of a node.
Marked(sys, key, mark) == <<key, mark>> \in sys.marks

Fails(sys, access) == access \in sys.broken

CreateItem(key, status) == [key |-> key, status |-> status]

Collected(key) == Found({CreateItem(key, "exists")})

Missing(key) == Found({CreateItem(key, "does not exist")})

Nothing == Found({})

\* What a probe makes of something it cannot read: an exception, nothing, or an
\* item with a status.
Outcome(treatment, key) ==
  CASE treatment = "throws" -> Throws
    [] treatment = "skips" -> Nothing
    [] OTHER -> Found({CreateItem(key, treatment)})

Reading(sys, key, unreadable, gone) ==
  CASE At(sys, key) = "there" -> Collected(key)
    [] At(sys, key) = "unreadable" -> Outcome(unreadable, key)
    [] OTHER -> Outcome(gone, key)

ReadAll(sys, keys, unreadable, gone) ==
  Together({Reading(sys, k, unreadable, gone) : k \in keys})

-----------------------------------------------------------------------------
Entity1(o) == o.entities[1]
Entity2(o) == o.entities[2]
Entity3(o) == o.entities[3]

Accepts(e, operations) == e.op \in operations

\* What most probes check at the beginning.
ExactOperation == {"equals", "not equal", "pattern match"}

\* AbsEntity::GetEntityValues
Values(e) == ToSet(e.values)

\* AbsEntity::GetValue: an entity whose values come from a variable has none of
\* its own.
OwnValue(e) == IF e.ref THEN << >> ELSE e.values[1]

Matches(e, t) == e.nil \/ Analyze(e, t) = "true"

Matching(e, texts) == {t \in texts : Matches(e, t)}

MeetsObject(o, key) == \A i \in DOMAIN o.entities : Matches(o.entities[i], key[i])

\* Equals looks its values up, and any other operation goes through what is listed.
Selected(e, texts) ==
  Matching(e, IF e.op = "equals" THEN Values(e) \cap texts ELSE texts)

\* When nothing was selected, only equals can tell what is not there.
ReportNone(e, prefix) ==
  IF e.op = "equals" THEN Together({Missing(Append(prefix, v)) : v \in Values(e)})
  ELSE Nothing

Records(sys, o) == {k \in DOMAIN sys.nodes : Len(k) = Len(o.entities)}

\* The frame of the probes that go through one list of records.
ReadRecords(sys, o, unreadable, gone) ==
  IF Fails(sys, "list") THEN Throws
  ELSE ReadAll(sys, {k \in Records(sys, o) : MeetsObject(o, k)}, unreadable, gone)

\* getpwent and getspent end with an error that stops the probe.
ReadAllOrThrow(sys, o) ==
  IF \E k \in Records(sys, o) : At(sys, k) = "unreadable" THEN Throws
  ELSE ReadRecords(sys, o, "throws", "skips")
=============================================================================
