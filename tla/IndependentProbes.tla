--------------------------- MODULE IndependentProbes ---------------------------
(***************************************************************************)
(* The probes of every platform (probes/independent): what CollectItems      *)
(* makes of an object o on a system sys.  The entities of an object are in   *)
(* the order of the schema; an object for files has either a path and a     *)
(* name or, in the form "filepath", both in one.                            *)
(***************************************************************************)
EXTENDS Probing, FiniteSets

CONSTANTS
  OwnProcess,  \* the process of the program
  DigestNames  \* FileHash58Probe::allDigestTypeNames

ASSUME ProbesAssumption == OwnProcess \in Seq(Name) /\ DigestNames \subseteq Seq(Name)

-----------------------------------------------------------------------------
(* Files: the search is the subject of module FileSearch; here the file       *)
(* system keeps still between the search and the report of what is missing.   *)

FileEntities(o) == IF o.form = "filepath" THEN 1 ELSE 2

\* The entities of an object after those for the file.
Further(o, n) == o.entities[FileEntities(o) + n]

FileKeys(sys) == {k \in DOMAIN sys.nodes : Len(k) = 2}

SearchFiles(sys, o) ==
  IF o.form = "filepath"
    THEN {k \in FileKeys(sys) : Matches(Entity1(o), BuildFilePath(k[1], k[2]))}
  ELSE LET paths == Matching(Entity1(o), Listed(sys, << >>))
       IN  IF Entity2(o).nil THEN {<<path>> : path \in paths}
           ELSE {k \in FileKeys(sys) : k[1] \in paths /\ Matches(Entity2(o), k[2])}

\* When nothing was found: an item without a path, or one for each file.
ReportMissing(sys, o) ==
  LET e == Entity1(o)
      absent == {v \in Values(e) : e.op \in {"equals", "case insensitive equals"}}
      of(v) == <<SplitFilePath(v).path, SplitFilePath(v).name>>
  IN  IF o.form = "filepath"
        THEN Together({Missing(of(v)) : v \in {v \in absent : ~Exists(sys, of(v))}})
      ELSE IF \E v \in absent : ~Exists(sys, <<v>>) THEN Missing(<< >>)
      ELSE Nothing

\* The frame of every probe for files.
ForFiles(sys, o, OfFile(_), OfDirectory(_)) ==
  LET found == SearchFiles(sys, o)
  IN  IF found = {} THEN ReportMissing(sys, o)
      ELSE Together({IF Len(k) = 1 THEN OfDirectory(k) ELSE OfFile(k) : k \in found})

-----------------------------------------------------------------------------
FamilyCollectItems(sys, o) == Collected(<< >>)

EnvironmentVariableCollectItems(sys, o) ==
  LET name == Entity1(o)
      all == Listed(sys, << >>)
  IN  IF ~Accepts(name, ExactOperation) THEN Throws
      ELSE IF name.op = "equals" /\ ~name.ref
        THEN IF name.values[1] \in all THEN Collected(<<name.values[1]>>) ELSE Missing(<< >>)
      ELSE Together({Collected(<<n>>) : n \in Matching(name, all)})

\* A variable that does not exist or has no values is an exception.
GetItemForVarId(sys, id) == Reading(sys, <<id>>, "throws", "throws")

VariableCollectItems(sys, o) ==
  LET varRef == Entity1(o)
  IN  IF ~Accepts(varRef, ExactOperation) THEN Throws
      ELSE IF varRef.op = "equals" /\ ~varRef.ref THEN GetItemForVarId(sys, varRef.values[1])
      ELSE IF Fails(sys, "list") THEN Throws
      ELSE Together({GetItemForVarId(sys, id) : id \in Matching(varRef, Listed(sys, << >>))})

-----------------------------------------------------------------------------
\* The value is used as it stands, so that one from a variable matches every line.
GetLines(sys, file, line) ==
  IF At(sys, file) = "there"
    THEN Together({Collected(Append(file, t)) :
                     t \in {t \in Listed(sys, file) : IsMatch(OwnValue(line), t)}})
  ELSE Nothing

TextFileContentCollectItems(sys, o) ==
  IF o.form = "filepath" \/ ~Accepts(Further(o, 1), {"pattern match"}) THEN Throws
  ELSE ForFiles(sys, o, LAMBDA k : GetLines(sys, k, Further(o, 1)), Collected)

\* Every value is a pattern, whatever the operation; instances are counted anew
\* for each.
GetMatches(sys, file, pattern, instance) ==
  LET matches(v) == {t \in Listed(sys, file) : IsMatch(v, t)}
      nth(v, t) == Cardinality({u \in matches(v) : Ordinal[Head(u)] <= Ordinal[Head(t)]})
      numeral(n) == CHOOSE t \in {<<d>> : d \in Name} : Ordinal[Head(t)] = n
  IN  Together({Collected(Append(file, t)) : t \in
        UNION {{t \in matches(v) : Matches(instance, numeral(nth(v, t)))} : v \in Values(pattern)}})

TextFileContent54GetItems(sys, file, pattern, instance) ==
  IF At(sys, file) = "there" THEN GetMatches(sys, file, pattern, instance) ELSE Throws

TextFileContent54CollectItems(sys, o) ==
  LET items(k) == TextFileContent54GetItems(sys, k, Further(o, 1), Further(o, 2))
  IN  ForFiles(sys, o, items, LAMBDA k : Nothing)

-----------------------------------------------------------------------------
FileHashGetDigest(sys, file) == Reading(sys, file, "error", "error")

FileHashCollectItems(sys, o) ==
  ForFiles(sys, o, LAMBDA k : FileHashGetDigest(sys, k), Collected)

FileHash58GetDigest(sys, file, type) ==
  Found({CreateItem(Append(file, type), IF At(sys, file) = "there" THEN "exists" ELSE "error")})

FileHash58CollectItems(sys, o) ==
  LET types == Matching(Further(o, 1), DigestNames)
  IN  ForFiles(sys, o,
               LAMBDA k : Together({FileHash58GetDigest(sys, k, type) : type \in types}),
               LAMBDA k : Outcome("error", k))

GetMd5(sys, file) == Reading(sys, file, "error", "error")

FileMd5CollectItems(sys, o) ==
  IF o.form = "filepath" THEN Throws
  ELSE ForFiles(sys, o, LAMBDA k : GetMd5(sys, k), Collected)

\* A document that cannot be parsed, an expression that is none or selects
\* elements are exceptions; one that selects nothing is an item.
EvaluateXpath(sys, file, xpath) ==
  IF At(sys, file) # "there" \/ xpath = << >> THEN Throws
  ELSE Reading(sys, Append(file, xpath), "throws", "does not exist")

XmlFileContentCollectItems(sys, o) ==
  ForFiles(sys, o, LAMBDA k : EvaluateXpath(sys, k, OwnValue(Further(o, 1))), Collected)

-----------------------------------------------------------------------------
\* Listing the processes fails as a whole, in a 32-bit build when one of them
\* cannot be opened.
GetAllPids(sys) ==
  IF \/ Fails(sys, "list")
     \/ sys.build = "windows32" /\ \E p \in Listed(sys, << >>) : At(sys, <<p>>) = "unreadable"
    THEN Throws
  ELSE Found(Listed(sys, << >>))

GetEnvForThisProcess(sys, name) ==
  Together({Collected(<<OwnProcess, n>>) : n \in Matching(name, Listed(sys, <<OwnProcess>>))})

\* A process that ended is passed over.
GetEnvForPid(sys, pid, name) ==
  CASE At(sys, <<pid>>) = "there" ->
         Together({Collected(<<pid, n>>) : n \in Matching(name, Listed(sys, <<pid>>))})
    [] At(sys, <<pid>>) = "unreadable" -> Outcome("error", <<pid>>)
    [] OTHER -> Nothing

EnvironmentVariable58CollectItems(sys, o) ==
  LET pid == Entity1(o)
      name == Entity2(o)
      pids == IF pid.op = "equals" THEN Found(Values(pid)) ELSE GetAllPids(sys)
  IN  IF pid.nil THEN GetEnvForThisProcess(sys, name)
      ELSE IF sys.build \notin {"linux", "windows", "windows32"} \/ pids.throws THEN Throws
      ELSE Together({GetEnvForPid(sys, p, name) : p \in Matching(pid, pids.found)})

-----------------------------------------------------------------------------
(* LDAP: the entry of a suffix has the relative name << >>, and the name of an *)
(* entry ends in the name of the one above it.                                *)

\* A search that fails is logged and finds nothing.
ObjectExists(sys, suffix, rdn) ==
  At(sys, IF rdn = << >> THEN <<suffix>> ELSE <<suffix, rdn>>) = "there"

GetAllDistinguishedNames(sys, suffix, rdn, scope) ==
  LET entries == {<< >>} \cup {r \in Listed(sys, <<suffix>>) : At(sys, <<suffix, r>>) = "there"}
  IN  IF ~ObjectExists(sys, suffix, rdn) THEN {}
      ELSE CASE scope = "base" -> {rdn}
             [] scope = "one" -> {r \in entries : r # << >> /\ Tail(r) = rdn}
             [] scope = "subtree" -> {r \in entries : IsSuffix(rdn, r)}

GetSuffixes(sys, suffix) ==
  LET all == IF suffix.op = "equals" THEN Values(suffix) ELSE Listed(sys, << >>)
  IN  {s \in Matching(suffix, all) : ObjectExists(sys, s, << >>)}

GetRelativeDns(sys, s, relativeDn, scope) ==
  LET all == IF relativeDn.op = "equals" THEN Values(relativeDn)
             ELSE GetAllDistinguishedNames(sys, s, << >>, "subtree")
      dns == IF relativeDn.nil THEN {<< >>}
             ELSE {r \in Matching(relativeDn, all) : ObjectExists(sys, s, r)}
  IN  UNION {GetAllDistinguishedNames(sys, s, r, scope) : r \in dns}

GetAllAttributes(sys, s, r) ==
  IF ObjectExists(sys, s, r) THEN Listed(sys, <<s, r>>) ELSE {}

GetAttributes(sys, s, r, attribute) ==
  LET all == IF attribute.op = "equals" THEN Values(attribute) ELSE GetAllAttributes(sys, s, r)
  IN  Matching(attribute, all) \cap GetAllAttributes(sys, s, r)

ReportDoesNotExist(e, Present(_)) ==
  {v \in Values(e) : e.op = "equals" /\ ~e.nil /\ ~Present(v)}

\* An attribute is only reported where the relative name meets the object, and a
\* name that is nil meets nothing.
LdapEntry(sys, s, r, relativeDn, attribute) ==
  LET absent == ReportDoesNotExist(attribute, LAMBDA v : v \in GetAllAttributes(sys, s, r))
      found == IF attribute.nil THEN {<<s, r>>}
               ELSE {<<s, r, a>> : a \in GetAttributes(sys, s, r, attribute)}
      missing == IF relativeDn.nil \/ ~Matches(relativeDn, r) THEN {}
                 ELSE {<<s, r, a>> : a \in absent}
  IN  Together({Collected(k) : k \in found} \cup {Missing(k) : k \in missing})

LdapSuffix(sys, s, o) ==
  LET relativeDn == Entity2(o)
      entries == GetRelativeDns(sys, s, relativeDn, o.behavior)
      absent == ReportDoesNotExist(relativeDn, LAMBDA v : ObjectExists(sys, s, v))
  IN  Together({LdapEntry(sys, s, r, relativeDn, Entity3(o)) : r \in entries}
               \cup {Missing(<<s, r>>) : r \in absent})

LDAPCollectItems(sys, o) ==
  LET suffix == Entity1(o)
      absent == ReportDoesNotExist(suffix, LAMBDA v : ObjectExists(sys, v, << >>))
  IN  IF Fails(sys, "connect") THEN Throws
      ELSE Together({LdapSuffix(sys, s, o) : s \in GetSuffixes(sys, suffix)}
                    \cup {Missing(<<s>>) : s \in absent})
=============================================================================
