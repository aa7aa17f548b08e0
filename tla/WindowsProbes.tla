----------------------------- MODULE WindowsProbes -----------------------------
(***************************************************************************)
(* The other probes of Windows (probes/windows), and the search for files    *)
(* (windows/FileFinder.cpp) and registry keys (windows/RegistryFinder.cpp).  *)
(***************************************************************************)
EXTENDS WindowsAccounts

(* Files.  A directory is a node <<path>>, a drive one without a separator in  *)
(* its path, and a file a node <<path, name>>.                               *)

\* WindowsCommon::GetActualPathWithCase: the name that is listed for one given.
GetActualPathWithCase(sys, prefix, t) == {u \in Listed(sys, prefix) : EqualsIgnoreCase(u, t)}

Opened(sys, key) ==
  CASE At(sys, key) = "there" -> Found({Last(key)})
    [] At(sys, key) = "unreadable" -> Throws
    [] OTHER -> Nothing

IsReparsePoint(sys, path) == Marked(sys, <<path>>, "reparse point")

\* A reparse point is there even if it cannot be opened.
PathExists(sys, path) ==
  Together({IF Exists(sys, <<p>>) /\ IsReparsePoint(sys, p) THEN Found({p}) ELSE Opened(sys, <<p>>) :
              p \in GetActualPathWithCase(sys, << >>, path)})

PathExistsCaseInsensitive(sys, path) == PathExists(sys, path)

FileNameExists(sys, path, fileName) ==
  Together({Opened(sys, <<path, n>>) : n \in GetActualPathWithCase(sys, <<path>>, fileName)})

GetDrives(sys) == {p \in Listed(sys, << >>) : LastSep(p) = 0 /\ Exists(sys, <<p>>)}

ParentPath(path) == SubSeq(path, 1, LastSep(path) - 1)

\* Names that begin with a dot are never shown, and a reparse point is not followed.
Shown(sys, dir) ==
  {p \in Listed(sys, << >>) :
     /\ LastSep(p) > 0 /\ ParentPath(p) = dir
     /\ ~IsReparsePoint(sys, p) /\ ~Marked(sys, <<p>>, "dot")}

RECURSIVE GetPathsForOperation(_, _, _, _)
GetPathsForOperation(sys, dir, given, op) ==
  ForEach(PathExists(sys, dir), LAMBDA d :
    Together({Found({p \in {dir} : Compare(op, given, p)})}
             \cup {GetPathsForOperation(sys, p, given, op) : p \in Shown(sys, dir)}))

\* Below the directories an expression begins with, or else on every drive.  With
\* nothing left of the expression one directory is looked at.
FindPaths(sys, given, op) ==
  LET anchored == op = "pattern match" /\ given # << >> /\ Head(given) = "^"
      parts == IF anchored THEN GetConstantPortion(given) ELSE [constant |-> << >>, pattern |-> given]
      start == PathExists(sys, parts.constant)
  IN  IF parts.constant = << >>
        THEN Together({GetPathsForOperation(sys, d, given, op) : d \in GetDrives(sys)})
      ELSE IF parts.pattern = << >>
        THEN ForEach(start, LAMBDA p : Found({q \in {p} : Compare(op, given, q)}))
      ELSE ForEach(start, LAMBDA p : GetPathsForOperation(sys, p, given, op))

GetFilesForOperation(sys, path, given, op, isFilePath) ==
  LET names == {n \in Listed(sys, <<path>>) : ~Marked(sys, <<path, n>>, "dot")}
      texts == IF isFilePath THEN {BuildFilePath(path, n) : n \in names} ELSE names
  IN  ForEach(Opened(sys, <<path>>), LAMBDA p : Found({t \in texts : Compare(op, given, t)}))

GetChildDirectories(sys, path) ==
  IF At(sys, <<path>>) = "there" THEN Found(Shown(sys, path)) ELSE Throws

RECURSIVE DownwardPathRecursion(_, _, _)
DownwardPathRecursion(sys, path, one) ==
  LET children == GetChildDirectories(sys, path)
  IN  IF one THEN children
      ELSE Together({children} \cup {DownwardPathRecursion(sys, p, FALSE) : p \in children.found})

\* A drive has no parent.
RECURSIVE UpwardPathRecursion(_, _)
UpwardPathRecursion(path, one) ==
  IF LastSep(path) = 0 THEN {}
  ELSE {ParentPath(path)} \cup (IF one THEN {} ELSE UpwardPathRecursion(ParentPath(path), FALSE))

ProcessPathBehaviors(sys, path, behavior) ==
  CASE behavior \in {"up", "up one"} -> Found(UpwardPathRecursion(path, behavior = "up one"))
    [] behavior \in {"down", "down one"} -> DownwardPathRecursion(sys, path, behavior = "down one")
    [] OTHER -> Nothing

\* Windows does not tell apart names that differ in case alone.
WithoutCase(e) ==
  CASE e.op = "equals" -> [e EXCEPT !.op = "case insensitive equals"]
    [] e.op = "not equal" -> [e EXCEPT !.op = "case insensitive not equal"]
    [] OTHER -> e

\* What is found for any of the values is held against all of them.
FoundFor(e, Of(_)) == Filtered(e, Together({Of(v) : v \in Values(e)}))

WindowsGetPaths(sys, e, behavior) ==
  LET path == WithoutCase(e)
      of(v) == IF path.op = "case insensitive equals" THEN PathExistsCaseInsensitive(sys, v)
               ELSE FindPaths(sys, v, path.op)
      paths == FoundFor(path, of)
  IN  ForEach(paths, LAMBDA p : Together({Found({p}), ProcessPathBehaviors(sys, p, behavior)}))

WindowsGetFileNames(sys, path, e) ==
  LET fileName == WithoutCase(e)
      of(v) == IF fileName.op = "case insensitive equals" THEN FileNameExists(sys, path, v)
               ELSE GetFilesForOperation(sys, path, v, fileName.op, FALSE)
  IN  FoundFor(fileName, of)

FilePathExists(sys, filePath) ==
  LET split == SplitFilePath(filePath)
      in(p) == ForEach(FileNameExists(sys, p, split.name), LAMBDA n : Found({BuildFilePath(p, n)}))
  IN  IF NamesFile(filePath) THEN ForEach(PathExists(sys, split.path), in) ELSE Nothing

FilePathExistsCaseInsensitive(sys, filePath) == FilePathExists(sys, filePath)

\* An expression for files is cut at its last separator, which need not leave one
\* for the paths.
GetFilePathsForOperation(sys, given, op) ==
  LET paths == FindPaths(sys, IF op = "pattern match" THEN SplitFilePathRegex(given) ELSE <<Wild>>, op)
  IN  ForEach(paths, LAMBDA p : GetFilesForOperation(sys, p, given, op, TRUE))

WindowsGetFilePaths(sys, e) ==
  LET filePath == WithoutCase(e)
      of(v) == IF filePath.op = "case insensitive equals" THEN FilePathExistsCaseInsensitive(sys, v)
               ELSE GetFilePathsForOperation(sys, v, filePath.op)
  IN  FoundFor(filePath, of)

AsKey(filePath) == <<SplitFilePath(filePath).path, SplitFilePath(filePath).name>>

WindowsSearchFiles(sys, o) ==
  LET ofPath(p) ==
        IF Entity2(o).nil THEN Found({<<p>>})
        ELSE ForEach(WindowsGetFileNames(sys, p, Entity2(o)), LAMBDA n : Found({<<p, n>>}))
  IN  IF o.form = "filepath"
        THEN ForEach(WindowsGetFilePaths(sys, Entity1(o)), LAMBDA t : Found({AsKey(t)}))
      ELSE ForEach(WindowsGetPaths(sys, Entity1(o), o.behavior), ofPath)

\* The values that are not there, if the operation is one that can tell.
NotThere(e, Answer(_)) ==
  LET given == {v \in Values(e) : e.op \in {"equals", "case insensitive equals"}}
  IN  Together({IF Answer(v).throws THEN Throws ELSE Found({u \in {v} : Answer(u).found = {}}) : v \in given})

ReportPathDoesNotExist(sys, path) == NotThere(path, LAMBDA v : PathExists(sys, v))

ReportFilePathDoesNotExist(sys, filePath) == NotThere(filePath, LAMBDA v : FilePathExists(sys, v))

\* One item for a path, and one for each of the files.
WindowsReportMissing(sys, o) ==
  IF o.form = "filepath"
    THEN ForEach(ReportFilePathDoesNotExist(sys, Entity1(o)), LAMBDA v : Missing(AsKey(v)))
  ELSE ForEach(ReportPathDoesNotExist(sys, Entity1(o)), LAMBDA v : Missing(<< >>))

ForWindowsFiles(sys, o, OfFile(_)) ==
  OrNone(WindowsSearchFiles(sys, o), LAMBDA files : Together({OfFile(k) : k \in files}),
         WindowsReportMissing(sys, o))

GetFileHandle(sys, k) == ~Marked(sys, k, "refused")

\* A file that is refused is an exception before there is an item, which is only
\* logged.  One that has gone since still is an item.
WindowsGetFileAttributes(sys, k) == IF GetFileHandle(sys, k) THEN Collected(k) ELSE Nothing

WindowsFileCollectItems(sys, o) ==
  ForWindowsFiles(sys, o, LAMBDA k : WindowsGetFileAttributes(sys, k))

\* The frame of the four probes for the rights to files.  With the names in one, the
\* item of a missing trustee is built from an entity that is not there.
FileRights(sys, o, isSID, Rights(_, _, _)) ==
  LET trustee == Further(o, 1)
      rights(k) == IF GetFileHandle(sys, k) THEN RightsOf(sys, k, trustee, isSID, o, Rights) ELSE Nothing
  IN  IF Accepts(trustee, ExactOperation) THEN ForWindowsFiles(sys, o, rights) ELSE Throws

FileGetEffectiveRights(sys, at, trustee) == EffectiveByName(sys, at, trustee)

FileEffectiveRightsCollectItems(sys, o) ==
  IF o.form = "filepath" THEN Throws ELSE FileRights(sys, o, FALSE, FileGetEffectiveRights)

File53GetEffectiveRights(sys, at, sid) == EffectiveBySID(sys, at, sid)

FileEffectiveRights53CollectItems(sys, o) == FileRights(sys, o, TRUE, File53GetEffectiveRights)

FileGetAuditedPermissions(sys, at, trustee) == AuditedByName(sys, at, trustee)

FileAuditedPermissionsCollectItems(sys, o) ==
  IF o.form = "filepath" THEN Throws ELSE FileRights(sys, o, FALSE, FileGetAuditedPermissions)

File53GetAuditedPermissions(sys, at, sid) == AuditedBySID(sys, at, sid)

FileAuditedPermissions53CollectItems(sys, o) == FileRights(sys, o, TRUE, File53GetAuditedPermissions)

-----------------------------------------------------------------------------
(* The registry: below a hive are its keys, each under the whole of its path,  *)
(* and << >> for the hive as a key of its own.                               *)

GetAllHives(sys) == Listed(sys, << >>)

\* A key opens; the hives, which are known by their names, always do.
GetHKeyHandle(sys, hive, key) ==
  IF key = << >> THEN hive \in GetAllHives(sys) ELSE At(sys, <<hive, key>>) = "there"

HiveExists(sys, hive) == GetHKeyHandle(sys, hive, << >>)

KeyExists(sys, hive, key) == GetHKeyHandle(sys, hive, key)

\* A name that a query does not answer for is none, yet a listing shows it.
NameExists(sys, hive, key, name) ==
  GetHKeyHandle(sys, hive, key) /\ At(sys, <<hive, key, name>>) = "there"

GetAllNames(sys, hive, key) ==
  IF GetHKeyHandle(sys, hive, key) THEN Listed(sys, <<hive, key>>) ELSE {}

RegistryKeys(sys, hive) == Listed(sys, <<hive>>) \ {<< >>}

\* The key is the one above it, or below it at any depth.
Under(above, key) == above = << >> \/ IsPrefix(Append(above, Sep), Append(key, Sep))

Above(sys, hive, key) == {k \in RegistryKeys(sys, hive) : Under(k, key) /\ k # key}

GetAllSubKeys(sys, hive, key) ==
  {k \in RegistryKeys(sys, hive) :
     /\ GetHKeyHandle(sys, hive, key) /\ Under(key, k) /\ k # key
     /\ \A a \in Above(sys, hive, k) : Under(a, key)}

FindHives(sys, op, v) == {h \in GetAllHives(sys) : Compare(op, v, h)}

FindNames(sys, hive, key, op, v) == {n \in GetAllNames(sys, hive, key) : Compare(op, v, n)}

\* Only what opens is searched, and what does not is passed over.
RECURSIVE GetRegistriesForPattern(_, _, _, _, _)
GetRegistriesForPattern(sys, hive, key, op, v) ==
  {k \in {key} \ {<< >>} : KeyExists(sys, hive, k) /\ Compare(op, v, k)}
  \cup UNION {GetRegistriesForPattern(sys, hive, k, op, v) : k \in GetAllSubKeys(sys, hive, key)}

\* Below the keys an expression begins with.  With nothing left of it one key is
\* looked at.
FindKeys(sys, hive, op, v) ==
  LET parts == IF op = "pattern match" /\ v # << >> /\ Head(v) = "^" THEN GetConstantPortion(v)
               ELSE [constant |-> << >>, pattern |-> v]
  IN  IF parts.constant # << >> /\ parts.pattern = << >>
        THEN {k \in {parts.constant} : KeyExists(sys, hive, k)}
      ELSE GetRegistriesForPattern(sys, hive, parts.constant, op, v)

RECURSIVE DownwardRegistryRecursion(_, _, _, _)
DownwardRegistryRecursion(sys, hive, key, one) ==
  LET subkeys == GetAllSubKeys(sys, hive, key)
  IN  subkeys \cup (IF one THEN {} ELSE UNION {DownwardRegistryRecursion(sys, hive, k, FALSE) : k \in subkeys})

\* At the top the name of the hive is added to the keys.
RECURSIVE UpwardRegistryRecursion(_, _, _)
UpwardRegistryRecursion(hive, key, one) ==
  CASE key = << >> -> {}
    [] LastSep(key) = 0 -> {hive}
    [] OTHER -> {ParentPath(key)} \cup
                  (IF one THEN {} ELSE UpwardRegistryRecursion(hive, ParentPath(key), FALSE))

ProcessKeyBehaviors(sys, hive, key, behavior) ==
  CASE behavior \in {"up", "up one"} -> UpwardRegistryRecursion(hive, key, behavior = "up one")
    [] behavior \in {"down", "down one"} ->
         DownwardRegistryRecursion(sys, hive, key, behavior = "down one")
    [] OTHER -> {}

\* For equals the values that exist are taken, whatever the check says of them.
GetHives(sys, hive) ==
  IF hive.op = "equals" THEN {v \in Values(hive) : HiveExists(sys, v)}
  ELSE Matching(hive, UNION {FindHives(sys, hive.op, v) : v \in Values(hive)})

GetKeys(sys, hive, key, behavior) ==
  LET keys == IF key.op = "equals" THEN {v \in Values(key) : KeyExists(sys, hive, v)}
              ELSE Matching(key, UNION {FindKeys(sys, hive, key.op, v) : v \in Values(key)})
  IN  IF key.nil THEN {<< >>}
      ELSE UNION {{k} \cup ProcessKeyBehaviors(sys, hive, k, behavior) : k \in keys}

GetNames(sys, hive, key, name) ==
  IF name.nil THEN {<< >>}
  ELSE IF name.op = "equals" THEN {v \in Values(name) : NameExists(sys, hive, key, v)}
  ELSE Matching(name, UNION {FindNames(sys, hive, key, name.op, v) : v \in Values(name)})

SearchRegistries(sys, o, name) ==
  UNION {UNION {{<<h, k, n>> : n \in GetNames(sys, h, k, name)} :
                   k \in GetKeys(sys, h, Entity2(o), o.behavior)} : h \in GetHives(sys, Entity1(o))}

SomeMissing(e, Present(_)) == e.op = "equals" /\ ~e.nil /\ \E v \in Values(e) : ~Present(v)

ReportHiveDoesNotExist(sys, hive) == SomeMissing(hive, LAMBDA v : HiveExists(sys, v))

ReportKeyDoesNotExist(sys, hive, key) == SomeMissing(key, LAMBDA v : KeyExists(sys, hive, v))

ReportNameDoesNotExist(sys, hive, key, name) ==
  SomeMissing(name, LAMBDA v : NameExists(sys, hive, key, v))

\* When nothing was found: a hive, or else keys, or else names that are not there.
ReportRegistry(sys, o, name) ==
  LET ofKey(h, k) == IF ReportNameDoesNotExist(sys, h, k, name) THEN Missing(<<h, k, << >>>>) ELSE Nothing
      ofHive(h) == IF ReportKeyDoesNotExist(sys, h, Entity2(o)) THEN Missing(<<h, << >>>>)
                   ELSE Together({ofKey(h, k) : k \in GetKeys(sys, h, Entity2(o), o.behavior)})
  IN  IF ReportHiveDoesNotExist(sys, Entity1(o)) THEN Missing(<<<< >>>>)
      ELSE Together({ofHive(h) : h \in GetHives(sys, Entity1(o))})

\* A key that has gone since is dropped.
GetLastWriteTimeOfKey(sys, k) ==
  IF k[2] # << >> /\ ~Exists(sys, <<k[1], k[2]>>) THEN Nothing ELSE Collected(k)

GetRegistryKey(sys, k) == Reading(sys, k, "error", "does not exist")

\* The values right below a hive are not read.
RegistryCollectItems(sys, o) ==
  LET name == Entity3(o)
      item(k) == IF k[2] = << >> \/ name.nil THEN GetLastWriteTimeOfKey(sys, k)
                 ELSE GetRegistryKey(sys, k)
  IN  IF \E i \in 1..3 : ~Accepts(o.entities[i], ExactOperation) THEN Throws
      ELSE OrNone(Found(SearchRegistries(sys, o, name)),
                  LAMBDA keys : Together({item(k) : k \in keys}), ReportRegistry(sys, o, name))

\* The frame of the four probes for the rights to keys: the third entity is a trustee.
RegKeyRights(sys, o, isSID, Rights(_, _, _)) ==
  LET trustee == Entity3(o)
      noName == [trustee EXCEPT !.nil = TRUE]
      keys == {SubSeq(k, 1, 2) : k \in SearchRegistries(sys, o, noName)}
      rights(k) == IF GetHKeyHandle(sys, k[1], k[2])
                     THEN RightsOf(sys, k, trustee, isSID, o, Rights) ELSE Nothing
  IN  IF ~Accepts(trustee, ExactOperation) THEN Throws
      ELSE OrNone(Found(keys), LAMBDA found : Together({rights(k) : k \in found}),
                  ReportRegistry(sys, o, noName))

RegKeyGetEffectiveRights(sys, at, trustee) == EffectiveByName(sys, at, trustee)

RegKeyEffectiveRightsCollectItems(sys, o) == RegKeyRights(sys, o, FALSE, RegKeyGetEffectiveRights)

RegKey53GetEffectiveRights(sys, at, sid) == EffectiveBySID(sys, at, sid)

RegKeyEffectiveRights53CollectItems(sys, o) == RegKeyRights(sys, o, TRUE, RegKey53GetEffectiveRights)

RegKeyGetAuditedPermissions(sys, at, trustee) == AuditedByName(sys, at, trustee)

RegKeyAuditedPermissionsCollectItems(sys, o) == RegKeyRights(sys, o, FALSE, RegKeyGetAuditedPermissions)

RegKey53GetAuditedPermissions(sys, at, sid) == AuditedBySID(sys, at, sid)

RegKeyAuditedPermissions53CollectItems(sys, o) == RegKeyRights(sys, o, TRUE, RegKey53GetAuditedPermissions)

-----------------------------------------------------------------------------
(* Settings of which there is one.  Of some failures LockoutPolicyProbe makes a *)
(* null pointer of its items, which ends the program where the others throw.  *)

\* Without the complexity and the encryption in the policy in force they are taken
\* from the exported one, and without that there is no item.
ArePasswordComplexityReverseEncryptionSet(sys) ==
  IF Fails(sys, "wmi") /\ Fails(sys, "export") THEN Throws ELSE Collected(<< >>)

PasswordPolicyCollectItems(sys, o) ==
  IF Fails(sys, "list") THEN Throws ELSE ArePasswordComplexityReverseEncryptionSet(sys)

LockoutPolicyCollectItems(sys, o) == IF Fails(sys, "list") THEN Throws ELSE Collected(<< >>)

AuditEventPolicyCollectItems(sys, o) == IF Fails(sys, "list") THEN Throws ELSE Collected(<< >>)

\* ReadAuditOptions: a subcategory at a time, of which any may fail.
ReadAuditOptions(sys) == IF Fails(sys, "options") THEN Throws ELSE Collected(<< >>)

AuditEventPolicySubcategoriesCollectItems(sys, o) ==
  IF Fails(sys, "list") THEN Throws ELSE ReadAuditOptions(sys)

-----------------------------------------------------------------------------
(* Records from one list.  In DNSCacheProbe and VolumeProbe every value of equals *)
(* is looked up.                                                             *)

ListedOnce(sys) == IF Fails(sys, "list") THEN Throws ELSE Found(Listed(sys, << >>))

GetAllCachedDomainNames(sys) == ListedOnce(sys)

GetDnsCacheItem(sys, domainName) == Reading(sys, <<domainName>>, "error", "does not exist")

DNSCacheCollectItems(sys, o) ==
  LET domainName == Entity1(o)
      item(t) == GetDnsCacheItem(sys, t)
  IN  IF domainName.op = "equals" THEN Together({item(v) : v \in Values(domainName)})
      ELSE ForEach(GetAllCachedDomainNames(sys), LAMBDA t : IF Matches(domainName, t) THEN item(t) ELSE Nothing)

GetAllVolumes(sys) == ListedOnce(sys)

BuildVolumeObject(sys, rootPath) == Reading(sys, <<rootPath>>, "error", "does not exist")

VolumeCollectItems(sys, o) ==
  LET rootPath == Entity1(o)
      item(t) == BuildVolumeObject(sys, t)
  IN  IF rootPath.op = "equals" THEN Together({item(v) : v \in Values(rootPath)})
      ELSE ForEach(GetAllVolumes(sys), LAMBDA t : IF Matches(rootPath, t) THEN item(t) ELSE Nothing)

\* SharedResourceProbe, InterfaceProbe and ProcessProbe read the system once, at the
\* first use.  Only a value of the object itself can be reported missing, and an
\* operation is refused when there is something to compare.
FromTheList(e, list, Get(_)) ==
  LET own == {v \in {OwnValue(e)} : e.op = "equals" /\ ~e.ref}
      compared(t) == CASE ~e.ref /\ ~Accepts(e, StringOperation) -> Throws
                       [] OTHER -> IF Matches(e, t) THEN Collected(<<t>>) ELSE Nothing
  IN  IF list.throws THEN Throws
      ELSE IF own # {} THEN Together({IF Get(v) THEN Collected(<<v>>) ELSE Missing(<<v>>) : v \in own})
      ELSE ForEach(list, compared)

GetAllSharedResources(sys) == ListedOnce(sys)

GetSharedResource(sys, netName) == netName \in GetAllSharedResources(sys).found

SharedResourceCollectItems(sys, o) ==
  FromTheList(Entity1(o), GetAllSharedResources(sys), LAMBDA v : GetSharedResource(sys, v))

GetAllInterfaces(sys) == ListedOnce(sys)

GetInterface(sys, t) == t \in GetAllInterfaces(sys).found

WindowsInterfaceCollectItems(sys, o) ==
  FromTheList(Entity1(o), GetAllInterfaces(sys), LAMBDA v : GetInterface(sys, v))

\* A process that cannot be opened makes no item.
BuildProcessItem(sys, k) == At(sys, k) = "there"

GetAllProcesses(sys) ==
  IF Fails(sys, "list") THEN Throws
  ELSE Found({t \in Listed(sys, << >>) : BuildProcessItem(sys, <<t>>)})

GetProcess(sys, commandLine) == commandLine \in GetAllProcesses(sys).found

WindowsProcessCollectItems(sys, o) ==
  IF ~Accepts(Entity1(o), ExactOperation) THEN Throws
  ELSE FromTheList(Entity1(o), GetAllProcesses(sys), LAMBDA v : GetProcess(sys, v))

Process58GetAllProcesses(sys, o) ==
  IF Fails(sys, "list") THEN Throws
  ELSE Found({k \in Records(sys, o) : BuildProcessItem(sys, k)})

\* Nothing is ever reported missing.
WindowsProcess58CollectItems(sys, o) ==
  IF ~Accepts(Entity1(o), ExactOperation) THEN Throws
  ELSE ForEach(Process58GetAllProcesses(sys, o), LAMBDA k : IF MeetsObject(o, k) THEN Collected(k) ELSE Nothing)

-----------------------------------------------------------------------------
\* WindowsServicesProbe: equals and its case insensitive form look for the values
\* and keep them as given.
WindowsGetAllServices(sys) == ListedOnce(sys)

WindowsServiceExists(sys, t, caseInsensitive) ==
  \E u \in WindowsGetAllServices(sys).found : u = t \/ (caseInsensitive /\ EqualsIgnoreCase(t, u))

\* Compared with the value of the entity, which a variable leaves empty.
GetMatchingServices(sys, e) == {t \in WindowsGetAllServices(sys).found : Compare(e.op, OwnValue(e), t)}

GetServices(sys, e) ==
  LET given == {v \in Values(e) : WindowsServiceExists(sys, v, e.op = "case insensitive equals")}
  IN  Matching(e, IF e.op \in {"equals", "case insensitive equals"} THEN given ELSE GetMatchingServices(sys, e))

\* The manager opens a service whatever the case of its name.
GetService(sys, t) ==
  LET same == {u \in Listed(sys, << >>) : EqualsIgnoreCase(u, t)}
  IN  IF \E u \in same : At(sys, <<u>>) = "there" THEN Collected(<<t>>) ELSE Outcome("error", <<t>>)

WindowsServicesCollectItems(sys, o) ==
  LET e == Entity1(o)
  IN  IF WindowsGetAllServices(sys).throws \/ ~Accepts(e, StringOperation) THEN Throws
      ELSE Together({GetService(sys, t) : t \in GetServices(sys, e)})

-----------------------------------------------------------------------------
\* WUAUpdateSearcherProbe: a search of which nothing comes is reported, one that
\* fails is an exception.
GetSearchCriteria(e) == Values(e)

InitWUASearcher(sys) == ~Fails(sys, "session")

DoWUASearch(sys, criteria) ==
  IF InitWUASearcher(sys) THEN Reading(sys, <<criteria>>, "throws", "does not exist") ELSE Throws

WUAUpdateSearcherCollectItems(sys, o) ==
  IF ~Accepts(Entity1(o), {"equals"}) THEN Throws
  ELSE Together({DoWUASearch(sys, v) : v \in GetSearchCriteria(Entity1(o))})

\* WMIProbe and WMI57Probe
GetNamespaces(e) == Values(e)

GetWQLs(e) == Values(e)

\* A namespace that cannot be connected to is an exception, like a query that fails.
GetWMI(sys, namespace, wql) ==
  IF At(sys, <<namespace>>) # "there" THEN Throws
  ELSE Reading(sys, <<namespace, wql>>, "throws", "does not exist")

WMICollectItems(sys, o) ==
  IF \E i \in 1..2 : ~Accepts(o.entities[i], {"equals"}) THEN Throws
  ELSE Together({GetWMI(sys, n, w) : n \in GetNamespaces(Entity1(o)), w \in GetWQLs(Entity2(o))})

WMI57GetNamespaces(e) == Values(e)

WMI57GetWQLs(e) == Values(e)

WMI57GetWMI(sys, namespace, wql) ==
  IF At(sys, <<namespace>>) # "there" THEN Throws
  ELSE Reading(sys, <<namespace, wql>>, "throws", "does not exist")

WMI57CollectItems(sys, o) ==
  IF \E i \in 1..2 : ~Accepts(o.entities[i], {"equals"}) THEN Throws
  ELSE Together({WMI57GetWMI(sys, n, w) : n \in WMI57GetNamespaces(Entity1(o)), w \in WMI57GetWQLs(Entity2(o))})

-----------------------------------------------------------------------------
(* Records that are found one entity after the other.                          *)

Level(e, prefix, texts, Below(_)) ==
  IF texts = {} THEN ReportNone(e, prefix)
  ELSE Together({Below(Append(prefix, t)) : t \in texts})

\* The ports in use, each with its protocol, its address and the other end of its
\* connection: a port may have several.
PortGetAllPorts(sys) ==
  IF Fails(sys, "list") THEN Throws ELSE Found({k \in DOMAIN sys.nodes : Len(k) = 4})

Ports(sys) == PortGetAllPorts(sys).found

ProtocolExists(sys, protocol) == \E k \in Ports(sys) : k[1] = protocol

GetMatchingProtocols(sys, op, v) == {t \in {k[1] : k \in Ports(sys)} : Compare(op, v, t)}

\* With several values everything is gone through, with one what it matches.
PortGetProtocols(sys, e) ==
  Matching(e, CASE e.op = "equals" -> {v \in Values(e) : ProtocolExists(sys, v)}
                [] e.op # "equals" /\ e.ref -> GetMatchingProtocols(sys, "pattern match", <<Wild>>)
                [] OTHER -> GetMatchingProtocols(sys, e.op, e.values[1]))

LocalAddressExists(sys, protocol, address) == \E k \in Ports(sys) : SubSeq(k, 1, 2) = <<protocol, address>>

GetMatchingLocalAddresses(sys, protocol, op, v) ==
  {t \in {k[2] : k \in {k \in Ports(sys) : k[1] = protocol}} : Compare(op, v, t)}

\* Faulty form: without a look at what the check says of what was found.
PortGetUncheckedAddresses(sys, protocol, e) ==
  CASE e.op = "equals" -> {v \in Values(e) : LocalAddressExists(sys, protocol, v)}
    [] e.op # "equals" /\ e.ref ->
         GetMatchingLocalAddresses(sys, protocol, "pattern match", <<Wild>>)
    [] OTHER -> GetMatchingLocalAddresses(sys, protocol, e.op, e.values[1])

PortGetLocalAddresses(sys, protocol, e) ==
  Matching(e, CASE e.op = "equals" -> {v \in Values(e) : LocalAddressExists(sys, protocol, v)}
                [] e.op # "equals" /\ e.ref ->
                     GetMatchingLocalAddresses(sys, protocol, "pattern match", <<Wild>>)
                [] OTHER -> GetMatchingLocalAddresses(sys, protocol, e.op, e.values[1]))

LocalPortExists(sys, protocol, address, port) ==
  \E k \in Ports(sys) : SubSeq(k, 1, 3) = <<protocol, address, port>>

PortOperation == {"equals", "not equal", "greater than", "greater than or equal", "less than",
                  "less than or equal", "bitwise and", "bitwise or"}

IsValidOperationAndValue(op, port, given) == op \in PortOperation /\ Compare(op, given, port)

GetMatchingLocalPorts(sys, protocol, address, e) ==
  {t \in {k[3] : k \in {k \in Ports(sys) : SubSeq(k, 1, 2) = <<protocol, address>>}} :
     \E v \in Values(e) : IsValidOperationAndValue(e.op, t, v)}

PortGetLocalPorts(sys, protocol, address, e) ==
  Matching(e, IF e.op = "equals" THEN {v \in Values(e) : LocalPortExists(sys, protocol, address, v)}
              ELSE GetMatchingLocalPorts(sys, protocol, address, e))

Connections(sys, port) == {k \in Ports(sys) : SubSeq(k, 1, 3) = port}

\* The first of the connections with this port, as the table happens to have them.
GetPort(sys, port) ==
  IF Connections(sys, port) = {} THEN Nothing ELSE Collected(CHOOSE k \in Connections(sys, port) : TRUE)

PortCollectItems(sys, o) ==
  LET protocol == Entity1(o) localAddress == Entity2(o) localPort == Entity3(o)
      port(p) == Level(localPort, p, PortGetLocalPorts(sys, p[1], p[2], localPort), LAMBDA k : GetPort(sys, k))
      address(p) == Level(localAddress, p, PortGetLocalAddresses(sys, p[1], localAddress), port)
  IN  IF ~Accepts(protocol, ExactOperation) \/ ~Accepts(localAddress, ExactOperation)
         \/ ~Accepts(localPort, PortOperation) \/ PortGetAllPorts(sys).throws
        THEN Throws
      ELSE Level(protocol, << >>, PortGetProtocols(sys, protocol), address)

-----------------------------------------------------------------------------
(* ActiveDirectoryProbe: below a context are its entries, << >> being that of    *)
(* the context itself, and below an entry its attributes.                    *)

\* What cannot be opened is only logged, and counts as not there.
QueryActiveDirectory(sys, key) == At(sys, key) = "there"

NamingContextExists(sys, context) == QueryActiveDirectory(sys, <<context>>)

GetMatchingNamingContexts(sys, op, v) ==
  {t \in Listed(sys, << >>) : Compare(op, v, t) /\ NamingContextExists(sys, t)}

GetNamingContexts(sys, e) ==
  Matching(e, CASE e.op = "equals" -> {v \in Values(e) : NamingContextExists(sys, v)}
                [] e.op # "equals" /\ e.ref -> GetMatchingNamingContexts(sys, "pattern match", <<Wild>>)
                [] OTHER -> GetMatchingNamingContexts(sys, e.op, e.values[1]))

IsDomain(context) == Ordinal[Head(context)] = 1

\* Whatever the context, the search for all names begins at that of the domain.
AllDistinguishedNames(sys) ==
  LET domain == {c \in Listed(sys, << >>) : IsDomain(c) /\ NamingContextExists(sys, c)}
  IN  Cached(sys, IF domain = {} THEN Throws
                  ELSE Found(UNION {Listed(sys, <<c>>) : c \in domain} \ {<< >>}))

\* The base of the context is put after the expression and taken off what matches:
\* nothing in another context than the domain, or where the expression has an end.
GetMatchingRelativeDns(sys, context, op, v) ==
  {t \in AllDistinguishedNames(sys).found :
     /\ IsDomain(context) /\ Compare(op, v, t)
     /\ ~(op = "pattern match" /\ v # << >> /\ Last(v) = "$")}

\* Looked up until there is a list of names, which decides from then on.
RelativeDnExists(sys, context, relativeDn) ==
  IF sys.cached = << >> THEN QueryActiveDirectory(sys, <<context, relativeDn>>)
  ELSE IsDomain(context) /\ relativeDn \in sys.cached[1]

ADGetRelativeDns(sys, context, e) ==
  IF e.nil THEN {<< >>}
  ELSE Matching(e, CASE e.op = "equals" -> {v \in Values(e) : RelativeDnExists(sys, context, v)}
                     [] e.op # "equals" /\ e.ref ->
                          GetMatchingRelativeDns(sys, context, "pattern match", <<Wild>>)
                     [] OTHER -> GetMatchingRelativeDns(sys, context, e.op, e.values[1]))

ADGetAllAttributes(sys, entry) == IF QueryActiveDirectory(sys, entry) THEN Listed(sys, entry) ELSE {}

AttributeExists(sys, entry, attribute) == attribute \in ADGetAllAttributes(sys, entry)

GetMatchingAttributes(sys, entry, op, v) == {t \in ADGetAllAttributes(sys, entry) : Compare(op, v, t)}

ADGetAttributes(sys, entry, e) ==
  IF e.nil THEN {<< >>}
  ELSE Matching(e, CASE e.op = "equals" -> {v \in Values(e) : AttributeExists(sys, entry, v)}
                     [] e.op # "equals" /\ e.ref -> GetMatchingAttributes(sys, entry, "pattern match", <<Wild>>)
                     [] OTHER -> GetMatchingAttributes(sys, entry, e.op, e.values[1]))

GetActiveDirectoryData(sys, k) == IF QueryActiveDirectory(sys, Front(k)) THEN Collected(k) ELSE Nothing

ActiveDirectoryCollectItems(sys, o) ==
  LET context == Entity1(o) relativeDn == Entity2(o) attribute == Entity3(o)
      entry(p) == Level(attribute, p, ADGetAttributes(sys, p, attribute), LAMBDA k : GetActiveDirectoryData(sys, k))
      name(p) == Level(relativeDn, p, ADGetRelativeDns(sys, p[1], relativeDn), entry)
  IN  IF Fails(sys, "domain") \/ \E i \in 1..3 : ~Accepts(o.entities[i], ExactOperation) THEN Throws
      ELSE Level(context, << >>, GetNamingContexts(sys, context), name)

-----------------------------------------------------------------------------
(* MetabaseProbe: below a key are its ids.  Keys lie below each other as in the  *)
(* registry; the root, which has no data, is left out.                       *)

MetabaseKey(t) == <<StripTrailingSeparators(t)>>

\* What does not open is only logged, and counts as not there.
MetabaseKeyExists(sys, key) == At(sys, MetabaseKey(key)) = "there"

\* A key that is listed ends in a separator, and one that is denied lists nothing.
GetKeysForPattern(sys, key, op, v) ==
  LET within == {k \in Listed(sys, << >>) : Under(key, k)}
      denied(k) == \E d \in within : d # k /\ Under(d, k) /\ ~MetabaseKeyExists(sys, d)
  IN  {t \in {Append(k, Sep) : k \in {k \in within : ~denied(k)}} : Compare(op, v, t)}

\* With nothing left of an expression one key is looked at.
MetabaseGetKeys(sys, e) ==
  LET v == e.values[1]
      parts == IF e.op = "pattern match" /\ v # << >> /\ Head(v) = "^" THEN GetConstantPortion(v)
               ELSE [constant |-> << >>, pattern |-> v]
  IN  CASE e.op = "equals" -> Matching(e, Values(e))
        [] e.op # "equals" /\ e.ref -> Matching(e, GetKeysForPattern(sys, << >>, "pattern match", <<Wild>>))
        [] OTHER ->
             IF parts.constant # << >> /\ ~MetabaseKeyExists(sys, parts.constant) THEN {}
             ELSE IF parts.constant # << >> /\ parts.pattern = << >> THEN {parts.constant}
             ELSE GetKeysForPattern(sys, parts.constant, e.op, v)

GetAllIds(sys, key) == IF MetabaseKeyExists(sys, key) THEN Listed(sys, MetabaseKey(key)) ELSE {}

IdExists(sys, key, id) == id \in GetAllIds(sys, key)

GetIds(sys, key, e) == Matching(e, IF e.op = "equals" THEN Values(e) ELSE GetAllIds(sys, key))

\* Data that is not found is reported, and any other failure is only logged.
GetMetabaseItem(sys, key, id) ==
  CASE At(sys, Append(MetabaseKey(key), id)) = "there" -> Collected(<<key, id>>)
    [] At(sys, Append(MetabaseKey(key), id)) = "unreadable" -> Nothing
    [] OTHER -> Missing(<<key, id>>)

MetabaseReportKeyDoesNotExist(sys, e) == {v \in Values(e) : e.op = "equals" /\ ~MetabaseKeyExists(sys, v)}

ReportIdDoesNotExist(sys, key, e) == {v \in Values(e) : e.op = "equals" /\ ~IdExists(sys, key, v)}

\* A key of equals that does not exist is passed over, and reported only when none
\* of the values meets the check.
MetabaseCollectItems(sys, o) ==
  LET key == Entity1(o) id == Entity2(o)
      ids(k) == OrNone(Found(GetIds(sys, k, id)),
                       LAMBDA found : Together({GetMetabaseItem(sys, k, i) : i \in found}),
                       Together({Missing(<<k, i>>) : i \in ReportIdDoesNotExist(sys, k, id)}))
      items(k) == IF ~MetabaseKeyExists(sys, k) THEN Nothing
                  ELSE IF id.nil THEN Collected(<<k, << >>>>) ELSE ids(k)
  IN  OrNone(Found(MetabaseGetKeys(sys, key)), LAMBDA keys : Together({items(k) : k \in keys}),
             Together({Missing(<<v>>) : v \in MetabaseReportKeyDoesNotExist(sys, key)}))

-----------------------------------------------------------------------------
(* CmdletProbe: below a module are its verbs and their nouns.  The parameters of *)
(* a command and what is selected of its result are left out.               *)

IsLegalVerb(sys, verb) == ~Marked(sys, <<verb>>, "no verb")

IsLoaded(sys, module) == ~Marked(sys, <<module>>, "not loaded")

\* When they cannot be listed there are none.
GetAvailableModules(sys) == IF Fails(sys, "list") THEN {} ELSE Listed(sys, << >>)

\* The modules that the entity is true of become loaded.
ImportModule(sys, e) == Matching(e, GetAvailableModules(sys))

\* A command without a module has to be there from the beginning, in the first that
\* has it; one with a module has to be in one that the entity is true of.
VerifyModuleInfo(sys, e, verb, noun) ==
  LET in(modules) == {m \in modules : <<m, verb, noun>> \in DOMAIN sys.nodes}
      loaded == {m \in Listed(sys, << >>) : IsLoaded(sys, m)}
      first == {m \in in(loaded) : \A n \in in(loaded) : Ordinal[Head(m)] <= Ordinal[Head(n)]}
  IN  IF e.nil THEN first
      ELSE Matching(e, Values(e) \cap in(loaded \cup ImportModule(sys, e)))

StartItem(module, verb, noun) == <<module, verb, noun>>

\* An exception of a command is the status of its item.
InvokeCmdlet(sys, module, verb, noun) ==
  Reading(sys, StartItem(module, verb, noun), "error", "error")

RunVerbNoun(sys, e, verb, noun) ==
  Together({InvokeCmdlet(sys, m, verb, noun) : m \in VerifyModuleInfo(sys, e, verb, noun)})

CmdletCollectItems(sys, o) ==
  LET verbs == Values(Entity2(o))
  IN  IF \E v \in verbs : ~IsLegalVerb(sys, v) THEN Throws
      ELSE Together({RunVerbNoun(sys, Entity1(o), v, n) : v \in verbs, n \in Values(Entity3(o))})
=============================================================================
