---------------------------- MODULE PlatformProbes -----------------------------
(***************************************************************************)
(* How an object gets to its probe (AbsObjectCollector.cpp, ProbeFactory.cpp *)
(* of every platform) and what the probe keeps from one object to the next:  *)
(* a probe is made once, and several of them read the system only then or    *)
(* for their first object, while the system goes on changing.               *)
(***************************************************************************)
EXTENDS UnixProbes, WindowsProbes

CONSTANT Questions  \* an object, by name and content, for a system of a platform

VARIABLES
  platform,
  name,     \* the name of the object, which decides on its probe
  object,
  system,
  made,     \* there is a probe
  kept,     \* << >>, or the one system the probe has read
  outcome   \* << >>, or the one answer to the object

vars == <<platform, name, object, system, made, kept, outcome>>

Init ==
  /\ \E q \in Questions :
       /\ platform = q.platform /\ name = q.name
       /\ object = q.object /\ system = q.system
  /\ made = FALSE
  /\ kept = << >> /\ outcome = << >>

-----------------------------------------------------------------------------
(* The tables of ProbeFactory::GetProbe, without the end "_object" of a name.  *)

Independent == {"family", "filemd5", "filehash", "filehash58", "environmentvariable",
                "environmentvariable58", "textfilecontent", "textfilecontent54", "variable",
                "xmlfilecontent"}

Unix == {"file", "inetd", "xinetd", "interface", "password", "process", "process58", "uname"}

Linux == Independent \cup Unix \cup
  {"ldap", "runlevel", "shadow", "dpkginfo", "inetlisteningservers", "rpminfo", "rpmverify",
   "rpmverifyfile", "rpmverifypackage", "partition", "selinuxsecuritycontext",
   "selinuxboolean", "iflisteners", "sysctl"}

MacOS == Independent \cup Unix \cup
  {"ldap", "nvram", "accountinfo", "inetlisteningserver510", "pwpolicy59"}

Solaris == Independent \cup Unix \cup {"runlevel", "shadow", "isainfo", "patch54"}

Windows == Independent \cup
  {"ldap", "file", "registry", "activedirectory", "wmi", "wmi57", "passwordpolicy",
   "lockoutpolicy", "auditeventpolicy", "auditeventpolicysubcategories", "sid", "sid_sid",
   "fileeffectiverights", "fileeffectiverights53", "fileauditedpermissions",
   "fileauditedpermissions53", "accesstoken", "group", "group_sid", "user", "user_sid",
   "user_sid55", "sharedresource", "volume", "interface", "port", "process", "process58",
   "printereffectiverights", "serviceeffectiverights", "regkeyeffectiverights",
   "regkeyeffectiverights53", "regkeyauditedpermissions", "regkeyauditedpermissions53",
   "metabase", "wuaupdatesearcher", "dnscache", "cmdlet", "service"}

Supported == [linux |-> Linux, macos |-> MacOS, solaris |-> Solaris, windows |-> Windows]

On(p, n) == platform = p /\ name = n

-----------------------------------------------------------------------------
(* What a probe keeps.                                                       *)

ReadWhenMade ==
  \/ name \in {"partition", "iflisteners", "runlevel", "patch54", "service"}
  \/ name = "interface" /\ platform # "windows"

ReadAtFirst ==
  \/ name \in {"nvram", "accountinfo", "inetlisteningservers", "inetlisteningserver510",
               "sharedresource", "port"}
  \/ name \in {"process", "process58", "interface"} /\ platform = "windows"

\* A constructor that throws leaves no probe behind, and the next object has
\* another one made.
CanBeMade ==
  CASE name = "partition" -> CachePartitions(system)
    [] name = "iflisteners" -> CachePacketListeners(system)
    [] name = "patch54" -> CachePatches(system)
    [] OTHER -> ~ReadWhenMade \/ ~Fails(system, "list")

\* In these the list is there, and empty, before it is read: when the reading fails
\* nothing is read again.
StaysEmpty ==
  \/ name \in {"nvram", "inetlisteningservers"}
  \/ name \in {"process", "process58"} /\ platform = "windows"

ReadFails ==
  CASE name = "inetlisteningservers" -> ~ParseNetstatResult(system)
    [] OTHER -> Fails(system, "list")

\* Others keep no more than the names they list.
KeepsList ==
  name \in {"sid", "sid_sid", "accesstoken", "group_sid", "user_sid", "user_sid55",
           "serviceeffectiverights", "printereffectiverights", "activedirectory"}

EarlierList ==
  CASE name \in {"sid", "accesstoken"} -> GetAllTrusteeNames(system)
    [] name = "sid_sid" -> GetAllTrusteeSIDs(system)
    [] name = "group_sid" -> GetAllLocalGroupSids(system)
    [] name \in {"user_sid", "user_sid55"} -> GetAllLocalUserSids(system)
    [] name = "serviceeffectiverights" -> GetAllServices(system)
    [] name = "printereffectiverights" -> GetAllPrinters(system)
    [] name = "activedirectory" -> AllDistinguishedNames(system)

\* What is left in a list whose making failed, and counts as the list from then on.
LeftInList ==
  CASE name \in {"sid", "sid_sid", "accesstoken"} -> LeftInTrusteeNames(system)
    [] name \in {"group_sid", "user_sid", "user_sid55"} -> { {} }
    [] OTHER -> {}

Emptied(sys) == [sys EXCEPT !.nodes = [k \in {} |-> "there"], !.broken = @ \ {"list"}]

\* What the probe goes by.
View ==
  IF kept = << >> THEN system
  ELSE IF KeepsList THEN [system EXCEPT !.cached = kept[1].cached] ELSE kept[1]

-----------------------------------------------------------------------------
CollectItems(sys, o) ==
  CASE name = "family" -> FamilyCollectItems(sys, o)
    [] name = "environmentvariable" -> EnvironmentVariableCollectItems(sys, o)
    [] name = "environmentvariable58" -> EnvironmentVariable58CollectItems(sys, o)
    [] name = "variable" -> VariableCollectItems(sys, o)
    [] name = "textfilecontent" -> TextFileContentCollectItems(sys, o)
    [] name = "textfilecontent54" -> TextFileContent54CollectItems(sys, o)
    [] name = "filehash" -> FileHashCollectItems(sys, o)
    [] name = "filehash58" -> FileHash58CollectItems(sys, o)
    [] name = "filemd5" -> FileMd5CollectItems(sys, o)
    [] name = "xmlfilecontent" -> XmlFileContentCollectItems(sys, o)
    [] name = "ldap" -> LDAPCollectItems(sys, o)
    [] name = "password" -> PasswordCollectItems(sys, o)
    [] name = "shadow" -> ShadowCollectItems(sys, o)
    [] name = "accountinfo" -> AccountInfoCollectItems(sys, o)
    [] name = "pwpolicy59" -> PwPolicyCollectItems(sys, o)
    [] On("windows", "interface") -> WindowsInterfaceCollectItems(sys, o)
    [] name = "interface" /\ platform # "windows" -> UnixInterfaceCollectItems(sys, o)
    [] name = "nvram" -> NvramCollectItems(sys, o)
    [] name = "partition" -> PartitionCollectItems(sys, o)
    [] name = "iflisteners" -> IfListenersCollectItems(sys, o)
    [] name = "uname" -> UnameCollectItems(sys, o)
    [] name = "isainfo" -> IsainfoCollectItems(sys, o)
    [] name = "inetd" -> InetdCollectItems(sys, o)
    [] name = "xinetd" -> XinetdCollectItems(sys, o)
    [] name = "runlevel" -> RunLevelCollectItems(sys, o)
    [] On("windows", "process") -> WindowsProcessCollectItems(sys, o)
    [] On("windows", "process58") -> WindowsProcess58CollectItems(sys, o)
    [] name = "process" /\ platform # "windows" -> ProcessCollectItems(sys, o)
    [] name = "process58" /\ platform # "windows" -> Process58CollectItems(sys, o)
    [] name = "selinuxboolean" -> SelinuxBooleanCollectItems(sys, o)
    [] name = "selinuxsecuritycontext" -> SelinuxSecurityContextCollectItems(sys, o)
    [] name = "sysctl" -> SysctlCollectItems(sys, o)
    [] name = "inetlisteningservers" -> InetListeningServersCollectItems(sys, o)
    [] name = "inetlisteningserver510" -> InetListeningServer510CollectItems(sys, o)
    [] name = "dpkginfo" -> DPKGInfoCollectItems(sys, o)
    [] name = "rpminfo" -> RPMInfoCollectItems(sys, o)
    [] name = "rpmverify" -> RPMVerifyCollectItems(sys, o)
    [] name = "rpmverifyfile" -> RPMVerifyFileCollectItems(sys, o)
    [] name = "rpmverifypackage" -> RPMVerifyPackageCollectItems(sys, o)
    [] name = "patch54" -> Patch54CollectItems(sys, o)
    [] name = "group" -> GroupCollectItems(sys, o)
    [] name = "group_sid" -> GroupSidCollectItems(sys, o)
    [] name = "user" -> UserCollectItems(sys, o)
    [] name = "user_sid" -> UserSidCollectItems(sys, o)
    [] name = "user_sid55" -> UserSid55CollectItems(sys, o)
    [] name = "sid_sid" -> SidSidCollectItems(sys, o)
    [] name = "sid" -> SidCollectItems(sys, o)
    [] name = "accesstoken" -> AccessTokenCollectItems(sys, o)
    [] name = "serviceeffectiverights" -> ServiceEffectiveRightsCollectItems(sys, o)
    [] name = "printereffectiverights" -> PrinterEffectiveRightsCollectItems(sys, o)
    [] On("windows", "file") -> WindowsFileCollectItems(sys, o)
    [] name = "fileeffectiverights" -> FileEffectiveRightsCollectItems(sys, o)
    [] name = "fileeffectiverights53" -> FileEffectiveRights53CollectItems(sys, o)
    [] name = "fileauditedpermissions" -> FileAuditedPermissionsCollectItems(sys, o)
    [] name = "fileauditedpermissions53" -> FileAuditedPermissions53CollectItems(sys, o)
    [] name = "registry" -> RegistryCollectItems(sys, o)
    [] name = "regkeyeffectiverights" -> RegKeyEffectiveRightsCollectItems(sys, o)
    [] name = "regkeyeffectiverights53" -> RegKeyEffectiveRights53CollectItems(sys, o)
    [] name = "regkeyauditedpermissions" -> RegKeyAuditedPermissionsCollectItems(sys, o)
    [] name = "regkeyauditedpermissions53" -> RegKeyAuditedPermissions53CollectItems(sys, o)
    [] name = "passwordpolicy" -> PasswordPolicyCollectItems(sys, o)
    [] name = "lockoutpolicy" -> LockoutPolicyCollectItems(sys, o)
    [] name = "auditeventpolicy" -> AuditEventPolicyCollectItems(sys, o)
    [] name = "auditeventpolicysubcategories" -> AuditEventPolicySubcategoriesCollectItems(sys, o)
    [] name = "dnscache" -> DNSCacheCollectItems(sys, o)
    [] name = "volume" -> VolumeCollectItems(sys, o)
    [] name = "sharedresource" -> SharedResourceCollectItems(sys, o)
    [] name = "service" -> WindowsServicesCollectItems(sys, o)
    [] name = "wuaupdatesearcher" -> WUAUpdateSearcherCollectItems(sys, o)
    [] name = "wmi" -> WMICollectItems(sys, o)
    [] name = "wmi57" -> WMI57CollectItems(sys, o)
    [] name = "port" -> PortCollectItems(sys, o)
    [] name = "activedirectory" -> ActiveDirectoryCollectItems(sys, o)
    [] name = "metabase" -> MetabaseCollectItems(sys, o)
    [] name = "cmdlet" -> CmdletCollectItems(sys, o)

-----------------------------------------------------------------------------
\* An object that no probe is for is not collected, and if its probe cannot be made
\* that is an error.
GetProbe ==
  /\ ~made /\ outcome = << >>
  /\ IF name \in Supported[platform] /\ CanBeMade
       THEN /\ made' = TRUE
            /\ kept' = IF ReadWhenMade THEN <<system>> ELSE << >>
            /\ UNCHANGED outcome
     ELSE /\ outcome' = << Throws >>
          /\ UNCHANGED <<made, kept>>
  /\ UNCHANGED <<platform, name, object, system>>

\* Faulty form: with every list in its place before it is read.
ForgetfulEarlierObject ==
  /\ made /\ ReadAtFirst /\ kept = << >> /\ outcome = << >>
  /\ kept' = IF ReadFails THEN <<Emptied(system)>> ELSE <<system>>
  /\ UNCHANGED <<platform, name, object, system, made, outcome>>

\* Another object of the same kind comes first.
EarlierObject ==
  /\ made /\ ReadAtFirst /\ kept = << >> /\ outcome = << >>
  /\ IF ReadFails THEN IF StaysEmpty THEN kept' = <<Emptied(system)>> ELSE UNCHANGED kept
     ELSE kept' = <<system>>
  /\ UNCHANGED <<platform, name, object, system, made, outcome>>

\* Or one that makes the list; for the list of all SIDs, which is made from that of
\* the names, two.
EarlierListing ==
  /\ made /\ KeepsList /\ kept = << >> /\ outcome = << >>
  /\ \E list \in IF EarlierList.throws THEN LeftInList ELSE {EarlierList.found} :
       kept' = <<[system EXCEPT !.cached = <<list>>]>>
  /\ UNCHANGED <<platform, name, object, system, made, outcome>>

\* The rights of an account are asked for whether or not it is on the list; for
\* these by its name, and for those by its SID.
ByName == {"fileeffectiverights", "fileauditedpermissions", "regkeyeffectiverights",
           "regkeyauditedpermissions"}

BySID == {"fileeffectiverights53", "fileauditedpermissions53", "regkeyeffectiverights53",
          "regkeyauditedpermissions53", "serviceeffectiverights", "printereffectiverights"}

OfTrustees == ByName \cup BySID

Users == {"user", "user_sid", "user_sid55"}
Groups == {"group", "group_sid"}
OfAccounts == {"sid", "sid_sid", "accesstoken"}

Without(f, t) == Restrict(f, DOMAIN f \ {t})

\* Something goes with all that is below it, or what failed works again.  The
\* configuration of xinetd stays as it is.
Change ==
  /\ made /\ outcome = << >> /\ name # "xinetd"
  /\ \/ \E t \in {Head(k) : k \in DOMAIN system.nodes} :
          system' = [system EXCEPT
            !.nodes = Restrict(@, {k \in DOMAIN @ : ~Under(t, Head(k))}),
            !.accounts = IF name \in OfTrustees THEN @ ELSE Without(@, t)]
     \/ \E t \in DOMAIN system.accounts :
          name \in OfTrustees /\ system' = [system EXCEPT !.accounts = Without(@, t)]
     \/ system.broken # {} /\ system' = [system EXCEPT !.broken = {}]
  /\ UNCHANGED <<platform, name, object, made, kept, outcome>>

\* The probe collects the items of the object.
Run ==
  /\ made /\ outcome = << >>
  /\ outcome' = << CollectItems(View, object) >>
  /\ UNCHANGED <<platform, name, object, system, made, kept>>

Next == GetProbe \/ EarlierObject \/ EarlierListing \/ Change \/ Run

Spec == Init /\ [][Next]_vars

-----------------------------------------------------------------------------
(* What the items say about the system.                                      *)

Items == IF outcome = << >> THEN {} ELSE outcome[1].found

\* The texts the entities of the object are about, for the key of an item.
Described(key) ==
  IF object.form = "filepath" /\ Len(key) > 1
    THEN << BuildFilePath(key[1], key[2]) >> \o SubSeq(key, 3, Len(key)) ELSE key

OfFileRights == {"fileeffectiverights", "fileeffectiverights53", "fileauditedpermissions",
                 "fileauditedpermissions53"}

OfKeyRights == {"regkeyeffectiverights", "regkeyeffectiverights53", "regkeyauditedpermissions",
                "regkeyauditedpermissions53"}

IsForFiles ==
  \/ name \in {"file", "filehash", "filehash58", "filemd5", "textfilecontent", "textfilecontent54",
               "xmlfilecontent"} \cup OfFileRights
  \/ name = "selinuxsecuritycontext" /\ object.form # "pid"

\* Windows does not tell the names of files apart by their case.
IgnoresCase == IsForFiles /\ platform = "windows"

Condition(i) ==
  IF IgnoresCase /\ i <= FileEntities(object) THEN WithoutCase(object.entities[i])
  ELSE object.entities[i]

Meets(key) ==
  \A i \in DOMAIN object.entities \cap DOMAIN Described(key) :
    Matches(Condition(i), Described(key)[i])

\* Where a part of an item is left out, what leads to it counts.
Whole(key) ==
  IF key # << >> /\ Last(key) = << >> /\ key \notin DOMAIN View.nodes THEN Front(key) ELSE key

\* The keys of the metabase have the separator they are listed with.
Normal(key) ==
  IF name = "metabase" THEN [i \in DOMAIN key |-> IF i = 1 THEN MetabaseKey(key[1])[1] ELSE key[i]]
  ELSE key

\* The third entity of the text probes and that for an expression in XML are not
\* held against what is found: one of the values, or none of a variable's, is.
OwnExpression(e, t) ==
  CASE name = "textfilecontent" -> IsMatch(OwnValue(e), t)
    [] name = "textfilecontent54" -> \E v \in Values(e) : IsMatch(v, t)
    [] name = "xmlfilecontent" -> t = OwnValue(e)

HasExpression(i) ==
  /\ name \in {"textfilecontent", "textfilecontent54", "xmlfilecontent"}
  /\ i = FileEntities(object) + 1

\* Equals looks up each of the values of a variable for itself, whatever the check.
EachForItself ==
  {"password", "shadow", "sysctl", "dnscache", "volume", "wuaupdatesearcher", "wmi", "wmi57",
   "registry", "cmdlet"} \cup Groups

LooksUpEach(i) == name \in EachForItself \/ (name \in OfKeyRights /\ i <= 2)

Answers(key) ==
  \A i \in DOMAIN object.entities \cap DOMAIN Described(key) :
    LET e == Condition(i) t == Described(key)[i]
    IN  IF HasExpression(i) THEN OwnExpression(e, t)
        ELSE Matches(e, t) \/ (LooksUpEach(i) /\ e.op = "equals" /\ t \in Values(e))

\* The members of a group, and theirs.
Within(g) ==
  LET upTo[n \in Nat] ==
        IF n = 0 THEN {g}
        ELSE upTo[n - 1] \cup UNION {View.groups[h] : h \in upTo[n - 1] \cap DOMAIN View.groups}
  IN  upTo[Cardinality(DOMAIN View.groups)]

\* Behaviors lead from what meets the object to members of groups, to directories,
\* entries and keys below and above, and to the patches that replace a patch.
LeadsTo(key) ==
  CASE name \in OfTrustees \cup OfAccounts /\ Resolves(object) ->
         \E g \in DOMAIN View.groups :
           Answers(Append(Front(key), g)) /\ Last(key) \in Within(g)
    [] name = "ldap" ->
         \E r \in Listed(View, <<key[1]>>) : Answers([key EXCEPT ![2] = r]) /\ IsSuffix(r, key[2])
    [] name = "registry" /\ object.behavior # "none" ->
         \E k \in Listed(View, <<key[1]>>) :
           Answers([key EXCEPT ![2] = k]) /\ (Under(k, key[2]) \/ Under(key[2], k))
    [] On("windows", "file") /\ object.behavior # "none" ->
         \E p \in Listed(View, << >>) :
           Answers([key EXCEPT ![1] = p]) /\ (Under(p, key[1]) \/ Under(key[1], p))
    [] name = "patch54" /\ object.behavior = "supersedence" ->
         \E k \in Patches(View) : Answers(k) /\ key \in Superseding(View, {k})
    [] OTHER -> FALSE

IsThere(key) ==
  CASE Whole(key) = << >> -> TRUE
    \* Of the values right below a hive only the hive is looked at.
    [] name = "registry" /\ key[2] = << >> -> Exists(View, <<key[1]>>)
    \* A link that leads nowhere is a service, for all stat says, and a file that goes
    \* while it is read stays a file of Windows.
    [] (name = "runlevel" /\ Fails(View, "stack")) \/ On("windows", "file") ->
         key \in DOMAIN View.nodes
    [] name \in {"rpmverify", "rpmverifyfile"} /\ Marked(View, key, "may be missing") ->
         key \in DOMAIN View.nodes
    [] name \in OfTrustees ->
         /\ Exists(View, Front(key))
         /\ \/ AccountState(View, Last(key)) = "there"
            \/ name \in BySID /\ key \in DOMAIN View.nodes
    [] name = "filehash58" -> Exists(View, SubSeq(key, 1, 2))
    [] name = "service" -> \E t \in Listed(View, << >>) : EqualsIgnoreCase(t, key[1])
    [] OTHER -> Exists(View, Whole(key))

\* What cannot be opened counts as not there.
OnlyWhatOpens ==
  {"ldap", "activedirectory", "registry", "metabase", "process"} \cup OfKeyRights

Open(key) ==
  /\ Exists(View, key)
  /\ \A n \in 1..Len(key) : At(View, SubSeq(key, 1, n)) \in
       {"there", "absent"} \cup (IF name \in OnlyWhatOpens THEN {} ELSE {"unreadable"})

\* A group is no user and a user no group.
OtherKind(key) ==
  \/ name \in Users /\ IsAccountGroup(View, key[1])
  \/ name \in Groups /\ ~IsAccountGroup(View, key[1])

Alike(key) ==
  IF IgnoresCase
    THEN {k \in DOMAIN View.nodes :
            Len(k) = Len(key) /\ \A n \in DOMAIN k : EqualsIgnoreCase(k[n], key[n])}
  ELSE {key}

Closed(key) == \A k \in Alike(key) : ~Open(k) \/ OtherKind(k)

FullLength ==
  CASE name = "xinetd" -> 3
    [] name = "port" -> 4
    [] name = "process" /\ platform # "windows" -> 2
    [] name = "textfilecontent54" -> FileEntities(object) + (IF object.form = "filepath" THEN 2 ELSE 1)
    [] object.form = "filepath" -> Len(object.entities) + 1
    [] OTHER -> Len(object.entities)

\* An item that tells no more of what is missing than where.
Place(key) == IF key # << >> /\ Last(key) = << >> THEN Front(key) ELSE key

\* For one of the values the account, or what else is asked for, is not there.
NoneThere(key) ==
  LET i == Len(Place(key)) + 1
  IN  IF Place(key) = key /\ key # << >> THEN Closed(key)
      ELSE IF name \in OfTrustees /\ i = FullLength
        THEN \E v \in Values(Last(object.entities)) : AccountState(View, v) # "there"
      ELSE \E v \in Values(object.entities[i]) : Closed(Append(Place(key), v))

NoneMeets(key) ==
  \A k \in DOMAIN View.nodes :
    IsPrefix(Place(key), k) /\ Len(k) >= Len(object.entities) /\ Open(k) => ~Meets(k)

\* Known to be wrong: what SELinux does not answer for is an item that exists, with
\* the value true (SelinuxBooleanProbe.cpp:173-186).
Unanswered(key) == name = "selinuxboolean" /\ At(View, key) # "there"

\* Known to be wrong: once the names of the domain are listed, an entry that is there
\* in another context is said not to exist (ActiveDirectoryProbe.cpp:668).
OutsideOfTheList(key) ==
  name = "activedirectory" /\ kept # << >> /\ Len(key) = 2 /\ ~IsDomain(key[1])

\* A directory has no digest.
Disturbed(key) ==
  \/ View.broken # {} \/ \E m \in View.marks : m[1] = key
  \/ \E n \in 1..Len(key) : At(View, SubSeq(key, 1, n)) # "there"
  \/ name = "filehash58" /\ Len(key) = 1

(* What a probe says of the system can be relied on, whichever of the ways above *)
(* it went: an item that exists is one of the things the object asks for, or one  *)
(* its behaviors lead to, and is there; of what is said not to exist there is     *)
(* none, or none that meets the object; and an item with an error is about        *)
(* something that could not be read.  That holds also for a probe that goes by    *)
(* what it read for an earlier object, on the system it read (CollectItems of the *)
(* probes, and the lists they keep).  Two cases are left out, in which the code     *)
(* does invent: booleans of SELinux that there are not, or that cannot be read, are *)
(* said to exist (Unanswered), and entries of the active directory that there are   *)
(* are said not to exist after an earlier object has listed the domain              *)
(* (OutsideOfTheList).                                                       *)
NothingInvented ==
  \A i \in Items :
    CASE i.status = "exists" ->
           (IsThere(Normal(i.key)) \/ Unanswered(i.key)) /\ (Answers(i.key) \/ LeadsTo(i.key))
      [] i.status = "does not exist" ->
           NoneThere(Normal(i.key)) \/ NoneMeets(Normal(i.key)) \/ OutsideOfTheList(i.key)
      [] i.status = "error" -> Disturbed(Normal(i.key))

-----------------------------------------------------------------------------
(* What there is and the items say nothing of.                               *)

\* An entity that is nil asks for nothing further, but for these.
NilIsAny == {"process58", "environmentvariable58", "cmdlet", "selinuxsecuritycontext"}

IsNil(i) == i <= Len(object.entities) /\ object.entities[i].nil

Depth ==
  CASE IsForFiles /\ object.form = "path" /\ IsNil(2) -> 1
    [] name \notin NilIsAny /\ IsNil(FullLength) -> FullLength - 1
    [] OTHER -> FullLength

\* What is there now was there at every moment before.
Lasting == {k \in DOMAIN system.nodes :
              /\ Len(k) = Depth
              /\ \A n \in 1..Len(k) : At(system, SubSeq(k, 1, n)) \in {"there", "absent"}}

\* Equals brings up nothing but the values, which cannot be those that satisfy
\* none of them.
NoneOfItsValues(e) == e.ref /\ e.op = "equals" /\ e.check = "none satisfy"

AsksFor(i, t) ==
  LET e == object.entities[i]
  IN  CASE e.nil /\ name \in {"environmentvariable58", "selinuxsecuritycontext"} -> t = OwnProcess
        [] (t = << >> /\ name # "ldap") \/ (e.nil /\ name \notin NilIsAny) -> e.nil /\ t = << >>
        [] OTHER -> Matches(Condition(i), t) /\ ~NoneOfItsValues(e)

Asked(k) == \A i \in DOMAIN object.entities \cap DOMAIN Described(k) : AsksFor(i, Described(k)[i])

\* What the schema lets an object, or its behaviors, leave out.
LeftOut(k) ==
  \/ OtherKind(k)
  \/ name \in Groups /\ IsGlobal(system, k[1]) /\ Entity1(object).op # "equals"
  \/ name \in ByName /\ AccountState(system, Last(k)) # "there"
  \/ /\ name \in OfAccounts \cup OfTrustees
     /\ object.behavior = "members" /\ IsAccountGroup(system, Last(k))
  \/ /\ name \in {"rpmverify", "rpmverifyfile"} /\ object.behavior = "noconfigfiles"
     /\ Marked(system, k, "config")
  \/ name = "rpmverify" /\ Marked(system, k, "directory")
  \/ name = "ldap" /\ object.behavior = "one"
  \/ /\ name = "textfilecontent54"
     /\ \E n \in Name : Ordinal[n] \in 1..2 /\ ~Matches(Last(object.entities), <<n>>)

\* What the code overlooks.  Of the expressions of a document only the one given
\* is tried; one process stands for all that run a command; the values of a variable
\* are lost for any operation but equals; the patches of the last base displace the
\* others; what an included file of xinetd says displaces the rest; and without the
\* list of the booleans of SELinux there are none.
UnixOverlooks(k) ==
  \/ name = "xmlfilecontent" /\ Last(k) # OwnValue(Last(object.entities))
  \/ /\ (name = "process" /\ platform # "windows") \/ On("macos", "process58")
     /\ Entity1(object).op = "equals"
     /\ \E p \in Processes(View) : p[1] = k[1] /\ p # k
  \/ /\ name \in {"inetlisteningservers", "dpkginfo"}
     /\ \E e \in ToSet(object.entities) : e.ref /\ e.op # "equals"
  \/ name = "patch54" /\ Entity1(object).ref /\ Last(Entity1(object).values) # k[1]
  \/ /\ name = "selinuxboolean" /\ Entity1(object).op # "equals"
     /\ Fails(View, "list") \/ Fails(View, "stack")
  \/ name = "xinetd" /\ \E f \in DOMAIN system.files : system.files[f].include # << >>

\* An anchored expression with nothing to match after its text stands for that text
\* alone.
OnlyAsText(v, t) ==
  /\ v # << >> /\ Head(v) = "^"
  /\ GetConstantPortion(v).pattern = << >> /\ ~EqualsIgnoreCase(GetConstantPortion(v).constant, t)

\* A file that cannot be opened is dropped, a name with a dot and what is behind a
\* reparse point is not listed.  An expression for whole names is cut to one for the
\* directories, which need not match them.
FilesOverlook(k) ==
  LET e == Condition(1)
      searched(v) == IF object.form = "filepath" THEN SplitFilePathRegex(v) ELSE v
  IN  /\ IgnoresCase
      /\ \/ \E m \in system.marks : IsPrefix(m[1], k) \/ (Len(m[1]) = 1 /\ Under(m[1][1], k[1]))
         \/ \E p \in Listed(system, << >>) : Under(p, k[1]) /\ At(system, <<p>>) # "there"
         \/ /\ e.op = "pattern match"
            /\ \A v \in Values(e) :
                 IsMatch(v, Described(k)[1]) =>
                   ~IsMatch(searched(v), k[1]) \/ OnlyAsText(searched(v), k[1])

\* A search does not go beyond a key that does not open, and in the metabase goes by
\* names with a separator.
KeysOverlook(k) ==
  \/ /\ name \in {"registry"} \cup OfKeyRights
     /\ \/ \E above \in Above(system, k[1], k[2]) : ~KeyExists(system, k[1], above)
        \/ /\ Entity2(object).op = "pattern match"
           /\ \A v \in Values(Entity2(object)) : IsMatch(v, k[2]) => OnlyAsText(v, k[2])
  \/ /\ name = "metabase" /\ Entity1(object).op # "equals"
     /\ \/ \E above \in Listed(system, << >>) :
             Under(above, k[1]) /\ ~MetabaseKeyExists(system, above)
        \/ ~Matches(Entity1(object), Append(k[1], Sep))
        \/ \A v \in Values(Entity1(object)) : OnlyAsText(v, k[1])

\* With groups to be resolved every trustee that is none is dropped, and all of them
\* if of one it is not known.  A value that cannot be looked up hides the others, and
\* a SID without an account is not found by its value.
TrusteesOverlook(k) ==
  /\ name \in OfTrustees
  /\ LET trustee == Last(object.entities)
     IN  \/ /\ Resolves(object)
            /\ \/ ~IsAccountGroup(View, Last(k))
               \/ \E t \in Listed(View, Front(k)) : AccountState(View, t) # "there"
         \/ /\ trustee.op = "equals"
            /\ \/ \E v \in Values(trustee) : AccountState(View, v) = "unreadable"
               \/ name \in BySID /\ ~trustee.ref /\ AccountState(View, Last(k)) # "there"

\* Global groups are not listed without the handle to the policy.  The names below a
\* context are those of the domain, and an expression for them must not have an end.
\* Of the commands only those spelt out are run, and those of a module that is not
\* loaded only if it can be listed.  Of the connections of a port one is shown.
ListsOverlook(k) ==
  \/ name \in OfAccounts /\ IsGlobal(View, k[1]) /\ Fails(View, "policy")
  \/ /\ name = "activedirectory"
     /\ LET e == Entity2(object)
        IN  \/ ~IsDomain(k[1]) /\ (e.op # "equals" \/ kept # << >>)
            \/ e.op = "pattern match" /\ ~e.ref /\ Last(e.values[1]) = "$"
  \/ /\ name = "cmdlet"
     /\ \/ \E i \in 1..3 : object.entities[i].op # "equals"
        \/ ~IsLoaded(View, k[1]) /\ (IsNil(1) \/ Fails(View, "list"))
  \/ name = "port" /\ Connections(View, SubSeq(k, 1, 3)) # {k}

Overlooked(k) ==
  \/ UnixOverlooks(k) \/ FilesOverlook(k) \/ KeysOverlook(k)
  \/ TrusteesOverlook(k) \/ ListsOverlook(k)

\* A list that could not be read, or of the names not completely, the first time.
Forgotten(k) ==
  /\ kept # << >>
  /\ \/ StaysEmpty /\ DOMAIN View.nodes = {}
     \/ /\ KeepsList
        /\ (IF name = "activedirectory" THEN k[2] ELSE k[1]) \notin View.cached[1]
        /\ \/ kept[1].broken # {}
           \/ \E t \in DOMAIN kept[1].accounts : kept[1].accounts[t] # "there"

\* The services of Windows keep the name that was asked for.
Covers(key, k) ==
  /\ Len(key) >= Len(k)
  /\ \A n \in DOMAIN k :
       \/ key[n] = k[n]
       \/ name = "service" /\ EqualsIgnoreCase(key[n], k[n])
       \/ name = "cmdlet" /\ IsNil(n)

IsFound(k) == \E i \in Items : i.status # "does not exist" /\ Covers(Normal(i.key), k)

(* Whatever the object asks for, and was there and could be read all the time, is  *)
(* among the items of an object whose collection did not fail, but for what its    *)
(* behaviors leave out and what the code is known to overlook, each case of which   *)
(* is named above: the analysis takes an object that is complete for all there is   *)
(* (AbsProbe.cpp, and the searches of the probes).                            *)
NothingMissed ==
  outcome # << >> =>
    \/ outcome[1].throws
    \/ \A k \in Lasting : Asked(k) => LeftOut(k) \/ Overlooked(k) \/ Forgotten(k) \/ IsFound(k)
=============================================================================
