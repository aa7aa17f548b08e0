------------------------------ MODULE UnixProbes -------------------------------
(***************************************************************************)
(* The probes of probes/unix, probes/linux, probes/macos and probes/solaris *)
(* but for the file probe, which is module FileProbe.                       *)
(***************************************************************************)
EXTENDS IndependentProbes

(* Accounts.                                                                *)

\* getpwnam tells an error from a user that is not there.
PasswordGetSingleItem(sys, name) == Reading(sys, <<name>>, "error", "does not exist")

PasswordGetMultipleItems(sys, o) == ReadAllOrThrow(sys, o)

PasswordCollectItems(sys, o) ==
  LET username == Entity1(o)
  IN  IF username.op = "equals"
        THEN Together({PasswordGetSingleItem(sys, v) : v \in Values(username)})
      ELSE IF Accepts(username, StringOperation) THEN PasswordGetMultipleItems(sys, o)
      ELSE Throws

ShadowGetSingleItem(sys, name) == Reading(sys, <<name>>, "error", "does not exist")

ShadowGetMultipleItems(sys, o) == ReadAllOrThrow(sys, o)

\* The shadow file is locked against changes for as long as it is read.
ShadowFileLockGuard(sys) == ~Fails(sys, "lock")

ShadowCollectItems(sys, o) ==
  LET username == Entity1(o)
  IN  IF ~Accepts(username, StringOperation) \/ ~ShadowFileLockGuard(sys) THEN Throws
      ELSE IF username.op = "equals"
        THEN Together({ShadowGetSingleItem(sys, v) : v \in Values(username)})
      ELSE ShadowGetMultipleItems(sys, o)

\* The list of users is read once; one that cannot be read any more is left out.
AccountInfoFillItem(sys, username) == Reading(sys, <<username>>, "skips", "skips")

AccountInfoCollectItems(sys, o) ==
  LET username == Entity1(o)
  IN  IF ~Accepts(username, StringOperation) \/ Fails(sys, "list") THEN Throws
      ELSE Together({AccountInfoFillItem(sys, n) : n \in Matching(username, Listed(sys, << >>))})

\* A user without a policy has an item whose entities do not exist.
PwPolicyGetRecord(sys, user) == Reading(sys, <<user>>, "exists", "exists")

PwPolicyCollectItems(sys, o) ==
  LET user == Entity1(o)
  IN  IF ~Accepts(user, StringOperation) \/ Fails(sys, "list") THEN Throws
      ELSE Together({PwPolicyGetRecord(sys, n) : n \in Matching(user, Listed(sys, << >>))})

-----------------------------------------------------------------------------
(* What is gathered once and then held against the object.                   *)

UnixInterfaceCollectItems(sys, o) == ReadRecords(sys, o, "exists", "exists")

NvramGetAllVars(sys) == ~Fails(sys, "list")

NvramCollectItems(sys, o) ==
  IF ~Accepts(Entity1(o), StringOperation) \/ ~NvramGetAllVars(sys) THEN Throws
  ELSE ReadRecords(sys, o, "skips", "skips")

\* A mount point whose escapes or whose size cannot be read stops the whole list.
CachePartitions(sys) ==
  ~Fails(sys, "list") /\ \A k \in DOMAIN sys.nodes : At(sys, k) = "there"

PartitionCollectItems(sys, o) ==
  IF CachePartitions(sys) THEN ReadRecords(sys, o, "throws", "throws") ELSE Throws

\* A socket without an owner stops the list; a protocol that is not known is an
\* entity in error, which no object can be held against.
FindInodeOwner(sys, key) == At(sys, key) # "gone"

CachePacketListeners(sys) ==
  /\ ~Fails(sys, "list")
  /\ \A k \in DOMAIN sys.nodes : Len(k) = 3 => FindInodeOwner(sys, k)

IfListenersCollectItems(sys, o) ==
  LET unknown(k) == At(sys, k) = "unreadable"
      decided(k) == \A i \in DOMAIN o.entities : i # 2 => Matches(o.entities[i], k[i])
      all == Records(sys, o)
  IN  IF \/ ~CachePacketListeners(sys)
         \/ \E k \in all : unknown(k) /\ decided(k)
        THEN Throws
      ELSE Together({Collected(k) : k \in {k \in all : ~unknown(k) /\ MeetsObject(o, k)}})

UnameCollectItems(sys, o) == IF Fails(sys, "uname") THEN Throws ELSE Collected(<< >>)

\* Without one of the two answers the item is in error.
RunSysinfo(sys) == ~Fails(sys, "sysinfo")

IsainfoCollectItems(sys, o) ==
  Found({CreateItem(<< >>, IF RunSysinfo(sys) THEN "exists" ELSE "error")})

\* A line with fewer fields than six is no service.
InetdLine2Item(sys, key) == Reading(sys, key, "skips", "skips")

InetdCollectItems(sys, o) ==
  IF Fails(sys, "list") THEN Throws
  ELSE Together({InetdLine2Item(sys, k) : k \in {k \in Records(sys, o) : MeetsObject(o, k)}})

-----------------------------------------------------------------------------
(* Run levels: what is in the directories when the probe is made.            *)

\* A link is followed, and what stat says of one that leads nowhere is whatever
\* was on the stack before: perhaps the file that came before it.
AddRunlevelItem(sys, key) ==
  Reading(sys, key, "skips", IF Fails(sys, "stack") THEN "exists" ELSE "skips")

GetRunLevelData(sys, runlevel) == Matching(runlevel, {k[2] : k \in {k \in DOMAIN sys.nodes : Len(k) = 2}})

GetServiceData(sys, serviceName, runlevels) ==
  {k \in DOMAIN sys.nodes : Len(k) = 2 /\ k[2] \in runlevels /\ Matches(serviceName, k[1])}

RunLevelCollectItems(sys, o) ==
  LET serviceName == Entity1(o)
      runlevel == Entity2(o)
  IN  IF ~Accepts(serviceName, ExactOperation) \/ ~Accepts(runlevel, ExactOperation) THEN Throws
      ELSE Together({AddRunlevelItem(sys, k) :
                       k \in GetServiceData(sys, serviceName, GetRunLevelData(sys, runlevel))})

-----------------------------------------------------------------------------
(* Processes: a key is a command line with a process.  The command line of    *)
(* one that is unreadable cannot be read; one that is gone ends between the   *)
(* search and the report.  Linux and Solaris have /proc, Mac OS has sysctl.   *)

Processes(sys) == {k \in DOMAIN sys.nodes : Len(k) = 2}

Pid(key) == Ordinal[Head(key[2])]

RetrieveCommandLine(sys, key) == At(sys, key) # "unreadable"

Running(sys, command) == {k \in Processes(sys) : k[1] = command /\ RetrieveCommandLine(sys, k)}

\* The search in /proc for one command stops at the first process that runs it.
CommandExists(sys, command) ==
  LET first == {k \in Running(sys, command) : \A other \in Running(sys, command) : Pid(k) <= Pid(other)}
      passed == {k \in Processes(sys) : \A f \in first : Pid(k) <= Pid(f)}
  IN  IF Fails(sys, "list") \/ \E k \in passed : ~RetrieveCommandLine(sys, k) THEN Throws
      ELSE Found(first)

\* On Mac OS it goes on, and the last process takes the place of those before.
DarwinCommandExists(sys, command) ==
  IF Fails(sys, "list") THEN Throws
  ELSE Found({k \in Running(sys, command) : \A other \in Running(sys, command) : Pid(k) >= Pid(other)})

GetMatchingCommands(sys, command) ==
  IF Fails(sys, "list") \/ \E k \in Processes(sys) : ~RetrieveCommandLine(sys, k) THEN Throws
  ELSE Found({k \in Processes(sys) : Matches(command, k[1])})

DarwinGetMatchingCommands(sys, command) ==
  IF Fails(sys, "list") THEN Throws
  ELSE Found({k \in Processes(sys) : Matches(command, k[1])})

ProcessGetCommands(sys, command) ==
  LET exists(v) == IF sys.build = "macos" THEN DarwinCommandExists(sys, v) ELSE CommandExists(sys, v)
      each == Together({exists(v) : v \in Values(command)})
  IN  CASE command.op = "equals" -> [each EXCEPT !.found = {k \in @ : Matches(command, k[1])}]
        [] sys.build = "macos" -> DarwinGetMatchingCommands(sys, command)
        [] OTHER -> GetMatchingCommands(sys, command)

RetrieveUptime(sys) == ~Fails(sys, "uptime")

\* On Linux a process without a directory in /proc is passed over; if one of its
\* files cannot be read the item exists and has a message.
ProcessGetPSInfo(sys, key) ==
  IF ~RetrieveUptime(sys) THEN Throws ELSE Reading(sys, key, "throws", "skips")

ReadPSInfoFromFile(sys, key) == Reading(sys, key, "throws", "skips")

SolarisGetPSInfo(sys, key) == ReadPSInfoFromFile(sys, key)

\* On Mac OS the item has the command that was found before.
DarwinGetPSInfo(sys, key) == Reading(sys, key, "exists", "skips")

\* None of the commands: they do not exist, even if the variable's check let none
\* of those pass that were found.
ProcessCollectItems(sys, o) ==
  LET command == Entity1(o)
      commands == ProcessGetCommands(sys, command)
      info(k) == CASE sys.build = "macos" -> DarwinGetPSInfo(sys, k)
                   [] sys.build = "solaris" -> SolarisGetPSInfo(sys, k)
                   [] OTHER -> ProcessGetPSInfo(sys, k)
  IN  IF ~Accepts(command, ExactOperation) \/ commands.throws THEN Throws
      ELSE IF commands.found # {} THEN Together({info(k) : k \in commands.found})
      ELSE ReportNone(command, << >>)

-----------------------------------------------------------------------------
(* The later probe has the same search with two differences: in /proc it goes *)
(* on to the last process with the command, and the process has to match too. *)

Process58RetrieveCommandLine(sys, key) == At(sys, key) # "unreadable"

Process58CommandExists(sys, command) ==
  IF Fails(sys, "list") \/ \E k \in Processes(sys) : ~Process58RetrieveCommandLine(sys, k) THEN Throws
  ELSE Found({k \in Processes(sys) : k[1] = command})

DarwinProcess58CommandExists(sys, command) == DarwinCommandExists(sys, command)

Process58GetMatchingCommands(sys, command) == GetMatchingCommands(sys, command)

DarwinProcess58GetMatchingCommands(sys, command) == DarwinGetMatchingCommands(sys, command)

Process58GetCommands(sys, command, pid) ==
  LET exists(v) == IF sys.build = "macos" THEN DarwinProcess58CommandExists(sys, v)
                   ELSE Process58CommandExists(sys, v)
      candidates ==
        CASE command.op = "equals" -> Together({exists(v) : v \in Values(command)})
          [] sys.build = "macos" -> DarwinProcess58GetMatchingCommands(sys, command)
          [] OTHER -> Process58GetMatchingCommands(sys, command)
  IN  [candidates EXCEPT !.found = {k \in @ : Matches(command, k[1]) /\ Matches(pid, k[2])}]

\* Process58Probe::ProcStatus of what is read of a process; a mark stands for what
\* cannot be read.
ProcStatus(sys, key, part) ==
  CASE At(sys, key) = "gone" -> "terminated"
    [] Marked(sys, key, part) -> "error"
    [] OTHER -> "ok"

RetrieveStatFile(sys, key) == ProcStatus(sys, key, "stat")
RetrieveStatusFile(sys, key) == ProcStatus(sys, key, "status")
RetrieveLoginUid(sys, key) == ProcStatus(sys, key, "loginuid")

\* The link to the terminal may be missing for other reasons.
RetrieveTTY(sys, key) == IF Marked(sys, key, "terminal") THEN "error" ELSE "ok"

RetrieveSelinuxDomainLabel(sys, key) == ~Marked(sys, key, "label")

\* A process that ended is passed over at every file, and any failure but that of
\* the terminal makes the item one in error.
Process58GetPSInfo(sys, key) ==
  LET read == {RetrieveStatFile(sys, key), RetrieveStatusFile(sys, key), RetrieveLoginUid(sys, key)}
  IN  IF ~RetrieveUptime(sys) THEN Throws
      ELSE IF "terminated" \in read \cup {RetrieveTTY(sys, key)} THEN Nothing
      ELSE IF "error" \in read \/ ~RetrieveSelinuxDomainLabel(sys, key) THEN Outcome("error", key)
      ELSE Collected(key)

SolarisProcess58GetPSInfo(sys, key) == ReadPSInfoFromFile(sys, key)

DarwinProcess58GetPSInfo(sys, key) == DarwinGetPSInfo(sys, key)

\* The command is reported not to exist even if it is only the process that
\* differs.
Process58CollectItems(sys, o) ==
  LET command == Entity1(o)
      commands == Process58GetCommands(sys, command, Entity2(o))
      info(k) == CASE sys.build = "macos" -> DarwinProcess58GetPSInfo(sys, k)
                   [] sys.build = "solaris" -> SolarisProcess58GetPSInfo(sys, k)
                   [] OTHER -> Process58GetPSInfo(sys, k)
  IN  IF ~Accepts(command, ExactOperation) \/ commands.throws THEN Throws
      ELSE IF commands.found # {} THEN Together({info(k) : k \in commands.found})
      ELSE ReportNone(command, << >>)

-----------------------------------------------------------------------------
(* SELinux and the kernel.                                                   *)

\* SELinux is asked for the value of any name, and its answer for a name that it does
\* not know, or whose value cannot be read, is taken for true.
SelinuxCompleteItem(sys, name) == Reading(sys, <<name>>, "exists", "exists")

GetBooleansByName(sys, name, names) ==
  Together({SelinuxCompleteItem(sys, v) : v \in Matching(name, names)})

\* When the names cannot be listed, what the list and its length hold is left to
\* chance: no names, or names that are none; or else the run ends there, which is no
\* answer to the object.
BooleanNames(sys) ==
  CASE Fails(sys, "list") -> {}
    [] Fails(sys, "stack") -> {<<n>> : n \in Name} \ Listed(sys, << >>)
    [] OTHER -> Listed(sys, << >>)

SearchAllBooleans(sys, name) == GetBooleansByName(sys, name, BooleanNames(sys))

SelinuxBooleanCollectItems(sys, o) ==
  LET name == Entity1(o)
  IN  IF name.op = "equals" THEN GetBooleansByName(sys, name, Values(name))
      ELSE SearchAllBooleans(sys, name)

\* A process without a context is an item in error, and so is none at all.
CompletePidItem(sys, pid) == Reading(sys, <<pid>>, "error", "error")

SearchByPid(sys, pid) ==
  IF pid.nil THEN CompletePidItem(sys, OwnProcess)
  ELSE IF pid.op # "equals" /\ Fails(sys, "list") THEN Throws
  ELSE Together({CompletePidItem(sys, p) :
         p \in Matching(pid, IF pid.op = "equals" THEN Values(pid) ELSE Listed(sys, << >>))})

\* A file without a context is an exception.
CompleteFileItem(sys, key) == Reading(sys, key, "throws", "throws")

SearchByFiles(sys, o) ==
  ForFiles(sys, o, LAMBDA k : CompleteFileItem(sys, k), LAMBDA k : CompleteFileItem(sys, k))

SelinuxSecurityContextCollectItems(sys, o) ==
  IF o.form = "pid" THEN SearchByPid(sys, Entity1(o)) ELSE SearchByFiles(sys, o)

\* A parameter by name is a file that is opened; any failure is an item in error.
SysctlGetByName(sys, name) == Reading(sys, <<name>>, "error", "error")

SysctlVisit(sys, name) == Reading(sys, <<name>>, "error", "skips")

SysctlCollectItems(sys, o) ==
  LET name == Entity1(o)
  IN  IF name.op = "equals" THEN Together({SysctlGetByName(sys, v) : v \in Values(name)})
      ELSE IF Fails(sys, "list") THEN Throws
      ELSE Together({SysctlVisit(sys, n) : n \in Matching(name, Listed(sys, << >>))})

-----------------------------------------------------------------------------
(* Listening servers, from the output of one call of netstat or lsof.         *)

\* What matches an operation other than equals is lost when the values come from
\* a variable: the result of the search is not assigned.
GetProtocols(sys, protocol) ==
  IF protocol.ref /\ protocol.op # "equals" THEN {} ELSE Selected(protocol, Listed(sys, << >>))

GetLocalAddresses(sys, p, localAddress) ==
  IF localAddress.ref /\ localAddress.op # "equals" THEN {}
  ELSE Selected(localAddress, Listed(sys, <<p>>))

GetLocalPorts(sys, p, a, localPort) == Matching(localPort, Listed(sys, <<p, a>>))

\* A line that is not understood or a program that is not shown ends it.
ParseNetstatResult(sys) ==
  ~Fails(sys, "list") /\ \A k \in DOMAIN sys.nodes : At(sys, k) # "unreadable"

ServersOfAddress(sys, p, a, localPort) ==
  LET ports == GetLocalPorts(sys, p, a, localPort)
  IN  IF ports # {} THEN Together({Collected(<<p, a, port>>) : port \in ports})
      ELSE ReportNone(localPort, <<p, a>>)

ServersOfProtocol(sys, p, o) ==
  LET addresses == GetLocalAddresses(sys, p, Entity2(o))
  IN  IF addresses # {}
        THEN Together({ServersOfAddress(sys, p, a, Entity3(o)) : a \in addresses})
      ELSE ReportNone(Entity2(o), <<p>>)

InetListeningServersCollectItems(sys, o) ==
  LET protocols == GetProtocols(sys, Entity1(o))
  IN  IF \/ \E i \in 1..2 : ~Accepts(o.entities[i], ExactOperation)
         \/ ~ParseNetstatResult(sys)
        THEN Throws
      ELSE IF protocols # {} THEN Together({ServersOfProtocol(sys, p, o) : p \in protocols})
      ELSE ReportNone(Entity1(o), << >>)

\* Lines of lsof that are too short are skipped.
InetListeningServer510CollectItems(sys, o) ==
  IF \E i \in 1..2 : ~Accepts(o.entities[i], StringOperation) THEN Throws
  ELSE ReadRecords(sys, o, "skips", "skips")

-----------------------------------------------------------------------------
(* Packages.                                                                 *)

\* Only what is installed counts; a section without a name stops the search.
DPKGExists(sys, name) ==
  IF Fails(sys, "list") \/ \E n \in Listed(sys, << >>) : At(sys, <<n>>) = "unreadable" THEN Throws
  ELSE Found({name} \cap {n \in Listed(sys, << >>) : At(sys, <<n>>) = "there"})

GetMatchingDPKGNames(sys, name) ==
  IF Fails(sys, "list") THEN Throws
  ELSE Found({n \in Matching(name, Listed(sys, << >>)) : At(sys, <<n>>) = "there"})

\* What matches another operation than equals is lost with a variable.
GetDPKGNames(sys, name) ==
  IF name.op = "equals"
    THEN LET each == Together({DPKGExists(sys, v) : v \in Values(name)})
         IN  [each EXCEPT !.found = Matching(name, @)]
  ELSE IF name.ref THEN Found({})
  ELSE GetMatchingDPKGNames(sys, name)

GetDPKGInfo(sys, name) == Reading(sys, <<name>>, "throws", "skips")

DPKGInfoCollectItems(sys, o) ==
  LET name == Entity1(o)
      names == GetDPKGNames(sys, name)
  IN  IF ~Accepts(name, ExactOperation) \/ names.throws THEN Throws
      ELSE IF names.found # {} THEN Together({GetDPKGInfo(sys, n) : n \in names.found})
      ELSE ReportNone(name, << >>)

RPMExists(sys, name) ==
  IF \E n \in Listed(sys, << >>) : At(sys, <<n>>) = "unreadable" THEN Throws
  ELSE Found({name} \cap Listed(sys, << >>))

GetMatchingRPMNames(sys, name) ==
  IF \E n \in Listed(sys, << >>) : At(sys, <<n>>) = "unreadable" THEN Throws
  ELSE Found(Matching(name, Listed(sys, << >>)))

GetRPMNames(sys, name) ==
  IF name.op = "equals"
    THEN LET each == Together({RPMExists(sys, v) : v \in Values(name)})
         IN  [each EXCEPT !.found = Matching(name, @)]
  ELSE GetMatchingRPMNames(sys, name)

\* The key a package is signed with takes a call of the tool rpm.
GetSigKeyId(sys) == ~Fails(sys, "rpm")

GetRPMInfo(sys, name) == IF GetSigKeyId(sys) THEN Reading(sys, <<name>>, "throws", "skips") ELSE Throws

RPMInfoCollectItems(sys, o) ==
  LET name == Entity1(o)
      names == GetRPMNames(sys, name)
  IN  IF ~Accepts(name, ExactOperation) \/ Fails(sys, "config") \/ names.throws THEN Throws
      ELSE IF names.found # {} THEN Together({GetRPMInfo(sys, n) : n \in names.found})
      ELSE ReportNone(name, << >>)

\* Verification fails for a file that is gone; one that may be missing keeps its
\* item.
VerifyCompleteItem(sys, key) ==
  Reading(sys, key, "exists", IF Marked(sys, key, "may be missing") THEN "exists" ELSE "does not exist")

\* Directories are no files, and configuration files may be left out.
RPMVerifyProcessPackage(sys, package, o) ==
  IF At(sys, <<package>>) = "unreadable" THEN Throws
  ELSE Together({VerifyCompleteItem(sys, k) : k \in
         {k \in Records(sys, o) : /\ k[1] = package
                                  /\ ~Marked(sys, k, "directory")
                                  /\ o.behavior = "noconfigfiles" => ~Marked(sys, k, "config")
                                  /\ MeetsObject(o, k)}})

ProcessPackagesByName(sys, names, o) ==
  Together({RPMVerifyProcessPackage(sys, n, o) : n \in names \cap Listed(sys, << >>)})

ProcessAllPackages(sys, o) ==
  Together({RPMVerifyProcessPackage(sys, n, o) : n \in Listed(sys, << >>)})

GetPackagesForFilepaths(sys, files) ==
  {n \in Listed(sys, << >>) : \E f \in files : <<n, f>> \in DOMAIN sys.nodes}

RPMVerifyCollectItems(sys, o) ==
  LET name == Entity1(o)
      filepath == Entity2(o)
  IN  IF Fails(sys, "config") THEN Throws
      ELSE IF name.op = "equals" THEN ProcessPackagesByName(sys, Values(name), o)
      ELSE IF filepath.op = "equals"
        THEN ProcessPackagesByName(sys, GetPackagesForFilepaths(sys, Values(filepath)), o)
      ELSE ProcessAllPackages(sys, o)

\* The probe that took its place gives directories an item.
RPMVerifyFileProcessPackage(sys, package, o) ==
  IF At(sys, <<package>>) = "unreadable" THEN Throws
  ELSE Together({VerifyCompleteItem(sys, k) : k \in
         {k \in Records(sys, o) : /\ k[1] = package
                                  /\ o.behavior = "noconfigfiles" => ~Marked(sys, k, "config")
                                  /\ MeetsObject(o, k)}})

RPMVerifyFileCollectItems(sys, o) ==
  LET name == Entity1(o)
      filepath == Entity2(o)
      packages == IF name.op = "equals" THEN Values(name) \cap Listed(sys, << >>)
                  ELSE IF filepath.op = "equals" THEN GetPackagesForFilepaths(sys, Values(filepath))
                  ELSE Listed(sys, << >>)
  IN  IF Fails(sys, "config") THEN Throws
      ELSE Together({RPMVerifyFileProcessPackage(sys, n, o) : n \in packages})

RPMVerifyPackageProcessPackage(sys, package, o) ==
  IF At(sys, <<package>>) = "unreadable" THEN Throws
  ELSE IF MeetsObject(o, <<package>>) THEN Collected(<<package>>)
  ELSE Nothing

RPMVerifyPackageCollectItems(sys, o) ==
  LET name == Entity1(o)
  IN  IF Fails(sys, "config") THEN Throws
      ELSE Together({RPMVerifyPackageProcessPackage(sys, n, o) : n \in
             IF name.op = "equals" THEN Values(name) \cap Listed(sys, << >>)
             ELSE Listed(sys, << >>)})

-----------------------------------------------------------------------------
(* Patches of Solaris: a key is a base with a version, and sys.obsoletes are  *)
(* the pairs of a patch and one that replaces it.                             *)

Patches(sys) == {k \in DOMAIN sys.nodes : Len(k) = 2}

CachePatches(sys) == ~Fails(sys, "list")

\* Of several bases only the patches of the last one that has any are kept.
PatchesOfBases(sys, base) ==
  LET having == SelectSeq(base.values, LAMBDA v : \E k \in Patches(sys) : k[1] = v)
  IN  IF having = << >> THEN {} ELSE {k \in Patches(sys) : k[1] = Last(having)}

\* Later versions of the patch, and what says that it replaces it.
GetSupersedingPatches(sys, patch) ==
  {k \in Patches(sys) : k[1] = patch[1] /\ Ordinal[Head(k[2])] > Ordinal[Head(patch[2])]}
  \cup {pair[2] : pair \in {pair \in sys.obsoletes : pair[1] = patch}}

Superseding(sys, patches) ==
  LET Closure[n \in 0..Cardinality(Patches(sys))] ==
        IF n = 0 THEN patches
        ELSE Closure[n - 1] \cup UNION {GetSupersedingPatches(sys, p) : p \in Closure[n - 1]}
  IN  Closure[Cardinality(Patches(sys))]

Patch54CollectItems(sys, o) ==
  LET base == Entity1(o)
      first == {k \in IF base.op = "equals" THEN PatchesOfBases(sys, base) ELSE Patches(sys) :
                  MeetsObject(o, k)}
  IN  IF \/ ~CachePatches(sys)
         \/ base.op = "equals" /\ \E v \in Values(base) : Ordinal[Head(v)] = 0
        THEN Throws
      ELSE Together({Collected(k) :
             k \in IF o.behavior = "supersedence" THEN Superseding(sys, first) ELSE first})

-----------------------------------------------------------------------------
(* xinetd: the configuration is sys.files, what a file includes and the       *)
(* entries it has, and sys.dirs, what a directory contains.  An entry is the  *)
(* name of a service, or << >> for the defaults, with its parameters.         *)

NoEntries == [throws |-> FALSE, services |-> << >>, defaults |-> << >>]
NotParsed == [NoEntries EXCEPT !.throws = TRUE]

Parameter(op, values) == [op |-> op, values |-> values]

\* XinetdProbe::MergeParamValues: assignments first, then what is added, then what
\* is removed, whatever the order in the file.
MergeParamValues(parameters, preexisting) ==
  LET of(op) == SelectSeq(parameters, LAMBDA p : p.op = op)
      apply(values, p) ==
        CASE p.op = "=" -> p.values
          [] p.op = "+=" -> values \o p.values
          [] p.op = "-=" -> SelectSeq(values, LAMBDA v : v \notin ToSet(p.values))
  IN  << Parameter("=", FoldLeft(apply, preexisting, of("=") \o of("+=") \o of("-="))) >>

\* Only what the defaults name is merged: several lines for any other parameter
\* stay apart.
MergeDefaultsIntoService(service, defaults) ==
  [p \in DOMAIN service \cup DOMAIN defaults |->
     IF p \notin DOMAIN service THEN defaults[p]
     ELSE IF p \notin DOMAIN defaults THEN service[p]
     ELSE MergeParamValues(service[p], defaults[p][1].values)]

NormalizeDefaults(defaults) == [p \in DOMAIN defaults |-> MergeParamValues(defaults[p], << >>)]

ProcessEntryParams(entry) ==
  LET names == {p.name : p \in ToSet(entry.params)}
      lines(n) == SelectSeq(entry.params, LAMBDA p : p.name = n)
  IN  [n \in names |->
         [i \in DOMAIN lines(n) |-> Parameter(lines(n)[i].op, lines(n)[i].values)]]

AddEntry(state, entry) ==
  LET map == ProcessEntryParams(entry)
  IN  IF entry.service = << >>
        THEN [state EXCEPT !.defaults = MergeDefaultsIntoService(map, @)]
      ELSE [state EXCEPT !.services = Append(@, [name |-> entry.service, map |-> map])]

\* XinetdProbe::ReadFileToString and CanonicalizeFileName
CanBeRead(sys, file) == file \in DOMAIN sys.files

\* The first include takes the place of the file and of all that was read before;
\* a file that is being read is not read again.
RECURSIVE ProcessConfigFile(_, _, _, _)
ProcessConfigFile(sys, file, includeStack, state) ==
  LET include == sys.files[file].include
      \* XinetdProbe::ProcessIncludeDir
      one(s, f) == IF s.throws \/ f \in ToSet(includeStack) THEN NotParsed
                   ELSE ProcessConfigFile(sys, f, Append(includeStack, f), s)
      dir(s, d) == IF s.throws \/ d \notin DOMAIN sys.dirs THEN NotParsed
                   ELSE FoldLeft(one, s, sys.dirs[d])
      all == FoldLeft(dir, state, sys.files[file].includedir)
  IN  IF ~CanBeRead(sys, file) THEN NotParsed
      ELSE IF include # << >>
        THEN IF Head(include) \in ToSet(includeStack) THEN NotParsed
             ELSE ProcessConfigFile(sys, Head(include), Append(includeStack, Head(include)), NoEntries)
      ELSE IF all.throws THEN NotParsed
      ELSE FoldLeft(AddEntry, all, sys.files[file].entries)

Has(map, p) == p \in DOMAIN map

FillInOtherParams(map) ==
  LET type == IF Has(map, "socket_type") THEN map["socket_type"][1].values ELSE << >>
      implied == CASE type = <<"stream">> -> <<"tcp">> [] type = <<"dgram">> -> <<"udp">> [] OTHER -> << >>
  IN  IF Has(map, "protocol") \/ implied = << >> THEN map
      ELSE map @@ ("protocol" :> << Parameter("=", implied) >>)

\* Enabled in the defaults and not disabled by itself.
ResolveEnabled(service) ==
  LET map == service.map
      listed(p) == Has(map, p) /\ Head(service.name) \in ToSet(map[p][1].values)
      inDefaults == IF Has(map, "enabled") THEN listed("enabled") ELSE ~listed("disabled")
  IN  inDefaults /\ ~(Has(map, "disable") /\ map["disable"][1].values[1] = "yes")

\* Without a protocol there is no item.
Service2Item(service, o) ==
  LET map == service.map
      key == <<map["protocol"][1].values, service.name,
               <<IF ResolveEnabled(service) THEN "enabled" ELSE "disabled">> >>
  IN  IF Has(map, "protocol") /\ MeetsObject(o, key) THEN Collected(key) ELSE Nothing

XinetdCollectItems(sys, o) ==
  LET read == IF CanBeRead(sys, "xinetd.conf")
                THEN ProcessConfigFile(sys, "xinetd.conf", <<"xinetd.conf">>, NoEntries)
              ELSE NotParsed
      defaults == NormalizeDefaults(read.defaults)
      complete(s) == [s EXCEPT !.map = FillInOtherParams(MergeDefaultsIntoService(@, defaults))]
  IN  IF read.throws THEN Throws
      ELSE Together({Service2Item(complete(s), o) : s \in ToSet(read.services)})
=============================================================================
