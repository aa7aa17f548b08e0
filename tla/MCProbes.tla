------------------------------- MODULE MCProbes --------------------------------
(***************************************************************************)
(* For every probe: objects with the operations and checks, on systems with *)
(* up to two things on each level, one of which may be unreadable or gone,  *)
(* with and without failing access to all of them.  "a" and "A" differ in   *)
(* case, and "c" is nowhere.                                               *)
(***************************************************************************)
EXTENDS PlatformProbes

MCName == {"a", "A", "b", "c", "tcp", "udp", "enabled", "disabled", "yes"}

MCFold == [n \in MCName |-> IF n = "a" THEN "A" ELSE n]

MCOrdinal == [n \in MCName |-> CASE n = "a" -> 1 [] n = "b" -> 2 [] n = "c" -> 3 [] OTHER -> 0]

a == <<"a">>
b == <<"b">>
c == <<"c">>
capital == <<"A">>

MCOwnProcess == a

MCDigestNames == {a, b}

-----------------------------------------------------------------------------
Is(op, text) == [op |-> op, values |-> <<text>>, ref |-> FALSE, check |-> "all", nil |-> FALSE]

FromVariable(op, values, check) ==
  [op |-> op, values |-> values, ref |-> TRUE, check |-> check, nil |-> FALSE]

Nil == [Is("equals", << >>) EXCEPT !.nil = TRUE]

Variables == {FromVariable(op, <<a, c>>, check) : op \in ExactOperation, check \in CheckEnumeration}
  \cup {FromVariable("equals", <<a, b>>, "at least one")}

SomeVariables ==
  {FromVariable("equals", <<a, c>>, "all"), FromVariable("equals", <<a, b>>, "at least one"),
   FromVariable("equals", <<a, c>>, "none satisfy"), FromVariable("not equal", <<a, c>>, "all"),
   FromVariable("pattern match", <<a, c>>, "only one")}

\* What one entity may ask for.
Every == Variables
  \cup {Is(op, t) : op \in StringOperation \ {"pattern match"}, t \in {a, c}}
  \cup {Is("equals", capital), Is("greater than", a)}
  \cup {Is("pattern match", re) : re \in {<<"^", "a", "$">>, <<Wild>>}}

\* The same, shorter, where there are several entities.
Brief == {Is("equals", a), Is("equals", c), Is("not equal", a), Is("pattern match", <<Wild>>),
          FromVariable("equals", <<a, c>>, "at least one"), FromVariable("equals", <<a, c>>, "all"),
          FromVariable("not equal", <<a, c>>, "all")}

Short == {Is("equals", a), Is("equals", c), Is("pattern match", <<Wild>>),
          FromVariable("equals", <<a, c>>, "at least one")}

Numbers == {Is("equals", a), Is("greater than or equal", b), Is("less than", b), Is("not equal", a)}

-----------------------------------------------------------------------------
Plain == [nodes |-> << >>, broken |-> {}, build |-> "linux", marks |-> {}, groups |-> << >>,
          accounts |-> << >>, cached |-> << >>, obsoletes |-> {}, files |-> << >>, dirs |-> << >>]

\* All of the keys are there, or one is not as it should be.
NodesOf(keys, states, lengths) ==
  LET there == [k \in keys |-> "there"]
  IN  {there} \cup {[there EXCEPT ![k] = s] : k \in {k \in keys : Len(k) \in lengths}, s \in states}

Failing(accesses) == {{}} \cup {{access} : access \in accesses}

Systems(build, trees, states, lengths, accesses) ==
  {[Plain EXCEPT !.build = build, !.nodes = n, !.broken = f] :
     n \in UNION {NodesOf(keys, states, lengths) : keys \in trees}, f \in Failing(accesses)}

One == { {}, {<<a>>}, {<<a>>, <<b>>}, {<<capital>>}, {<<a>>, <<capital>>} }

Two == { {}, {<<a>>}, {<<a>>, <<a, a>>}, {<<a>>, <<a, a>>, <<a, b>>, <<b>>, <<b, a>>} }

\* Records without anything that leads to them.
Records2 == {{k \in keys : Len(k) = 2} : keys \in Two}

Three == { {}, {<<a>>, <<a, a>>}, {<<a>>, <<a, a>>, <<a, a, a>>},
           {<<a>>, <<a, a>>, <<a, a, a>>, <<a, a, b>>, <<a, b>>, <<a, b, a>>, <<b>>, <<b, b>>, <<b, b, b>>} }

Ask(where, names, form, behaviors, entities, systems) ==
  [platform : where, name : names,
   object : [form : {form}, behavior : behaviors, entities : entities], system : systems]

Lists(n, set) == [1..n -> set]

-----------------------------------------------------------------------------
Singles ==
  Ask({"linux"}, {"family", "uname"}, "path", {"none"}, {<< >>}, Systems("linux", {{}}, {}, {}, {"uname"}))
  \cup Ask({"solaris"}, {"isainfo", "sccs"}, "path", {"none"}, {<< >>}, Systems("solaris", {{}}, {}, {}, {"sysinfo"}))
  \cup Ask({"windows"}, {"passwordpolicy", "lockoutpolicy", "auditeventpolicy", "auditeventpolicysubcategories"},
           "path", {"none"}, {<< >>},
           {[Plain EXCEPT !.build = "windows", !.broken = f] : f \in SUBSET {"list", "wmi", "export", "options"}})

OnUnix(where, names, states, accesses) ==
  Ask({where}, names, "path", {"none"}, Lists(1, Every), Systems(where, One, states, {1}, accesses))

UnixNames ==
  OnUnix("linux", {"environmentvariable"}, {}, {})
  \cup OnUnix("linux", {"selinuxboolean"}, {"unreadable", "gone"}, {"list", "stack"})
  \cup OnUnix("linux", {"variable", "password"}, {"unreadable"}, {"list"})
  \cup OnUnix("solaris", {"shadow"}, {"unreadable"}, {"lock"})
  \cup OnUnix("macos", {"accountinfo"}, {"unreadable", "gone"}, {"list"})
  \cup OnUnix("macos", {"pwpolicy59"}, {"unreadable"}, {"list"})
  \cup OnUnix("macos", {"nvram"}, {}, {"list"})
  \cup OnUnix("solaris", {"interface"}, {}, {"list"})
  \cup OnUnix("linux", {"partition"}, {"unreadable"}, {"list"})
  \cup OnUnix("linux", {"sysctl", "dpkginfo"}, {"unreadable", "gone"}, {"list"})
  \cup OnUnix("linux", {"rpminfo"}, {"unreadable", "gone"}, {"config", "rpm"})
  \cup OnUnix("linux", {"rpmverifypackage"}, {"unreadable"}, {"config"})
  \cup Ask({"linux"}, {"selinuxsecuritycontext"}, "pid", {"none"}, Lists(1, Every \cup {Nil}),
           Systems("linux", One, {"unreadable", "gone"}, {1}, {"list"}))

WindowsNames ==
  OnUnix("windows", {"dnscache", "volume"}, {"unreadable", "gone"}, {"list"})
  \cup OnUnix("windows", {"sharedresource", "interface"}, {}, {"list"})
  \cup OnUnix("windows", {"process", "service"}, {"unreadable"}, {"list"})
  \cup OnUnix("windows", {"wuaupdatesearcher"}, {"unreadable", "gone"}, {"session"})

Marking(systems, marks) == {[s EXCEPT !.marks = m] : s \in systems, m \in marks}

\* Every node is an account.  "b" is a group, with what may be within it.
Accounts(keys, states, groups) ==
  {[s EXCEPT !.groups = groups, !.accounts = [t \in {k[1] : k \in DOMAIN s.nodes} |-> s.nodes[<<t>>]]] :
     s \in Systems("windows", {keys}, states, {1}, {"list", "policy"})}

AccountSystems ==
  Accounts({}, {}, << >>) \cup Accounts({<<a>>}, {"unreadable", "gone"}, << >>)
  \cup Accounts({<<capital>>, <<b>>}, {}, b :> {a})
  \cup Marking(Accounts({<<a>>, <<b>>}, {"unreadable", "gone"}, b :> {a}),
                { {}, {<<<<b>>, "global">>}, {<<<<b>>, "denied">>} })
  \cup Marking(Accounts({<<a>>, <<b>>}, {}, b :> {a, c}), { {}, {<<<<b>>, "global">>} })
  \cup Accounts({<<a>>, <<b>>, <<c>>}, {"gone"}, b :> {c} @@ c :> {a})

SomeNames == SomeVariables \cup {Is("equals", a), Is("equals", b), Is("not equal", c),
                             Is("case insensitive equals", a), Is("pattern match", <<Wild>>)}

AccountNames ==
  Ask({"windows"}, {"group", "user"}, "path", {"none"},
      Lists(1, SomeNames \cup {Is("equals", c), Is("pattern match", <<"^", "a", "$">>)}), AccountSystems)
  \cup Ask({"windows"}, {"group_sid", "user_sid", "user_sid55"}, "path", {"none"},
      Lists(1, SomeNames), AccountSystems \cup Marking(Accounts({<<a>>, <<b>>}, {}, b :> {a, c}), { {<<<<c>>, "no SID">>} }))
  \cup Ask({"windows"}, {"sid", "accesstoken"}, "path", {"none", "resolved", "members"},
      Lists(1, SomeNames), AccountSystems)
  \cup Ask({"windows"}, {"sid_sid"}, "path", {"none", "resolved", "members"},
      Lists(1, SomeNames), AccountSystems \cup Marking(Accounts({<<a>>, <<b>>}, {}, b :> {a, c}), { {<<<<c>>, "no SID">>} }))

-----------------------------------------------------------------------------
Commands ==
  Ask({"linux"}, {"process"}, "path", {"none"}, Lists(1, Every),
      Systems("linux", Records2, {"unreadable", "gone"}, {2}, {"list", "uptime"}))
  \cup Ask({"solaris"}, {"process"}, "path", {"none"}, Lists(1, Brief),
      Systems("solaris", Records2, {"unreadable", "gone"}, {2}, {"list"}))
  \cup Ask({"macos"}, {"process"}, "path", {"none"}, Lists(1, Brief),
      Systems("macos", Records2, {"unreadable", "gone"}, {2}, {"list"}))
  \cup Ask({"macos"}, {"process58"}, "path", {"none"}, Lists(2, Brief),
      Systems("macos", Records2, {"unreadable", "gone"}, {2}, {"list"}))
  \cup Ask({"solaris"}, {"process58"}, "path", {"none"}, Lists(2, Short),
      Systems("solaris", Records2, {"unreadable", "gone"}, {2}, {"list"}))
  \cup Ask({"linux"}, {"process58"}, "path", {"none"}, Short \X (Short \cup Numbers \cup {Nil}),
      {[s EXCEPT !.marks = {<<<<a, a>>, part>>}] : part \in {"stat", "status", "loginuid", "terminal", "label"},
         s \in Systems("linux", Records2, {"unreadable", "gone"}, {2}, {"list", "uptime"})})
  \cup Ask({"windows"}, {"process58"}, "path", {"none"}, Lists(2, Brief),
      Systems("windows", Records2, {"unreadable"}, {2}, {"list"}))

Below(above, n) == above \o <<Sep, n>>

\* A key within another.
Deeper == { {<<a>>, <<a, a>>, <<Below(a, "b")>>, <<Below(a, "b"), a>>} }

Pairs ==
  Ask({"linux"}, {"runlevel"}, "path", {"none"}, Lists(2, Brief),
      Systems("linux", Records2, {"unreadable", "gone"}, {2}, {"list", "stack"}))
  \cup Ask({"linux"}, {"inetd"}, "path", {"none"}, Lists(2, Brief),
      Systems("linux", Records2, {"unreadable"}, {2}, {"list"}))
  \cup Ask({"linux"}, {"environmentvariable58"}, "path", {"none"},
      (Brief \cup {Nil}) \X Brief, Systems("linux", Two, {"unreadable", "gone"}, {1}, {"list"}))
  \cup Ask({"windows"}, {"environmentvariable58"}, "path", {"none"},
      (Brief \cup {Nil}) \X Short, Systems("windows32", Two, {"unreadable", "gone"}, {1}, {"list"}))
  \cup Ask({"linux"}, {"rpmverify", "rpmverifyfile"}, "path", {"none", "noconfigfiles"}, Brief \X Short,
      {[s EXCEPT !.marks = m] : s \in Systems("linux", Two, {"unreadable", "gone"}, {1, 2}, {"config"}),
         m \in { {<<<<a, a>>, "config">>}, {<<<<a, a>>, "may be missing">>, <<<<a, b>>, "directory">>} }})
  \cup Ask({"solaris"}, {"patch54"}, "path", {"none", "supersedence"},
      (Short \cup {Is("equals", capital), FromVariable("equals", <<a, b>>, "at least one")}) \X Numbers,
      {s \in {[s EXCEPT !.obsoletes = r] : s \in Systems("solaris", Records2, {}, {}, {"list"}),
                                           r \in { {}, {<<<<a, a>>, <<b, a>>>>} }} :
         \A pair \in s.obsoletes : pair[2] \in DOMAIN s.nodes})
  \cup Ask({"windows"}, {"wmi", "wmi57"}, "path", {"none"}, Lists(2, Brief),
      Systems("windows", Two, {"unreadable", "gone"}, {1, 2}, {}))
  \cup Ask({"windows"}, {"metabase"}, "path", {"none"},
      (Brief \cup {Is("pattern match", <<"^", "a">>), Is("equals", <<"a", Sep>>),
                 Is("pattern match", <<"a", "$">>)}) \X (Short \cup {Nil}),
      Systems("windows", Two \cup Deeper, {"unreadable", "gone"}, {1, 2}, {}))

\* Below a service or a printer are trustees, of which "b" is a group, and of which
\* one may have no account or one that cannot be looked up.
TrusteeSystems(systems) ==
  {[s EXCEPT !.groups = b :> {a}, !.accounts = accounts] :
     s \in systems, accounts \in { a :> "there" @@ b :> "there", b :> "there", a :> "unreadable" @@ b :> "there" }}

SomeTrustees == {Is("equals", a), Is("equals", b), Is("not equal", a), Is("pattern match", <<Wild>>),
                 FromVariable("equals", <<a, c>>, "at least one")}

RightsBehaviors == {"none", "resolved", "members"}

Rights ==
  Ask({"windows"}, {"serviceeffectiverights", "printereffectiverights"}, "path",
      RightsBehaviors, Short \X SomeTrustees,
      TrusteeSystems(Systems("windows", Two, {"unreadable"}, {1, 2}, {"list"})))

-----------------------------------------------------------------------------
Path(n) == <<Sep, n>>

\* A directory with up to two files, each with up to two lines, digests or what
\* else there is to be read.
FileTrees ==
  { {},
    {<<Path("a")>>, <<Path("a"), a>>},
    {<<Path("a")>>, <<Path("a"), a>>, <<Path("a"), a, a>>, <<Path("a"), a, b>>,
     <<Path("a"), b>>, <<Path("a"), b, b>>, <<Path("b")>>} }

PathEntities == {Is("equals", Path("a")), Is("equals", Path("c")), Is("pattern match", <<Wild>>),
                 FromVariable("equals", <<Path("a"), Path("c")>>, "at least one")}

FilePathEntities == {Is("equals", Path("a") \o Path("a")), Is("equals", Path("a") \o Path("c")),
                     Is("pattern match", <<"b", "$">>)}

FileNameEntities == {Is("equals", a), Is("not equal", a), Nil}

OfFiles(where, names, further, systems) ==
  Ask({where}, names, "path", {"none"},
      {<<p, n>> \o f : p \in PathEntities, n \in FileNameEntities, f \in further}, systems)
  \cup Ask({where}, names, "filepath", {"none"},
      {<<p>> \o f : p \in FilePathEntities, f \in further}, systems)

FileSystems(where, lengths) == Systems(where, FileTrees, {"unreadable", "gone"}, lengths, {})

Files ==
  OfFiles("linux", {"filehash", "filemd5"}, {<< >>}, FileSystems("linux", {2}))
  \cup OfFiles("linux", {"selinuxsecuritycontext"}, {<< >>}, FileSystems("linux", {2}))
  \cup OfFiles("linux", {"filehash58", "xmlfilecontent"}, Lists(1, Brief), FileSystems("linux", {2, 3}))
  \cup OfFiles("linux", {"textfilecontent"},
               Lists(1, {Is("pattern match", a), Is("pattern match", <<Wild>>), Is("equals", a),
                         FromVariable("pattern match", <<a, c>>, "at least one")}), FileSystems("linux", {2}))
  \cup OfFiles("linux", {"textfilecontent54"},
               {Is("pattern match", a), Is("pattern match", <<Wild>>),
                FromVariable("pattern match", <<a, c>>, "all")} \X Numbers, FileSystems("linux", {2}))

\* A drive with directories and files, no two of them alike but for their case.
DriveTrees ==
  { {}, {<<a>>, <<a, a>>},
    {<<a>>, <<a, capital>>, <<a, b>>, <<Below(a, "b")>>, <<Below(a, "b"), a>>,
     <<Below(Below(a, "b"), "tcp")>>, <<Below(Below(a, "b"), "tcp"), a>>, <<b>>, <<b, a>>} }

DrivePaths ==
  {Is("equals", capital), Is("equals", c), Is("equals", Below(a, "b")), Is("not equal", a),
   Is("pattern match", <<Wild>>), Is("pattern match", <<"^", "a">>), Is("pattern match", <<"^", "a", Sep, Wild>>),
   FromVariable("equals", <<a, c>>, "all"), FromVariable("pattern match", <<a, Below(a, "b")>>, "at least one")}

DriveFilePaths ==
  {Is("equals", Below(a, "a")), Is("equals", Below(capital, "a")), Is("equals", Below(a, "c")),
   Is("not equal", Below(a, "a")), Is("pattern match", <<"a", "$">>),
   Is("pattern match", <<"^", "a", Sep, Wild>>), Is("pattern match", <<"a", Sep, "b">>),
   FromVariable("equals", <<Below(a, "a"), Below(a, "c")>>, "at least one")}

DriveMarks ==
  { {<<<<a, a>>, "refused">>}, {<<<<a, b>>, "dot">>}, {<<<<Below(a, "b")>>, "dot">>},
    {<<<<Below(a, "b")>>, "reparse point">>}, {<<<<a>>, "reparse point">>} }

DriveFiles(behaviors, paths, fileNames, filePaths, names, further, systems) ==
  Ask({"windows"}, names, "path", behaviors,
      {<<p, n>> \o f : p \in paths, n \in fileNames, f \in further}, systems)
  \cup Ask({"windows"}, names, "filepath", {"none"} \cup (behaviors \cap {"resolved"}),
      {<<p>> \o f : p \in filePaths, f \in further}, systems)

Drives ==
  DriveFiles({"none", "up", "down", "up one", "down one"}, DrivePaths,
             {Is("equals", capital), Is("not equal", b), Nil},
             DriveFilePaths, {"file"}, {<< >>},
             Systems("windows", DriveTrees, {"unreadable", "gone"}, {1, 2}, {})
             \cup Marking(Systems("windows", DriveTrees, {}, {}, {}), DriveMarks))

\* A file with the trustees of its list.
RightsTrees ==
  { {<<a>>, <<a, a>>},
    {<<a>>, <<a, a>>, <<a, a, a>>, <<a, a, b>>, <<a, b>>, <<a, b, b>>} }

FileRightsQuestions ==
  DriveFiles(RightsBehaviors, {Is("equals", a), Is("equals", c)}, {Is("equals", a), Is("pattern match", <<Wild>>)},
             {Is("equals", Below(a, "a")), Is("equals", Below(a, "c"))}, OfFileRights, Lists(1, SomeTrustees),
             TrusteeSystems(Systems("windows", RightsTrees, {"unreadable"}, {2, 3}, {})
                            \cup Marking(Systems("windows", RightsTrees, {}, {}, {}),
                                         { {<<<<a, a>>, "refused">>} })))

-----------------------------------------------------------------------------
\* The hive "b" with keys two deep, and names or trustees in each.
HiveTrees ==
  { {}, {<<b>>, <<b, << >>>>},
    {<<b>>, <<b, << >>>>, <<b, << >>, a>>, <<b, a>>, <<b, a, a>>, <<b, a, b>>,
     <<b, Below(a, "b")>>, <<b, Below(a, "b"), a>>} }

KeyEntities == {Is("equals", a), Is("equals", c), Is("equals", Below(a, "b")), Is("not equal", a),
                Is("pattern match", <<Wild>>), Is("pattern match", <<"^", "a">>),
                Is("pattern match", <<"^", "a", Sep, Wild>>), FromVariable("equals", <<a, c>>, "at least one"), Nil}

Registry ==
  Ask({"windows"}, {"registry"}, "path", {"none", "up", "down", "up one", "down one"},
      {Is("equals", b), Is("pattern match", <<Wild>>)} \X KeyEntities
        \X {Is("equals", a), Is("not equal", a), FromVariable("equals", <<a, c>>, "all"), Nil},
      Systems("windows", HiveTrees, {"unreadable", "gone"}, {2, 3}, {}))
  \cup Ask({"windows"}, OfKeyRights, "path", RightsBehaviors,
      {Is("equals", b)} \X (KeyEntities \ {Is("equals", Below(a, "b")), Is("not equal", a)}) \X SomeTrustees,
      TrusteeSystems(Systems("windows", HiveTrees, {"unreadable"}, {2, 3}, {})))

DirectoryTrees ==
  { {}, {<<a>>, <<a, << >>>>},
    {<<a>>, <<a, << >>>>, <<a, << >>, a>>, <<a, a>>, <<a, a, a>>, <<a, <<"b", "a">>>>, <<a, <<"b", "a">>, b>>,
     <<b>>, <<b, << >>>>, <<b, a>>, <<b, a, a>>} }

DirectoryServices ==
  Ask({"linux"}, {"ldap"}, "path", {"base", "one", "subtree"}, Short \X (Short \cup {Nil}) \X (Short \cup {Nil}),
      Systems("linux", DirectoryTrees, {"unreadable"}, {1, 2}, {"connect"}))
  \cup Ask({"windows"}, {"activedirectory"}, "path", {"none"},
      Short \X (Short \cup {Nil, Is("pattern match", <<"a", "$">>), FromVariable("not equal", <<a, c>>, "all")})
        \X {Is("equals", a), Is("equals", c), Is("pattern match", <<Wild>>),
            FromVariable("not equal", <<a, c>>, "all"), Nil},
      Systems("windows", DirectoryTrees, {"unreadable"}, {1, 2}, {"domain"}))

\* A command of two modules.
InBoth == { {<<a>>, <<b>>, <<a, a, a>>, <<b, a, a>>} }

\* Ports in use, of which one has two connections.
Four == { {}, {<<a>>, <<a, a>>, <<a, a, a>>, <<a, a, a, a>>},
          {<<a>>, <<a, a>>, <<a, a, a>>, <<a, a, a, a>>, <<a, a, a, b>>, <<a, a, c>>, <<a, a, c, a>>,
           <<a, b>>, <<a, b, b>>, <<a, b, b, a>>, <<b>>, <<b, b>>, <<b, b, b>>, <<b, b, b, b>>} }

ByBits == {Is(op, t) : op \in {"bitwise and", "bitwise or"}, t \in {a, b}}
  \cup {FromVariable("bitwise and", <<a, b>>, "all")}

Triples ==
  Ask({"linux"}, {"iflisteners"}, "path", {"none"}, Lists(3, Short),
      Systems("linux", Three, {"unreadable", "gone"}, {3}, {"list"}))
  \cup Ask({"linux"}, {"inetlisteningservers"}, "path", {"none"},
      {<<p, t, n>> : p \in Short, t \in Short \cup {FromVariable("pattern match", <<a, c>>, "at least one")},
                     n \in {Is("equals", a), Is("equals", c), Is("less than", b)}},
      Systems("linux", Three, {"unreadable"}, {3}, {"list"}))
  \cup Ask({"macos"}, {"inetlisteningserver510"}, "path", {"none"}, Lists(3, Short),
      Systems("macos", Three, {}, {}, {"list"}))
  \cup Ask({"windows"}, {"port"}, "path", {"none"},
      Short \X (Short \cup {FromVariable("not equal", <<a, c>>, "all")})
        \X (Short \cup Numbers \cup ByBits),
      Systems("windows", Four, {}, {}, {"list"}))
  \cup Ask({"windows"}, {"cmdlet"}, "path", {"none"}, (Short \cup {Nil}) \X Short \X Short,
      Marking(Systems("windows", Three \cup InBoth, {"unreadable"}, {3}, {"list"}),
              { {<<<<b>>, "no verb">>}, {<<<<a>>, "not loaded">>} }))

-----------------------------------------------------------------------------
(* Configurations of xinetd, with the services that they mean.                 *)

Line(parameter, op, values) == [name |-> parameter, op |-> op, values |-> values]
Service(service, lines) == [service |-> service, params |-> lines]
Defaults(lines) == Service(<< >>, lines)
Tcp == Line("protocol", "=", <<"tcp">>)

ConfigFile(include, includedir, entries) ==
  [include |-> include, includedir |-> includedir, entries |-> entries]

Meaning(services) == [k \in services |-> "there"]

Config(files, services) ==
  [Plain EXCEPT !.files = files, !.dirs = "dir" :> <<"extra">>, !.nodes = Meaning(services)]

OneFile(entries, services) == Config("xinetd.conf" :> ConfigFile(<< >>, << >>, entries), services)

Extra == "extra" :> ConfigFile(<< >>, << >>, << Service(b, << Tcp >>) >>)

Enabled(service) == <<<<"tcp">>, service, <<"enabled">>>>
Disabled(service) == <<<<"tcp">>, service, <<"disabled">>>>

Configurations == {
  OneFile(<< Service(a, << Line("socket_type", "=", <<"dgram">>), Line("disable", "=", <<"yes">>) >>),
             Service(b, << Tcp >>), Service(c, << >>) >>,
          {<<<<"udp">>, a, <<"disabled">>>>, Enabled(b)}),
  OneFile(<< Defaults(<< Line("disabled", "=", <<"a", "b">>), Line("disabled", "-=", <<"a">>) >>),
             Service(a, << Tcp >>), Service(b, << Tcp >>) >>,
          {Enabled(a), Disabled(b)}),
  OneFile(<< Defaults(<< Line("enabled", "+=", <<"a">>), Tcp >>),
             Service(a, << >>), Service(b, << Line("socket_type", "=", <<"stream">>) >>) >>,
          {Enabled(a), Disabled(b)}),
  Config("xinetd.conf" :> ConfigFile(<< >>, <<"dir">>, << Service(a, << Tcp >>) >>) @@ Extra,
         {Enabled(a), Enabled(b)}),
  Config("xinetd.conf" :> ConfigFile(<<"extra">>, << >>, << Service(a, << Tcp >>) >>) @@ Extra,
         {Enabled(a), Enabled(b)}),
  Config("xinetd.conf" :> ConfigFile(<<"xinetd.conf">>, << >>, << Service(a, << Tcp >>) >>),
         {Enabled(a)}),
  [Plain EXCEPT !.dirs = "dir" :> << >>] }

Internet ==
  Ask({"linux"}, {"xinetd"}, "path", {"none"},
      {Is("equals", <<"tcp">>), Is("not equal", <<"tcp">>), Is("pattern match", <<Wild>>)} \X Brief,
      Configurations)

MCQuestions ==
  UNION {Singles, UnixNames, WindowsNames, AccountNames, Commands, Pairs, Rights, Files, Drives, FileRightsQuestions,
         Registry,
         DirectoryServices, Triples, Internet}
=============================================================================
