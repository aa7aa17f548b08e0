----------------------------- MODULE CommandLine -----------------------------
(***************************************************************************)
(* The command line: one step for each turn of the loop over the arguments *)
(* and one for what follows it, which ends in a refusal when an output     *)
(* would overwrite an input.                                               *)
(*                                                                         *)
(* A file is known by its real path.                                       *)
(***************************************************************************)
EXTENDS Naturals, Sequences

CONSTANTS
  Name,          \* names of files
  NoName,        \* the empty name
  Realpath,      \* what realpath makes of a name
  Initially,     \* what the user put into each file, or "absent"
  Directory,     \* operands of -a and -y
  Defaults,      \* the names used when the command line has none
  SchemaFile,    \* the names of the style sheets in the directory of schemas
  LogFile        \* the name of the log in a directory

File == {Realpath[n] : n \in Name}

ASSUME FilesAssumption ==
  /\ Realpath \in [Name -> Name]
  /\ \A n \in Name : Realpath[Realpath[n]] = Realpath[n]
  /\ NoName \notin Name
  /\ Initially \in [File -> {"absent", "input"}]
  /\ Defaults \in [data : Name, xmlfile : Name, output : Name, xslOutput : Name,
                   variables : Name, directives : Name,
                   schema : Directory, log : Directory]
  /\ SchemaFile \in [Directory -> [{"c", "j", "k", "t"} -> Name]]
  /\ LogFile \in [Directory -> Name]

VARIABLES
  args,     \* the arguments left: switches, and operands
  common,   \* the static members of Common
  exit,     \* "running", or how the program ended
  disk      \* what is in each file

commandVars == <<args, common, exit>>

NeedsOperand == {"d", "i", "e", "f", "o", "r", "t", "x", "y", "l", "v", "g", "a"}
MayHaveOperand == {"c", "j", "k"}
Alone == {"m", "s", "p", "z"}
Switch == NeedsOperand \cup MayHaveOperand \cup Alone \cup {"h", "unknown"}

\* An operand names a directory or a file, but for those of -e and -l.
WellTyped(line) ==
  /\ line \in Seq(Switch \cup Name \cup Directory)
  /\ \A i \in DOMAIN line : i + 1 \in DOMAIN line /\ line[i + 1] \notin Switch =>
       /\ line[i] \in {"a", "y"} => line[i + 1] \in Directory
       /\ line[i] \in (NeedsOperand \cup MayHaveOperand) \ {"a", "y", "e", "l"} =>
            line[i + 1] \in Name

\* The member a switch with an operand sets, without those below.
Member ==
  [d |-> "data", i |-> "data", f |-> "idsFile", o |-> "xmlfile", r |-> "output",
   t |-> "xsl", x |-> "xslOutput", v |-> "variables", g |-> "directives",
   a |-> "schema", y |-> "log"]

CommonDefaults ==
  [data |-> Defaults.data, provided |-> FALSE, xmlfile |-> Defaults.xmlfile,
   output |-> Defaults.output, xsl |-> SchemaFile[Defaults.schema].t,
   xslOutput |-> Defaults.xslOutput, noXsl |-> FALSE,
   variables |-> Defaults.variables, directives |-> Defaults.directives,
   idsFile |-> NoName, limited |-> FALSE, verify |-> TRUE, md5 |-> FALSE,
   generate |-> FALSE, schema |-> Defaults.schema, log |-> Defaults.log,
   stylesheet |-> SchemaFile[Defaults.schema], validate |-> {}, given |-> {}]

Exists(name) == disk[Realpath[name]] # "absent"

-----------------------------------------------------------------------------
Usage(status) == exit' = status /\ UNCHANGED <<args, common>>

Consume(n) == args' = SubSeq(args, n + 1, Len(args)) /\ UNCHANGED exit

AtSwitch(switches) ==
  exit = "running" /\ args # << >> /\ Head(args) \in Switch \cap switches

HasOperand == Len(args) > 1 /\ args[2] \notin Switch

\* An argument that is no switch is the digest, as the last one and unless -m
\* came before.
Digest ==
  /\ exit = "running" /\ args # << >> /\ Head(args) \notin Switch
  /\ IF Len(args) = 1 /\ common.verify
       THEN Consume(1) /\ common' = [common EXCEPT !.md5 = TRUE]
       ELSE Usage("failure")

WithoutItsOperand == AtSwitch(NeedsOperand) /\ ~HasOperand /\ Usage("failure")

\* Files that are read have to exist at once.
SetName ==
  /\ AtSwitch(NeedsOperand \ {"e", "l"}) /\ HasOperand
  /\ LET s == Head(args)
     IN  IF s \in {"i", "f", "o", "t", "v", "g"} /\ ~Exists(args[2])
           THEN Usage("failure")
           ELSE /\ Consume(2)
                /\ common' = [common EXCEPT
                     ![Member[s]] = args[2],
                     !.provided = @ \/ s = "i",
                     !.limited = @ \/ s = "f",
                     !.given = IF s = "t" THEN @ \cup {"t"} ELSE @]

SetText ==
  /\ AtSwitch({"e", "l"}) /\ HasOperand
  /\ Consume(2)
  /\ common' = [common EXCEPT !.limited = @ \/ Head(args) = "e"]

SetStylesheet ==
  /\ AtSwitch(MayHaveOperand) /\ HasOperand
  /\ LET s == Head(args)
     IN  IF ~Exists(args[2]) THEN Usage("failure")
         ELSE /\ Consume(2)
              /\ common' = [common EXCEPT !.stylesheet[s] = args[2],
                                          !.validate = @ \cup {s},
                                          !.given = @ \cup {s}]

\* Faulty form: the argument is not passed over.
SetFlagAgain ==
  /\ AtSwitch(Alone \cup MayHaveOperand)
  /\ Head(args) \in MayHaveOperand => ~HasOperand
  /\ common' = [common EXCEPT !.verify = @ /\ Head(args) # "m"]
  /\ UNCHANGED <<args, exit>>

SetFlag ==
  /\ AtSwitch(Alone \cup MayHaveOperand)
  /\ Head(args) \in MayHaveOperand => ~HasOperand
  /\ Consume(1)
  /\ common' = [common EXCEPT
       !.verify = @ /\ Head(args) # "m",
       !.noXsl = @ \/ Head(args) = "s",
       !.generate = @ \/ Head(args) = "z",
       !.validate = @ \cup ({Head(args)} \cap MayHaveOperand)]

\* An unknown switch is answered like the one for help.
Help == AtSwitch({"h", "unknown"}) /\ Usage("success")

-----------------------------------------------------------------------------
\* The style sheets that were not given are those of the directory of schemas.
WithSchema(c) ==
  [c EXCEPT
     !.stylesheet = [s \in DOMAIN @ |-> IF s \in c.given THEN @[s]
                                        ELSE SchemaFile[c.schema][s]],
     !.xsl = IF c.noXsl \/ "t" \in c.given THEN @ ELSE SchemaFile[c.schema].t]

\* They have to exist, wanted or not.
SchemaExists(c) ==
  /\ \A s \in MayHaveOperand \ c.given : Exists(SchemaFile[c.schema][s])
  /\ c.noXsl \/ "t" \in c.given \/ Exists(SchemaFile[c.schema].t)

GetFullPath(name) ==
  IF name # NoName /\ Exists(name) THEN Realpath[name] ELSE name

InputNames(c) ==
  {c.xmlfile, c.variables, c.xsl, c.directives}
  \cup {c.stylesheet[s] : s \in c.validate \cap {"c"}}
  \cup (IF c.limited THEN {c.idsFile} ELSE {})
  \cup (IF c.provided THEN {c.data} ELSE {})

OutputNames(c) ==
  {c.output, c.xslOutput, LogFile[c.log]}
  \cup (IF c.provided THEN {} ELSE {c.data})

\* Faulty form: the names as they were given.
OverwritesByName(c) == InputNames(c) \cap OutputNames(c) # {}

\* The style sheets of -j and -k are compared by the name they were given.
Overwrites(c) ==
  LET inputs == {GetFullPath(n) : n \in InputNames(c)}
                \cup {c.stylesheet[s] : s \in c.validate \cap {"j", "k"}}
  IN  inputs \cap {GetFullPath(n) : n \in OutputNames(c)} # {}

CheckCommandLine ==
  LET c == WithSchema(common)
  IN  /\ exit = "running" /\ args = << >>
      /\ common' = c
      /\ exit' = IF ~SchemaExists(c) \/ (c.verify /\ ~c.md5) \/ Overwrites(c)
                   THEN "failure" ELSE "running"
      /\ UNCHANGED args

ReadArgument ==
  \/ Digest \/ WithoutItsOperand \/ SetName \/ SetText \/ SetStylesheet
  \/ SetFlag \/ Help
=============================================================================
