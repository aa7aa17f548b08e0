-------------------------------- MODULE Main --------------------------------
(***************************************************************************)
(* The interpreter from its command line to its exit status: what each     *)
(* phase of main reads and writes, and how it fails.  What the phases      *)
(* compute is in other modules, except for the directives, whose steps are *)
(* taken here.  The phases fail as their environment lets them: files may  *)
(* be invalid, the collector and the analyzer may throw, writing may fail. *)
(***************************************************************************)
EXTENDS CommandLine, Directives

CONSTANT Inputs  \* [args, source, config]: what the program may be started on

ASSUME InputsAssumption ==
  \A input \in Inputs : /\ WellTyped(input.args)
                        /\ input.source \in Sources
                        /\ input.config \in Configs \cup {Unreadable}

VARIABLES
  pc,        \* the phase main has come to
  verified,  \* the digest was the one on the command line
  validated, \* the style sheets that found no error
  unseen     \* what failed and left main to go on to success

mainVars == <<pc, verified, validated, unseen>>
vars == <<commandVars, disk, mainVars, directiveVars>>

\* The phases inside main's try block, in their order.
Try ==
  <<"definitions", "directives", "validate c", "collect", "save data",
    "validate j", "read data", "analyze", "apply", "save results",
    "validate k", "transform">>

Goto(phaseOfMain) == pc' = phaseOfMain

\* The phase is over; phases that are not wanted are passed over.
Wanted(p) ==
  CASE p = "validate c" -> "c" \in common.validate
    [] p \in {"collect", "save data"} -> ~common.provided
    [] p = "validate j" -> ~common.provided /\ "j" \in common.validate
    [] p = "read data" -> common.provided
    [] p = "validate k" -> "k" \in common.validate
    [] p = "transform" -> ~common.noXsl
    [] OTHER -> TRUE

ValidationOf == [c |-> "validate c", j |-> "validate j", k |-> "validate k"]

Position(p) == CHOOSE i \in DOMAIN Try : Try[i] = p

Next(p) ==
  LET later == {i \in DOMAIN Try : i > Position(p) /\ Wanted(Try[i])}
  IN  IF later = {} THEN "footer"
      ELSE Try[CHOOSE i \in later : \A j \in later : i <= j]

Stop(status) == Goto("stopped") /\ exit' = status

Written(name, what) == disk' = [disk EXCEPT ![Realpath[name]] = what]

-----------------------------------------------------------------------------
Arguments ==
  /\ pc = "arguments"
  /\ \/ ReadArgument
     \/ CheckCommandLine
  /\ Goto(IF exit' # "running" THEN "stopped"
          ELSE IF args = << >> THEN "log" ELSE "arguments")
  /\ UNCHANGED <<disk, verified, validated, unseen, directiveVars>>

InitLog ==
  /\ pc = "log"
  /\ \/ /\ Written(LogFile[common.log], "log")
        /\ Goto("verify") /\ UNCHANGED exit
     \/ Stop("failure") /\ UNCHANGED disk
  /\ UNCHANGED <<args, common, verified, validated, unseen, directiveVars>>

\* The digest is all that is wanted.
GenerateMD5 ==
  /\ pc = "verify" /\ common.generate
  /\ Stop(IF Exists(common.xmlfile) THEN "success" ELSE "failure")
  /\ UNCHANGED <<args, common, disk, verified, validated, unseen, directiveVars>>

\* WindowsCommon::init and DisableAllPrivileges fail on Windows only.
Verify ==
  /\ pc = "verify" /\ ~common.generate
  /\ \/ /\ common.verify => Exists(common.xmlfile)
        /\ verified' = common.verify
        /\ Goto("definitions") /\ UNCHANGED exit
     \/ Stop("failure") /\ UNCHANGED verified
  /\ UNCHANGED <<args, common, disk, validated, unseen, directiveVars>>

-----------------------------------------------------------------------------
\* The definitions are valid and of a version that is supported; the data that
\* is provided is valid; the collector and the analyzer come to their end.
Succeeds ==
  /\ \/ pc = "definitions" /\ Exists(common.xmlfile)
     \/ pc = "read data" /\ Exists(common.data)
     \/ pc = "collect"
  /\ Goto(Next(pc))
  /\ UNCHANGED <<commandVars, disk, verified, validated, unseen, directiveVars>>

ReadDirectives ==
  /\ pc = "directives"
  /\ LoadDirectives
  /\ Goto(Next(pc))
  /\ UNCHANGED <<commandVars, disk, verified, validated, unseen>>

Analyze ==
  /\ pc = "analyze"
  /\ Evaluated
  /\ Goto(Next(pc))
  /\ UNCHANGED <<commandVars, disk, verified, validated, unseen>>

\* An exception of the DOM is not one main catches.
ApplyDirectives ==
  /\ pc = "apply"
  /\ Applying
  /\ CASE phase' = "applied" -> Goto(Next(pc)) /\ UNCHANGED exit
       [] phase' = "terminated" -> Stop("terminated")
       [] OTHER -> UNCHANGED <<pc, exit>>
  /\ UNCHANGED <<args, common, disk, verified, validated, unseen>>

Save ==
  /\ \/ pc = "save data" /\ Written(common.data, "data")
     \/ pc = "save results" /\ Written(common.output, "results")
  /\ Goto(Next(pc))
  /\ UNCHANGED <<commandVars, verified, validated, unseen, directiveVars>>

\* SchematronValidate.  Whether the transformation itself succeeds is not looked
\* at: one that fails leaves no text, as one does that finds no error.
Validate ==
  /\ \E s \in MayHaveOperand :
       /\ pc = ValidationOf[s]
       /\ \/ /\ Goto(Next(pc)) /\ UNCHANGED exit
             /\ \/ validated' = validated \cup {s} /\ UNCHANGED unseen
                \/ unseen' = unseen \cup {s} /\ UNCHANGED validated
          \/ Stop("failure") /\ UNCHANGED <<validated, unseen>>
  /\ UNCHANGED <<args, common, disk, verified, directiveVars>>

\* Whether the transformation succeeds is not looked at.
Transform ==
  /\ pc = "transform"
  /\ \/ Written(common.xslOutput, "html")
     \/ UNCHANGED disk
  /\ Goto("footer")
  /\ UNCHANGED <<commandVars, verified, validated, unseen, directiveVars>>

\* Faulty form: the exceptions main catches do not end in a failure.
ThrowsQuietly ==
  /\ \E i \in DOMAIN Try \ {Position("apply")} : pc = Try[i]
  /\ UNCHANGED disk
  /\ Stop("success")
  /\ UNCHANGED <<args, common, verified, validated, unseen, directiveVars>>

\* An exception of the severity that ends the program, as all are but one.  The
\* file that was being written is no longer what it was.
Throws ==
  /\ \E i \in DOMAIN Try \ {Position("apply")} : pc = Try[i]
  /\ IF pc = "save data" THEN Written(common.data, "partial")
     ELSE IF pc = "save results" THEN Written(common.output, "partial")
     ELSE UNCHANGED disk
  /\ Stop("failure")
  /\ UNCHANGED <<args, common, verified, validated, unseen, directiveVars>>

\* The expression ids of -e are held against has a limit of matches, beyond which
\* it throws a warning: main prints it and goes on behind its try block.
ThrowsWarning ==
  /\ pc = "analyze" /\ common.limited /\ common.idsFile = NoName
  /\ unseen' = unseen \cup {"ids"}
  /\ Goto("footer")
  /\ UNCHANGED <<commandVars, disk, verified, validated, directiveVars>>

Footer ==
  /\ pc = "footer"
  /\ Stop("success")
  /\ UNCHANGED <<args, common, disk, verified, validated, unseen, directiveVars>>

-----------------------------------------------------------------------------
Init ==
  /\ \E input \in Inputs :
       args = input.args /\ source = input.source /\ config = input.config
  /\ DirectivesStart
  /\ common = CommonDefaults
  /\ exit = "running"
  /\ disk = Initially
  /\ pc = "arguments"
  /\ verified = FALSE
  /\ validated = {}
  /\ unseen = {}

Step ==
  \/ Arguments \/ InitLog \/ GenerateMD5 \/ Verify \/ Succeeds
  \/ ReadDirectives \/ Analyze \/ ApplyDirectives \/ Save \/ Validate
  \/ Transform \/ Throws \/ ThrowsWarning \/ Footer

Spec == Init /\ [][Step]_vars /\ WF_vars(Step)

-----------------------------------------------------------------------------
(***************************************************************************)
(* What a user of the program relies on.                                   *)
(***************************************************************************)
\* No file the program was told to read is written over, by whichever of two
\* names it is called as an input and as an output, and however the program
\* ends.  The style sheets of -j and -k are left out, whose names are not
\* compared as the others are (Main.cpp: ProcessCommandLine).
InputsSurvive ==
  \A n \in InputNames(common) \ {NoName} :
    Initially[Realpath[n]] = "input" => disk[Realpath[n]] = "input"

Files(names) == {Realpath[n] : n \in names}

OutputsDiffer ==
  Cardinality(Files(OutputNames(common))) = 4 - Cardinality({common.provided} \cap {TRUE})

\* The program reports success only for a run all of whose phases ended well:
\* the definitions were the ones the digest is of, the validations that were
\* asked for took place, the directives were applied and the documents saved
\* (Main.cpp: main and its catch clause).  Two failures the code does not see are
\* left out: a transformation of a validation (XslCommon.cpp:70, Main.cpp:1096)
\* and the warning for more ids than -e can have (REGEX.cpp:194, Main.cpp:587),
\* after which the program exits with success without what it was asked for.
SuccessMeansResults ==
  exit = "success" /\ args = << >> /\ ~common.generate =>
    /\ verified = common.verify
    /\ "ids" \notin unseen =>
         /\ phase = "applied"
         /\ common.validate \ (IF common.provided THEN {"j"} ELSE {})
              \subseteq validated \cup unseen
         /\ OutputsDiffer =>
              /\ disk[Realpath[common.output]] = "results"
              /\ ~common.provided => disk[Realpath[common.data]] = "data"

\* The program ends, whatever fails (Main.cpp: the loop over the arguments,
\* Directive.cpp: the recursion over references).
ProgramEnds == <>(exit # "running")

-----------------------------------------------------------------------------
(* What is left of the results once the directives have been applied.         *)

\* The report is untouched until it is finished at once.  The directives are those
\* the file states, not those the program has read from it.
Reported == INSTANCE Reporting WITH
  directives <- StatedDirectives,
  includeSource <- StatedSource,
  published <- phase = "applied",
  report <- IF phase = "applied" THEN [elements |-> kept, criteria |-> criteria]
            ELSE [elements |-> InResults(source), criteria |-> source.criteria]

\* The marks, set definition by definition and spread by a recursion that stops
\* at marks set before, end where the definition of the directives' meaning
\* ends: nothing that is asked for is missing, nothing else is left, whatever
\* the order of the definitions (Directive.cpp: ApplyAll, WalkReferences).  Files
\* that spell a truth value as "0" are left out: the code takes it for true and
\* reports what they do not ask for (Directive.cpp:105, 122).
ImplementsReporting == Reported!Spec

ThinDefinitions == {d \in kept \cap Marked("thin") : source.kind[d] = "definition"}

\* An element of the results refers to elements of the results only, through
\* the variables of its object as well, unless it is a definition reduced to
\* its result (Directive.cpp: ApplyAll).
KeptIsClosed ==
  phase = "applied" =>
    \A x \in kept \ ThinDefinitions : \A r \in References(x) :
      /\ r.to \in InResults(source) => r.to \in kept
      /\ source.kind[r.to] = "variable" =>
           \A q \in References(r.to) : q.to \in kept
=============================================================================
