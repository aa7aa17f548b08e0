# A TLA+ model of the OVAL Interpreter (ovaldi)

The OVAL Interpreter reads a document of OVAL definitions, collects from the
system what the definitions ask about (or reads what was collected before),
evaluates every definition and writes the results. This directory models it from
the command line to the report: the phases of main, the probes of
the four platforms and the search for files, the collection of objects with sets and
filters, the computation of variables, the comparison of values, the evaluation of
tests and definitions, and the directives. The modules are
written from the C++ sources in `src/src/`; line references below are to that
directory unless they name another.

Contents: [the system](#the-system) · [modules](#modules) · [runs](#runs) ·
[proofs](#proofs) · [where code and documents disagree](#where-code-and-documents-disagree) ·
[what is not modelled](#what-is-not-modelled) · [plan](#plan)

## The system

One process, one thread. `main` (Main.cpp) runs these phases, each of which
leaves a document the next one reads:

1. read the command line, refuse outputs that name inputs, open the log;
2. check the digest of the definitions document, validate and load it (XmlProcessor,
   DocumentManager), load the directives if there are some;
3. unless a system characteristics document is given: *collection*.
   `AbsDataCollector::Run` goes over the objects of the definitions document and
   calls `AbsObjectCollector::Run` for each, which finds the probe for it by name
   and has it look for the items; then save what was collected;
4. *evaluation*. `Analyzer::Run()` goes over all definitions, or
   `Analyzer::Run(ids)` over those named on the command line and then over the
   others;
5. apply the directives, write the results document, transform it.

Although nothing runs concurrently inside the program, the order of events is not simple. All three
recursions of evaluation (parse, analyze, write) run over one graph whose nodes
are shared: definitions extend definitions, share tests, and are reached by the
main loop and from one another. Whoever arrives first does the work and leaves a
flag or an entry of a static cache for the others. Collection is the same again
for objects: a set collects the objects it refers to, a variable collects an
object while another one is being parsed. Exceptions cut these recursions at
points that are far from where they are thrown, and what the caches hold then
stays. And the system that is looked at does not stand still: files, processes
and accounts come and go between two readings of one probe, and between the
objects a probe is asked for.

### Components

| component | state | operations | interacts with | what makes it correct |
|---|---|---|---|---|
| Result and flag enumerations (OvalEnum) | none | combine results by operator and by check, negate, combine flags | called by every evaluation | agrees with the charts of the schema for every count of results |
| Analyzer, definitions, criteria (Analyzer, Definition, Criteria, Criterion, ExtendedDefinition) | caches of definitions and tests, `analyzed` and `written` flags, results, the results document, one list of definitions per result | `Run()`, `Run(ids)`; Parse, Analyze, NotEvaluated, Write, ClearCache | tests; itself through extend_definition | one verdict per definition, final, reported once, written once, and following from the tests by the charts; nothing needed is skipped and nothing else is evaluated |
| Tests (Test, TestedItem) | tested items, result, flags | Parse, Analyze (gather items, decide by flag, existence, states), NotEvaluated, Write | collected objects in the system characteristics, items, states | under a complete flag the charts; under an incomplete one a verdict no further item can overturn |
| States, objects, entities at analysis (State, Object, AbsEntity, StateEntity, ObjectEntity, Item, ItemEntity) | caches by id | compare an item with a state or with an object | entity comparison, variables | missing entities, statuses, errors of variables end in the right result |
| Entity comparison (EntityComparator) | none | comparison by datatype and operation; of fields of records, and of values of external variables | – | orders are orders; numbers by value whatever their width, addresses as sets, the same in all builds |
| Object collection (AbsDataCollector, AbsObjectCollector, CollectedObject, CollectedSet, Set, SetObject, Filter, ObjectFactory) | map of collected objects; each has a flag and references to items | Run for one object, process an object or a set, apply filters, write the collected objects | probes, filters' states, variables, parsing | what a flag claims about the system is true; each object collected once; a failure hits the object it belongs to and no other |
| Probes and items (AbsProbe, ObjectReader, Item) | map of all items | run a probe for one object, give equal items one identity | object collection | items are equal exactly if they have one id |
| Variables and functions (VariableFactory, AbsVariable, ComponentFactory, ObjectComponent, TimeDifferenceFunction, ...) | cache of variables with flag and values | get a variable, compute its components, collect the objects it needs, read dates | object collection (re-entrant), entities, filters | flag tells whether the values are all there are; circles end |
| Directives (Directive) | maps of directives by class, marks on elements of the results | load, mark definitions, spread the marks along references, remove what has none | results document | what is left is what was asked for and closed under references |
| Main pipeline (Main, Common, DocumentManager) | options, documents, files | the phases | all | no input is lost; success means finished documents |
| XML processing (XmlProcessor, XmlCommon, XslCommon) | parsers | parse, validate, write, transform | all | documents are valid when the others read them |
| File search (AbsFileFinder, FileFinder, REGEX) | none | search by path and name or by file path, recursion with depth limit, report what is missing | file probes | what is found meets the object; what stays is found; ends in spite of links |
| Platform probes (probes/*, windows/WindowsCommon, RegistryFinder) | lists of accounts, processes, ports, entries, read once | find what an object asks for on the system | object collection | what is reported is there, what is there is reported |
| Platform collectors (linux/, macos/, solaris/, windows/ ProbeFactory, DataCollector) | the probes made so far | choose the probe for an object | collection | every object gets its probe or the flag "not collected" |
| Messages, log, digests, regular expressions | log file | utilities | all | – |

### Hard behaviours

The hazards in `PROJECT.json` name the line of each. In short:

- *Who comes first*: the definition cache is filled by Parse, before the loop has
  come to a definition, and the loop takes what is in the cache for done
  (Analyzer.cpp:184, 242). Tests are shared by definitions to be analyzed and
  definitions to be reported as not evaluated (Definition.cpp:285).
- *Once and finally*: a second Analyze, NotEvaluated or Write of the same object must do
  nothing (Definition.cpp:193, 251; Test.cpp).
- *Exceptions across recursions*: a dangling reference leaves `Run` from within Parse, a
  dangling item from within Test::Analyze (Test.cpp:866); a filter's exception
  ends in the set object that is being collected, the innermost of several
  (AbsObjectCollector.cpp:121), a variable's in the object being parsed (:89).
- *Case analysis*: 6 result values in 8 ways of combining, 4 statuses in 5 ways of
  existence, 36 pairs of flags in 3 ways of combining, 11 datatypes with up to 13 operations, written as chains of `if`
  with fall-through.
- *Boundaries*: integers that fit only one of two widths, versions of different
  lengths, masks that end within a byte, depth limits below zero, the root of a file system, the hours at which summer time begins and ends.
- *Incomplete knowledge*: results from objects of which not all items were
  collected (Test.cpp:505-600), and from sets over them.
- *Re-entrance*: collection of an object in the middle of the parsing of another
  (ObjectComponent.cpp:55), with a cache that has the half parsed variable in it
  (VariableFactory.cpp:87), so that circular references meet one. Every variable
  is computed a second time for the states, from the document the first
  computation contributed to.
- *What is read once*: probes keep lists, and some keep them although the reading
  failed (NvramProbe.cpp:129, WindowsCommon.cpp:755).
- *What vanishes*: between the list of files, processes or keys and the look at each of them, and between the
  search and the second look that decides that something is missing
  (FileProbe.cpp:194, AbsFileFinder.cpp:456, ProcessProbe.cpp:281).
- *Files with two names*: an output that is an input under another name (Main.cpp:989).

## Modules

Each module states in its head which part of the code it stands for, and
`PROJECT.json`, "map", gives for every definition the lines. Variables, actions and helper operators have
the names they have in the code wherever there is one. Definitions headed
`Faulty form` are deliberate mistakes (a missing guard, a swapped order): they are not
part of any specification, and exist so that each property can be shown to fail
when the definition after them is replaced by the faulty form.

| module | stands for | state and actions |
|---|---|---|
| `OvalEnum` | the enumerations and the combining functions of OvalEnum.cpp | no state. The functions take the number of occurrences of each value (a *tally*), which is all the C++ reads of its vector |
| `SchemaTables` | the evaluation charts of `xml/oval-common-schema.xsd` and `xml/oval-definitions-schema.xsd`, row by row | reference for the properties, independent of the code |
| `ResultCombination` | the `IntVector` of results that callers build with `push_back` | `Push` |
| `Analyzer` | Analyzer, Definition, Criteria, Criterion, ExtendedDefinition, and the part of Test that takes part in the recursions | `stack` is the C++ call stack, one frame per active `Parse`, `Analyze`, `NotEvaluated` or `Write`; one action per step of a call: look at the flag, call the child, return; the loops of `Run` are `HandleRequested`, `HandleNext` and so on; `Abort` is an exception leaving `Run`, and `WriteTestThrows` the one that leaves it out of Test::Write |
| `Verdicts` | what a reader of the results relies on: one verdict each, shown as it was decided | abstract specification, `Decide` and `Publish` |
| `TestEvaluation` | Test::Parse (the deprecated check), Test::Analyze, EvaluateCheckExistence, EvaluateCheckState, State::Analyze, Object::Analyze, AbsEntity::Analyze | `phase` follows Test::Analyze: gather items, decide by the flag, check states; `thrown` is an exception leaving it |
| `ObjectCollector` | AbsDataCollector::Run, AbsObjectCollector (Run, ProcessObject, ProcessSetObject, ProcessSet, CombineFlagBySetOperator), CollectedObject, Filter::DoFilter, the frame of AbsProbe::Run | `stack` holds the set objects and sets being processed, `collected` is collectedObjectsMap; the exceptions of probes, filters and variables are actions |
| `ComponentFunctions` | what the functions of local variables do to values (BeginFunction, SplitFunction, ...) | operators on sequences of characters |
| `DateTimes` | how TimeDifferenceFunction.cpp reads the five formats of dates, and what it makes of the clock of the machine | one call of ComputeValue is one step; calendar, `mktime` and `localtime` are the C library's (external) |
| `Variables` | VariableFactory::GetVariable, ComputeValue and Parse of variables and components, AbsObjectCollector::Run as far as variables call it, ObjectReader, the listing of the values used (GetVariableValues), Test::Write | `stack` holds the active calls of Parse of objects, states and local variables, `cache` is processedVariableCache; CollectObject and ReadObject are the two halves of ObjectComponent::ComputeValue, Fail is an exception and where it is caught |
| `EntityComparison` | EntityComparator.cpp, with the classes Ipv4Address and Ipv6Address and the Windows parser of addresses | operators: a value of the definition, a value of the system, an operation |
| `ValueComparison` | the places that choose a comparison by datatype: AbsEntity::Analyze, StateOrObjectFieldEntityValue::Analyze and the record comparison, ValidateValue of external variables | one action per caller; `result` is what the call returned |
| `CommandLine`, `Main` | Main.cpp and the static members of Common: the arguments, the phases with their failures and exits, the files | `pc` is the phase, `disk` says what is in each file, known by its real path; one action per phase, and what may fail in a phase is a choice |
| `Directives` | Directive.cpp: loading, ApplyAll, WalkReferences, the removal | `contentType` is the mark on an element, `frames` the calls of WalkReferences |
| `Reporting` | what directives promise, as their file states them | abstract specification, `Publish` |
| `PathText` | texts of paths and regular expressions over them (Common.cpp, REGEX.cpp) | operators; a path is a sequence of names and separators |
| `Probing` | what all probes share: an entity held against a text, reading of the values, how a search ends (AbsEntity.cpp, AbsProbe.cpp) | operators |
| `FileSearch`, `FileProbe` | the file system and its calls (external), AbsFileFinder.cpp, unix/FileFinder.cpp, and the probe for attributes of files, unix/FileProbe.cpp | `phase` follows GetFiles: paths, names, attributes, what is missing; `Unlink` and `Create` change the file system between any two steps |
| `IndependentProbes`, `UnixProbes`, `WindowsAccounts`, `WindowsProbes` | CollectItems of every probe in probes/independent; unix, linux, macos and solaris; windows (accounts, rights of services and printers; everything else), with WindowsCommon, RegistryFinder and the Windows FileFinder | operators: the items, the throw or the "does not exist" a probe makes of an object on a system |
| `PlatformProbes` | ProbeFactory of the four platforms, AbsObjectCollector's choice of probe, the members probes keep | `GetProbe`, `EarlierObject` and `EarlierListing` (what an earlier object made the probe keep), `Change` of the system, `Run` |
| `AnalyzerProperties`, `VariableProperties` | – | the properties; those of the other modules are at their ends |
| `MCAnalyzer`, `MCTest`, `MCCollector`, `MCVariables`, `MCComparison`, `MCMain`, `MCFiles`, `MCProbes` | – | instances for TLC |
| `ProofLemmas`, `ResultProofs`, `ComparisonProofs`, `TestProofs`, `CollectorProofs`, `VariableProofs`, `AnalyzerProofs`, `MainProofs` | – | theorems and proofs, see [proofs](#proofs) |

How the modules fit together. `Main` puts everything in its place: collection and
evaluation are one step of it each, with an exception as the other outcome, and
`Directives` are run step by step on the document it leaves. `Analyzer` opens evaluation; it treats Test::Analyze as an atomic
choice of a result. `TestEvaluation` opens that step: its type invariant says that
an analyzed test never yields *not evaluated*, which is the set of results
`AnalyzeTest` of `Analyzer` chooses from, and `GatherThrows` is the exception
`AnalyzeTestThrows` stands for. It compares an item with an entity by a constant;
`ValueComparison` opens that. `TestEvaluation` starts from any
collected object a document can hold, since a document may also come from
another tool; `ObjectCollector` says which ones this program produces. There what a
probe finds is a choice: `PlatformProbes` opens it, and `FileProbe` does so for files step by step, with the
finder under it. What a variable contributes is its flag, a constant;
`Variables` computes it, and in turn takes what
collecting an object comes to, once its variables are complete, as a choice
from a constant; `DateTimes` opens its `time_difference`, of which it has the default format only. All use the functions of `OvalEnum`.

What is abstracted: ids, items and nodes are model values. In `TestEvaluation` and `ObjectCollector` the comparison of an item
with an entity of a state (`Comparison`), with an object (`ObjectMatch`) and with
a filter's state are constants, i.e. every outcome the instance lists; the DOM is the sequence of elements appended
to it, or in `Main` the elements left. For `PlatformProbes` a system is what can be told apart by asking: a
tree of things by name (a process by command and pid, a registry value by key and name) each of which is
there, unreadable, or gone when its turn comes, the readings that fail, the groups and who is in them. Of an item
only the entities an object can ask for are kept.

Assumptions on documents (`WellFormed`): what validation by the schemas
establishes (ids are unique, the number and kind of children), and that
references are acyclic. The last one no schema checks. The code would recurse without end. In `Directives`
references may be circular, since marks end that recursion. Members of groups are
acyclic: ExpandGroup of WindowsCommon has no check for circles.

## Runs

All runs check deadlock, except those that really stop: `combination` once the
vector has its maximal length, `comparison`, `probes` and `date_times` once the call has returned, `pipeline` once the
program has ended. Bounds are the CONSTANTs of the cfg files and the
sets of the MC modules.

| run | states | question |
|---|---|---|
| `combination` | 1,555 | do the functions of OvalEnum agree with the charts and obey the laws that make criteria trees meaningful? |
| `analyzer` | 260,502 | do both forms of Run give every definition its one verdict? |
| `test` | 78,493 | does the result of a test mean what the schemas say? |
| `collector` | 56,562 | do flags of collected objects tell the truth, whatever fails? |
| `variables` | 26,318 | do variables have the values they claim, and does their recursion end? |
| `comparison` | 298,278 | do comparisons mean what numbers, versions and addresses mean? |
| `pipeline` | 213,367 | does success mean finished documents, and is what is reported what was asked for? |
| `files` | 135,131 | is what is found there, and what is there found, while the file system changes? |
| `probes` | 1,094,861 | the same for every probe and what it keeps |
| `date_times` | 86,082 | is the difference of two dates the time between what is written? |
| two more | | each exhibits one disagreement, see [below](#where-code-and-documents-disagree) |

**combination.** Every vector of up to four results. Charts and functions tell
apart only zero, one, several of each value, and odd from even numbers of *true*: four
elements reach 2 of one value beside 2 others, 3 of one beside 1 other and every
precedence between two undecided values beside decided ones.
`OperatorsFollowTheSchema` and `ChecksFollowTheSchema` compare with the charts;
`NegatedOperandsAreDual` is De Morgan's law over six values, `NestingIsAssociative` says that
criteria may be nested or flattened. All are also proved for
vectors of every length.

**analyzer.** Documents of three definitions d1, d2, d3. d1 has a criteria of two
leaves, d2 and d3 of one; a leaf is a criterion (test t1 or t2, or one that is missing)
or extends a later definition, so that there are chains, diamonds, tests
shared by two or three definitions and dangling references; operators AND, OR and XOR,
negation at every kind of node and in every spelling of a truth value, a definition without criteria; document order forwards
and backwards; Run() and Run(ids) with an unknown id, a repeated id, and an order that
differs from the document's. Tests return any result or throw. Three definitions are enough for
a definition that is reached by the loop, by another one and by a third through
the second; two tests for one that is shared and one that is not. The
properties are in `AnalyzerProperties`: `ReportedExactlyOnce` and `WrittenOnce` about the lists and the document under
every abort, `DocumentIsComplete` (nothing is missing at the end), `ExactlyTheNeededTests` (Run(ids) evaluates the tests that
requested definitions depend on, and no others), `ResultsFollowTheSchema` (in a finished document every element
that a requested definition depends on follows from its children, and what has nothing to do with those is not evaluated; left out are
`negate="0"` and definitions that were not requested but share something with one that was, see
[below](#where-code-and-documents-disagree)), and `ImplementsVerdicts` (the refinement of `Verdicts`: VerdictOf
maps the analyzed objects to their results, Shown the output to the set of entries of
definitions and tests).

**test.** All combinations of the existence and check attributes (and of the
deprecated `none exist`) with zero to two states, one of them dangling in some;
collected objects with every flag, up to two references to items of all
statuses, to items that satisfy one, both or no state and to one that is not in the
document; and objects the document says nothing about, for which the items of
system_data are compared. Two items suffice for the existence and check
attributes, whose cases are none, one and more than one, and `combination` has already
shown that longer tallies bring nothing new. `CompleteFollowsTheSchema`
composes three charts. `TrueStandsWhenIncomplete` and
`FalseStandsForEveryItemChecks` are about incomplete objects: add any existing item to
those found, recompute the test as if all were collected, and the verdict is the
same. `TestedItemsExplainTheResult` relates the test's result to the results of
its items in the document.

**collector.** Probed objects a and b, a set object u over both, and a set object
w that either refers to u and a or nests sets over a and b: leaves are
shared, one set is reached through another, the document lists the leaves first or last. Filters
that include or exclude, on objects and sets; all set operators; probes that find
existing, missing, uncollected and erroneous items, that throw or are not
applicable or not supported; a variable in error. `SetsAreSound` is the main
property: for every system for which the flags of the probed objects tell the
truth, the flags of the sets do. `SetsFollowTheirReferences` says
that the items of a set are those the operators and filters make of the cached
objects; `ProbedOnce` is about the cache under failures.

**variables.** Two objects p and q and two variables v and w. The entities of the objects refer to
no, one or both variables, the variables are in one of twelve forms: constant with values or
without, external (valid, invalid, absent), missing, a component that is the other variable or the name of q's items, a
concatenation that needs p and the other variable, `unique` over both objects, a field of a record, an
unsupported function. These make every circle of up to four nodes, through variables only,
through an object, through both, entered at either end. q is found complete, incomplete, with an item
twice, or with a record of which the name does not exist. In addition, documents with one function each
over constants: all values of the parameters around their limits.
`CyclesEndInErrors` and `RunEnds` say that circles end, and end in errors; `CompleteMeansComplete`
relates each complete variable to everything it was computed from, across exceptions, replaced
records and the second computation; `PhasesAgree` compares the two computations;
`TestsListTheVariablesUsed` compares what a test lists as tested with a direct definition of dependence;
`FunctionsMeetTheSchema` states each function as a relation between arguments and result. Two variables and
two objects are the smallest instance with a circle through each kind of node and a node outside of it; longer
circles only add calls of the same kinds.

**comparison.** Every pair of values of a small range in every datatype and operation, under the
Windows build, which has both parsers of IPv6 addresses. Nothing in the code depends on the width
of the types, so that small ones reach every boundary: integers of 3 bits
(values that fit neither type, one or both), versions of up to three components
with some too wide, EVR strings of digits, letters and separators of up to three characters, IPv4 addresses of 3 bits with every prefix and every mask,
IPv6 addresses of 6 bytes of 2 bits, so that masks end within and between bytes and a dotted quad of four bytes leaves room for one component, and every string of up to five
groups, colons, quads and others for the two parsers; one value or two of a variable with every flag and check, and records of two fields. `IntegersCompareByValue`,
`EvrOrder` and `VersionsOrder` compare with numbers and sequences, `AddressesAreSets` with the sets of
addresses themselves, `BuildsAgree` one parser with the other, but for addresses with a dotted quad, which only one of them reads. Each is limited to values the types hold where
the code has no other meaning to offer (versions wider than a `long long` are taken for its limit).

**date_times.** Every notation of each of the five formats, with names of months in full, abbreviated and
unknown, alone against the current time and in pairs of formats, and with the last five characters missing
(`Cuts`), which is the last part of a date or of a time and some of the one before. The dates are the first and the eighth of March and November of 2008 and 2009, at midnight, 1:30 and 2:30, in a zone
five hours west of Greenwich whose summer time of 2009 begins and ends on the eighth of March and the first of November: so there are times in winter, in
summer, the hour that does not exist and the hour that exists twice. File times have a scaled epoch and unit, since TLC's
integers have 32 bits. `DifferencesAreElapsedTime` says that a difference is the time that passes between what is written: a date stands for the time at which the clock shows it, unless the clock skips it
or shows it twice, and a count for so many seconds from 00:00 UTC. The code displaces counts by the offset of the zone, so that what is left of them is counts compared with
counts of the same half of the year; with a date or the present they are [left out](#where-code-and-documents-disagree).
`PartsAreRefused` that a date that breaks off is an error and never taken for another one.

**pipeline.** Every command line of up to two of 30 options over 20 names for files, some of which are two names of one file,
with every failure of every phase: a document that is not valid, a collector or analyzer that throws, a file that
cannot be written. `InputsSurvive` and `SuccessMeansResults` are about the files at the end, `ProgramEnds`
about there being one. Two failures the code does not see are variable `unseen`: the transformation of a validation that fails
and the warning for too many ids; `SuccessMeansResults` leaves them out by name. With a plain command line, results documents of two definitions, one of which may extend the other, in either
order, with tests, objects, a state, variables and items referring to one another in three
shapes, one of them with a circle through an object and a variable; directives that report a result not at all, thin or in full, for
*true* and *false* and for one class apart, with truth values in each of their spellings. `ImplementsReporting` is the refinement of `Reporting`, for the directives as the file states them unless it spells a truth value as "0": the marks
spread by a recursion that ends at marks set before come to the smallest set closed under need, in whichever
order definitions come. `KeptIsClosed` says that nothing kept refers to something removed. Two definitions of
different class and content are the case in which one mark meets another. Only two results matter, since each
has its own entry and is treated like any other.

**files.** Six trees of up to three levels: names that differ in case, a closed directory, a link back, a link to
nothing. Objects by path and name or by file path, with every operation, values that are and are not there, regular expressions with and
without anchors, variables with two values; behaviors up and down with depths -2 to 2, links followed or not. At any moment of
a search, including between the listing of a directory and the look at a file of it, one entry is removed or added (`MaxChanges` = 1). One
change is enough to separate any two readings of the same file; a chain of links ends after `MaxLinks` = 3.
`FoundMeetsTheObject` is about what is found; `StableFilesAreFound` about what was there all the time, whatever
else changed; `AbsenceIsCertain` about what is reported missing.

**probes.** Every probe of the four platforms, each with the entities it has, on systems with up
to two things on each level, one of which may be unreadable or gone when looked at, and
with or without each access that may fail. Names a, A (which differ in case), b and c
(which is nowhere) are asked for with each operation, and by variables with each check; behaviors where the probe has some. Before the object another
may have made the probe keep a reading, complete, partial or failed, of a system that differs. Two things
of each level are enough for one that meets an object and one that does not, one that fails before or
after one that does not. `NothingInvented`: an item that exists is there and answers the object, one that does not
exist is nowhere, and an error has a cause. Its two exceptions are booleans of SELinux that do not exist (`Unanswered`) and entries of
Active Directory that do (`OutsideOfTheList`). Ports have up to two connections. `NothingMissed`: what was there and
readable all the time and is asked for is among the items. Where the code overlooks
something, the case is named in the property (`UnixOverlooks`, `FilesOverlook`, `KeysOverlook`,
`TrusteesOverlook`, `ListsOverlook`, `Forgotten`) and listed [below](#where-code-and-documents-disagree); what the schema lets an object leave out is `LeftOut`.

### Fairness

`RunEnds` (the recursion of variables and objects) and `ProgramEnds` (the phases of main, with the marks that end the search of the directives) are the
liveness properties, where circles could keep the program from ending. Both assume weak
fairness of the whole next-state relation of the program's own steps: there is
one thread, no step waits for anything, and a call of a probe or a test returns or
throws. That is the weakest assumption under which any program does something. The steps are not
assumed fair one by one, and the outcome of a probe or a test remains arbitrary. `Analyzer` and `ObjectCollector` recurse through documents without circles
and promise only safety; that they do not stop before the end is the absence of deadlocks.

## Proofs

`tlapm` checks every theorem for every value of the constants that satisfies the ASSUMEs:

- `DocumentsAssumption`, `CollectorAssumption`, `SourcesAssumption`: documents are well formed (what the schemas say, and that
  references are acyclic except where the code has marks against circles); nothing about their number or size. An object
  has finitely many items, a results document finitely many elements (`IdAssumption`);
- `TestAssumption`: tests, items and comparisons are of their types, and a test or state has
  finitely many states or entities;
- `ConfigsAssumption`, `InputsAssumption`, `FilesAssumption`: directives and command lines are what the parser and the schema
  leave, the real path of a real path is itself, and a file is there at first or not. Which names are aliases
  of which is open;
- `VariablesAssumption`: the documents of variables have components that are nested (`height`), with the number and kind of
  parts the schema demands; there are finitely many variables and objects. References of variables and objects may be circular;
- `ComparisonAssumption`, `WidthAssumption`, `AddressAssumption`, `RequestsAssumption`: integers have some width (of 2 ^ `IntBits` the
  proofs use that it is a positive number), addresses some number of bits or bytes, the bytes an even number; a version is a sequence of numbers and an address has the
  prefix or the mask that regular expressions and strtol leave of its text, of any size;
- `MaxResultsAssumption`, the bound of `ResultCombination`, any number.

| module | theorem | what it says |
|---|---|---|
| `ProofLemmas` | `OperatorsMeetTheirCharts`, `ChecksMeetTheirCharts` | for every tally that is not empty, the functions of OvalEnum return the result of a row of the chart |
| `ResultProofs` | `OperatorsCorrect`, `ChecksCorrect`, `NegationCorrect`, `NestingCorrect` | the properties of the run `combination`, for vectors of every length |
| `ComparisonProofs` | `IntegersByValue` | integers of any width, signed, unsigned or one of each, compare by their value |
| | `VersionsByComponents` | versions of any length compare as the numbers whose digits their components are |
| | `AddressesByTheirSets` | addresses of any length with a prefix or a netmask compare as the sets of addresses they stand for |
| `TestProofs` | `TypeCorrect` | an analyzed test has a result, and it is never *not evaluated* |
| | `ItemsExplainTests` | what is written for the tested items accounts for the result of the test |
| | `CompleteTestsMeetTheSchema` | for a complete object the result is the composition of the three charts |
| | `TrueStands`, `FalseStands` | for an incomplete object true, and false where every item has to pass, cannot be changed by any further item |
| `CollectorProofs` | `CollectorInvariant`, `ProbedAtMostOnce` | the stack is a path of calls; no object is probed twice |
| | `SetsFollow` | the items of a set object are what its operators and filters make of the objects it refers to |
| | `FlagsAreSound` | what the flags of sets claim is true of every system of which the flags of the probed objects are |
| `VariableProofs` | `VariableInvariant`, `CircularReferencesAreErrors` | a variable that is no error, or an object with items, is on no cycle of references and leads to none |
| | `CompleteVariablesAreComplete` | a complete variable was computed from complete variables and from objects with items, and has the values it would be given now |
| `AnalyzerProofs` | `TypeCorrect`, `FinalVerdicts`, `ExactlyOneReport` | states are well typed; verdicts never change; each is reported once, in one list |
| | `AtMostOnceWritten`, `Refinement` | definitions and tests are written once; `Analyzer` implements `Verdicts` |
| | `CompleteDocument` | the finished document holds all definitions and all below them |
| | `NeededTests` | the tests evaluated are those the requested definitions depend on |
| | `Charts` | every result requested definitions depend on follows by the charts from those of the children, but for `negate="0"`; what has nothing to do with them is not evaluated |
| `MainProofs` | `MarksInvariant`, `ReportsAreClosed`, `ReportingRefinement` | the search of WalkReferences; nothing kept refers to something removed; `Directives` implement `Reporting`, where no truth value is spelt "0" |
| | `DirectivesAreStated` | the directives in force are those of the file, each text read as the code reads it |
| | `MainInvariant`, `InputsAreSafe`, `SuccessIsHonest` | where main is and what it has done; no input is written over; success means all that was asked for, but for the failures in `unseen` |

*Induction.* The induction theorems of the library take the induction hypothesis as an operator, which none of the provers can
instantiate. Module `ProofLemmas` has the same facts in terms of sets: a set of numbers, or of nodes by
height, or of subsets of a finite set, that is not empty has a least member; so an argument by induction is one about a
least counterexample. `RecursionByHeight` derives from it that a recursive function over the nodes of a document, if
its value at a node reads only nodes that are lower, exists and solves its equation. That is what makes `ItemsOf`,
`ParseFlag`, `References`, `Computed` and `Once` more than a CHOOSE, and `Closure` of `Reporting` is treated likewise.

*Results.* The functions read only how often each value occurs, so a vector is first reduced to
its tally (`CountsOfResults`; vectors are finite, so the counts are numbers). A tally that is not all *not
applicable* is `Mixed`: six numbers, one of the first five positive. For each function a lemma goes
through the branches of the code and names for each the row of the chart that applies (`RowApplies` puts
six cells together). De Morgan's law is shown on tallies: negation swaps the counts of *true* and *false*
(`NegatedTally`) and so turns `CombineAll` into `CombineAny` (`DualOfCounts`). For `NestingCorrect` AND and OR
are read as the first of an order of precedence that occurs, so that the result of two parts is the first of the two results;
XOR as the same for the undecided values, with the parity of *true* where there is none.

*Comparison.* A call is one step, so that the invariant (`ComparisonInv`) is only that the request is one that may be asked and the result one
of those its method has; the argument is about the operators. *Integers*: of two that do not both fit one of the types one fits the signed
one only and is the smaller (`MixedOrder`), and the reading of negative numbers as large unsigned ones is left out by the property.
*Versions*: the numbers whose digits the components are exist by `RecursionByHeight` (`NumbersExist`), are the same as long as the components are
(`SameDigits`), and where the first component differs no components behind it make up for it (`DigitsOutweigh`, `FirstDigitDecides`); zeros
on both sides change nothing, which is why padding to the longer version is enough. *Addresses*: of two masks with addresses under them, the hosts
of one are among those of the other just if the other's mask is part of the first's and the addresses agree on it: the address itself and the address with ones
everywhere else are the witnesses (`HostsIncluded`, `HostsIncluded6`). Inclusion of masks is the order of their prefixes: for ipv4 because
the loop over a netmask that does not throw finds the prefix that makes it (`MasksOfPrefixes`), for ipv6 because a prefix is so many whole bytes and bits
(`BytesOutweigh`, `NetmaskOrder`). So what the code looks at, the prefixes, the whole bytes and the bits
of the next one, is inclusion (`SubsetOfHosts6`), and addresses with the same hosts are the same.

*Tests.* `Inv` strengthens the checked properties in three places. `Progress` says where the loop
of EvaluateCheckState is: exactly the items before `pos` have the result of `ItemResult`, the
existence check was passed, and no item is done if a state is missing, so that the exception of
GetStateById leaves all of them unevaluated. `Derivation` and `DerivationIncomplete` say from what the result of a
complete or incomplete object was made. None of these is visible in the final state alone, which is why the properties are not inductive.
`CompleteFollowsTheSchema` then follows from `Inv` and the chart lemmas, those above and
`ExistenceMeetsItsChart`, whose five charts are turned into conditions on four numbers. That no
result is *not evaluated* runs through all levels, from the comparisons of values
(`EntityIsDefinite`) to `Overall`. A further item raises two counts by one; `TrueStands` and `FalseStands` go through the cases in which
Test::Analyze lets a result of an incomplete object stand and show that no such count matters there.

*Collection of objects.* `CollectorInv` has a part about calls: the stack is a path through the document (`Path`), each frame was
called for the kid the next has come to, set objects on it are not collected yet and everything on it parses, so that no
call meets one that is active and no exception goes past the set object it belongs to. `OrderOK`
says that what the loop has passed, and what was probed, is collected. The part about values cannot speak of `ItemsOf`:
its argument is what has been collected, which grows, and a step that collects one object would have to be related to
values at all others. Instead `FollowInv` and `SoundInv` quantify over *all* `m` that solve the equations of the sets and agree with what is
collected: each result on the stack is what the equations say at the place it was returned to. Collecting another object only leaves fewer
solutions to look at. That there is one, `ItemsOf`, is needed only at the end. The tables of
flags come in where two sets are combined (`CombinedIsRight`): `Restrained` says which items go with which flag
(no items with *not collected* or *not applicable*, none that exist with *does not exist*), without which the tables would not be sound.

*Variables.* `DependsOn` follows references a fixed number of times; the proof uses the least closed set instead (`Reach`, and
`DependsOnReaches` says that the first is part of it). `Acyclic` means that neither something nor anything it leads to
reaches itself, and what refers only to acyclic things is acyclic (`AcyclicByFirst`). `VariableInv` says that every entry of the cache with a
flag other than *error*, and every record that has items or says *complete* or *incomplete*, is of something acyclic. Two steps make such an entry:
ComputeValue at the end of a call for a local variable, and Process for an object. Why all it refers to is acyclic there is not visible
in the caches, since an entry below may be half parsed. So the invariant says of each call on the stack that the variables it has passed were complete when it passed them and are acyclic,
and that the objects it has read have such records (`FrameInv`); an object on the stack is the one the call below it waits for (`Linked`), so
that a record goes to the component that asked for it. An exception (`FailKeeps`) only leaves records without items. The other half is about values:
`ComputedIsSound` goes through all kinds of components and functions and shows that the flag is *error* unless each object component below has read an object that
is complete or incomplete, and that it is never *incomplete*; so a variable that has not read all its objects, or not found a variable, is an error.
The same invariant holds for the second computation, because every object has its record when the first one ends (`CollectionInv`).

That complete variables are complete (`CompletenessInv`, together with `VariableInv`) needs of each call on the stack what it has read so far (`StackWhole`): the
variables it has passed are complete, and the record it keeps for each object component is the one its object has. When the call ends
all it refers to is complete, and what it computes is what it would compute from then on (`LocalsWhole`): a component comes to the same as long as the variables
in it and the records at its leaves do, which is an induction over the components inside. What is complete stays as it is. A variable
on the stack is in the cache as an error and no call for it begins again; a record of an object could only be replaced when the object is parsed a second time within its own parsing, and then it is on a
cycle, its record has no items and nothing complete rests on it. That an object with items was looked for with complete variables
(`NeedsFound`) follows since an exception of GetVariable leaves a record without items.

*Analyzer.* The difficulty is the call stack. A criterion reads the first result of its children (`got[1]` in
`Combined`), which exists only because a frame that has passed all children has one result for each
(`StackOK`). The caches are about what lies *below* a node. `Below` is defined as the intersection
of all sets of nodes that contain the node and are closed under `kids`, which needs no induction to reason about.
`IInv` says that below a cached definition no reference is dangling (`CacheOK`), that below an
analyzed one every definition and test has a verdict (`AnalyzedOK`), and of each frame on the stack
what its loop has established so far (`Ready`) and for which child it has called the frame above it (`Waiting`).
With it, Report is called for definitions without a verdict only (`ExactlyOneReport`), and a
step that assigns a result assigns it to a node not analyzed (`FinalVerdicts`). For the refinement
`OInv` adds that each entry of a definition or test in the output shows the verdict and that
there is one entry; then `AnalyzeEnd`, `AnalyzeTest` and `SkipTest` map to `Decide`,
`WriteElement` of a definition or test to `Publish`, and the rest to stuttering.

*The finished document.* A definition enters the cache before it is written, and its `written` flag is set before its children's, so
that no shortcut is right at every moment. `DInv` says who still has to do what is missing: the definition at hand,
or an active Write, and heights show that no call meets one of these. `NeededOK` adds that evaluation is only called
for what the requested definitions depend on, and NotEvaluated for what is complete and has verdicts already. `ResultsOK` says
of every node with a verdict that it is derived by the charts from its children (`Consistent`) and of
each frame that what it was handed are the results of its children (`GotOK`), which later calls, since verdicts are final, do not change.
`Below` is shown to be the property's `Reach` by the least counterexample.

*Main.* `MarksInv` is the invariant of a search of a graph: what a full element refers to is full, or still among the references of a call on
the stack; and every closed set that has the definitions reported in full has all full elements. `MainInv` says of
each phase what lies behind it, and that what was written was written under the name of an output, none of which is
the place of an input the check of the command line looks at.

Only model-checked:

- liveness (`RunEnds`, `ProgramEnds`), which needs ENABLED;
- of `Variables`, `PhasesAgree` and `TestsListTheVariablesUsed`, which compare values and lists that were made in different states
  with what the whole of a document determines, and `FunctionsMeetTheSchema`, which needs induction over the characters of a value;
- of `ValueComparison`, `EvrOrder` and `BuildsAgree`: both are about loops over the characters of a string of any length, whose
  references (`Segments`, the spelling of an address) are recursive themselves;
- `DateTimes`, arithmetic of a calendar that is the C library's and split into the places of digits;
- `FileProbe` and `PlatformProbes`. `FileSearch`, `UnixProbes`, `WindowsAccounts` and `WindowsProbes` walk trees by RECURSIVE operators, which are out of the
  reach of the prover; the probes are relations between a system and a list, each by itself, that TLC goes through.

## Where code and documents disagree

Each of these is a run that TLC ends with a counterexample.

| run | code | what is promised |
|---|---|---|
| `false_when_incomplete` | Test.cpp:598 keeps *false* under an incomplete object whatever `check` says; another item could make `at least one` true | the meaning of incomplete in the system characteristics schema |
| `listing_aborts` | ObjectReader.cpp:126 throws while Test::Write lists the values a variable was computed from, if one of its objects is incomplete; the exception leaves Analyzer::Run and later definitions are not evaluated | ObjectComponent.cpp:75 takes values from incomplete objects; Analyzer.h:50: Run goes through all definitions |

The following were met while modelling and are modelled as the code has them; where a property would
meet one, its statement leaves the case out.

*Evaluation and collection.*
Definition.cpp:285 gives a definition that was not requested a verdict if its tests have results (Analyzer.h:56: all others are reported as not evaluated) ·
`negate="0"`, which the schemas allow for false, negates: only the empty text and "false" do not (Criteria.cpp:187, Criterion.cpp:106, ExtendedDefinition.cpp:116) ·
Test.cpp:461 overwrites the flag *not collected* two statements after setting it, so that an object without a trace gives true or false ·
AbsObjectCollector.cpp:443 differs from the chart of INTERSECTION in several cells (not in an unsound way: `SetsAreSound` holds) ·
CollectedObject.cpp:421 is never reached ·
Set.cpp:232: a set gets the flag of a failed variable of any object below it, e.g. does not exist, whatever its operator.

*Variables.* A value equal to the character of `begin` or `end` gets
it twice (BeginFunction.cpp:71, EndFunction.cpp:71) · the flag of
an incomplete object is overwritten by the status of its last entity, so that the variable is complete
(ObjectComponent.cpp:94), where the chart of concat in the definitions schema says incomplete for an incomplete component.

*Comparison.* On Unix the conversion to an unsigned integer takes negative numbers, so that beside a number that fits
only the unsigned type a negative one is large (EntityComparator.cpp:653) · EVR strings that differ in trailing separators
differ, although the comment of rpmvercmp says otherwise (EntityComparator.cpp:531) · components of versions wider than a
`long long` are taken for its limit · `ipv6_address` is not supported in fields of records nor with variables ·
the third form of RFC 4291 (xml/oval-common-schema.xsd:336), which ends in an ipv4 address, is read by the library (EntityComparator.cpp:1299) and refused by the Windows
build (EntityComparator.cpp:1415).

*Dates.* `seconds_since_epoch` and `win_filetime` turn the broken-down UTC time of gmtime back with mktime, which takes it for local
time (TimeDifferenceFunction.cpp:680, 716): the value comes out later by what the zone is west of Greenwich, where xml/oval-definitions-schema.xsd:955 says seconds since the UNIX epoch · any number for a
month or a day is taken, and mktime counts on: a date written day first and read month first is another day, not the error that
xml/oval-definitions-schema.xsd:842 asks for (TimeDifferenceFunction.cpp:734).

*Main and directives.* The names of the style sheets of -j and -k are compared as they were given with the outputs as full paths
(Main.cpp:1007), so that an output can be written over one of them · applying directives takes the criteria element of a definition for granted (Directive.cpp:271), which
Definition.cpp:289 says a deprecated definition need not have: the exception leaves main · states are said never to contain
references (Directive.cpp:439), so that the variables of a state, what they are computed from, and
what other variables are computed from can be left out of a full report · a document without definitions ends in a null dereference if
directives ask for anything but everything · Main.cpp:524 is for an empty list of ids, which the schema rules out ·
a failed transformation is not noticed (XslCommon.cpp:65): of a validation it leaves an empty text, which is taken for no errors (Main.cpp:1096), and the program goes on to success ·
more ids after -e than the matches of an expression may be (REGEX.cpp:194) are a warning: main prints it and ends with success and without results (Main.cpp:587) ·
`reported="0"` and `include_source_definitions="0"`, which the schema allows for false, are read as true (Directive.cpp:122, 105) · `-c` followed by the digest takes the digest for a style sheet.

*Files.* The way up from `/x` comes to the empty path, which is searched and throws (AbsFileFinder.cpp:203) · an expression with `^` and
without `$` is looked for only where its constant part ends: `^/etc` only at /etc itself, and `^/etc/.*\.conf` misses
what is deeper (FileFinder.cpp:135); of an alternation only the first branch is searched ·
`^` alone throws · a file path that ends in a separator has no file name, and is reported missing through a null pointer (FileProbe.cpp:133) ·
with *case insensitive equals* what is missing is decided by a look that minds the case ·
on Windows an expression for file paths finds only files whose directory matches the whole expression; names that begin with a dot are never listed.

*Probes.* NothingMissed and NothingInvented name most of these.
A boolean of SELinux exists for whatever name is asked for, and with the value true if there is none (SelinuxBooleanProbe.cpp:173); with no list of them
what is listed is left to chance (SelinuxBooleanProbe.cpp:164) ·
A failed first reading leaves the lists of nvram, of connections, and of processes and accounts on Windows empty, or as they
got, for all later objects ·
environmentvariable58 cuts values at a second `=` on Linux, and misses an end between two chunks ·
textfilecontent takes the value of an entity with a variable for an expression that matches everything ·
inetlisteningservers and dpkginfo find nothing with a variable and another operation than equals ·
process objects with equals find one process of several with the same command, and process58 reports a command missing if only the pid differs ·
isainfo looks for "sparc" before "sparcv9" · patch54 keeps the patches of the last base only · rpminfo keeps version and release of the package before ·
an unknown protocol makes objects of iflisteners throw · an included file of xinetd displaces the rest, and parameters are only merged if the defaults name them ·
password objects with equals, and those for groups, DNS and volumes, ignore the check of a variable.
On Windows: a SID without an account makes a whole group_sid object fail ·
rights with a file path and a missing trustee dereference a null name ·
resolving groups drops every trustee that is none, and all if one is not known · a trustee that cannot be looked up hides the others · an orphaned SID is not
found by its own value · with neither reading, the lockout policy is a null vector ·
the flags of one shared resource are carried over to the next, and so is the remote address of a port, of whose connections only the first is an item (PortProbe.cpp:419) ·
the rights to services never report a missing trustee · a metabase key is listed with a separator at its end,
which `not equal` never excludes and `name$` never matches · keys and entries that cannot be opened count as
not existing, and what is below them is not seen · values directly under a hive are not read · Active Directory names
of another context count as not existing once those of the domain were listed (ActiveDirectoryProbe.cpp:668), and expressions with `$` never match ·
cmdlets without a module name are only found in modules loaded from the beginning · failures of the rights and audit
probes are logged, and the object is complete.

## What is not modelled

- XML parsing, validation, the DOM, XSL transformation, printing, logging, digests: input and
  output; validity of documents is an assumption.
- SystemInfo and NetworkInterface of the platform collectors: they only read and print a description of the host.
- Of probes: the attributes of items other than those an object can ask for, formats, system calls and their buffers; the
  parameters and the selection of cmdlets, the root of the metabase, well-known trustees, the rights to directories.
- The identity of items (AbsProbe.cpp:102): equal items are one.
- Of variables: within `Variables` the date formats other than seconds since the epoch (`DateTimes` has them all), the matching of regular
  expressions (a constant says what is captured), patterns and restrictions of external variables
  (the set `permitted`), numbers that do not print exactly in six digits, an empty delimiter of split, filters of objects.
- Of the file search: the order of what is found, and repeated paths.
- Cyclic references between definitions, between sets or between groups: the program does not return from them. Those through
  variables are in `Variables`, those among what directives keep in `Directives`.

## Plan

The modules of all components the sections above name exist, and the core of each has its theorems. Left, in this order:

1. Proofs: the agreement of the two computations of `Variables`, for which the invariant of `CompletenessInv` would have to compare the caches of both phases;
   with the RECURSIVE operators of `FileSearch` written as functions, that what `FileProbe` finds meets the object.
2. To compose `Variables` with `ObjectCollector`, where it replaces the
   constant `varFlag`, so that set objects and filters take part in the recursion.
3. `ItemCache`: AbsProbe's identity of items, and sets over identities.
