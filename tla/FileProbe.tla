------------------------------ MODULE FileProbe -------------------------------
(***************************************************************************)
(* The probe for the attributes of files (unix/FileProbe.cpp), while the    *)
(* file system may change between any two of its steps.                     *)
(***************************************************************************)
EXTENDS FileSearch

CONSTANTS
  Trees,      \* the file systems the search may begin on
  Objects,    \* what it may be asked for: a path and a file name, or a file path
  MaxChanges  \* how often the file system changes

VARIABLES
  fs,       \* the file system
  before,   \* as it was when the search began
  object,
  phase,    \* "paths", "names", "found", "attributes", or how the search ended
  paths,    \* the directories still to be listed
  pairs,    \* the directories and names still to be looked at
  items,
  changes

vars == <<fs, before, object, phase, paths, pairs, items, changes>>

Init ==
  /\ fs \in Trees
  /\ before = fs
  /\ object \in Objects
  /\ phase = "paths"
  /\ paths = {} /\ pairs = {} /\ items = {}
  /\ changes = 0

\* Without behaviors there is no recursion.
Behavior ==
  IF object.behaviors = << >>
    THEN [direction |-> "none", depth |-> -1,
          recurse |-> "symlinks and directories", filesystem |-> "all"]
    ELSE object.behaviors[1]

\* An exception that nothing in the probe catches ends the search.
Thrown ==
  /\ phase' = "thrown"
  /\ items' = {}
  /\ UNCHANGED <<fs, before, object, paths, pairs, changes>>

-----------------------------------------------------------------------------
SearchPaths ==
  /\ phase = "paths" /\ object.form = "path"
  /\ \E outcome \in {GetPaths(fs, object.path, Behavior)} :
       IF outcome.throws THEN Thrown
       ELSE /\ phase' = "names"
            /\ paths' = outcome.found
            /\ UNCHANGED <<fs, before, object, pairs, items, changes>>

\* A nil name asks for the directory itself.
SearchNames(p) ==
  /\ phase = "names" /\ p \in paths
  /\ \E outcome \in {IF object.filename.nil THEN Found({<< >>})
                     ELSE GetFileNames(fs, p, object.filename)} :
       IF outcome.throws THEN Thrown
       ELSE /\ paths' = paths \ {p}
            /\ pairs' = pairs \cup {[path |-> p, name |-> n] : n \in outcome.found}
            /\ UNCHANGED <<fs, before, object, phase, items, changes>>

NamesSearched ==
  /\ phase = "names" /\ paths = {}
  /\ phase' = "found"
  /\ UNCHANGED <<fs, before, object, paths, pairs, items, changes>>

SearchFilePaths ==
  /\ phase = "paths" /\ object.form = "filepath"
  /\ \E outcome \in {IF object.behaviors # << >> THEN Throws
                     ELSE GetFilePaths(fs, object.path)} :
       IF outcome.throws THEN Thrown
       ELSE /\ phase' = "found"
            /\ pairs' = {SplitFilePath(t) : t \in outcome.found}
            /\ UNCHANGED <<fs, before, object, paths, items, changes>>

-----------------------------------------------------------------------------
Item(path, name, status) == [path |-> path, name |-> name, status |-> status]

\* What has gone since it was found is left out.
GetFileAttributes(pair) ==
  /\ phase \in {"found", "attributes"} /\ pair \in pairs
  /\ IF pair.path = << >> \/ lstat(fs, BuildFilePath(pair.path, pair.name)) \in Errors \ {"ENOENT"}
       THEN Thrown
     ELSE /\ phase' = "attributes"
          /\ pairs' = pairs \ {pair}
          /\ items' = IF lstat(fs, BuildFilePath(pair.path, pair.name)) = "ENOENT" THEN items
                      ELSE items \cup {Item(pair.path, pair.name, "exists")}
          /\ UNCHANGED <<fs, before, object, paths, changes>>

AttributesCollected ==
  /\ phase = "attributes" /\ pairs = {}
  /\ phase' = "done"
  /\ UNCHANGED <<fs, before, object, paths, pairs, items, changes>>

ReportPath ==
  /\ phase = "found" /\ pairs = {} /\ object.form = "path"
  /\ phase' = "done"
  /\ items' = IF ReportPathDoesNotExist(fs, object.path)
                THEN {Item(<< >>, << >>, "does not exist")} ELSE {}
  /\ UNCHANGED <<fs, before, object, paths, pairs, changes>>

\* A value that names no file has no parts to report: the null is followed.
ReportFilePath ==
  /\ phase = "found" /\ pairs = {} /\ object.form = "filepath"
  /\ \E absent \in {ReportFilePathDoesNotExist(fs, object.path)} :
       /\ phase' = IF \A t \in absent : NamesFile(t) THEN "done" ELSE "crashed"
       /\ items' = {Item(IF PathExists(fs, SplitFilePath(t).path) THEN SplitFilePath(t).path
                         ELSE << >>, << >>, "does not exist") :
                      t \in {u \in absent : NamesFile(u)}}
  /\ UNCHANGED <<fs, before, object, paths, pairs, changes>>

-----------------------------------------------------------------------------
(* Others create and remove files meanwhile. *)

Leaves == {p \in DOMAIN fs \ {<< >>} : \A q \in DOMAIN fs : q = << >> \/ Front(q) # p}

Unlink(p) ==
  /\ phase \notin {"done", "thrown", "crashed"} /\ changes < MaxChanges
  /\ p \in Leaves
  /\ fs' = [q \in DOMAIN fs \ {p} |-> fs[q]]
  /\ changes' = changes + 1
  /\ UNCHANGED <<before, object, phase, paths, pairs, items>>

Create(d, n) ==
  /\ phase \notin {"done", "thrown", "crashed"} /\ changes < MaxChanges
  /\ d \in DOMAIN fs /\ fs[d].kind = "directory" /\ Append(d, n) \notin DOMAIN fs
  /\ fs' = [q \in DOMAIN fs \cup {Append(d, n)} |-> IF q \in DOMAIN fs THEN fs[q] ELSE File]
  /\ changes' = changes + 1
  /\ UNCHANGED <<before, object, phase, paths, pairs, items>>

\* The search ends; afterwards nothing happens.
Ended ==
  /\ phase \in {"done", "thrown", "crashed"}
  /\ UNCHANGED vars

Next ==
  \/ SearchPaths
  \/ \E p \in paths : SearchNames(p)
  \/ NamesSearched
  \/ SearchFilePaths
  \/ \E pair \in pairs : GetFileAttributes(pair)
  \/ AttributesCollected
  \/ ReportPath
  \/ ReportFilePath
  \/ \E p \in Leaves : Unlink(p)
  \/ \E d \in DOMAIN fs, n \in Name : Create(d, n)
  \/ Ended

Spec == Init /\ [][Next]_vars

-----------------------------------------------------------------------------
(***************************************************************************)
(* What the files found, and those reported missing, say about the file     *)
(* system.                                                                 *)
(***************************************************************************)
\* The text of a path in a tree
TextOf(p) == IF p = << >> THEN <<Sep>>
             ELSE FlattenSeq([i \in DOMAIN p |-> <<Sep, p[i]>>])

\* An entity is true of a path as its values are written, or with as few
\* separators as the path.
MeetsPath(e, p) ==
  LET plain(v) == IF e.op = "pattern match" THEN v ELSE TextOf(Names(v))
  IN  \/ Analyze(e, TextOf(p)) = "true"
      \/ Analyze([e EXCEPT !.values = [i \in DOMAIN @ |-> plain(@[i])]], TextOf(p)) = "true"

MeetsName(e, name) == IF e.nil THEN name = << >> ELSE Analyze(e, name) = "true"

\* Where a search with behaviors may lead from a directory.
WithinBehaviors(b, start, p) ==
  LET near(n) == b.depth < 0 \/ n <= b.depth
  IN  \/ start = p
      \/ b.direction = "down" /\ IsPrefix(start, p) /\ near(Len(p) - Len(start))
      \/ b.direction = "up" /\ IsPrefix(p, start) /\ near(Len(start) - Len(p))

\* Every file that is reported meets the entities of the object: its name the
\* file name, its directory the path, or no more levels from one that does than
\* the behaviors allow; with a file path, directory and name together.  The
\* recursion, the constant part of an expression and the values of a variable
\* each bring up paths of their own (AbsFileFinder.cpp:94, FileFinder.cpp:135).
FoundMeetsTheObject ==
  \A item \in items : item.status = "exists" =>
    LET dir == Names(item.path)
        starts == {dir} \cup {SubSeq(dir, 1, n) : n \in 0..Len(dir)}
                    \cup {p \in DOMAIN before : IsPrefix(dir, p)}
    IN  IF object.form = "filepath" THEN MeetsPath(object.path, dir \o item.name)
        ELSE /\ MeetsName(object.filename, item.name)
             /\ \E start \in starts :
                  MeetsPath(object.path, start) /\ WithinBehaviors(Behavior, start, dir)

-----------------------------------------------------------------------------
(* What was there all the time *)

IsDirectory(tree, p) == p \in DOMAIN tree /\ tree[p].kind = "directory"

IsLeaf(tree, p) == p \in DOMAIN tree /\ tree[p].kind # "directory"

\* No directory that leads to it is closed.
InTheOpen(tree, p) == \A n \in 0..Len(p) : tree[SubSeq(p, 1, n)] # Closed

\* Of an expression whose beginning names a directory and which does not end in
\* a dollar only that directory is looked at.
OnlyItsConstant(e) ==
  \E v \in ToSet(e.values) :
    /\ e.op = "pattern match" /\ v # << >> /\ Head(v) = "^"
    /\ GetConstantPortion(v).constant # << >> /\ GetConstantPortion(v).pattern = << >>

\* What stays in an open directory from the beginning of a search to its end and
\* meets the object is reported, whatever else changes meanwhile, unless the
\* search ends in an exception.  Expressions are searched for by their constant
\* part (REGEX.cpp:78), and expressions for whole file paths by their directory
\* alone, which is no promise; everything else is.
StableFilesAreFound ==
  phase = "done" =>
    \A p \in DOMAIN before \cap DOMAIN fs :
      (InTheOpen(before, p) /\ InTheOpen(fs, p)) =>
        /\ ( /\ object.form = "path" /\ object.filename.nil
             /\ IsDirectory(before, p) /\ IsDirectory(fs, p)
             /\ Analyze(object.path, TextOf(p)) = "true" /\ ~OnlyItsConstant(object.path) )
           => \E item \in items : item.status = "exists" /\ Names(item.path) = p
        /\ ( /\ IsLeaf(before, p) /\ IsLeaf(fs, p)
             /\ IF object.form = "path"
                  THEN /\ ~object.filename.nil
                       /\ Analyze(object.filename, <<Last(p)>>) = "true"
                       /\ Analyze(object.path, TextOf(Front(p))) = "true"
                       /\ ~OnlyItsConstant(object.path)
                  ELSE /\ Analyze(object.path, TextOf(p)) = "true"
                       /\ object.path.op # "pattern match" )
           => \E item \in items :
                item.status = "exists" /\ Names(item.path) \o item.name = p

\* A path that is reported missing is one the object asks for, and no directory
\* stood there all the time; with the case ignored the values are looked for as
\* they are written, so only other operations promise it
\* (AbsFileFinder.cpp:456, 510).
AbsenceIsCertain ==
  (phase = "done" /\ object.path.op = "equals") =>
    \A item \in items : item.status = "does not exist" =>
      \E v \in ToSet(object.path.values) :
        LET p == Names(v)
        IN  IF object.form = "path" THEN ~(IsDirectory(before, p) /\ IsDirectory(fs, p))
            ELSE ~(IsLeaf(before, p) /\ IsLeaf(fs, p))

=============================================================================
