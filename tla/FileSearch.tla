------------------------------ MODULE FileSearch ------------------------------
(***************************************************************************)
(* The search for files by path and name, or by file path                   *)
(* (AbsFileFinder.cpp, unix/FileFinder.cpp).                                *)
(*                                                                         *)
(* What is found is a set, although the code's vectors may hold a path      *)
(* twice.                                                                  *)
(***************************************************************************)
EXTENDS Probing

(***************************************************************************)
(* What the calls of a Unix system tell the file search: lstat, stat,       *)
(* opendir and readdir on a tree of directories, files and symbolic links.  *)
(* A directory that is closed can neither be listed nor passed through.     *)
(***************************************************************************)
CONSTANT MaxLinks  \* how many links one path may lead through: ELOOP beyond

ASSUME MaxLinksAssumption == MaxLinks \in Nat

Directory == [kind |-> "directory", open |-> TRUE]
Closed == [kind |-> "directory", open |-> FALSE]
File == [kind |-> "file"]
Link(target) == [kind |-> "link", target |-> target]

\* A tree maps the paths that exist, as sequences of names, to their nodes.
Tree(fs) ==
  /\ << >> \in DOMAIN fs /\ fs[<< >>].kind = "directory"
  /\ \A p \in DOMAIN fs \ {<< >>} :
       Front(p) \in DOMAIN fs /\ fs[Front(p)].kind = "directory"

Names(t) == SelectSeq(t, LAMBDA c : c # Sep)

\* The node a path leads to from the root, or why it leads nowhere.
RECURSIVE Walk(_, _, _, _)
Walk(fs, at, rest, links) ==
  IF rest = << >> THEN [errno |-> "none", at |-> at]
  ELSE LET next == Append(at, Head(rest))
       IN  CASE fs[at].kind # "directory" -> [errno |-> "ENOTDIR"]
             [] fs[at].kind = "directory" /\ ~fs[at].open -> [errno |-> "EACCES"]
             [] OTHER ->
                  IF next \notin DOMAIN fs THEN [errno |-> "ENOENT"]
                  ELSE IF fs[next].kind # "link" THEN Walk(fs, next, Tail(rest), links)
                  ELSE IF links = MaxLinks THEN [errno |-> "ELOOP"]
                  ELSE Walk(fs, << >>, fs[next].target \o Tail(rest), links + 1)

Resolve(fs, t) ==
  IF t = << >> THEN [errno |-> "ENOENT"]
  ELSE LET found == Walk(fs, << >>, Names(t), 0)
       IN  IF /\ found.errno = "none" /\ Last(t) = Sep
              /\ fs[found.at].kind # "directory"
             THEN [errno |-> "ENOTDIR"] ELSE found

\* The kind of what a path leads to, or the error.
stat(fs, t) ==
  LET found == Resolve(fs, t)
  IN  IF found.errno = "none" THEN fs[found.at].kind ELSE found.errno

\* The same without following a link the path ends in.
lstat(fs, t) ==
  IF t = << >> \/ Last(t) = Sep \/ Names(t) = << >> THEN stat(fs, t)
  ELSE LET parent == Walk(fs, << >>, Front(Names(t)), 0)
       IN  IF parent.errno # "none" THEN parent.errno
           ELSE LET last == Append(parent.at, Last(t))
                IN  IF fs[parent.at].kind # "directory" THEN "ENOTDIR"
                    ELSE IF ~fs[parent.at].open THEN "EACCES"
                    ELSE IF last \in DOMAIN fs THEN fs[last].kind ELSE "ENOENT"

Errors == {"ENOENT", "EACCES", "ELOOP", "ENOTDIR"}

opendir(fs, t) ==
  LET found == Resolve(fs, t)
  IN  IF found.errno # "none" THEN found.errno
      ELSE IF fs[found.at].kind # "directory" THEN "ENOTDIR"
      ELSE IF ~fs[found.at].open THEN "EACCES" ELSE "none"

\* The names in a directory that was opened.
readdir(fs, t) ==
  LET at == Resolve(fs, t).at
  IN  {n \in Name : Append(at, n) \in DOMAIN fs}

-----------------------------------------------------------------------------
Behaviors == [direction : {"none", "up", "down"}, depth : Int,
              recurse : {"symlinks and directories", "symlinks", "directories"},
              filesystem : {"all", "local", "defined"}]

-----------------------------------------------------------------------------
(* Directories *)

PathExists(fs, t) == lstat(fs, t) = "directory"

\* All directories below one, links left out and closed ones not entered.
RECURSIVE PathsUnder(_, _)
PathsUnder(fs, t) ==
  IF ~PathExists(fs, t) THEN {}
  ELSE {t} \cup IF opendir(fs, t) # "none" THEN {}
                ELSE UNION {PathsUnder(fs, BuildFilePath(t, <<n>>)) : n \in readdir(fs, t)}

GetPathsForOperation(fs, t, given, op) ==
  {p \in PathsUnder(fs, t) : CompareString(op, given, p)}

\* Faulty form: what an expression names first is taken for where it begins.
AnchoredAnywhere(given, op) == op = "pattern match"

Anchored(given, op) == op = "pattern match" /\ given # << >> /\ given[1] = "^"

\* Only what an anchored expression names in full is looked at, or below.
FindPaths(fs, given, op) ==
  LET portion == GetConstantPortion(given)
  IN  IF ~Anchored(given, op) \/ portion.constant = << >>
        THEN GetPathsForOperation(fs, <<Sep>>, given, op)
      ELSE IF portion.pattern = << >>
        THEN {t \in {portion.constant} : PathExists(fs, t)}
      ELSE GetPathsForOperation(fs, portion.constant, given, op)

RECURSIVE FindPathsCaseInsensitive(_, _, _)
FindPathsCaseInsensitive(fs, at, names) ==
  IF names = << >> THEN {at}
  ELSE IF opendir(fs, at) # "none" THEN {}
  ELSE UNION {FindPathsCaseInsensitive(fs, t, Tail(names)) :
                t \in {u \in {BuildFilePath(at, <<n>>) : n \in readdir(fs, at)} :
                         Fold[Last(u)] = Fold[Head(names)] /\ PathExists(fs, u)}}

PathExistsCaseInsensitive(fs, t) ==
  IF t = << >> THEN {} ELSE FindPathsCaseInsensitive(fs, <<Sep>>, Names(t))

\* Links are followed here.  One that leads nowhere is passed over.
GetChildDirectories(fs, t) ==
  LET opened == opendir(fs, t)
      children == {BuildFilePath(t, <<n>>) : n \in readdir(fs, t)}
  IN  IF opened = "ENOENT" THEN Found({})
      ELSE IF opened # "none" THEN Throws
      ELSE IF \E c \in children : stat(fs, c) \in Errors \ {"ENOENT"} THEN Throws
      ELSE Found({c \in children : stat(fs, c) = "directory"})

\* Faulty form: the limit is handed down as it is.
SameLeft(depth) == depth

\* The limit of the levels that follow; a negative one is none.
Left(depth) == IF depth = -1 THEN -1 ELSE depth - 1

\* Without a limit a circle of links is left by the error of the path that leads
\* through too many of them.
RECURSIVE DownwardPathRecursion(_, _, _)
DownwardPathRecursion(fs, t, depth) ==
  IF depth = 0 THEN Found({})
  ELSE LET children == GetChildDirectories(fs, t)
       IN  Together({children} \cup {DownwardPathRecursion(fs, c, Left(depth)) : c \in children.found})

\* The parent of a directory in the root is the empty path.
RECURSIVE UpwardPathRecursion(_, _)
UpwardPathRecursion(t, depth) ==
  IF depth = 0 \/ t = <<Sep>> \/ LastSep(t) = 0 THEN {}
  ELSE LET parent == StripTrailingSeparators(SubSeq(t, 1, LastSep(t) - 1))
       IN  {parent} \cup UpwardPathRecursion(parent, Left(depth))

ProcessPathBehaviors(fs, paths, b) ==
  LET depth == IF b.depth < -1 THEN -1 ELSE b.depth
  IN  IF b.direction = "none" THEN Found({})
      ELSE IF b.recurse # "symlinks and directories" \/ b.filesystem # "all" THEN Throws
      ELSE IF b.direction = "up"
        THEN Found(UNION {UpwardPathRecursion(p, depth) : p \in paths})
      ELSE Together({DownwardPathRecursion(fs, p, depth) : p \in paths})

GetPaths(fs, path, b) ==
  LET of(v) == CASE path.op = "equals" -> {t \in {v} : PathExists(fs, t)}
                 [] path.op = "case insensitive equals" -> PathExistsCaseInsensitive(fs, v)
                 [] OTHER -> FindPaths(fs, v, path.op)
      start == Filtered(path, Found(UNION {of(v) : v \in ToSet(path.values)}))
  IN  Together({start, ProcessPathBehaviors(fs, start.found, b)})

-----------------------------------------------------------------------------
(* Files *)

IsFile(fs, t) == lstat(fs, t) \in {"file", "link"}

FileNameExists(fs, path, name) == IsFile(fs, BuildFilePath(path, name))

GetFilesForOperation(fs, path, given, op, isFilePath) ==
  IF opendir(fs, path) # "none" THEN Throws
  ELSE LET file(n) == BuildFilePath(path, <<n>>)
           files == {n \in readdir(fs, path) : IsFile(fs, file(n))}
       IN  Found(IF isFilePath
                   THEN {file(n) : n \in {m \in files : CompareString(op, given, file(m))}}
                   ELSE {<<n>> : n \in {m \in files : CompareString(op, given, <<m>>)}})

\* A name is looked up in the empty path by an exception.
GetFileNames(fs, path, fileName) ==
  LET of(v) == IF fileName.op # "equals"
                 THEN GetFilesForOperation(fs, path, v, fileName.op, FALSE)
               ELSE IF path = << >> THEN Throws
               ELSE Found({n \in {v} : FileNameExists(fs, path, n)})
  IN  Filtered(fileName, Together({of(v) : v \in ToSet(fileName.values)}))

FilePathExists(fs, t) ==
  /\ NamesFile(t)
  /\ PathExists(fs, SplitFilePath(t).path)
  /\ FileNameExists(fs, SplitFilePath(t).path, SplitFilePath(t).name)

FilePathExistsCaseInsensitive(fs, t) ==
  IF ~NamesFile(t) THEN Found({})
  ELSE Together({GetFilesForOperation(fs, p, t, "case insensitive equals", TRUE) :
                   p \in PathExistsCaseInsensitive(fs, SplitFilePath(t).path)})

\* All directories are listed unless a regular expression tells which.
GetFilePathsForOperation(fs, given, op) ==
  LET paths == IF op = "pattern match" THEN FindPaths(fs, SplitFilePathRegex(given), op)
               ELSE FindPaths(fs, <<Wild>>, op)
  IN  Together({GetFilesForOperation(fs, p, given, op, TRUE) : p \in paths})

GetFilePaths(fs, filePath) ==
  LET of(v) == CASE filePath.op = "equals" ->
                      Found({BuildFilePath(SplitFilePath(t).path, SplitFilePath(t).name) :
                               t \in {u \in {v} : FilePathExists(fs, u)}})
                 [] filePath.op = "case insensitive equals" ->
                      FilePathExistsCaseInsensitive(fs, v)
                 [] OTHER -> GetFilePathsForOperation(fs, v, filePath.op)
  IN  Filtered(filePath, Together({of(v) : v \in ToSet(filePath.values)}))

-----------------------------------------------------------------------------
(* What is reported when nothing was found: the values looked for, whatever   *)
(* the case.                                                                  *)

ReportsAbsence(e) == e.op \in {"equals", "case insensitive equals"}

\* Faulty form: nothing found is taken for nothing there.
ReportAnyPath(fs, path) == ReportsAbsence(path)

ReportPathDoesNotExist(fs, path) ==
  ReportsAbsence(path) /\ \E v \in ToSet(path.values) : ~PathExists(fs, v)

ReportFilePathDoesNotExist(fs, filePath) ==
  {v \in ToSet(filePath.values) : ReportsAbsence(filePath) /\ ~FilePathExists(fs, v)}

=============================================================================
