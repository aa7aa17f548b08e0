------------------------------- MODULE PathText -------------------------------
(***************************************************************************)
(* Paths as the program handles them: texts (Common.cpp) and regular        *)
(* expressions over them (REGEX.cpp, EntityComparator.cpp).                 *)
(*                                                                         *)
(* A text is a sequence of names and separators, and a name is not taken    *)
(* apart.  In a regular expression a name stands for its escaped form, and  *)
(* there may be ^ at the beginning, $ at the end and .* anywhere.           *)
(***************************************************************************)
EXTENDS OvalEnum, Sequences, SequencesExt

CONSTANTS
  Name,  \* what may stand between separators
  Fold   \* a name in capitals

Sep == "/"           \* Common::fileSeperator
Wild == ".*"
Special == {"^", "$", Wild}

ASSUME NamesAssumption ==
  /\ Fold \in [Name -> Name]
  /\ Name \cap ({Sep} \cup Special) = {}

Text == Seq(Name \cup {Sep})

-----------------------------------------------------------------------------
LastSep(t) == IF Sep \in ToSet(t) THEN SelectLastInSeq(t, LAMBDA c : c = Sep) ELSE 0

LastName(t) == SelectLastInSeq(t, LAMBDA c : c # Sep)

StripTrailingSeparators(t) ==
  IF t = << >> THEN t
  ELSE IF ToSet(t) = {Sep} THEN <<Sep>>
  ELSE SubSeq(t, 1, LastName(t))

\* Of a path that is not empty; on an empty one the code throws.
BuildFilePath(path, name) ==
  IF name = << >> THEN path
  ELSE path \o (IF Last(path) = Sep THEN << >> ELSE <<Sep>>) \o name

\* A text that ends in a separator, or has none, names no file.
NamesFile(t) == t # << >> /\ Last(t) # Sep /\ LastSep(t) > 0

SplitFilePath(t) ==
  [path |-> StripTrailingSeparators(SubSeq(t, 1, LastSep(t))),
   name |-> SubSeq(t, LastSep(t) + 1, Len(t))]

\* What is searched for the paths of a regular expression for files.
SplitFilePathRegex(re) ==
  IF LastSep(re) = 0 THEN re ELSE SubSeq(re, 1, LastSep(re) - 1)

-----------------------------------------------------------------------------
Folded(t) == [i \in DOMAIN t |-> IF t[i] \in Name THEN Fold[t[i]] ELSE t[i]]

EqualsIgnoreCase(s, t) == Folded(s) = Folded(t)

\* REGEX::IsMatch: the expression may match anywhere in the text.
IsMatch(re, t) ==
  LET From[i \in 1..(Len(re) + 1), j \in 1..(Len(t) + 1)] ==
        IF i > Len(re) THEN TRUE
        ELSE CASE re[i] = "^" -> j = 1 /\ From[i + 1, j]
               [] re[i] = "$" -> j > Len(t) /\ From[i + 1, j]
               [] re[i] = Wild -> From[i + 1, j] \/ (j <= Len(t) /\ From[i, j + 1])
               [] OTHER -> j <= Len(t) /\ re[i] = t[j] /\ From[i + 1, j + 1]
  IN  \E j \in 1..(Len(t) + 1) : From[1, j]

CompareString(op, given, t) ==
  CASE op = "equals" -> given = t
    [] op = "not equal" -> given # t
    [] op = "case insensitive equals" -> EqualsIgnoreCase(given, t)
    [] op = "case insensitive not equal" -> ~EqualsIgnoreCase(given, t)
    [] op = "pattern match" -> IsMatch(given, t)

-----------------------------------------------------------------------------
\* Whole directories at the beginning of an expression that contain nothing but
\* names, and what is left of it.  A dollar is not missed when nothing is left.
GetConstantPortion(re) ==
  LET anchored == IF Head(re) = "^" THEN Tail(re) ELSE re
      dollar == anchored # << >> /\ Last(anchored) = "$"
      body == IF dollar THEN Front(anchored) ELSE anchored
      first == IF ToSet(body) \cap Special = {} THEN Len(body) + 1
               ELSE SelectInSeq(body, LAMBDA c : c \in Special)
      end == IF first > Len(body) THEN Len(body) ELSE LastSep(SubSeq(body, 1, first - 1))
  IN  [constant |-> StripTrailingSeparators(SubSeq(body, 1, end)),
       pattern |-> SubSeq(body, end + 1, Len(body))]
=============================================================================
