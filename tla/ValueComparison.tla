--------------------------- MODULE ValueComparison ---------------------------
(***************************************************************************)
(* The places that choose a comparison of EntityComparator.cpp by the      *)
(* datatype: AbsEntity::Analyze and StateOrObjectFieldEntityValue::Analyze *)
(* for what a state or an object says of an item, and ValidateValue of     *)
(* RestrictionType and PossibleValueType for the values of external        *)
(* variables; and the comparison of records, which goes through the        *)
(* second of them field by field.                                          *)
(*                                                                         *)
(* One comparison is one step from the arguments to one of the outcomes.   *)
(***************************************************************************)
EXTENDS EntityComparison, SequencesExt

CONSTANTS
  Requests,  \* bound: the comparisons that are asked for, by kind
  NoResult

\* What the regular expressions and strtol leave of a version or an address.
IsLiteral(datatype, value) ==
  CASE datatype = "version" -> value = Malformed \/ value \in Seq(Nat)
    [] datatype = "ipv4_address" ->
         /\ value.quad = Malformed \/ value.quad \subseteq Bits
         /\ \/ value.kind = "none"
            \/ value.kind = "prefix" /\ value.prefix \in Nat
            \/ value.kind = "mask" /\ value.mask \subseteq Bits
    [] datatype = "ipv6_address" -> value.prefix \in Nat \cup {None}
    [] OTHER -> TRUE

ASSUME RequestsAssumption ==
  \A kind \in DOMAIN Requests : \A r \in Requests[kind] :
    r.call = "entity" /\ ~r.variable /\ r.datatype # "record" =>
      IsLiteral(r.datatype, r.values[1]) /\ IsLiteral(r.datatype, r.sc)

\* A request: call says which method is called, values has the value of the
\* definition or, when variable is set, those of the variable, sc is the value
\* of the system.  A record has a field of each name at most once in fields,
\* and any number in items.
VARIABLES
  request,
  result     \* what the call returned; NoResult before it did

vars == <<request, result>>

\* OvalEnum::Datatype, and the comparisons of one value each.
Compare(datatype, o, def, sc) ==
  CASE datatype = "binary"       -> {CompareBinary(o, def, sc)}
    [] datatype = "boolean"      -> {CompareBoolean(o, def, sc)}
    [] datatype = "evr_string"   -> CompareEvrString(o, def, sc)
    [] datatype = "float"        -> {CompareFloat(o, def, sc)}
    [] datatype = "integer"      -> {CompareInteger(o, def, sc)}
    [] datatype = "ios_version"  -> {CompareIosVersion(o, def, sc)}
    [] datatype = "string"       -> {CompareString(o, def, sc)}
    [] datatype = "version"      -> CompareVersion(o, def, sc)
    [] datatype = "ipv4_address" -> {CompareIpv4Address(o, def, sc)}
    [] datatype = "ipv6_address" -> CompareIpv6Address(o, def, sc)

\* What of an item's entity is looked at before its value.
ByStatus(status, outcomes) ==
  CASE status \in {"error", "not collected"} -> {"error"}
    [] status = "does not exist"             -> {"false"}
    [] status = "exists"                     -> outcomes

\* An exception ends in the catch clauses of both Analyze methods.
Caught(outcomes) == {IF r = Throws THEN "error" ELSE r : r \in outcomes}

\* AbsEntity::Analyze and StateOrObjectFieldEntityValue::Analyze have the
\* datatypes they know in their own chains of else-if; the result of one they
\* do not know stays an error.
OfField(datatype) == datatype \notin {"ipv6_address", "record"}
OfVariable(datatype) == datatype # "ipv6_address"

CompareKnown(known, datatype, o, def, sc) ==
  IF known THEN Compare(datatype, o, def, sc) ELSE {"error"}

\* With a variable one result for each value, combined by the check.
CompareVariable(known, r) ==
  LET each == [i \in DOMAIN r.values |->
                 CompareKnown(known, r.datatype, r.op, r.values[i], r.sc)]
      results == {s \in [DOMAIN r.values -> ResultEnumeration \cup {Throws}] :
                    \A i \in DOMAIN s : s[i] \in each[i]}
  IN  IF r.flag # "complete" THEN {"error"}
      ELSE {IF \E i \in DOMAIN s : s[i] = Throws THEN Throws
            ELSE CombineResultsByCheck(ResultTally(s), r.check) : s \in results}

\* StateOrObjectFieldEntityValue::Analyze
AnalyzeField(r) ==
  Caught(ByStatus(r.status,
    IF r.variable THEN CompareVariable(OfField(r.datatype), r)
    ELSE CompareKnown(OfField(r.datatype), r.datatype, r.op, r.values[1], r.sc)))

\* The result of a field the item does not have.
MissingField == {"error"}

\* EntityComparator::CompareRecord: the fields of an item with the name of one
\* of the record.
CompareRecord(r) ==
  LET Named(f) == {i \in DOMAIN r.items : r.items[i].name = f.name}
      Field(f, item) ==
        AnalyzeField([f EXCEPT !.sc = item.sc, !.status = item.status])
      Outcomes(f) ==
        IF Named(f) = {} THEN MissingField
        ELSE {CombineResultsByCheck(ResultTally(s), f.entityCheck) :
                s \in {t \in [Named(f) -> ResultEnumeration] :
                         \A i \in Named(f) : t[i] \in Field(f, r.items[i])}}
  IN  IF r.op # "equals" THEN {Throws}
      ELSE {CombineResultsByCheck(ResultTally(s), "all") :
              s \in {t \in [DOMAIN r.fields -> ResultEnumeration] :
                       \A i \in DOMAIN t : t[i] \in Outcomes(r.fields[i])}}

\* AbsEntity::Analyze; a record may not have a variable.
AnalyzeEntity(r) ==
  Caught(ByStatus(r.status,
    CASE r.datatype = "record" ->
           IF r.variable /\ r.flag = "complete" /\ r.values # << >> THEN {Throws}
           ELSE IF r.variable THEN CompareVariable(TRUE, r)
           ELSE CompareRecord(r)
      [] r.datatype # "record" /\ r.variable ->
           CompareVariable(OfVariable(r.datatype), r)
      [] OTHER -> Compare(r.datatype, r.op, r.values[1], r.sc)))

\* RestrictionType::ValidateValue and, with the operation equals,
\* PossibleValueType::ValidateValue: the datatypes with addresses are unknown,
\* and what is neither true nor false is an exception.
Validated(r, o) ==
  {IF x \in {"true", "false"} THEN x ELSE Throws :
     x \in CompareKnown(r.datatype \notin {"ipv4_address", "ipv6_address"},
                        r.datatype, o, r.values[1], r.sc)}

-----------------------------------------------------------------------------
Init ==
  /\ \E kind \in DOMAIN Requests : request \in Requests[kind]
  /\ result = NoResult

Return(call, outcomes) ==
  /\ request.call = call
  /\ result = NoResult
  /\ result' \in outcomes
  /\ UNCHANGED request

Entity == Return("entity", AnalyzeEntity(request))
Restriction == Return("restriction", Validated(request, request.op))
PossibleValue == Return("possible value", Validated(request, "equals"))

Next == Entity \/ Restriction \/ PossibleValue

Spec == Init /\ [][Next]_vars

-----------------------------------------------------------------------------
(***************************************************************************)
(* What the comparisons mean, stated on references of their own: numbers,  *)
(* sequences of segments, sets of addresses.                               *)
(***************************************************************************)
Orders == {"equals", "not equal", "less than", "less than or equal",
           "greater than", "greater than or equal"}

\* An item's entity that exists was compared with a literal of the datatype.
Compared(datatype) ==
  /\ request.call = "entity" /\ request.datatype = datatype
  /\ result # NoResult
  /\ ~request.variable /\ request.status = "exists"

def == request.values[1]

\* Integers compare by their value, signed and unsigned ones and one of each,
\* as long as each has a type that holds it.  With the conversion of the Unix
\* libraries that needs both to be signed or neither negative
\* (EntityComparator.cpp: CompareInteger, Common.h: FromString).
IntegersCompareByValue ==
  Compared("integer") /\ Malformed \notin {def, request.sc} =>
    LET sc == request.sc
    IN  /\ {def, sc} \subseteq (-(Modulus \div 2))..(Modulus - 1)
        /\ \/ Build = "windows"
           \/ FitsSigned(def) /\ FitsSigned(sc)
           \/ def >= 0 /\ sc >= 0
        /\ request.op \in Orders
        => result = BySense(request.op, Sense(sc, def))

-----------------------------------------------------------------------------
\* The segments of a version: its maximal runs of digits and of letters,
\* numbers by their value.  A number is newer than letters.
KindOf(c) == CASE xisdigit(c) -> "number" [] xisalpha(c) -> "letters"
               [] OTHER -> "separator"

Starts(s) == {i \in DOMAIN s :
                /\ xisalnum(s[i])
                /\ i > 1 => KindOf(s[i - 1]) # KindOf(s[i])}

RunAt(s, i) ==
  LET end == CHOOSE j \in i..Len(s) :
               /\ \A k \in i..j : KindOf(s[k]) = KindOf(s[i])
               /\ j < Len(s) => KindOf(s[j + 1]) # KindOf(s[i])
  IN  SubSeq(s, i, end)

Segments(s) ==
  [n \in 1..Cardinality(Starts(s)) |->
     LET i == SetToSortSeq(Starts(s), <)[n]
         run == RunAt(s, i)
     IN  IF xisdigit(s[i])
           THEN <<1, FoldLeft(LAMBDA v, c : 10 * v + (c - 48), 0, run), << >> >>
           ELSE <<0, 0, run>>]

SegmentSense(p, q) ==
  IF p[1] # q[1] THEN Sense(p[1], q[1])
  ELSE IF p[2] # q[2] THEN Sense(p[2], q[2])
  ELSE strcmp(p[3], q[3])

\* The first segments that differ decide, then the one with more is newer.
Newer(s, t) ==
  LET p == Segments(s)
      q == Segments(t)
      differ == {i \in DOMAIN p \cap DOMAIN q : p[i] # q[i]}
  IN  IF differ = {} THEN Sense(Len(p), Len(q))
      ELSE LET i == CHOOSE j \in differ : \A k \in differ : j <= k
           IN  SegmentSense(p[i], q[i])

EndsInSegment(s) == s # << >> /\ xisalnum(s[Len(s)])

\* EVR strings are ordered by epoch, version and release, versions by their
\* segments: an order in which any two are comparable, whatever separators
\* they have inside (EntityComparator.cpp: CompareEvrString, rpmvercmp).
EvrOrder ==
  Compared("evr_string") /\ Malformed \notin {def, request.sc} =>
    LET sc == request.sc
        byVersion == Newer(sc.version, def.version)
    IN  /\ \A v \in {def, sc} : /\ EndsInSegment(v.version)
                                /\ EndsInSegment(v.release)
                                /\ v.epoch < 2 ^ (EpochBits - 1)
        => result = BySense(request.op,
                      IF def.epoch # sc.epoch THEN Sense(sc.epoch, def.epoch)
                      ELSE IF byVersion # 0 THEN byVersion
                      ELSE Newer(sc.release, def.release))

\* The number with the components of a version for digits.
AsNumber(version, n) ==
  LET number[i \in 0..n] ==
        IF i = 0 THEN 0 ELSE Modulus * number[i - 1] + Padded(version, n)[i]
  IN  number[n]

\* Versions are ordered as numbers with their components for digits, a missing
\* component being zero, as long as the integers hold the components
\* (EntityComparator.cpp: CompareVersion, ParseVersionStr).
VersionsOrder ==
  Compared("version") /\ Malformed \notin {def, request.sc} =>
    LET n == Len(def) + Len(request.sc)
    IN  /\ \A v \in {def, request.sc} : \A i \in DOMAIN v : FitsSigned(v[i])
        /\ request.op \in Orders
        => result = BySense(request.op,
                      Sense(AsNumber(request.sc, n), AsNumber(def, n)))

-----------------------------------------------------------------------------
\* The addresses a string stands for.
Hosts4(a) == {h \in SUBSET Bits : h \cap a.netmask = a.addr}
Hosts6(a) == {h \in [0..(Bytes - 1) -> SUBSET ByteMask] :
                \A i \in DOMAIN h : h[i] \cap Netmask(a.prefixSize)[i] = a.addr[i]}

SetsCompare(sizes, hostsDef, hostsSc) ==
  /\ request.op = "equals" => (result = "true") = (hostsSc = hostsDef)
  /\ request.op = "subset of" => (result = "true") = (hostsSc \subseteq hostsDef)
  /\ request.op = "superset of" => (result = "true") = (hostsDef \subseteq hostsSc)
  /\ request.op \in Orders \ {"equals", "not equal"} =>
       (result = "error") = (Cardinality(sizes) # 1)

\* Addresses with a prefix or a netmask compare as the sets of addresses they
\* stand for, and have an order only with an equally long prefix
\* (EntityComparator.cpp: Ipv4Address, Ipv6Address and their comparison).
AddressesAreSets ==
  /\ Compared("ipv4_address") =>
       LET d == Ipv4Address(def)
           s == Ipv4Address(request.sc)
       IN  Throws \notin {d, s} =>
             SetsCompare({d.prefixSize, s.prefixSize}, Hosts4(d), Hosts4(s))
  /\ Compared("ipv6_address") =>
       LET d == Ipv6Address(def)
           s == Ipv6Address(request.sc)
       IN  Throws \notin {d, s} =>
             SetsCompare({d.prefixSize, s.prefixSize}, Hosts6(d), Hosts6(s))

\* The parser of the Windows build takes what the library of the other builds
\* takes, and reads the same address from it, but for the third form of RFC 4291
\* (section 2.2), in which an address ends in a dotted quad.  The schema allows it
\* (oval-common-schema.xsd:336) and the library reads it
\* (EntityComparator.cpp:1299), while the parser refuses every string with a
\* quad (EntityComparator.cpp:1415-1420): there the builds disagree, and nothing
\* is said of what the library makes of it.
BuildsAgree ==
  Compared("ipv6_address") =>
    \A s \in {def, request.sc} :
      toIn6Addr(s.address) = IF \E i \in DOMAIN s.address : IsQuad(s.address[i])
                               THEN Throws
                               ELSE inet_pton(s.address)
=============================================================================
