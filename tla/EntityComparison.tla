-------------------------- MODULE EntityComparison --------------------------
(***************************************************************************)
(* EntityComparator.cpp: how a value of a definition (def) is compared     *)
(* with a value of the system (sc), by datatype and operation, and the     *)
(* places that choose the comparison by datatype.                          *)
(*                                                                         *)
(* A value is what the regular expression at the head of each function     *)
(* lets through: a number for an integer, a sequence of numbers for a      *)
(* version, a sequence of characters for a string.  Malformed stands for   *)
(* all it does not let through.  Characters are their ASCII codes.         *)
(* Integers have the width of the constants, so that TLC comes across the  *)
(* limits; nothing depends on what the widths are.                         *)
(*                                                                         *)
(* An exception is the result Throws.  Where the build decides, an         *)
(* operator yields the set of outcomes.                                    *)
(***************************************************************************)
EXTENDS OvalEnum, Integers, Sequences

CONSTANTS
  Build,        \* "windows" or "unix": which FromString of Common.h is compiled
  IntBits,      \* bits of a long long
  EpochBits,    \* bits of an int
  DoubleUnit,   \* the distance of the doubles next to the decimals compared
  IsMatch(_, _), \* REGEX::IsMatch: "match", "no match" or "throws"
  Malformed,    \* a value the regular expression of its datatype refuses
  Throws        \* the result of a comparison that leaves with an exception

ASSUME ComparisonAssumption ==
  /\ Build \in {"windows", "unix"}
  /\ {IntBits, EpochBits, DoubleUnit} \subseteq Nat \ {0}
  /\ Throws \notin ResultEnumeration

\* OvalEnum::ToOperation; equals for an empty one
Operation ==
  {"equals", "not equal", "greater than", "less than",
   "greater than or equal", "less than or equal", "bitwise and", "bitwise or",
   "pattern match", "case insensitive equals",
   "case insensitive not equal", "subset of", "superset of"}

Truth(b) == IF b THEN "true" ELSE "false"

\* The chains of else-if over the six operations of an order, which repeat the
\* comparison of each operation; every other operation throws.
BySense(op, sense) ==
  CASE op = "equals"                -> Truth(sense = 0)
    [] op = "not equal"             -> Truth(sense # 0)
    [] op = "less than"             -> Truth(sense < 0)
    [] op = "less than or equal"    -> Truth(sense <= 0)
    [] op = "greater than"          -> Truth(sense > 0)
    [] op = "greater than or equal" -> Truth(sense >= 0)
    [] OTHER                        -> Throws

\* The same for the types that know equality only.
ByEquality(op, equal) ==
  CASE op = "equals"    -> Truth(equal)
    [] op = "not equal" -> Truth(~equal)
    [] OTHER            -> Throws

Sense(a, b) == IF a < b THEN -1 ELSE IF a > b THEN 1 ELSE 0

-----------------------------------------------------------------------------
(***************************************************************************)
(* Characters and strings.                                                 *)
(***************************************************************************)
xisdigit(c) == c \in 48..57
xislower(c) == c \in 97..122
xisupper(c) == c \in 65..90
xisalpha(c) == xislower(c) \/ xisupper(c)
xisalnum(c) == xisalpha(c) \/ xisdigit(c)

ToUpper(s) == [i \in DOMAIN s |-> IF xislower(s[i]) THEN s[i] - 32 ELSE s[i]]

\* The first position from i on whose character has P, or the end.
FirstFrom(s, i, P(_)) ==
  CHOOSE j \in i..(Len(s) + 1) :
    /\ j <= Len(s) => P(s[j])
    /\ \A k \in i..(j - 1) : ~P(s[k])

\* strcmp: the first characters that differ decide, the end counts least.
strcmp(s, t) ==
  LET common == {i \in DOMAIN s \cap DOMAIN t : s[i] # t[i]}
  IN  IF common = {} THEN Sense(Len(s), Len(t))
      ELSE LET i == CHOOSE j \in common : \A k \in common : j <= k
           IN  Sense(s[i], t[i])

CompareString(op, def, sc) ==
  CASE op = "equals"                       -> Truth(def = sc)
    [] op = "not equal"                    -> Truth(def # sc)
    [] op = "case insensitive equals"      -> Truth(ToUpper(def) = ToUpper(sc))
    [] op = "case insensitive not equal"   -> Truth(ToUpper(def) # ToUpper(sc))
    [] op = "pattern match" ->
         IF IsMatch(def, sc) = "throws" THEN Throws
         ELSE Truth(IsMatch(def, sc) = "match")
    [] OTHER                               -> Throws

IsHex(s) == s # << >> /\ \A i \in DOMAIN s :
              xisdigit(s[i]) \/ s[i] \in 65..70 \/ s[i] \in 97..102

CompareBinary(op, def, sc) ==
  IF ~IsHex(def) \/ ~IsHex(sc) THEN Throws
  ELSE ByEquality(op, ToUpper(def) = ToUpper(sc))

\* "true" and "1", "false" and "0"
CompareBoolean(op, def, sc) ==
  IF ~({def, sc} \subseteq {"true", "1", "false", "0"}) THEN Throws
  ELSE ByEquality(op, (def \in {"true", "1"}) = (sc \in {"true", "1"}))

CompareIosVersion(op, def, sc) == Throws

-----------------------------------------------------------------------------
(***************************************************************************)
(* EVR strings: [epoch, version, release].                                 *)
(***************************************************************************)
\* Faulty form: leading zeros count.
LengthFirst(isnum, s, t) ==
  IF isnum /\ Len(s) # Len(t) THEN Sense(Len(s), Len(t)) ELSE strcmp(s, t)

\* Two segments of one kind; numbers of any length, without their zeros.
SegmentOrder(isnum, s, t) ==
  LET Stripped(u) ==
        IF isnum THEN SubSeq(u, FirstFrom(u, 1, LAMBDA c : c # 48), Len(u))
        ELSE u
      Order(one, two) ==
        IF isnum /\ Len(one) # Len(two) THEN Sense(Len(one), Len(two))
        ELSE strcmp(one, two)
  IN  CHOOSE sense \in {-1, 0, 1} : sense = Order(Stripped(s), Stripped(t))

\* Where the segment that begins at i ends.
SegmentEnd(s, i, isnum) ==
  FirstFrom(s, i, LAMBDA c : IF isnum THEN ~xisdigit(c) ELSE ~xisalpha(c))

\* i and j are the pointers one and two; the first string may have ended when
\* the segment is looked for, and then the second is taken for the newer.
rpmvercmp(a, b) ==
  LET compare[i \in 1..(Len(a) + 1), j \in 1..(Len(b) + 1)] ==
        CASE i > Len(a) /\ j > Len(b) -> 0
          [] i > Len(a) /\ j <= Len(b) -> -1
          [] i <= Len(a) /\ j > Len(b) -> 1
          [] OTHER ->
               CHOOSE sense \in {-1, 0, 1} :
                 \E one \in {FirstFrom(a, i, xisalnum)}, two \in {FirstFrom(b, j, xisalnum)} :
                 \E isnum \in {one <= Len(a) /\ xisdigit(a[one])} :
                 \E str1 \in {SegmentEnd(a, one, isnum)}, str2 \in {SegmentEnd(b, two, isnum)} :
                 \E rc \in {SegmentOrder(isnum, SubSeq(a, one, str1 - 1),
                                                SubSeq(b, two, str2 - 1))} :
                   sense = CASE one = str1 -> -1
                             [] one # str1 /\ two = str2 -> IF isnum THEN 1 ELSE -1
                             [] OTHER -> IF rc # 0 THEN rc ELSE compare[str1, str2]
  IN  IF a = b THEN 0 ELSE compare[1, 1]

\* atoi: beyond an int it is undefined; the C libraries wrap the long they
\* read, or stop at the limit.
Epochs(n) ==
  LET limit == 2 ^ (EpochBits - 1)
  IN  IF n < limit THEN {n}
      ELSE {((n + limit) % (2 * limit)) - limit, limit - 1, -1}

\* Epoch, version and release decide in this order.
EvrSenses(def, sc) ==
  {IF d # s THEN Sense(s, d)
   ELSE LET sense == rpmvercmp(sc.version, def.version)
        IN  IF sense # 0 THEN sense ELSE rpmvercmp(sc.release, def.release)
     : d \in Epochs(def.epoch), s \in Epochs(sc.epoch)}

CompareEvrString(op, def, sc) ==
  IF Malformed \in {def, sc} THEN {Throws}
  ELSE {BySense(op, sense) : sense \in EvrSenses(def, sc)}

-----------------------------------------------------------------------------
(***************************************************************************)
(* Numbers.                                                                *)
(***************************************************************************)
\* atof: the nearest double; only the decimals' order and which of them fall
\* on one double is left of it.
atof(decimal) == decimal \div DoubleUnit

CompareFloat(op, def, sc) ==
  IF Malformed \in {def, sc} THEN Throws
  ELSE BySense(op, Sense(atof(sc), atof(def)))

Modulus == 2 ^ IntBits

\* A power of two; the provers know nothing of powers.
ASSUME WidthAssumption == Modulus \in Nat \ {0}

FitsSigned(n) == n \in (-(Modulus \div 2))..((Modulus \div 2) - 1)

\* FromString of an unsigned long long: the operator of the Unix libraries
\* reads a sign and wraps, the overload for Windows refuses it.
FitsUnsigned(n) ==
  n \in (IF Build = "windows" THEN 0 ELSE 1 - Modulus)..(Modulus - 1)

ToUnsigned(n) == n % Modulus

\* The bits of a two's complement number of any sign.
BitsOf(n) == {k \in 0..(IntBits - 1) : ((n % Modulus) \div (2 ^ k)) % 2 = 1}

CompareIntOperation(op, def, sc) ==
  CASE op = "bitwise and" -> Truth(BitsOf(def) \cap BitsOf(sc) = BitsOf(def))
    [] op = "bitwise or"  -> Truth(BitsOf(def) \cup BitsOf(sc) = BitsOf(def))
    [] OTHER              -> BySense(op, Sense(sc, def))

\* One of the two is signed only, the other unsigned only.
CompareMixed(op, def, sc) ==
  CASE op = "equals"    -> "false"
    [] op = "not equal" -> "true"
    [] op \in {"less than", "less than or equal"} -> Truth(FitsSigned(sc))
    [] op \in {"greater than", "greater than or equal"} ->
         Truth(~FitsSigned(sc))
    [] op \in {"bitwise and", "bitwise or"} ->
         CompareIntOperation(op, def, sc)
    [] OTHER -> Throws

\* Faulty form: any two numbers the unsigned type takes are compared as such.
UnsignedOnly(op, def, sc) ==
  IF Malformed \in {def, sc} THEN Throws
  ELSE CompareIntOperation(op, ToUnsigned(def), ToUnsigned(sc))

\* The last branch throws for whichever of the two is out of range.
CompareInteger(op, def, sc) ==
  CASE Malformed \in {def, sc} -> Throws
    [] Malformed \notin {def, sc} /\ FitsSigned(def) /\ FitsSigned(sc) ->
         CompareIntOperation(op, def, sc)
    [] OTHER ->
         IF FitsUnsigned(def) /\ FitsUnsigned(sc)
           THEN CompareIntOperation(op, ToUnsigned(def), ToUnsigned(sc))
         ELSE IF \/ FitsSigned(def) /\ FitsUnsigned(sc)
                 \/ FitsUnsigned(def) /\ FitsSigned(sc)
           THEN CompareMixed(op, def, sc)
         ELSE Throws

-----------------------------------------------------------------------------
(***************************************************************************)
(* Versions: sequences of numbers.                                         *)
(***************************************************************************)
\* A number no long long holds leaves the variable it is read into at the
\* limit, or, with the older libraries, as it was: uninitialized.
ParseVersionStr(version) ==
  {values \in [DOMAIN version -> 0..((Modulus \div 2) - 1)] :
     \A i \in DOMAIN version : FitsSigned(version[i]) => values[i] = version[i]}

Padded(values, n) ==
  [i \in 1..n |-> IF i \in DOMAIN values THEN values[i] ELSE 0]

\* Faulty form: the last component decides.
LastDifference(def, sc) ==
  LET differ == {i \in DOMAIN def : def[i] # sc[i]}
  IN  IF differ = {} THEN 0
      ELSE LET i == CHOOSE j \in differ : \A k \in differ : j >= k
           IN  Sense(sc[i], def[i])

\* The loop goes on while the components are equal and leaves with the first
\* that are not.
FirstDifference(def, sc) ==
  LET differ == {i \in DOMAIN def : def[i] # sc[i]}
  IN  IF differ = {} THEN 0
      ELSE LET i == CHOOSE j \in differ : \A k \in differ : j <= k
           IN  Sense(sc[i], def[i])

\* The operations that are neither refused nor of an order leave the loop's
\* result as it was initialized.
CompareVersion(op, def, sc) ==
  IF Malformed \in {def, sc} \/ op \in {"pattern match", "bitwise and", "bitwise or"}
    THEN {Throws}
    ELSE LET n == IF Len(def) > Len(sc) THEN Len(def) ELSE Len(sc)
         IN  {LET r == BySense(op, FirstDifference(Padded(d, n), Padded(s, n)))
              IN  IF r = Throws THEN "error" ELSE r
                : d \in ParseVersionStr(def), s \in ParseVersionStr(sc)}

-----------------------------------------------------------------------------
(***************************************************************************)
(* Addresses: the classes Ipv4Address and Ipv6Address, the comparison of   *)
(* their values, and the parser of ipv6 addresses the Windows build brings *)
(* along.                                                                  *)
(*                                                                         *)
(* A string is given by its parts: what is before the slash and what       *)
(* follows it.  An ipv4 address and a netmask are sets of bits, bit        *)
(* AddressBits - 1 the most significant; an ipv6 address is a function     *)
(* from bytes to sets of bits, byte 0 the most significant.                *)
(***************************************************************************)
CONSTANTS
  AddressBits,  \* bits of an ipv4 address
  Bytes,        \* bytes of an ipv6 address, two for each component
  ByteBits,     \* bits of a byte
  Colon, Long, Other   \* tokens of the string of an ipv6 address, see below

ASSUME AddressAssumption ==
  /\ {AddressBits, Bytes, ByteBits} \subseteq Nat \ {0}
  /\ Bytes % 2 = 0

Bits == 0..(AddressBits - 1)

\* Order of two sets of bits as numbers: the highest bit they differ in.
BitsSense(a, b) ==
  IF a = b THEN 0
  ELSE LET highest == CHOOSE k \in (a \ b) \cup (b \ a) :
                        \A l \in (a \ b) \cup (b \ a) : l <= k
       IN  IF highest \in a THEN 1 ELSE -1

-----------------------------------------------------------------------------
(***************************************************************************)
(* ipv4.  A string is [quad, kind, prefix, mask]; kind says whether a      *)
(* prefix size, a netmask or nothing follows.  A quad that is not one is   *)
(* Malformed.                                                              *)
(***************************************************************************)
PrefixMask(prefix) == (AddressBits - prefix)..(AddressBits - 1)

\* The loop over all bits but the last: a 1 bit is followed by a 1 bit.
IsPrefixMask(mask) ==
  \A i \in 0..(AddressBits - 2) : i \in mask => i + 1 \in mask

\* The same loop finds the first 1 bit; bit 31 is looked at when it found none.
PrefixOfMask(mask) ==
  LET ones == mask \cap (0..(AddressBits - 2))
  IN  IF ones # {}
        THEN AddressBits - (CHOOSE i \in ones : \A j \in ones : i <= j)
        ELSE IF AddressBits - 1 \in mask THEN 1 ELSE 0

Ipv4Address(string) ==
  LET Made(netmask, prefixSize) ==
        [addr |-> string.quad \cap netmask, netmask |-> netmask,
         prefixSize |-> prefixSize]
  IN  CASE string.quad = Malformed -> Throws
        [] string.kind = "none" /\ string.quad # Malformed ->
             Made(Bits, AddressBits)
        [] string.kind = "prefix" /\ string.quad # Malformed ->
             IF string.prefix > AddressBits THEN Throws
             ELSE Made(PrefixMask(string.prefix), string.prefix)
        [] OTHER ->
             IF ~IsPrefixMask(string.mask) THEN Throws
             ELSE Made(string.mask, PrefixOfMask(string.mask))

\* Ipv4Address::subsetOf
Ipv4Subset(one, other) ==
  /\ one.prefixSize >= other.prefixSize
  /\ other.addr \cap other.netmask = one.addr \cap other.netmask

CompareIpv4Address(op, defString, scString) ==
  LET def == Ipv4Address(defString)
      sc == Ipv4Address(scString)
      equal == sc.addr = def.addr /\ sc.netmask = def.netmask
  IN  IF Throws \in {def, sc} THEN Throws
      ELSE CASE op \in {"equals", "not equal"} -> ByEquality(op, equal)
             [] op = "subset of"   -> Truth(Ipv4Subset(sc, def))
             [] op = "superset of" -> Truth(Ipv4Subset(def, sc))
             [] op \in {"greater than", "greater than or equal", "less than",
                        "less than or equal"} ->
                  IF sc.netmask # def.netmask THEN "error"
                  ELSE BySense(op, BitsSense(sc.addr, def.addr))
             [] OTHER -> Throws

-----------------------------------------------------------------------------
(***************************************************************************)
(* ipv6.  A string is [address, prefix], the address as a sequence of      *)
(* tokens; a prefix of None stands for no slash, and for a slash with      *)
(* nothing after it.                                                       *)
(*                                                                         *)
(* The tokens are Colon and runs of hexadecimal digits, no two runs in     *)
(* succession; a run is the pair of bytes it denotes or, with more than    *)
(* four digits, Long.  A dotted quad is one token too, the four bytes it   *)
(* denotes; Other is any other character.                                  *)
(***************************************************************************)
None == -1

IsChunk(token) == token \notin {Colon, Long, Other} /\ Len(token) = 2
IsQuad(token) == token \notin {Colon, Long, Other} /\ Len(token) = 4

(***************************************************************************)
(* toIn6Addr, on Windows.  Every component takes one position for itself   *)
(* and one for the colon after it, and two bytes of the address:           *)
(* fwdAddrIdx and bwdAddrIdx follow from the position.  A dotted quad has  *)
(* characters that are neither digits nor a colon.                         *)
(***************************************************************************)
\* The going-forward part: where it ends.
Forward(string) ==
  LET from[i \in 1..(Len(string) + 2)] ==
        IF i > Len(string) THEN i
        ELSE IF string[i] = Colon THEN i
        ELSE IF i - 1 > Bytes - 1 THEN Throws
        ELSE IF ~IsChunk(string[i]) THEN Throws
        ELSE IF i < Len(string) /\ string[i + 1] # Colon THEN Throws
        ELSE from[i + 2]
  IN  IF string[1] = Colon THEN 2 ELSE from[1]

\* Faulty form: without the check after the loop.
BackwardUnchecked(string, colon, fwd) ==
  LET from[j \in 0..Len(string)] ==
        LET bwd == Bytes - 1 - (Len(string) - j)
        IN  IF j <= colon THEN TRUE
            ELSE /\ bwd > fwd
                 /\ IsChunk(string[j]) /\ string[j - 1] = Colon
                 /\ from[j - 2]
  IN  from[Len(string)]

\* The going-backward part, and the check that follows it: may the address
\* end in what comes after the double colon?
Backward(string, colon, fwd) ==
  LET from[j \in 0..Len(string)] ==
        LET bwd == Bytes - 1 - (Len(string) - j)
        IN  IF j <= colon THEN bwd >= fwd
            ELSE /\ bwd > fwd
                 /\ IsChunk(string[j]) /\ string[j - 1] = Colon
                 /\ from[j - 2]
  IN  from[Len(string)]

toIn6Addr(string) ==
  LET last == Len(string)
      doubles == {i \in 1..(last - 1) :
                    string[i] = Colon /\ string[i + 1] = Colon}
      colon == Forward(string)
      fwd == IF string[1] = Colon THEN 0 ELSE colon - 1
      Byte(k) ==
        LET back == last - 2 * ((Bytes - 1 - k) \div 2)
        IN  IF k < fwd THEN string[2 * (k \div 2) + 1][(k % 2) + 1]
            ELSE IF back > colon THEN string[back][(k % 2) + 1]
            ELSE {}
      accepted ==
        /\ last >= 2
        /\ \A i, j \in doubles : i = j
        /\ string[1] = Colon => 1 \in doubles
        /\ string[last] = Colon => last - 1 \in doubles
        /\ colon # Throws
        /\ IF colon > last THEN fwd >= Bytes ELSE Backward(string, colon, fwd)
  IN  IF accepted THEN [k \in 0..(Bytes - 1) |-> Byte(k)] ELSE Throws
-----------------------------------------------------------------------------
\* Components with a colon between each two.
Spelt(c) ==
  IF c = << >> THEN << >>
  ELSE [i \in 1..(2 * Len(c) - 1) |->
          IF i % 2 = 1 THEN c[(i + 1) \div 2] ELSE Colon]

\* A dotted quad in the end is the last two components.
WithoutQuad(string) ==
  LET n == Len(string)
      q == string[n]
  IN  IF n > 0 /\ IsQuad(q)
        THEN SubSeq(string, 1, n - 1) \o <<SubSeq(q, 1, 2), Colon, SubSeq(q, 3, 4)>>
        ELSE string

\* The library function the other builds call, for the forms of RFC 4291: all
\* components, or one double colon for one or more of them that are zero, and in
\* both a dotted quad in the end.  The components are among the string's own.
inet_pton(spelling) ==
  LET string == WithoutQuad(spelling)
      Front(k) == SelectSeq(SubSeq(string, 1, k), IsChunk)
      Back(k) == SelectSeq(SubSeq(string, k + 1, Len(string)), IsChunk)
      Zeros(k) == [c \in 1..((Bytes \div 2) - Len(Front(k)) - Len(Back(k))) |->
                     <<{}, {}>>]
      splits == {k \in 0..Len(string) :
                   /\ Len(Front(k)) + Len(Back(k)) < Bytes \div 2
                   /\ string = Spelt(Front(k)) \o <<Colon, Colon>> \o Spelt(Back(k))}
      whole == Front(Len(string))
      InBytes(c) == [k \in 0..(Bytes - 1) |-> c[(k \div 2) + 1][(k % 2) + 1]]
  IN  IF Len(whole) = Bytes \div 2 /\ string = Spelt(whole) THEN InBytes(whole)
      ELSE IF splits = {} THEN Throws
      ELSE LET k == CHOOSE k \in splits : TRUE
           IN  InBytes(Front(k) \o Zeros(k) \o Back(k))

-----------------------------------------------------------------------------
ByteMask == 0..(ByteBits - 1)

\* The memset and the partial byte of setFromString.
Netmask(prefixSize) ==
  [i \in 0..(Bytes - 1) |->
     CASE i < prefixSize \div ByteBits -> ByteMask
       [] i = prefixSize \div ByteBits ->
            (ByteBits - (prefixSize % ByteBits))..(ByteBits - 1)
       [] OTHER -> {}]

Ipv6Address(string) ==
  LET address == IF Build = "windows" THEN toIn6Addr(string.address)
                 ELSE inet_pton(string.address)
      prefixSize == IF string.prefix = None THEN Bytes * ByteBits
                    ELSE string.prefix
  IN  IF address = Throws \/ prefixSize > Bytes * ByteBits THEN Throws
      ELSE [addr |-> [i \in 0..(Bytes - 1) |->
                        address[i] \cap Netmask(prefixSize)[i]],
            prefixSize |-> prefixSize]

\* Faulty form: only whole bytes are compared.
WholeBytesOnly(one, other) ==
  /\ one.prefixSize >= other.prefixSize
  /\ \A i \in 0..((other.prefixSize \div ByteBits) - 1) :
       one.addr[i] = other.addr[i]

\* Ipv6Address::subsetOf: the whole bytes, then the bits of the next one.
Ipv6Subset(one, other) ==
  LET bytes == other.prefixSize \div ByteBits
      bits == other.prefixSize % ByteBits
  IN  /\ one.prefixSize >= other.prefixSize
      /\ \A i \in 0..(bytes - 1) : one.addr[i] = other.addr[i]
      /\ bytes < Bytes /\ bits # 0 =>
           LET mask == Netmask(other.prefixSize)[bytes]
           IN  one.addr[bytes] \cap mask = other.addr[bytes] \cap mask

\* operator< and operator<= of in6_addr: the first byte that differs.
In6Sense(a, b) ==
  LET differ == {i \in 0..(Bytes - 1) : a[i] # b[i]}
  IN  IF differ = {} THEN 0
      ELSE LET i == CHOOSE j \in differ : \A k \in differ : j <= k
           IN  BitsSense(a[i], b[i])

CompareAddresses(op, def, sc) ==
  IF Throws \in {def, sc} THEN Throws
  ELSE CASE op \in {"equals", "not equal"} -> ByEquality(op, sc = def)
         [] op = "subset of"   -> Truth(Ipv6Subset(sc, def))
         [] op = "superset of" -> Truth(Ipv6Subset(def, sc))
         [] op \in {"greater than", "greater than or equal", "less than",
                    "less than or equal"} ->
              IF sc.prefixSize # def.prefixSize THEN "error"
              ELSE BySense(op, In6Sense(sc.addr, def.addr))
         [] OTHER -> Throws

\* The one outcome of two addresses that are read first.
CompareIpv6Address(op, defString, scString) ==
  {CompareAddresses(op, def, sc) :
     def \in {Ipv6Address(defString)}, sc \in {Ipv6Address(scString)}}
=============================================================================
