----------------------------- MODULE MCComparison -----------------------------
(***************************************************************************)
(* Values of every datatype at the limits of small integers and addresses. *)
(***************************************************************************)
EXTENDS ValueComparison

\* One pattern that matches everything and one that does not compile.
MCIsMatch(pattern, value) ==
  CASE pattern = <<97>> -> "match" [] pattern = <<65>> -> "throws"
    [] OTHER -> "no match"

Literal(datatype, ops, defs, scs) ==
  [call : {"entity"}, datatype : {datatype}, op : ops, variable : {FALSE},
   values : {<<d>> : d \in defs}, sc : scs, status : {"exists"}]

MCIntegers == (-(Modulus + 1)..(Modulus + 1)) \cup {Malformed}

Over(chars, n) == UNION {[1..k -> chars] : k \in 1..n}

\* 46 is a dot, 95 an underscore; 48 to 50 are digits, 97 is a letter.
MCSpellings == Over({46, 48, 49, 50, 97}, 2) \cup Over({46, 49, 97}, 3)
                 \cup {<<49, 95>>, <<49, 95, 97>>}

MCEvrs ==
  [epoch : {0}, version : MCSpellings, release : {<<49>>}]
  \cup [epoch : 0..5, version : {<<49>>, <<48, 49>>}, release : {<<49>>, <<97>>}]

MCVersions == {v \in Over(0..5, 3) : \A i \in DOMAIN v : v[i] > 3 => i = Len(v)}

MCIpv4 ==
  [quad : SUBSET Bits, kind : {"prefix"}, prefix : 0..(AddressBits + 1)]
  \cup [quad : {{}, {0}, {1}, Bits}, kind : {"mask"}, mask : SUBSET Bits]
  \cup [quad : {{}, Bits, Malformed}, kind : {"none"}]

Zero == <<{}, {}>>
One == <<{}, {0}>>
Two == <<{1}, {}>>

MCIpv6 ==
  [address : {<<One, Colon, Zero, Colon, One>>,
              <<One, Colon, Colon>>, <<Two, Colon, Colon, One>>,
              <<Colon, Colon, Two>>},
   prefix : {None} \cup 0..(Bytes * ByteBits + 1)]

Quad == One \o Two

\* Every string of tokens in which no two runs follow each other, some that are too
\* long, and dotted quads where they may be and where they may not.
MCIpv6Strings ==
  {s \in Over({Colon, Long, Other, One, Two}, 5) :
     \A i \in 1..(Len(s) - 1) : {s[i], s[i + 1]} \cap {Colon, Other} # {}}
  \cup {<<One, Colon, One, Colon, One, Colon, Colon>>,
        <<One, Colon, One, Colon, Colon, One>>,
        <<One, Colon, One, Colon, Colon, One, Colon, One>>,
        <<One, Colon, One, Colon, One, Colon, One>>}
  \cup {<<Quad>>, <<Colon, Colon, Quad>>, <<One, Colon, Quad>>,
        <<One, Colon, Colon, Quad>>, <<One, Colon, One, Colon, Quad>>,
        <<Quad, Colon, One>>, <<Colon, Colon, Quad, Colon, One>>}

Bounds == {"equals", "less than", "greater than"}
OfAddresses == {"equals", "subset of", "superset of", "less than"}

\* A literal, a value of the system and a datatype for both.
Indirect ==
  {<<"integer", 1, 2>>, <<"integer", 2, 2>>, <<"integer", Malformed, 2>>,
   <<"ios_version", 1, 1>>, <<"float", 1, 2>>}
Texts == {<<"binary", <<65>>, <<97>> >>, <<"string", <<65>>, <<97>> >>}
Booleans == {<<"boolean", "true", "1">>, <<"boolean", "true", "yes">>}

\* The same, asked of an entity with a variable and of the declaration of an
\* external variable.
VariableRequests(triples) ==
  UNION {[call : {"entity"}, datatype : {t[1]}, op : {"equals"},
          variable : {TRUE}, flag : {"complete", "incomplete"},
          check : CheckEnumeration,
          values : {<< >>, <<t[2]>>, <<t[2], t[3]>>}, sc : {t[3]},
          status : SCStatus] : t \in triples}

ExternalRequests(triples) ==
  UNION {[call : {"restriction", "possible value"}, datatype : {t[1]},
          op : Bounds, values : {<<t[2]>>}, sc : {t[3]}] : t \in triples}

MCFields(name) ==
  [name : {name}, entityCheck : CheckEnumeration, datatype : {"integer"},
   op : {"equals"}, variable : {FALSE}, values : {<<1>>}, sc : {0},
   status : {"exists"}]

MCItems == [name : {"a", "b"}, sc : {1, 2}, status : {"exists", "error"}]

MCRecords ==
  [call : {"entity"}, datatype : {"record"}, op : {"equals", "not equal"},
   variable : {FALSE}, status : {"exists"},
   fields : MCFields("a") \X MCFields("b"), items : Over(MCItems, 2)]

MCRequests ==
  [kind \in {"integers", "evr strings", "versions", "floats", "strings",
             "ipv4", "ipv6", "ipv6 strings", "variables", "texts",
             "booleans", "externals", "external texts", "records"} |->
     CASE kind = "integers" ->
            Literal("integer", Operation, MCIntegers, MCIntegers)
       [] kind = "evr strings" ->
            Literal("evr_string", Bounds, MCEvrs, MCEvrs)
       [] kind = "versions" ->
            Literal("version", Bounds \cup {"subset of", "bitwise and"},
                    MCVersions, MCVersions)
       [] kind = "floats" ->
            Literal("float", Operation, 0..5, 0..5 \cup {Malformed})
       [] kind = "strings" ->
            Literal("string", Operation, Over({65, 97}, 2), Over({65, 97}, 2))
       [] kind = "ipv4" -> Literal("ipv4_address", OfAddresses, MCIpv4, MCIpv4)
       [] kind = "ipv6" -> Literal("ipv6_address", OfAddresses, MCIpv6, MCIpv6)
       [] kind = "ipv6 strings" ->
            Literal("ipv6_address", {"equals"},
                    [address : MCIpv6Strings, prefix : {None}],
                    [address : {<<Colon, Colon>>}, prefix : {None}])
       [] kind = "variables" -> VariableRequests(Indirect)
       [] kind = "texts" -> VariableRequests(Texts)
       [] kind = "booleans" -> VariableRequests(Booleans)
       [] kind = "externals" -> ExternalRequests(Indirect)
       [] kind = "external texts" -> ExternalRequests(Texts)
       [] kind = "records" -> MCRecords]
=============================================================================
