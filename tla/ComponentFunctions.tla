------------------------- MODULE ComponentFunctions -------------------------
(***************************************************************************)
(* The functions of local variables, on values: what the ComputeValue      *)
(* methods of the classes XFunction do to strings.                         *)
(*                                                                         *)
(* A value is a sequence of characters, each a one letter string.  A       *)
(* delimiter is not empty: for an empty one the loop of                    *)
(* SplitFunction::ComputeValue finds it again where it was, without end.   *)
(***************************************************************************)
EXTENDS Integers, SequencesExt

CONSTANT RegexChars   \* Common::REGEX_CHARS

\* Every pair of values in the order of the nested loops, the first outside.
Product(Op(_, _), values1, values2) ==
  [k \in 1..(Len(values1) * Len(values2)) |->
     Op(values1[((k - 1) \div Len(values2)) + 1],
        values2[((k - 1) % Len(values2)) + 1])]

-----------------------------------------------------------------------------
(***************************************************************************)
(* Numbers.  Common::ToString prints a double with six digits; numbers are *)
(* below that here.                                                        *)
(***************************************************************************)
Digits == <<"0", "1", "2", "3", "4", "5", "6", "7", "8", "9">>

IsNumeral(value) == ToSet(value) \subseteq ToSet(Digits)

DigitValue(char) == (CHOOSE i \in DOMAIN Digits : Digits[i] = char) - 1

\* Common::FromString and atoi: what precedes the first other character, and
\* zero when that is nothing.
NumberOf(value) ==
  LET length == CHOOSE n \in 0..Len(value) :
                  /\ IsNumeral(SubSeq(value, 1, n))
                  /\ n < Len(value) => ~IsNumeral(<<value[n + 1]>>)
  IN  FoldLeft(LAMBDA n, char : 10 * n + DigitValue(char), 0,
               SubSeq(value, 1, length))

Decimal(number) ==
  LET numeral[n \in Nat] ==
        IF n < 10 THEN <<Digits[n + 1]>>
        ELSE numeral[n \div 10] \o <<Digits[(n % 10) + 1]>>
  IN  IF number < 0 THEN <<"-">> \o numeral[-number] ELSE numeral[number]

-----------------------------------------------------------------------------
(***************************************************************************)
(* Functions of one value.                                                 *)
(***************************************************************************)
Escaped(value) ==
  FlattenSeq([i \in DOMAIN value |->
                IF value[i] \in RegexChars THEN <<"\\", value[i]>>
                ELSE <<value[i]>>])

\* A value that is no longer than char gets it in any case, char itself too.
WithBegin(char, value) ==
  IF Len(value) > Len(char) /\ IsPrefix(char, value) THEN value
  ELSE char \o value

WithEnd(char, value) ==
  IF Len(value) > Len(char) /\ IsSuffix(char, value) THEN value
  ELSE value \o char

SubstringThrows(start, value) == start > Len(value)

\* Faulty form: start is counted from zero.
SubstringFromZero(start, length, value) ==
  LET first == IF start > 1 THEN start + 1 ELSE 1
      wanted == IF length > -1 /\ length < Len(value) THEN length ELSE Len(value)
  IN  SubSeq(value, first, Min({first + wanted - 1, Len(value)}))

Substring(start, length, value) ==
  LET first == IF start > 1 THEN start ELSE 1
      wanted == IF length > -1 /\ length < Len(value) THEN length ELSE Len(value)
  IN  SubSeq(value, first, Min({first + wanted - 1, Len(value)}))

Split(delim, value) ==
  LET matches(i) == {j \in i..(Len(value) - Len(delim) + 1) :
                       SubSeq(value, j, j + Len(delim) - 1) = delim}
      from[i \in 1..(Len(value) + 1)] ==
        IF matches(i) = {} THEN <<SubSeq(value, i, Len(value))>>
        ELSE LET j == Min(matches(i))
             IN  <<SubSeq(value, i, j - 1)>> \o from[j + Len(delim)]
  IN  from[1]

-----------------------------------------------------------------------------
(***************************************************************************)
(* Functions of several values.                                            *)
(***************************************************************************)
Concatenated(value1, value2) == value1 \o value2

ArithmeticResult(op, value1, value2) ==
  LET n1 == NumberOf(value1) n2 == NumberOf(value2)
  IN  Decimal(CASE op = "add" -> n1 + n2 [] op = "multiply" -> n1 * n2)

\* The values of a std::set.
Unique(valueLists) == SetToSeq(UNION {ToSet(valueLists[i]) : i \in DOMAIN valueLists})

Count(valueLists) ==
  Decimal(FoldLeft(LAMBDA n, values : n + Len(values), 0, valueLists))

\* Points in time are of the format seconds_since_epoch here, on a machine
\* whose clock shows UTC; DateTimes has the other formats and zones.
Understood(value) == IsNumeral(value)

TimeDifference(value1, value2) == Decimal(NumberOf(value1) - NumberOf(value2))
=============================================================================
