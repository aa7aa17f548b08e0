------------------------------ MODULE DateTimes -------------------------------
(***************************************************************************)
(* How TimeDifferenceFunction reads date-time values: the notations of     *)
(* each format, the calendar and the clock of the machine they are taken   *)
(* for, and the differences of what comes of it.                           *)
(*                                                                         *)
(* A value is a sequence of characters as in ComponentFunctions, the name  *)
(* of a month being one of them, in lower case.  It is not empty and not   *)
(* made of separators alone: MonthDayYearValueToSeconds looks at the first *)
(* of its parts without asking whether there is one.                       *)
(***************************************************************************)
EXTENDS Integers, SequencesExt

CONSTANTS
  Offset,              \* seconds the standard time of the zone is behind UTC
  SummerFrom, SummerTo, \* the seconds of its summer time, the last one excluded
  FiletimeEpoch,       \* 116444736000000000LL, the file time of the epoch, and
  FiletimeUnit,        \* 10000000, its units in a second: both scaled down
  Now,                 \* what time(NULL) returns
  Years, Months, Days, \* bounds: the dates that are written,
  Times,               \*   the seconds of the day,
  Cuts,                \*   and how many characters a value may lack at its end
  Throws, NoResult

ASSUME DateTimeAssumption ==
  /\ Offset \in Int /\ SummerFrom \in Int /\ SummerTo \in Int /\ Now \in Int
  /\ FiletimeEpoch \in Nat /\ FiletimeUnit \in Nat \ {0}

LOCAL F == INSTANCE ComponentFunctions WITH RegexChars <- {}

\* OvalEnum::DateTimeFormat
DateTimeFormat == {"year_month_day", "month_day_year", "day_month_year",
                   "win_filetime", "seconds_since_epoch"}

-----------------------------------------------------------------------------
(***************************************************************************)
(* The C library.  A reading of a clock is the number of seconds from      *)
(* 1970 on that it shows; mktime takes months and days that do not exist   *)
(* for those that follow.                                                  *)
(***************************************************************************)
Leap(year) == year % 4 = 0 /\ (year % 100 # 0 \/ year % 400 = 0)

DayNumber(y, month, day) ==
  LET year == y + ((month - 1) \div 12)
      m == ((month - 1) % 12) + 1
      before == <<0, 31, 59, 90, 120, 151, 181, 212, 243, 273, 304, 334>>
      leaps(n) == (n \div 4) - (n \div 100) + (n \div 400)
  IN  365 * (year - 1970) + leaps(year - 1) - leaps(1969)
        + before[m] + (IF m > 2 /\ Leap(year) THEN 1 ELSE 0) + day - 1

Hour == 3600

IsDst(t) == SummerFrom <= t /\ t < SummerTo

localtime(t) == t - Offset + (IF IsDst(t) THEN Hour ELSE 0)

\* What mktime may return for a reading, told that it is no summer time, and
\* left to find out: when the clock shows it twice, either time, and when it
\* skips it, either way of counting on.
mktimeStandard(reading) == reading + Offset

mktime(reading) ==
  LET times == {reading + Offset, reading + Offset - Hour}
      shown == {t \in times : localtime(t) = reading}
  IN  IF shown # {} THEN shown ELSE times

-----------------------------------------------------------------------------
(***************************************************************************)
(* The methods return a set of times, or Throws in place of a time.  What  *)
(* they throw is their own Exception, and out_of_range from at and substr. *)
(***************************************************************************)
\* Faulty form: what the clock shows in summer is not put back.
WithoutSummerTime(fields) ==
  LET field(i) == IF i \in DOMAIN fields THEN fields[i] ELSE 0
      reading == 86400 * DayNumber(field(1), field(2), field(3))
                   + Hour * field(4) + 60 * field(5) + field(6)
  IN  {mktimeStandard(localtime(t)) : t \in mktime(reading)}

buildTimeStructure(fields) ==
  LET field(i) == IF i \in DOMAIN fields THEN fields[i] ELSE 0
      reading == 86400 * DayNumber(field(1), field(2), field(3))
                   + Hour * field(4) + 60 * field(5) + field(6)
  IN  {mktimeStandard(localtime(t) - (IF IsDst(t) THEN Hour ELSE 0)) : t \in mktime(reading)}

\* year, month, day and maybe the time of the day, as they are written
Built(fields) ==
  IF \E i \in DOMAIN fields : ~F!IsNumeral(fields[i]) THEN {Throws}
  ELSE buildTimeStructure([i \in DOMAIN fields |-> F!NumberOf(fields[i])])

\* strtok
Tokens(value, separators) ==
  SelectSeq(
    FoldLeft(LAMBDA runs, char : IF char \in separators THEN Append(runs, << >>)
                                 ELSE Append(Front(runs), Append(Last(runs), char)),
             << << >> >>, value),
    LAMBDA run : run # << >>)

\* The first n tokens, with year, month and day at the places order has.
Dated(tokens, order, n) ==
  IF Len(tokens) < n THEN {Throws}
  ELSE Built([i \in 1..n |-> tokens[IF i \in DOMAIN order THEN order[i] ELSE i]])

\* Faulty form: a time of the day that is not all there is left out.
DatedAtLeast(tokens, order) == Dated(tokens, order, IF Len(tokens) < 6 THEN 3 ELSE 6)

\* A date with anything behind it is read as one with a time.
DatedOrTimed(tokens, order) == Dated(tokens, order, IF Len(tokens) = 3 THEN 3 ELSE 6)

\* substr of length two or four; it throws where it would begin beyond the end.
Fields(value, from) ==
  LET width(i) == IF i = 1 THEN 4 ELSE 2
  IN  IF \E i \in DOMAIN from : from[i] > Len(value) THEN {Throws}
      ELSE Built([i \in DOMAIN from |->
                    SubSeq(value, from[i] + 1, Min({from[i] + width(i), Len(value)}))])

Has(value, chars) == ToSet(value) \cap chars # {}

YearMonthDayValueToSeconds(value) ==
  LET index == Min({i \in DOMAIN value : value[i] = "T"})
  IN  CASE Has(value, {"T"}) -> Fields(value, <<0, 4, 6, index, index + 2, index + 4>>)
        [] ~Has(value, {"T"}) /\ Has(value, {" "}) ->
             Dated(Tokens(value, {"/", " ", "-", ":"}), <<1, 2, 3>>, 6)
        [] ~Has(value, {"T", " "}) /\ Has(value, {"/", "-"}) ->
             Dated(Tokens(value, {"/", "-"}), <<1, 2, 3>>, 3)
        [] ~Has(value, {"T", " ", "/", "-"}) ->
             IF F!IsNumeral(value) THEN Fields(value, <<0, 4, 6>>) ELSE {Throws}

MonthNames == <<"january", "february", "march", "april", "may", "june", "july",
                "august", "september", "october", "november", "december">>

Abbreviations == <<"jan", "feb", "mar", "apr", "may", "jun", "jul",
                   "aug", "sep", "oct", "nov", "dec">>

MonthStrToInt(token) ==
  LET months == {m \in 1..12 : token \in {<<MonthNames[m]>>, <<Abbreviations[m]>>}}
  IN  IF months = {} THEN -1 ELSE Min(months)

MonthDayYearValueToSeconds(value) ==
  LET tokens == Tokens(value, {",", "/", " ", "-", ":"})
      month == MonthStrToInt(Head(tokens))
  IN  IF F!IsNumeral(Head(tokens)) THEN DatedOrTimed(tokens, <<3, 1, 2>>)
      ELSE IF month < 0 THEN {Throws}
      ELSE DatedOrTimed([tokens EXCEPT ![1] = F!Decimal(month)], <<3, 1, 2>>)

DayMonthYearValueToSeconds(value) ==
  DatedOrTimed(Tokens(value, {"/", " ", "-", ":"}), <<3, 2, 1>>)

HexDigits == F!Digits \o <<"a", "b", "c", "d", "e", "f">>

HexToDecimal(value) ==
  IF ~(ToSet(value) \subseteq ToSet(HexDigits)) THEN -1
  ELSE FoldLeft(LAMBDA n, char : 16 * n + (CHOOSE i \in DOMAIN HexDigits : HexDigits[i] = char) - 1,
                0, value)

\* The division of C++ drops the fraction.
Quotient(n, d) == IF n >= 0 THEN n \div d ELSE -((-n) \div d)

\* A time is written down by gmtime, an hour less in summer, and the clock of
\* the zone is taken to show what is written.
Localized(t) == {mktimeStandard(t - (IF IsDst(t) THEN Hour ELSE 0))}

WinFiletimeValueToSeconds(value) ==
  Localized(Quotient(HexToDecimal(value) - FiletimeEpoch, FiletimeUnit))

SecondsSinceEpochValueToSeconds(value) ==
  IF F!IsNumeral(value) THEN Localized(F!NumberOf(value)) ELSE {Throws}

ValueToSeconds(format, value) ==
  CASE format = "year_month_day" -> YearMonthDayValueToSeconds(value)
    [] format = "month_day_year" -> MonthDayYearValueToSeconds(value)
    [] format = "day_month_year" -> DayMonthYearValueToSeconds(value)
    [] format = "win_filetime" -> WinFiletimeValueToSeconds(value)
    [] format = "seconds_since_epoch" -> SecondsSinceEpochValueToSeconds(value)

\* The loops of ComputeValue, for a pair of values.
Minus(firstTime, secondTime) ==
  IF Throws \in {firstTime, secondTime} THEN Throws ELSE firstTime - secondTime
-----------------------------------------------------------------------------
(***************************************************************************)
(* The notations the schema gives each format (DateTimeFormatEnumeration   *)
(* of oval-definitions-schema.xsd), in which the moments of the instance   *)
(* are written.                                                            *)
(***************************************************************************)
DaysOf(year, month) ==
  CASE month = 2 -> IF Leap(year) THEN 29 ELSE 28
    [] month \in {4, 6, 9, 11} -> 30
    [] OTHER -> 31

Moment == {m \in [year : Years, month : Months, day : Days, time : Times] :
             m.day <= DaysOf(m.year, m.month)}

\* What a clock shows at a moment: the days of the years and months are counted out.
Reading(m) ==
  LET ofYears == MapThenSumSet(LAMBDA y : IF Leap(y) THEN 366 ELSE 365, 1970..(m.year - 1))
      ofMonths == MapThenSumSet(LAMBDA n : DaysOf(m.year, n), 1..(m.month - 1))
  IN  86400 * (ofYears + ofMonths + m.day - 1) + m.time

Padded(n, width) ==
  LET digits == F!Decimal(n) IN [i \in 1..(width - Len(digits)) |-> "0"] \o digits

Date(format, m, mark) ==
  LET year == Padded(m.year, 4) month == Padded(m.month, 2) day == Padded(m.day, 2)
  IN  CASE format = "year_month_day" -> year \o mark \o month \o mark \o day
        [] format = "month_day_year" -> month \o mark \o day \o mark \o year
        [] format = "day_month_year" -> day \o mark \o month \o mark \o year

Clock(m, mark) ==
  Padded(m.time \div 3600, 2) \o mark \o Padded((m.time \div 60) % 60, 2)
    \o mark \o Padded(m.time % 60, 2)

Named(m, names) == <<names[m.month], ",", " ">> \o Padded(m.day, 2) \o <<" ">> \o Padded(m.year, 4)

Dates(format, m) ==
  {Date(format, m, <<mark>>) : mark \in {"/", "-"}}
  \cup (IF format = "month_day_year" THEN {Named(m, MonthNames), Named(m, Abbreviations)} ELSE {})

HexOf(n) ==
  LET hex[k \in Nat] == IF k < 16 THEN <<HexDigits[k + 1]>>
                        ELSE hex[k \div 16] \o <<HexDigits[(k % 16) + 1]>>
  IN  hex[n]

Notations(format, m) ==
  CASE format = "win_filetime" -> {HexOf(Reading(m) * FiletimeUnit + FiletimeEpoch)}
    [] format = "seconds_since_epoch" -> {F!Decimal(Reading(m))}
    [] OTHER ->
         {date \o <<" ">> \o Clock(m, <<":">>) : date \in Dates(format, m)}
         \cup (IF m.time = 0 THEN Dates(format, m) ELSE {})
         \cup (IF format # "year_month_day" THEN {}
               ELSE {Date(format, m, << >>) \o <<"T">> \o Clock(m, << >>)}
                    \cup (IF m.time = 0 THEN {Date(format, m, << >>)} ELSE {}))

\* The formats that are no dates.
Counted == {"win_filetime", "seconds_since_epoch"}

-----------------------------------------------------------------------------
(***************************************************************************)
(* One computation of a difference.  In a request each argument has its    *)
(* format, the moment it was written for, and how much of it is missing.   *)
(***************************************************************************)
VARIABLES
  request,
  result    \* what a pair of values came to; NoResult before it did

vars == <<request, result>>

Written == UNION {[format : {f}, cut : {0}, moment : {m}, value : Notations(f, m)] :
                    f \in DateTimeFormat, m \in Moment}

Cut(argument, n) == [argument EXCEPT !.cut = n, !.value = SubSeq(@, 1, Len(@) - n)]

Broken == {Cut(w, n) : w \in {u \in Written : u.format \notin Counted}, n \in Cuts}

\* One argument, or a first one that is only written in one way.
Requests ==
  {<<w>> : w \in Written \cup Broken}
  \cup {<<v, w>> : v \in {u \in Written : u.value = CHOOSE n \in Notations(u.format, u.moment) : TRUE},
                   w \in Written}

Init == request \in Requests /\ result = NoResult

ComputeValue ==
  /\ result = NoResult
  /\ \E secondTime \in ValueToSeconds(Last(request).format, Last(request).value) :
       \E firstTime \in IF Len(request) = 1 THEN {Now}
                         ELSE ValueToSeconds(Head(request).format, Head(request).value) :
         result' = Minus(firstTime, secondTime)
  /\ UNCHANGED request

Next == ComputeValue

Spec == Init /\ [][Next]_vars

-----------------------------------------------------------------------------
TypeOK == request \in Requests /\ result \in Int \cup {Throws, NoResult}

\* The time a value stands for: a count of seconds is one from 00:00 UTC, and a date
\* what the clock of the zone shows, in summer an hour more than the standard time.
InSummer(at) == SummerFrom - Offset + Hour <= at /\ at < SummerTo - Offset + Hour

Instant(argument) ==
  LET at == Reading(argument.moment)
  IN  IF argument.format \in Counted THEN at
      ELSE at + Offset - (IF InSummer(at) THEN Hour ELSE 0)

\* Summer time begins an hour early and ends an hour late: the clock skips an hour,
\* and it shows one twice.
ShownOnce(argument) ==
  LET at == Reading(argument.moment) + Offset
  IN  argument.format \in Counted \/ \A change \in {SummerFrom, SummerTo} : at \notin change..(change + Hour - 1)

\* How far from its time the code puts a count: what UTC shows at that time, an
\* hour less in summer, is taken for the standard time of the zone.
Misplaced(argument) ==
  IF argument.format \notin Counted THEN 0
  ELSE Offset - (IF IsDst(Reading(argument.moment)) THEN Hour ELSE 0)

\* In whatever formats and notations two values are written, the difference is
\* the time that passes between what they stand for (TimeDifferenceFunction.cpp).
\* Left out is what the code gets wrong: a count of seconds is one from 00:00 UTC
\* (oval-definitions-schema.xsd:955) but read as the clock of the zone
\* (TimeDifferenceFunction.cpp:680 and :716), so that it can be compared with
\* another count of the same half of the year alone, and neither with a date nor
\* with the present unless the standard time of the zone is UTC.
DifferencesAreElapsedTime ==
  /\ result # NoResult
  /\ \A i \in DOMAIN request : request[i].cut = 0 /\ ShownOnce(request[i])
  /\ Misplaced(Last(request)) = IF Len(request) = 1 THEN 0 ELSE Misplaced(Head(request))
  => result = (IF Len(request) = 1 THEN Now ELSE Instant(Head(request))) - Instant(Last(request))

\* A date that breaks off within its last part but one, or before, is refused and
\* not read in another notation (TimeDifferenceFunction.cpp, the formats of dates).
PartsAreRefused ==
  result # NoResult /\ Last(request).cut > 0 => result = Throws
=============================================================================
