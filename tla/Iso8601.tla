------------------------------ MODULE Iso8601 ------------------------------
(***************************************************************************)
(* iso8601.c: intrvl_add adds a period to a moment.  A period is the         *)
(* sequence of its characters, each a string, a group of digits being one.   *)
(* The broken-down time is a struct tm: the year counts from 1900, the month  *)
(* from 0, and while it is normalised the day from 0.                         *)
(* The year is not bounded: the sums of the code do not overflow here.       *)
(***************************************************************************)
EXTENDS Integers, Sequences

CONSTANTS Moments,    \* broken-down times, as localtime_r returns them
          Digits,     \* group of digits -> its value
          Periods,    \* sequences of digit groups and other characters
          Fields      \* periods, field by field, that the standard has a way to write

\* localtime_r returns dates of the calendar, without leap seconds.
ASSUME MomentsAssumption ==
    \A m \in Moments : m \in [year : Int, mon : 0..11, mday : 1..31,
                              hour : 0..23, min : 0..59, sec : 0..59]

ASSUME DigitsAssumption == \A g \in DOMAIN Digits : Digits[g] \in Nat

VARIABLES start,      \* the moment the period is added to
          period, at, \* the period, and where the parser is in it
          value, lastUnit, lastChar,
          t1, t2,     \* the moment, and the period parsed so far
          error,      \* what parseperiod returned is not NULL
          isoPc       \* "first" normalisation, "parse", "second", "done"

isoVars == <<start, period, at, value, lastUnit, lastChar, t1, t2, error, isoPc>>

Zero == [year |-> 0, mon |-> 0, mday |-> 0, hour |-> 0, min |-> 0, sec |-> 0]

-----------------------------------------------------------------------------
(* normalizeperiod                                                          *)

CarryShort(tm, f, g, n) == LET count == (tm[f] - 1) \div n
                           IN [tm EXCEPT ![f] = @ - n * count, ![g] = @ + count]
\* The count of the code is the quotient rounded down, on both sides of zero.
Carry(tm, f, g, n) == [tm EXCEPT ![f] = @ % n, ![g] = @ + tm[f] \div n]

\* The rule of the code: tm_year is not the year.
LeapIn(year) == year % 4 = 0 /\ (year % 100 # 0 \/ year % 400 = 0)
LengthOf(mon, leap) == IF mon = 1 THEN IF leap THEN 29 ELSE 28
                       ELSE IF mon \in {3, 5, 8, 10} THEN 30 ELSE 31
Longer(tm, mon) == LengthOf(mon, LeapIn(tm.year)) + 1
Length(tm, mon) == LengthOf(mon, LeapIn(tm.year))

Normal(tm) == /\ tm.mon \in 0..11 /\ tm.mday \in 0..(Length(tm, tm.mon) - 1)
              /\ tm.hour \in 0..23 /\ tm.min \in 0..59 /\ tm.sec \in 0..59

\* One turn of the loop: the first field that is out of bounds.
Turn(tm) ==
    IF tm.mon \notin 0..11 THEN Carry(tm, "mon", "year", 12)
    ELSE IF tm.mday < 0
    THEN [tm EXCEPT !.mday = @ + Length(tm, (tm.mon + 11) % 12), !.mon = @ - 1]
    ELSE IF tm.mday >= Length(tm, tm.mon)
    THEN [tm EXCEPT !.mday = @ - Length(tm, tm.mon), !.mon = @ + 1]
    ELSE IF tm.hour \notin 0..23 THEN Carry(tm, "hour", "mday", 24)
    ELSE IF tm.min \notin 0..59 THEN Carry(tm, "min", "hour", 60)
    ELSE Carry(tm, "sec", "min", 60)

FromZero(tm) == IF tm.mday >= 0 THEN [tm EXCEPT !.mday = @ - 1] ELSE tm
FromOne(tm) == [tm EXCEPT !.mday = @ + 1]

Normalize ==
    /\ isoPc \in {"first", "second"}
    /\ IF Normal(t1)
       THEN /\ t1' = FromOne(t1)
            /\ isoPc' = IF isoPc = "first" THEN "parse" ELSE "done"
       ELSE /\ t1' = Turn(t1)
            /\ UNCHANGED isoPc
    /\ UNCHANGED <<start, period, at, value, lastUnit, lastChar, t2, error>>

-----------------------------------------------------------------------------
(* parseperiod                                                              *)

NoChar == ""
Marks == {"R", "/", "P", "T"}
Units == {"Y", "M", "D", "H", "S"}

\* The units that may be the last one when a character comes: nothing follows
\* an R, and D does not follow M.
MayFollow(ch) == CASE ch \in Marks -> {NoChar, "/", "P", "Y", "M", "D"}
                   [] ch = "Y" -> {NoChar, "/", "P"}
                   [] ch = "M" -> {NoChar, "/", "P", "Y", "T", "H"}
                   [] ch = "D" -> {NoChar, "/", "P", "Y"}
                   [] ch = "H" -> {"T"}
                   [] ch = "S" -> {"T", "H", "M"}
                   [] OTHER -> {}

MonthAlways(ch) == CASE ch = "Y" -> "year" [] ch = "M" -> "mon" [] ch = "D" -> "mday"
                     [] ch = "H" -> "hour" [] ch = "S" -> "sec"
Field(ch) == CASE ch = "Y" -> "year"
               [] ch = "M" -> IF lastUnit \in {"T", "H"} THEN "min" ELSE "mon"
               [] ch = "D" -> "mday" [] ch = "H" -> "hour" [] ch = "S" -> "sec"

Digit(ch) == /\ value' = Digits[ch]
             /\ lastChar' = "0"
             /\ UNCHANGED <<lastUnit, t2>>

Unit(ch) == /\ t2' = IF ch \in Units THEN [t2 EXCEPT ![Field(ch)] = value] ELSE t2
            /\ value' = 0
            /\ lastUnit' = ch /\ lastChar' = ch

Wrong(ch) == \/ lastUnit \notin MayFollow(ch)
             \/ ch \in Units /\ lastChar # "0"

\* intrvl_add adds what has been parsed when the parser gives up.
Summed == [f \in DOMAIN t1 |-> t1[f] + t2[f]]
AddPeriod == /\ t1' = FromZero(Summed)
             /\ isoPc' = "second"

IsNumber(ch) == ch \in DOMAIN Digits

Parse ==
    /\ isoPc = "parse"
    /\ IF at > Len(period)
       THEN /\ AddPeriod
            /\ UNCHANGED <<at, value, lastUnit, lastChar, t2, error>>
       ELSE LET ch == period[at] IN
            IF ~IsNumber(ch) /\ Wrong(ch)
            THEN /\ AddPeriod
                 /\ error' = TRUE
                 /\ UNCHANGED <<at, value, lastUnit, lastChar, t2>>
            ELSE /\ at' = at + 1
                 /\ IF IsNumber(ch) THEN Digit(ch) ELSE Unit(ch)
                 /\ UNCHANGED <<t1, error, isoPc>>
    /\ UNCHANGED <<start, period>>

IsoInit ==
    /\ start \in Moments
    /\ period \in Periods
    /\ at = 1 /\ value = 0 /\ lastUnit = NoChar /\ lastChar = NoChar
    /\ t1 = FromZero(start) /\ t2 = Zero
    /\ error = FALSE
    /\ isoPc = "first"

IsoNext == Normalize \/ Parse

IsoSpec == IsoInit /\ [][IsoNext]_isoVars

-----------------------------------------------------------------------------
(* The calendar: the number of the day, and the second in it.               *)

Leap(year) == LET y == year + 1900 IN y % 4 = 0 /\ (y % 100 # 0 \/ y % 400 = 0)
LeapsBefore(year) == LET y == year + 1899 IN y \div 4 - y \div 100 + y \div 400
DaysBefore(year, mon) ==
    LET month[m \in 0..12] == IF m = 0 THEN 0 ELSE month[m - 1] + LengthOf(m - 1, Leap(year))
    IN 365 * year + LeapsBefore(year) + month[mon]

YearOf(tm) == tm.year + tm.mon \div 12
Seconds(tm) == tm.hour * 3600 + tm.min * 60 + tm.sec
Instant(tm) ==       \* of a time whose day counts from 0
    <<DaysBefore(YearOf(tm), tm.mon % 12) + tm.mday + Seconds(tm) \div 86400,
      Seconds(tm) % 86400>>

-----------------------------------------------------------------------------
\* The rule for leap years of the code differs from the calendar in the years
\* 1900, 2000 and 2300 and 400 years on.
Misjudged(year) == LeapIn(year) # Leap(year)

\* What comes out is a date by the rule of the code, and the very moment the parsed
\* fields lead to, unless a year the rule misjudges is passed or the moment it is
\* added to is no date by this rule, as the last of february of 2000 (intrvl_add).
SumIsExact ==
    isoPc = "done" =>
       LET sum == FromZero([f \in DOMAIN start |-> start[f] + t2[f]])
           day == [t1 EXCEPT !.mday = @ - 1]
       IN /\ Normal(day)
          /\ Normal(FromZero(start)) /\ (\A y \in YearOf(sum)..day.year : ~Misjudged(y))
             => Instant(day) = Instant(sum)

ASSUME FieldsAssumption ==
    /\ Fields \subseteq [year : Nat, mon : Nat, mday : Nat, hour : Nat, min : Nat, sec : Nat]
    /\ \A f \in Fields : \A n \in DOMAIN f : f[n] = 0 \/ \E g \in DOMAIN Digits : Digits[g] = f[n]
    /\ DOMAIN Digits \cap (Marks \union Units) = {}

\* The fields of a period, written as the standard has it.
Piece(f, n, unit) == IF f[n] = 0 THEN <<>>
                     ELSE <<CHOOSE g \in DOMAIN Digits : Digits[g] = f[n], unit>>
Clock(f) == Piece(f, "hour", "H") \o (Piece(f, "min", "M") \o Piece(f, "sec", "S"))
OfDay(f) == IF Clock(f) = <<>> THEN <<>> ELSE <<"T">> \o Clock(f)
Written(f) ==
    <<"P">> \o (Piece(f, "year", "Y") \o (Piece(f, "mon", "M") \o (Piece(f, "mday", "D") \o OfDay(f))))

\* A period that is written as the standard has it is read as it is written; but
\* one with months and days is refused at the days (line 239), and what was
\* read before them is added all the same.
ReadsAsWritten ==
    isoPc = "done" => \A f \in Fields : period = Written(f) =>
       IF f.mon > 0 /\ f.mday > 0
       THEN error /\ t2 = [Zero EXCEPT !.year = f.year, !.mon = f.mon]
       ELSE ~error /\ t2 = f

\* The addition comes to an end.
AdditionEnds == isoPc = "first" ~> isoPc = "done"
=============================================================================
