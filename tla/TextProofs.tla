----------------------------- MODULE TextProofs -----------------------------
(***************************************************************************)
(* That intrvl_add of iso8601.c adds a period without losing a second: each *)
(* turn of normalizeperiod keeps the moment in a year its rule for leap     *)
(* years is right about, and reads the period for what it means.  That      *)
(* longgetopt reads a command line for what it means: of what is written    *)
(* there nothing is lost, nothing is reported twice and nothing changes     *)
(* places, wherever the parser stands in it.  And that a settings_get       *)
(* function answers with what the parameter's text says, and asks in a      *)
(* context what it would ask with its path in front.                        *)
(***************************************************************************)
EXTENDS Iso8601, CommandLine, Lookup, SequenceTheorems, FiniteSetTheorems,
        WellFoundedInduction, TLAPS

\* A broken-down time whose fields may be out of their bounds.
Time == [year : Int, mon : Int, mday : Int, hour : Int, min : Int, sec : Int]

\* Times the loop is given: the code never takes its branch for negative days.
Forward(tm) == /\ tm \in Time
               /\ tm.mday >= 0 /\ tm.hour >= 0 /\ tm.min >= 0 /\ tm.sec >= 0

\* Quotient and remainder, as the fields of a time are carried.
LEMMA By12 ==
    ASSUME NEW a \in Int
    PROVE  /\ a \div 12 \in Int /\ a % 12 \in 0..11
           /\ a % 12 = a - 12 * (a \div 12)
           /\ a >= 0 => a \div 12 >= 0
           /\ (a % 12) \div 12 = 0 /\ (a % 12) % 12 = a % 12
<1>1. a \div 12 \in Int /\ a % 12 \in 0..11
  OBVIOUS
<1>2. a % 12 = a - 12 * (a \div 12)
  OBVIOUS
<1>3. a >= 0 => a \div 12 >= 0
  OBVIOUS
<1>4. (a % 12) \div 12 = 0 /\ (a % 12) % 12 = a % 12
  OBVIOUS
<1>5. QED
  BY <1>1, <1>2, <1>3, <1>4

\* The same for the hours of a day.
LEMMA By24 ==
    ASSUME NEW a \in Int
    PROVE  /\ a \div 24 \in Int /\ a % 24 \in 0..23
           /\ a % 24 = a - 24 * (a \div 24)
           /\ a >= 0 => a \div 24 >= 0
<1>1. a \div 24 \in Int /\ a % 24 \in 0..23
  OBVIOUS
<1>2. a % 24 = a - 24 * (a \div 24)
  OBVIOUS
<1>3. a >= 0 => a \div 24 >= 0
  OBVIOUS
<1>4. QED
  BY <1>1, <1>2, <1>3

\* The same for minutes and seconds.
LEMMA By60 ==
    ASSUME NEW a \in Int
    PROVE  /\ a \div 60 \in Int /\ a % 60 \in 0..59
           /\ a % 60 = a - 60 * (a \div 60)
           /\ a >= 0 => a \div 60 >= 0
<1>1. a \div 60 \in Int /\ a % 60 \in 0..59
  OBVIOUS
<1>2. a % 60 = a - 60 * (a \div 60)
  OBVIOUS
<1>3. a >= 0 => a \div 60 >= 0
  OBVIOUS
<1>4. QED
  BY <1>1, <1>2, <1>3

\* Whole days of seconds count as days.
LEMMA DayShift == ASSUME NEW a \in Int, NEW q \in Int
                  PROVE  /\ (86400 * q + a) \div 86400 = q + a \div 86400
                         /\ (86400 * q + a) % 86400 = a % 86400
                         /\ a \div 86400 \in Int
  OBVIOUS

\* A month has 28 to 31 days.
LEMMA Lengths == ASSUME NEW m \in 0..11, NEW leap \in BOOLEAN
                 PROVE  LengthOf(m, leap) \in 28..31
  BY DEF LengthOf

\* The leap years before a year, and before the next one.
LEMMA Leaps ==
    ASSUME NEW y \in Int
    PROVE  /\ LeapsBefore(y) \in Int /\ Leap(y) \in BOOLEAN
           /\ LeapsBefore(y + 1) = LeapsBefore(y) + (IF Leap(y) THEN 1 ELSE 0)
  BY DEF LeapsBefore, Leap

\* The days of a year before a month.
DaysOfMonths(leap, m) ==
    IF m = 0 THEN 0 ELSE IF m = 1 THEN 31
    ELSE (IF leap THEN 29 ELSE 28)
         + (CASE m = 2 -> 31 [] m = 3 -> 62 [] m = 4 -> 92 [] m = 5 -> 123 [] m = 6 -> 153
              [] m = 7 -> 184 [] m = 8 -> 215 [] m = 9 -> 245 [] m = 10 -> 276
              [] m = 11 -> 306 [] OTHER -> 337)

\* One month more adds the days of it.
LEMMA MonthsAddUp ==
    ASSUME NEW leap \in BOOLEAN, NEW m \in 1..12
    PROVE  DaysOfMonths(leap, m) = DaysOfMonths(leap, m - 1) + LengthOf(m - 1, leap)
  BY DEF DaysOfMonths, LengthOf

\* The days before a month are a number.
LEMMA MonthsInt ==
    ASSUME NEW leap \in BOOLEAN, NEW m \in 0..12
    PROVE  DaysOfMonths(leap, m) \in Int
  BY DEF DaysOfMonths

\* The recursive count of days in DaysBefore is that table.
LEMMA Months ==
    ASSUME NEW y \in Int, NEW mon \in 0..12
    PROVE  DaysBefore(y, mon) = 365 * y + LeapsBefore(y) + DaysOfMonths(Leap(y), mon)
<1> DEFINE Rec(f) == [m \in 0..12 |-> IF m = 0 THEN 0 ELSE f[m - 1] + LengthOf(m - 1, Leap(y))]
           month == CHOOSE f : f = Rec(f)
           table == [m \in 0..12 |-> DaysOfMonths(Leap(y), m)]
<1>1. Leap(y) \in BOOLEAN
  BY Leaps
<1>2. table = Rec(table)
  <2> SUFFICES ASSUME NEW m \in 0..12
               PROVE  table[m] = IF m = 0 THEN 0 ELSE table[m - 1] + LengthOf(m - 1, Leap(y))
    OBVIOUS
  <2>1. CASE m = 0
    BY <2>1 DEF DaysOfMonths
  <2>2. CASE m # 0
    BY <1>1, <2>2, MonthsAddUp
  <2>3. QED
    BY <2>1, <2>2
<1>3. month = Rec(month)
  <2> HIDE DEF Rec, table
  <2> QED BY <1>2
<1>4. \A m \in 0..12 : month[m] = IF m = 0 THEN 0 ELSE month[m - 1] + LengthOf(m - 1, Leap(y))
  <2> HIDE DEF month
  <2> QED BY <1>3
<1>5. DaysBefore(y, mon) = 365 * y + LeapsBefore(y) + month[mon]
  BY DEF DaysBefore
<1> HIDE DEF month, Rec, table
<1> DEFINE D(m) == DaysOfMonths(Leap(y), m)
<1>6. \A m \in 1..12 : D(m) = D(m - 1) + LengthOf(m - 1, Leap(y))
  BY <1>1, MonthsAddUp
<1>7. D(0) = 0
  BY DEF DaysOfMonths
<1> HIDE DEF D
<1>8. \A m \in 1..12 : month[m] = month[m - 1] + LengthOf(m - 1, Leap(y))
  BY <1>4
<1>9. month[0] = D(0)
  BY <1>4, <1>7
<1>10. month[1] = D(1)
  BY <1>9, <1>8, <1>6
<1>11. month[2] = D(2)
  BY <1>10, <1>8, <1>6
<1>12. month[3] = D(3)
  BY <1>11, <1>8, <1>6
<1>13. month[4] = D(4)
  BY <1>12, <1>8, <1>6
<1>14. month[5] = D(5)
  BY <1>13, <1>8, <1>6
<1>15. month[6] = D(6)
  BY <1>14, <1>8, <1>6
<1>16. month[7] = D(7)
  BY <1>15, <1>8, <1>6
<1>17. month[8] = D(8)
  BY <1>16, <1>8, <1>6
<1>18. month[9] = D(9)
  BY <1>17, <1>8, <1>6
<1>19. month[10] = D(10)
  BY <1>18, <1>8, <1>6
<1>20. month[11] = D(11)
  BY <1>19, <1>8, <1>6
<1>21. month[12] = D(12)
  BY <1>20, <1>8, <1>6
<1>22. month[mon] = D(mon)
  BY <1>9, <1>10, <1>11, <1>12, <1>13, <1>14, <1>15, <1>16, <1>17, <1>18, <1>19, <1>20, <1>21
<1>23. QED
  BY <1>5, <1>22 DEF D

\* The first day after a month is that of the next one.
LEMMA NextMonth ==
    ASSUME NEW y \in Int, NEW m \in 0..11
    PROVE  /\ DaysBefore(y, m) \in Int
           /\ m < 11 => DaysBefore(y, m + 1) = DaysBefore(y, m) + LengthOf(m, Leap(y))
           /\ m = 11 => DaysBefore(y + 1, 0) = DaysBefore(y, m) + LengthOf(m, Leap(y))
<1> DEFINE D(x) == DaysOfMonths(Leap(y), x)
<1>1. /\ LeapsBefore(y) \in Int /\ Leap(y) \in BOOLEAN
      /\ LeapsBefore(y + 1) = LeapsBefore(y) + (IF Leap(y) THEN 1 ELSE 0)
  BY Leaps
<1>2. D(m) \in Int
  BY <1>1, MonthsInt
<1>3. D(m + 1) = D(m) + LengthOf(m, Leap(y))
  <2>1. m + 1 \in 1..12 /\ (m + 1) - 1 = m
    OBVIOUS
  <2> QED BY <1>1, <2>1, MonthsAddUp
<1>4. DaysBefore(y, m) = 365 * y + LeapsBefore(y) + D(m)
  BY Months
<1>5. DaysBefore(y, m + 1) = 365 * y + LeapsBefore(y) + D(m + 1)
  BY Months
<1>6. DaysBefore(y + 1, 0) = 365 * (y + 1) + LeapsBefore(y + 1)
  BY Months, Leaps DEF DaysOfMonths
<1>7. D(12) = IF Leap(y) THEN 366 ELSE 365
  BY <1>1 DEF DaysOfMonths
<1>8. LengthOf(m, Leap(y)) \in Int
  BY <1>1, Lengths
<1> HIDE DEF D
<1>9. QED
  BY <1>1, <1>2, <1>3, <1>4, <1>5, <1>6, <1>7, <1>8

\* The day a moment falls on, and the two parts of it as Instant has them.
LEMMA Placed ==
    ASSUME NEW tm \in Time
    PROVE  /\ YearOf(tm) \in Int /\ tm.mon % 12 \in 0..11 /\ Seconds(tm) \in Int
           /\ DaysBefore(YearOf(tm), tm.mon % 12) \in Int
           /\ tm.mon \in 0..11 => YearOf(tm) = tm.year /\ tm.mon % 12 = tm.mon
<1>1. tm.mon \in Int /\ tm.year \in Int
  BY DEF Time
<1>2. tm.mon \div 12 \in Int /\ tm.mon % 12 \in 0..11
  BY <1>1, By12
<1>3. YearOf(tm) \in Int
  BY <1>1, <1>2 DEF YearOf
<1>4. Seconds(tm) \in Int
  BY DEF Seconds, Time
<1>5. DaysBefore(YearOf(tm), tm.mon % 12) \in Int
  BY <1>2, <1>3, NextMonth
<1>6. tm.mon \in 0..11 => YearOf(tm) = tm.year /\ tm.mon % 12 = tm.mon
  BY <1>1 DEF YearOf
<1>7. QED
  BY <1>2, <1>3, <1>4, <1>5, <1>6

\* Two times whose days, whole days of seconds put together, agree and whose
\* seconds differ by those whole days are one moment.
LEMMA SameMoment ==
    ASSUME NEW tm \in Time, NEW u \in Time, NEW q \in Int,
           DaysBefore(YearOf(u), u.mon % 12) + u.mday
             = DaysBefore(YearOf(tm), tm.mon % 12) + tm.mday + q,
           Seconds(tm) = 86400 * q + Seconds(u)
    PROVE  Instant(u) = Instant(tm)
<1> DEFINE days == DaysBefore(YearOf(tm), tm.mon % 12)
           daysU == DaysBefore(YearOf(u), u.mon % 12)
           s == Seconds(u)
           d == Seconds(tm)
           x == tm.mday
           z == u.mday
<1>1. days \in Int /\ daysU \in Int /\ s \in Int /\ d \in Int /\ x \in Int /\ z \in Int
  BY Placed DEF Time
<1>2. d = 86400 * q + s /\ daysU + z = days + x + q
  OBVIOUS
<1>3. Instant(u) = <<daysU + z + s \div 86400, s % 86400>>
  BY DEF Instant
<1>4. Instant(tm) = <<days + x + d \div 86400, d % 86400>>
  BY DEF Instant
<1> HIDE DEF days, daysU, s, d, x, z
<1>5. d \div 86400 = q + s \div 86400 /\ d % 86400 = s % 86400 /\ s \div 86400 \in Int
  BY <1>1, <1>2, DayShift
<1>6. days + x + d \div 86400 = daysU + z + s \div 86400
  <2> DEFINE e == s \div 86400
             f == d \div 86400
  <2>1. e \in Int /\ f = q + e
    BY <1>5
  <2> HIDE DEF e, f
  <2>2. days + x + f = daysU + z + e
    BY <1>1, <1>2, <2>1
  <2>3. QED
    BY <2>2 DEF e, f
<1>7. QED
  BY <1>3, <1>4, <1>5, <1>6

\* u is the moment tm is, and no field of it that has to be positive is not.
Moved(tm, u) == Forward(u) /\ YearOf(tm) <= YearOf(u) /\ Instant(u) = Instant(tm)

\* A turn of the loop that carries months into years.
LEMMA TurnMonth ==
    ASSUME NEW tm, Forward(tm), tm.mon \notin 0..11
    PROVE  Moved(tm, Turn(tm))
<1> DEFINE u == Turn(tm)
<1>1. /\ u = [tm EXCEPT !.mon = tm.mon % 12, !.year = tm.year + tm.mon \div 12]
      /\ tm \in Time
  BY DEF Turn, Carry, Forward, Time
<1> HIDE DEF u
<1>2. tm.mon \div 12 \in Int /\ tm.mon % 12 \in 0..11
      /\ (tm.mon % 12) \div 12 = 0 /\ (tm.mon % 12) % 12 = tm.mon % 12
  BY <1>1, By12 DEF Time
<1>3. u \in Time
  <2>1. tm.mon % 12 \in Int /\ tm.year + tm.mon \div 12 \in Int
    BY <1>1, <1>2 DEF Time
  <2>2. QED
    BY <1>1, <2>1 DEF Time
<1>4. /\ u.mon = tm.mon % 12 /\ u.year = tm.year + tm.mon \div 12
      /\ u.mday = tm.mday /\ u.hour = tm.hour /\ u.min = tm.min /\ u.sec = tm.sec
  BY <1>1 DEF Time
<1>5. Forward(u)
  BY <1>3, <1>4 DEF Forward
<1>6. YearOf(u) = YearOf(tm) /\ u.mon % 12 = tm.mon % 12
  <2>1. u.mon \div 12 = 0 /\ u.mon % 12 = tm.mon % 12
    BY <1>2, <1>4
  <2>2. u.year \in Int
    BY <1>3 DEF Time
  <2>3. QED
    BY <1>4, <2>1, <2>2 DEF YearOf
<1>7. Seconds(u) = Seconds(tm) /\ Seconds(tm) \in Int /\ YearOf(tm) \in Int
  BY <1>1, <1>4, Placed DEF Seconds
<1>8. Instant(u) = Instant(tm)
  BY <1>4, <1>6, <1>7 DEF Instant
<1>9. QED
  BY <1>5, <1>6, <1>7, <1>8 DEF Moved, u

\* A turn that passes the end of a month: here the rule for leap years decides.
LEMMA TurnDay ==
    ASSUME NEW tm, Forward(tm), tm.mon \in 0..11, tm.mday >= Length(tm, tm.mon)
    PROVE  /\ Forward(Turn(tm)) /\ YearOf(tm) <= YearOf(Turn(tm))
           /\ ~Misjudged(YearOf(tm)) => Moved(tm, Turn(tm))
<1> DEFINE u == Turn(tm)
           y == tm.year
           len == Length(tm, tm.mon)
<1>1. tm \in Time /\ tm.mday >= 0
  BY DEF Forward
<1>2. len \in 28..31 /\ len = LengthOf(tm.mon, LeapIn(y))
  <2>1. LeapIn(y) \in BOOLEAN
    BY DEF LeapIn
  <2>2. QED
    BY <2>1, Lengths DEF Length
<1>3. u = [tm EXCEPT !.mday = tm.mday - len, !.mon = tm.mon + 1]
  <2>1. ~(tm.mday < 0)
    BY <1>1 DEF Time
  <2>2. QED
    BY <1>1, <2>1 DEF Turn, Time
<1>4. tm.mday - len \in Nat /\ tm.mon + 1 \in Int /\ tm.mday \in Int
  <2>1. tm.mday >= len
    OBVIOUS
  <2> HIDE DEF len
  <2>2. QED
    BY <1>1, <1>2, <2>1 DEF Time
<1> HIDE DEF u, len
<1>5. u \in Time
  <2>1. tm.mday - len \in Int
    BY <1>4
  <2>2. QED
    BY <1>1, <1>3, <1>4, <2>1 DEF Time
<1>6. /\ u.mon = tm.mon + 1 /\ u.mday = tm.mday - len /\ u.year = y
      /\ u.hour = tm.hour /\ u.min = tm.min /\ u.sec = tm.sec
  BY <1>1, <1>3 DEF Time
<1>7. Forward(u)
  BY <1>4, <1>5, <1>6 DEF Forward
<1>8. y \in Int /\ YearOf(tm) = y /\ tm.mon % 12 = tm.mon
  BY <1>1, Placed DEF Time
<1>9. /\ tm.mon < 11 => YearOf(u) = y /\ u.mon % 12 = tm.mon + 1
      /\ tm.mon = 11 => YearOf(u) = y + 1 /\ u.mon % 12 = 0
  <2>1. CASE tm.mon < 11
    BY <1>5, <1>6, <2>1, Placed
  <2>2. CASE tm.mon = 11
    <3>1. u.mon = 12 /\ 12 \div 12 = 1 /\ 12 % 12 = 0
      BY <1>6, <2>2
    <3>2. QED
      BY <1>6, <1>8, <2>2, <3>1 DEF YearOf
  <2>3. QED
    BY <2>1, <2>2
<1>10. YearOf(tm) <= YearOf(u)
  BY <1>8, <1>9
<1>11. ASSUME ~Misjudged(YearOf(tm)) PROVE Instant(u) = Instant(tm)
  <2>1. LengthOf(tm.mon, Leap(y)) = len
    BY <1>2, <1>8, <1>11 DEF Misjudged
  <2>2. DaysBefore(YearOf(u), u.mon % 12) = DaysBefore(y, tm.mon) + len
    <3>1. CASE tm.mon < 11
      BY <1>8, <1>9, <2>1, <3>1, NextMonth
    <3>2. CASE tm.mon = 11
      BY <1>8, <1>9, <2>1, <3>2, NextMonth
    <3>3. QED
      BY <3>1, <3>2
  <2>3. DaysBefore(y, tm.mon) \in Int
    BY <1>8, NextMonth
  <2>4. DaysBefore(YearOf(u), u.mon % 12) + u.mday
          = DaysBefore(YearOf(tm), tm.mon % 12) + tm.mday + 0
    BY <1>2, <1>4, <1>6, <1>8, <2>2, <2>3
  <2>5. Seconds(tm) = 86400 * 0 + Seconds(u)
    <3>1. Seconds(u) = Seconds(tm) /\ Seconds(tm) \in Int
      BY <1>1, <1>6, Placed DEF Seconds
    <3>2. QED
      BY <3>1
  <2>6. QED
    BY <1>1, <1>5, <2>4, <2>5, SameMoment
<1>12. QED
  BY <1>7, <1>10, <1>11 DEF Moved, u

\* A turn that carries hours into days.
LEMMA TurnHour ==
    ASSUME NEW tm, Forward(tm), tm.mon \in 0..11, tm.mday < Length(tm, tm.mon),
           tm.hour \notin 0..23
    PROVE  Moved(tm, Turn(tm))
<1> DEFINE u == Turn(tm)
           q == tm.hour \div 24
<1>1. tm \in Time /\ tm.mday >= 0 /\ tm.hour >= 0
  BY DEF Forward
<1>2. u = [tm EXCEPT !.hour = tm.hour % 24, !.mday = tm.mday + q]
  <2>1. ~(tm.mday < 0) /\ ~(tm.mday >= Length(tm, tm.mon))
    <3>1. LeapIn(tm.year) \in BOOLEAN
      BY DEF LeapIn
    <3>2. Length(tm, tm.mon) \in 28..31
      BY <3>1, Lengths DEF Length
    <3>3. QED
      BY <1>1, <3>2 DEF Time
  <2>2. QED
    BY <1>1, <2>1 DEF Turn, Carry, Time
<1>3. /\ q \in Nat /\ tm.hour % 24 \in 0..23 /\ tm.hour % 24 = tm.hour - 24 * q
      /\ tm.hour \in Int /\ tm.mday \in Nat
  <2>1. tm.hour \in Int /\ tm.mday \in Nat
    BY <1>1 DEF Time
  <2>2. QED
    BY <1>1, <2>1, By24
<1> HIDE DEF u, q
<1>4. u \in Time
  <2>1. tm.hour % 24 \in Int /\ tm.mday + q \in Int
    BY <1>3
  <2>2. QED
    BY <1>1, <1>2, <2>1 DEF Time
<1>5. /\ u.mon = tm.mon /\ u.mday = tm.mday + q /\ u.year = tm.year
      /\ u.hour = tm.hour - 24 * q /\ u.hour \in 0..23 /\ u.min = tm.min /\ u.sec = tm.sec
  BY <1>1, <1>2, <1>3 DEF Time
<1>6. Forward(u)
  <2>1. u.mday >= 0 /\ u.hour >= 0
    BY <1>3, <1>5
  <2>2. QED
    BY <1>4, <1>5, <2>1 DEF Forward
<1>7. YearOf(u) = YearOf(tm) /\ YearOf(tm) \in Int
  BY <1>1, <1>5, Placed DEF YearOf
<1>8. DaysBefore(YearOf(tm), tm.mon % 12) \in Int
  BY <1>1, Placed
<1>9. DaysBefore(YearOf(u), u.mon % 12) + u.mday
        = DaysBefore(YearOf(tm), tm.mon % 12) + tm.mday + q
  BY <1>3, <1>5, <1>7, <1>8
<1>10. Seconds(tm) = 86400 * q + Seconds(u)
  <2>1. tm.min \in Int /\ tm.sec \in Int
    BY <1>1 DEF Time
  <2>2. QED
    BY <1>3, <1>5, <2>1 DEF Seconds
<1>11. Instant(u) = Instant(tm)
  BY <1>1, <1>3, <1>4, <1>9, <1>10, SameMoment
<1>12. QED
  BY <1>6, <1>7, <1>11 DEF Moved, u

\* A turn of the loop that carries minutes or seconds leaves the days alone.
LEMMA TurnClock ==
    ASSUME NEW tm, Forward(tm), tm.mon \in 0..11, tm.mday < Length(tm, tm.mon),
           tm.hour \in 0..23
    PROVE  Moved(tm, Turn(tm))
<1> DEFINE u == Turn(tm)
<1>1. /\ tm \in Time /\ tm.mday \in Nat /\ tm.hour \in Nat /\ tm.min \in Nat /\ tm.sec \in Nat
      /\ tm.mon \in Int /\ tm.year \in Int
  BY DEF Forward, Time
<1>2. ~(tm.mday < 0) /\ ~(tm.mday >= Length(tm, tm.mon))
  <2>1. LeapIn(tm.year) \in BOOLEAN
    BY DEF LeapIn
  <2>2. Length(tm, tm.mon) \in 28..31
    BY <2>1, Lengths DEF Length
  <2>3. QED
    BY <1>1, <2>2
<1>3. /\ Seconds(u) = Seconds(tm)
      /\ u \in Time /\ u.mday = tm.mday /\ u.mon = tm.mon /\ u.year = tm.year
      /\ u.hour >= 0 /\ u.min >= 0 /\ u.sec >= 0
  <2>1. CASE tm.min \notin 0..59
    <3> DEFINE q == tm.min \div 60
    <3>1. u = [tm EXCEPT !.min = tm.min % 60, !.hour = tm.hour + q]
      BY <1>1, <1>2, <2>1 DEF Turn, Carry, Time
    <3>2. q \in Nat /\ tm.min % 60 \in 0..59 /\ tm.min % 60 = tm.min - 60 * q
      BY <1>1, By60
    <3> HIDE DEF u, q
    <3>3. u \in Time
      <4>1. tm.min % 60 \in Int /\ tm.hour + q \in Int
        BY <1>1, <3>2
      <4>2. QED
        BY <1>1, <3>1, <4>1 DEF Time
    <3>4. /\ u.mon = tm.mon /\ u.mday = tm.mday /\ u.year = tm.year
          /\ u.hour = tm.hour + q /\ u.min = tm.min - 60 * q /\ u.min \in 0..59 /\ u.sec = tm.sec
      BY <1>1, <3>1, <3>2 DEF Time
    <3>5. Seconds(u) = Seconds(tm)
      BY <1>1, <3>2, <3>4 DEF Seconds
    <3>6. u.hour >= 0 /\ u.min >= 0 /\ u.sec >= 0
      BY <1>1, <3>2, <3>4
    <3>7. QED
      BY <3>3, <3>4, <3>5, <3>6
  <2>2. CASE tm.min \in 0..59
    <3> DEFINE q == tm.sec \div 60
    <3>1. u = [tm EXCEPT !.sec = tm.sec % 60, !.min = tm.min + q]
      BY <1>1, <1>2, <2>2 DEF Turn, Carry, Time
    <3>2. q \in Nat /\ tm.sec % 60 \in 0..59 /\ tm.sec % 60 = tm.sec - 60 * q
      BY <1>1, By60
    <3> HIDE DEF u, q
    <3>3. u \in Time
      <4>1. tm.sec % 60 \in Int /\ tm.min + q \in Int
        BY <1>1, <3>2
      <4>2. QED
        BY <1>1, <3>1, <4>1 DEF Time
    <3>4. /\ u.mon = tm.mon /\ u.mday = tm.mday /\ u.year = tm.year
          /\ u.min = tm.min + q /\ u.sec = tm.sec - 60 * q /\ u.sec \in 0..59 /\ u.hour = tm.hour
      BY <1>1, <3>1, <3>2 DEF Time
    <3>5. Seconds(u) = Seconds(tm)
      BY <1>1, <3>2, <3>4 DEF Seconds
    <3>6. u.hour >= 0 /\ u.min >= 0 /\ u.sec >= 0
      BY <1>1, <3>2, <3>4
    <3>7. QED
      BY <3>3, <3>4, <3>5, <3>6
  <2>3. QED
    BY <2>1, <2>2
<1> HIDE DEF u
<1>4. Forward(u)
  BY <1>1, <1>3 DEF Forward
<1>5. YearOf(u) = YearOf(tm) /\ YearOf(tm) \in Int
  BY <1>1, <1>3, Placed DEF YearOf
<1>6. Instant(u) = Instant(tm)
  BY <1>3, <1>5 DEF Instant
<1>7. QED
  BY <1>4, <1>5, <1>6 DEF Moved, u

\* A turn of the loop keeps the moment, in a year the rule of the code is right
\* about, and never goes back to an earlier year.
LEMMA TurnKeeps ==
    ASSUME NEW tm, Forward(tm)
    PROVE  /\ Forward(Turn(tm)) /\ YearOf(tm) <= YearOf(Turn(tm))
           /\ ~Misjudged(YearOf(tm)) => Instant(Turn(tm)) = Instant(tm)
<1>1. tm.mday \in Int /\ Length(tm, tm.mon) \in Int
  <2>1. tm.mday \in Int
    BY DEF Forward, Time
  <2>2. Length(tm, tm.mon) \in Int
    BY DEF Length, LengthOf
  <2>3. QED
    BY <2>1, <2>2
<1>2. tm.mday >= Length(tm, tm.mon) \/ tm.mday < Length(tm, tm.mon)
  BY <1>1
<1>3. QED
  BY <1>2, TurnMonth, TurnDay, TurnHour, TurnClock DEF Moved

-----------------------------------------------------------------------------
(* The addition.                                                            *)

Span == [year : Nat, mon : Nat, mday : Nat, hour : Nat, min : Nat, sec : Nat]

\* The moment the parsed fields lead to, and whether the rule of the code takes
\* the one they are added to for a date.
Total == FromZero([f \in DOMAIN start |-> start[f] + t2[f]])
Proper == Normal(FromZero(start))

\* tm is on its way from the sum: the same moment, as long as no year passed on the
\* way is one the rule misjudges.
Reached(tm) ==
    /\ YearOf(Total) \in Int /\ YearOf(Total) <= YearOf(tm)
    /\ (\A y \in YearOf(Total)..YearOf(tm) : ~Misjudged(y)) => Instant(tm) = Instant(Total)

Day == [t1 EXCEPT !.mday = @ - 1]

\* In the first loop nothing is to be done when the moment is a date; from then on
\* the sum is what all steps are compared with.
IsoInv ==
    /\ start \in Moments
    /\ value \in Nat /\ t2 \in Span
    /\ Forward(t1)
    /\ isoPc = "first" => (Proper => t1 = FromZero(start))
    /\ isoPc = "parse" => t1.mday >= 1 /\ (Proper => t1 = start)
    /\ isoPc = "second" => (Proper => Reached(t1))
    /\ isoPc = "done" => t1 \in Time /\ Normal(Day) /\ (Proper => Reached(Day))

\* One turn more keeps what is reached.
LEMMA ReachedOn ==
    ASSUME NEW tm, Forward(tm), Reached(tm)
    PROVE  Reached(Turn(tm))
<1> DEFINE u == Turn(tm)
           a == YearOf(Total)
           b == YearOf(tm)
           c == YearOf(u)
<1>1. Forward(u) /\ b <= c /\ (~Misjudged(b) => Instant(u) = Instant(tm))
  BY TurnKeeps
<1>2. b \in Int /\ c \in Int
  BY <1>1, Placed DEF Forward
<1>3. a \in Int /\ a <= b /\ ((\A y \in a..b : ~Misjudged(y)) => Instant(tm) = Instant(Total))
  BY DEF Reached
<1> HIDE DEF u, a, b, c
<1>4. a <= c
  BY <1>1, <1>2, <1>3
<1>5. ASSUME \A y \in a..c : ~Misjudged(y) PROVE Instant(u) = Instant(Total)
  <2>1. \A y \in a..b : y \in a..c
    BY <1>1, <1>2, <1>3
  <2>2. b \in a..b
    BY <1>2, <1>3
  <2>3. QED
    BY <1>1, <1>3, <1>5, <2>1, <2>2
<1>6. QED
  BY <1>3, <1>4, <1>5 DEF Reached, a, c, u

\* The first of a month is day 0 in the loop and day 1 outside of it.
LEMMA Shifted ==
    ASSUME NEW tm, Forward(tm)
    PROVE  /\ Forward(FromOne(tm)) /\ FromOne(tm).mday >= 1
           /\ FromOne(tm) \in Time
           /\ [FromOne(tm) EXCEPT !.mday = @ - 1] = tm
<1> DEFINE u == FromOne(tm)
<1>1. tm \in Time /\ tm.mday \in Nat
  BY DEF Forward, Time
<1>2. u = [tm EXCEPT !.mday = tm.mday + 1] /\ tm.mday + 1 \in Nat
  BY <1>1 DEF FromOne
<1>3. u \in Time /\ u.mday = tm.mday + 1 /\ u.hour = tm.hour /\ u.min = tm.min /\ u.sec = tm.sec
  BY <1>1, <1>2 DEF Time
<1>4. [u EXCEPT !.mday = u.mday - 1] = tm
  <2>1. (tm.mday + 1) - 1 = tm.mday
    BY <1>1
  <2>2. QED
    BY <1>1, <1>2, <1>3, <2>1 DEF Time
<1> HIDE DEF u
<1>5. Forward(u) /\ u.mday >= 1
  BY <1>1, <1>3 DEF Forward
<1>6. QED
  BY <1>3, <1>4, <1>5 DEF u

\* A date, its day counted from zero, and back.
LEMMA Started ==
    ASSUME NEW m \in Time, m.mday >= 1, m.hour >= 0, m.min >= 0, m.sec >= 0
    PROVE  Forward(FromZero(m)) /\ FromOne(FromZero(m)) = m
<1> DEFINE u == FromZero(m)
<1>1. m.mday \in Nat /\ m.mday - 1 \in Nat /\ m.mday >= 0
  BY DEF Time
<1>2. u = [m EXCEPT !.mday = m.mday - 1]
  BY <1>1 DEF FromZero
<1>3. u \in Time /\ u.mday = m.mday - 1 /\ u.hour = m.hour /\ u.min = m.min /\ u.sec = m.sec
  BY <1>1, <1>2 DEF Time
<1>4. FromOne(u) = m
  <2>1. (m.mday - 1) + 1 = m.mday
    BY <1>1
  <2>2. QED
    BY <1>1, <1>2, <1>3, <2>1 DEF FromOne, Time
<1> HIDE DEF u
<1>5. Forward(u)
  BY <1>1, <1>3 DEF Forward
<1>6. QED
  BY <1>4, <1>5 DEF u

\* The fields of the period are added to those of a date.
LEMMA Added ==
    ASSUME NEW m, Forward(m), m.mday >= 1, NEW p \in Span
    PROVE  Forward(FromZero([f \in DOMAIN m |-> m[f] + p[f]]))
<1> DEFINE s == [f \in DOMAIN m |-> m[f] + p[f]]
<1>1. m \in Time
  BY DEF Forward
<1>2. DOMAIN m = {"year", "mon", "mday", "hour", "min", "sec"}
  BY <1>1 DEF Time
<1>3. /\ p.year \in Nat /\ p.mon \in Nat /\ p.mday \in Nat
      /\ p.hour \in Nat /\ p.min \in Nat /\ p.sec \in Nat
  BY DEF Span
<1>4. /\ m.year \in Int /\ m.mon \in Int /\ m.mday \in Int
      /\ m.hour \in Int /\ m.min \in Int /\ m.sec \in Int
  BY <1>1 DEF Time
<1>5. s = [year |-> m.year + p.year, mon |-> m.mon + p.mon, mday |-> m.mday + p.mday,
           hour |-> m.hour + p.hour, min |-> m.min + p.min, sec |-> m.sec + p.sec]
  BY <1>2
<1> HIDE DEF s
<1>6. /\ s.mday = m.mday + p.mday /\ s.hour = m.hour + p.hour
      /\ s.min = m.min + p.min /\ s.sec = m.sec + p.sec
  BY <1>5
<1>7. s \in Time
  BY <1>3, <1>4, <1>5 DEF Time
<1>8. s.mday >= 1 /\ s.hour >= 0 /\ s.min >= 0 /\ s.sec >= 0
  <2>1. m.mday >= 1 /\ m.hour >= 0 /\ m.min >= 0 /\ m.sec >= 0
    BY DEF Forward
  <2>2. QED
    BY <1>3, <1>4, <1>6, <2>1
<1>9. Forward(FromZero(s))
  BY <1>7, <1>8, Started
<1>10. QED
  BY <1>9 DEF s

\* What localtime_r returns is a date whose fields are not negative.
LEMMA MomentFits ==
    ASSUME NEW m \in Moments
    PROVE  /\ m \in Time /\ m.mday >= 1 /\ m.hour >= 0 /\ m.min >= 0 /\ m.sec >= 0
<1>1. m \in [year : Int, mon : 0..11, mday : 1..31, hour : 0..23, min : 0..59, sec : 0..59]
  BY MomentsAssumption
<1>2. /\ m.year \in Int /\ m.mon \in 0..11 /\ m.mday \in 1..31
      /\ m.hour \in 0..23 /\ m.min \in 0..59 /\ m.sec \in 0..59
      /\ m = [year |-> m.year, mon |-> m.mon, mday |-> m.mday,
              hour |-> m.hour, min |-> m.min, sec |-> m.sec]
  BY <1>1
<1>3. /\ m.mon \in Int /\ m.mday \in Int /\ m.hour \in Int /\ m.min \in Int /\ m.sec \in Int
      /\ m.mday >= 1 /\ m.hour >= 0 /\ m.min >= 0 /\ m.sec >= 0
  BY <1>2
<1>4. QED
  BY <1>2, <1>3 DEF Time

\* A call of intrvl_add starts with the moment it was given.
LEMMA IsoStart == IsoInit => IsoInv
<1> SUFFICES ASSUME IsoInit PROVE IsoInv
  OBVIOUS
<1>1. start \in Moments /\ isoPc = "first" /\ t1 = FromZero(start) /\ value = 0 /\ t2 = Zero
  BY DEF IsoInit
<1>2. Forward(t1)
  BY <1>1, MomentFits, Started
<1>3. t2 \in Span
  BY <1>1 DEF Zero, Span
<1>4. QED
  BY <1>1, <1>2, <1>3 DEF IsoInv

\* Every step of normalizeperiod keeps the invariant.
LEMMA IsoNormalize == IsoInv /\ Normalize => IsoInv'
<1> SUFFICES ASSUME IsoInv, Normalize PROVE IsoInv'
  OBVIOUS
<1>1. /\ start' = start /\ t2' = t2 /\ value' = value /\ start \in Moments
      /\ value \in Nat /\ t2 \in Span /\ Forward(t1)
  BY DEF Normalize, IsoInv
<1>2. Total' = Total /\ Proper' = Proper
  BY <1>1 DEF Total, Proper
<1>3. CASE ~Normal(t1)
  <2>1. t1' = Turn(t1) /\ isoPc' = isoPc /\ isoPc \in {"first", "second"}
    BY <1>3 DEF Normalize
  <2>2. Forward(t1')
    BY <1>1, <2>1, TurnKeeps
  <2>3. CASE isoPc = "first"
    <3>1. ~Proper
      BY <1>3, <2>3 DEF IsoInv, Proper
    <3>2. QED
      BY <1>1, <1>2, <2>1, <2>2, <2>3, <3>1 DEF IsoInv
  <2>4. CASE isoPc = "second"
    <3>1. Proper => Reached(t1)
      BY <2>4 DEF IsoInv
    <3>2. Proper => Reached(Turn(t1))
      BY <1>1, <3>1, ReachedOn
    <3>3. Reached(t1)' <=> Reached(Turn(t1))
      BY <1>2, <2>1 DEF Reached
    <3>4. QED
      BY <1>1, <1>2, <2>1, <2>2, <2>4, <3>2, <3>3 DEF IsoInv
  <2>5. QED
    BY <2>1, <2>3, <2>4
<1>4. CASE Normal(t1)
  <2>1. /\ t1' = FromOne(t1) /\ isoPc \in {"first", "second"}
        /\ isoPc' = IF isoPc = "first" THEN "parse" ELSE "done"
    BY <1>4 DEF Normalize
  <2>2. /\ Forward(t1') /\ t1' \in Time /\ t1'.mday >= 1
        /\ [t1' EXCEPT !.mday = t1'.mday - 1] = t1
    BY <1>1, <2>1, Shifted
  <2>3. CASE isoPc = "first"
    <3>1. Proper => t1' = start
      BY <1>1, <2>1, <2>3, MomentFits, Started DEF IsoInv
    <3>2. QED
      BY <1>1, <1>2, <2>1, <2>2, <2>3, <3>1 DEF IsoInv
  <2>4. CASE isoPc = "second"
    <3>1. Day' = t1
      BY <2>2 DEF Day
    <3>2. Normal(Day)'
      BY <1>4, <3>1 DEF Normal, Length
    <3>3. Proper => Reached(t1)
      BY <2>4 DEF IsoInv
    <3>4. Reached(Day)' <=> Reached(t1)
      BY <1>2, <3>1 DEF Reached
    <3>5. QED
      BY <1>1, <1>2, <2>1, <2>2, <2>4, <3>2, <3>3, <3>4 DEF IsoInv
  <2>5. QED
    BY <2>1, <2>3, <2>4
<1>5. QED
  BY <1>3, <1>4

\* Every step of parseperiod, and the addition behind it, keep the invariant.
LEMMA IsoParse == IsoInv /\ Parse => IsoInv'
<1> SUFFICES ASSUME IsoInv, Parse PROVE IsoInv'
  OBVIOUS
<1>1. /\ start' = start /\ start \in Moments /\ isoPc = "parse"
      /\ value \in Nat /\ t2 \in Span /\ Forward(t1)
      /\ t1.mday >= 1 /\ (Proper => t1 = start)
  BY DEF Parse, IsoInv
<1>2. Proper' = Proper
  BY <1>1 DEF Proper
<1>3. CASE AddPeriod /\ UNCHANGED <<value, t2>>
  <2>1. t1' = FromZero(Summed) /\ isoPc' = "second" /\ t2' = t2 /\ value' = value
    BY <1>3 DEF AddPeriod
  <2>2. Forward(t1')
    BY <1>1, <2>1, Added DEF Summed
  <2>3. Total' = Total
    BY <1>1, <2>1 DEF Total
  <2>4. Proper => t1' = Total
    BY <1>1, <2>1 DEF Summed, Total
  <2>5. Proper => Reached(t1)'
    <3>1. SUFFICES ASSUME Proper PROVE Reached(t1)'
      OBVIOUS
    <3>2. YearOf(t1') \in Int
      BY <2>2, Placed DEF Forward
    <3>3. t1' = Total /\ Total' = Total
      BY <2>3, <2>4, <3>1
    <3>4. Reached(t1)' <=> /\ YearOf(t1') \in Int /\ YearOf(t1') <= YearOf(t1')
                           /\ (\A y \in YearOf(t1')..YearOf(t1') : ~Misjudged(y))
                                => Instant(t1') = Instant(t1')
      BY <3>3 DEF Reached
    <3>5. QED
      BY <3>2, <3>4
  <2>6. QED
    BY <1>1, <1>2, <2>1, <2>2, <2>5 DEF IsoInv
<1>4. CASE \E ch : IsNumber(ch) /\ Digit(ch) /\ UNCHANGED <<t1, isoPc>>
  <2>1. PICK ch : IsNumber(ch) /\ Digit(ch) /\ UNCHANGED <<t1, isoPc>>
    BY <1>4
  <2>2. value' \in Nat /\ t2' = t2
    BY <2>1, DigitsAssumption DEF IsNumber, Digit
  <2>3. QED
    BY <1>1, <1>2, <2>1, <2>2 DEF IsoInv
<1>5. CASE \E ch : Unit(ch) /\ UNCHANGED <<t1, isoPc>>
  <2>1. PICK ch : Unit(ch) /\ UNCHANGED <<t1, isoPc>>
    BY <1>5
  <2>2. value' \in Nat
    BY <2>1 DEF Unit
  <2>3. t2' \in Span
    <3>1. CASE ch \in Units
      <4>1. Field(ch) \in {"year", "mon", "mday", "hour", "min", "sec"}
        BY <3>1 DEF Units, Field
      <4>2. t2' = [t2 EXCEPT ![Field(ch)] = value]
        BY <2>1, <3>1 DEF Unit
      <4>3. QED
        BY <1>1, <4>1, <4>2 DEF Span
    <3>2. CASE ch \notin Units
      BY <1>1, <2>1, <3>2 DEF Unit
    <3>3. QED
      BY <3>1, <3>2
  <2>4. QED
    BY <1>1, <1>2, <2>1, <2>2, <2>3 DEF IsoInv
<1>6. QED
  BY <1>3, <1>4, <1>5 DEF Parse

\* What intrvl_add returns is a date by the rule of the code and the moment the
\* fields lead to, for every date, every period and years without a bound, as long
\* as no year it passes is one that tm_year makes the rule misjudge.
THEOREM SumKeepsMoment == IsoSpec => []SumIsExact
<1>1. IsoInv /\ [IsoNext]_isoVars => IsoInv'
  <2> SUFFICES ASSUME IsoInv, UNCHANGED isoVars PROVE IsoInv'
    BY IsoNormalize, IsoParse DEF IsoNext
  <2>1. UNCHANGED <<start, value, t1, t2, isoPc>>
    BY DEF isoVars
  <2>2. Total' = Total /\ Proper' = Proper /\ Day' = Day
    BY <2>1 DEF Total, Proper, Day
  <2>3. (Normal(Day)' <=> Normal(Day)) /\ (Reached(Day)' <=> Reached(Day)) /\ (Reached(t1)' <=> Reached(t1))
    BY <2>1, <2>2 DEF Normal, Length, Reached
  <2>4. QED
    BY <2>1, <2>2, <2>3 DEF IsoInv
<1>2. IsoInv => SumIsExact
  <2> SUFFICES ASSUME IsoInv, isoPc = "done"
               PROVE  /\ Normal(Day)
                      /\ Proper /\ (\A y \in YearOf(Total)..Day.year : ~Misjudged(y))
                         => Instant(Day) = Instant(Total)
    BY DEF SumIsExact, Day, Total, Proper
  <2>1. Normal(Day) /\ (Proper => Reached(Day))
    BY DEF IsoInv
  <2>2. YearOf(Day) = Day.year
    <3>1. t1 \in Time /\ t1.mday - 1 \in Int
      BY DEF IsoInv, Time
    <3>2. Day \in Time
      BY <3>1 DEF Day, Time
    <3>3. Day.mon \in 0..11
      BY <2>1 DEF Normal
    <3>4. QED
      BY <3>2, <3>3, Placed
  <2>3. QED
    BY <2>1, <2>2 DEF Reached
<1>3. QED
  BY <1>1, <1>2, IsoStart, PTL DEF IsoSpec

-----------------------------------------------------------------------------
\* An item of a line, what a call reports, and what an item means.
Item == Seq(STRING)
Out == [opt : DOMAIN Letters \union {Names[x].val : x \in DOMAIN Names} \union {"?"},
        arg : Item \union {NULL}]
Meaning == [opts : Seq(Out), took : BOOLEAN]

\* Three sequences of items are joined in either order.
LEMMA JoinItems ==
    \A x \in Seq(Item), y \in Seq(Item), z \in Seq(Item) : (x \o y) \o z = x \o (y \o z)
  BY ConcatAssociative

\* Three sequences of reports are joined in either order.
LEMMA JoinReports ==
    \A x \in Seq(Out), y \in Seq(Out), z \in Seq(Out) : (x \o y) \o z = x \o (y \o z)
  BY ConcatAssociative

\* A set of numbers that is not empty has a least member.
LEMMA LeastOne ==
    ASSUME NEW W \in SUBSET Nat, W # {}
    PROVE  \E m \in W : \A n \in W : m <= n
<1>1. PICK m \in W : \A n \in W : ~(<<n, m>> \in OpToRel(<, Nat))
  BY NatLessThanWellFounded, WFMin
<1>2. \A n \in W : m <= n
  <2> TAKE n \in W
  <2>1. <<n, m>> \in Nat \X Nat /\ ~(n < m)
    BY <1>1 DEF OpToRel
  <2> QED BY <2>1
<1> QED BY <1>2

\* A sequence of one.
LEMMA OneMember ==
    ASSUME NEW S, NEW e \in S
    PROVE  <<e>> \in Seq(S) /\ Len(<<e>>) = 1 /\ <<e>>[1] = e
  OBVIOUS

\* The flags from position a of an item on end somewhere.
LEMMA LastFlagFits ==
    ASSUME NEW s \in Item, NEW a \in 1..(Len(s) + 1)
    PROVE  LET b == LastFlag(s, a) IN
           b \in (a - 1)..Len(s) /\ a..b \subseteq Flags(s) /\ b + 1 \notin Flags(s)
<1> DEFINE n == Len(s)
           W == {b \in (a - 1)..n : b + 1 \notin Flags(s)}
<1>1. n \in Nat /\ a \in Nat /\ a >= 1 /\ a <= n + 1 /\ Flags(s) \subseteq 1..n
  <2>1. n \in Nat
    BY LenProperties DEF Item
  <2>2. Flags(s) \subseteq 1..n
    BY DEF Flags
  <2>3. QED
    BY <2>1, <2>2
<1>2. W \in SUBSET Nat /\ n \in W
  BY <1>1
<1>3. PICK b \in W : \A x \in W : b <= x
  BY <1>2, LeastOne
<1>4. b \in (a - 1)..n /\ b + 1 \notin Flags(s)
  OBVIOUS
<1>5. ASSUME NEW x \in a..b PROVE x \in Flags(s)
  <2>1. x \in Int /\ x - 1 \in (a - 1)..n /\ x - 1 < b
    BY <1>1, <1>4
  <2>2. x - 1 \notin W
    <3>1. b \in Int /\ ~(b <= x - 1)
      BY <1>1, <1>4, <2>1
    <3> HIDE DEF W
    <3>2. QED
      BY <1>3, <3>1
  <2>3. (x - 1) + 1 = x
    BY <2>1
  <2>4. QED
    BY <2>1, <2>2, <2>3
<1>6. \E c \in (a - 1)..Len(s) : a..c \subseteq Flags(s) /\ c + 1 \notin Flags(s)
  BY <1>4, <1>5
<1>7. QED
  BY <1>6 DEF LastFlag

\* They end where those behind the first of them end.
LEMMA LastFlagNext ==
    ASSUME NEW s \in Item, NEW a \in 1..Len(s), a \in Flags(s)
    PROVE  LastFlag(s, a) = LastFlag(s, a + 1)
<1> DEFINE n == Len(s)
           W1 == {b \in (a - 1)..n : a..b \subseteq Flags(s) /\ b + 1 \notin Flags(s)}
           W2 == {b \in ((a + 1) - 1)..n : (a + 1)..b \subseteq Flags(s) /\ b + 1 \notin Flags(s)}
<1>1. n \in Nat /\ a \in Nat /\ a >= 1 /\ a <= n
  BY LenProperties DEF Item
<1>2. ASSUME NEW b \in W1 PROVE b \in W2
  <2>1. b # a - 1
    BY <1>1
  <2>2. b \in ((a + 1) - 1)..n
    BY <1>1, <2>1
  <2>3. (a + 1)..b \subseteq a..b
    BY <1>1, <2>2
  <2>4. QED
    BY <2>2, <2>3
<1>3. ASSUME NEW b \in W2 PROVE b \in W1
  <2>1. b \in (a - 1)..n
    BY <1>1
  <2>2. a..b \subseteq (a + 1)..b \union {a}
    BY <1>1
  <2>3. QED
    BY <2>1, <2>2
<1>4. W1 = W2
  BY <1>2, <1>3
<1>5. LastFlag(s, a) = CHOOSE b \in W1 : TRUE
  BY DEF LastFlag
<1>6. LastFlag(s, a + 1) = CHOOSE b \in W2 : TRUE
  BY DEF LastFlag
<1> HIDE DEF W1, W2
<1>7. QED
  BY <1>4, <1>5, <1>6

\* What stands behind the flags is an option, an error or nothing.
LEMMA LastTyped ==
    ASSUME NEW s \in Item, NEW c \in 1..(Len(s) + 1), NEW next \in Item \union {NULL}
    PROVE  LastMeans(s, c, next) \in Meaning
<1>1. Len(s) \in Nat /\ <<>> \in Seq(Out)
  BY LenProperties, EmptySeq DEF Item
<1>2. Bad(NULL) \in Out
  BY DEF Bad, Report, Out
<1>3. Refused \in Meaning
  BY <1>2, OneMember DEF Refused, Means, Meaning
<1>4. Means(<<>>, FALSE) \in Meaning
  BY <1>1 DEF Means, Meaning
<1>5. ASSUME NEW x \in DOMAIN Letters, NEW y \in Item \union {NULL}, NEW t \in BOOLEAN
      PROVE  Means(<<Report(x, y)>>, t) \in Meaning
  <2>1. Report(x, y) \in Out
    BY DEF Report, Out
  <2>2. QED
    BY <2>1, OneMember DEF Means, Meaning
<1>6. ASSUME c < Len(s) PROVE Strip(SubSeq(s, c + 1, Len(s))) \in Item
  <2> DEFINE t == SubSeq(s, c + 1, Len(s))
  <2>1. t \in Item /\ Len(t) = Len(s) - c /\ Len(t) > 0
    BY <1>1, <1>6, SubSeqProperties, ElementOfSeq DEF Item
  <2> HIDE DEF t
  <2>2. t # <<>>
    BY <2>1
  <2>3. Tail(t) \in Item
    BY <2>1, <2>2, HeadTailProperties DEF Item
  <2>4. QED
    BY <2>1, <2>3 DEF Strip, t
<1>7. QED
  BY <1>1, <1>3, <1>4, <1>5, <1>6 DEF LastMeans

\* Letters that start with no flag mean what their first one does.
LEMMA ClusterStop ==
    ASSUME NEW s \in Item, NEW a \in 1..(Len(s) + 1), a \notin Flags(s),
           NEW next \in Item \union {NULL}
    PROVE  ClusterMeans(s, a, next) = LastMeans(s, a, next)
<1> DEFINE b == LastFlag(s, a)
           l == LastMeans(s, a, next)
<1>1. Len(s) \in Nat /\ a \in Nat
  BY LenProperties DEF Item
<1>2. b \in (a - 1)..Len(s) /\ a..b \subseteq Flags(s)
  BY LastFlagFits
<1> HIDE DEF b
<1>3. b = a - 1
  <2>1. b >= a => a \in a..b
    BY <1>1, <1>2
  <2>2. QED
    BY <1>1, <1>2, <2>1
<1>4. l \in Meaning
  BY LastTyped
<1>5. b + 1 = a
  BY <1>1, <1>3
<1>6. [i \in 1..(b - a + 1) |-> Report(s[a + i - 1], NULL)] = <<>>
  <2>1. 1..(b - a + 1) = {}
    BY <1>1, <1>3
  <2>2. QED
    BY <2>1
<1>7. ClusterMeans(s, a, next) = [l EXCEPT !.opts = <<>> \o l.opts]
  BY <1>5, <1>6 DEF ClusterMeans, b
<1> HIDE DEF l
<1>8. <<>> \o l.opts = l.opts
  BY <1>4, ConcatEmptySeq DEF Meaning
<1>9. QED
  BY <1>4, <1>7, <1>8 DEF Meaning, l

\* Flags are reported one by one.
LEMMA FlagsTyped ==
    ASSUME NEW s \in Item, NEW a \in 1..(Len(s) + 1), NEW b \in (a - 1)..Len(s),
           a..b \subseteq Flags(s)
    PROVE  LET f == [i \in 1..(b - a + 1) |-> Report(s[a + i - 1], NULL)] IN
           f \in Seq(Out) /\ Len(f) = b - a + 1
<1> DEFINE m == b - a + 1
           f == [i \in 1..m |-> Report(s[a + i - 1], NULL)]
<1>1. Len(s) \in Nat /\ a \in Nat /\ m \in Nat /\ b \in Int
  BY LenProperties DEF Item
<1>2. ASSUME NEW i \in 1..m PROVE Report(s[a + i - 1], NULL) \in Out
  <2>1. a + i - 1 \in a..b
    BY <1>1
  <2>2. a + i - 1 \in Flags(s)
    BY <2>1
  <2>3. s[a + i - 1] \in DOMAIN Letters
    BY <2>2 DEF Flags
  <2>4. QED
    BY <2>3 DEF Report, Out
<1> HIDE DEF m
<1>3. f \in [1..m -> Out]
  BY <1>2
<1> HIDE DEF f
<1>4. f \in Seq(Out) /\ Len(f) = m
  BY <1>1, <1>3
<1>5. QED
  BY <1>4 DEF f, m

\* Letters mean reports, and perhaps take the next item.
LEMMA ClusterTyped ==
    ASSUME NEW s \in Item, NEW a \in 1..(Len(s) + 1), NEW next \in Item \union {NULL}
    PROVE  ClusterMeans(s, a, next) \in Meaning
<1> DEFINE b == LastFlag(s, a)
           f == [i \in 1..(b - a + 1) |-> Report(s[a + i - 1], NULL)]
           l == LastMeans(s, b + 1, next)
<1>1. b \in (a - 1)..Len(s) /\ a..b \subseteq Flags(s)
  BY LastFlagFits
<1>2. Len(s) \in Nat /\ a \in Nat
  BY LenProperties DEF Item
<1>3. ClusterMeans(s, a, next) = [l EXCEPT !.opts = f \o l.opts]
  BY DEF ClusterMeans
<1> HIDE DEF b
<1>4. b + 1 \in 1..(Len(s) + 1)
  BY <1>1, <1>2
<1>5. l \in Meaning
  BY <1>4, LastTyped
<1>6. f \in Seq(Out)
  BY <1>1, FlagsTyped
<1> HIDE DEF f, l
<1>7. f \o l.opts \in Seq(Out)
  BY <1>5, <1>6, ConcatProperties DEF Meaning
<1>8. QED
  BY <1>3, <1>5, <1>7 DEF Meaning

\* Letters that start with a flag mean it and what the others do.
LEMMA ClusterFlag ==
    ASSUME NEW s \in Item, NEW a \in 1..Len(s), a \in Flags(s), NEW next \in Item \union {NULL}
    PROVE  /\ ClusterMeans(s, a, next).opts
                = <<Report(s[a], NULL)>> \o ClusterMeans(s, a + 1, next).opts
           /\ ClusterMeans(s, a, next).took = ClusterMeans(s, a + 1, next).took
<1> DEFINE b == LastFlag(s, a)
           f == [i \in 1..(b - a + 1) |-> Report(s[a + i - 1], NULL)]
           g == [i \in 1..(b - (a + 1) + 1) |-> Report(s[(a + 1) + i - 1], NULL)]
           l == LastMeans(s, b + 1, next)
           e == Report(s[a], NULL)
<1>0. LastFlag(s, a) = LastFlag(s, a + 1)
  BY LastFlagNext
<1>1. Len(s) \in Nat /\ a \in Nat /\ a >= 1 /\ a <= Len(s)
  BY LenProperties DEF Item
<1>2. ClusterMeans(s, a, next) = [l EXCEPT !.opts = f \o l.opts]
  BY DEF ClusterMeans
<1>3. ClusterMeans(s, a + 1, next) = [l EXCEPT !.opts = g \o l.opts]
  BY <1>0 DEF ClusterMeans
<1>4. b \in (a - 1)..Len(s) /\ a..b \subseteq Flags(s)
  BY <1>1, LastFlagFits
<1>5. b \in a..Len(s) /\ (a + 1)..b \subseteq Flags(s)
  <2>1. a + 1 \in 1..(Len(s) + 1)
    BY <1>1
  <2>2. LastFlag(s, a + 1) \in ((a + 1) - 1)..Len(s) /\ (a + 1)..LastFlag(s, a + 1) \subseteq Flags(s)
    BY <2>1, LastFlagFits
  <2>3. QED
    BY <1>0, <1>1, <2>2
<1> HIDE DEF b
<1>6. f \in Seq(Out) /\ Len(f) = b - a + 1
  <2>1. a \in 1..(Len(s) + 1)
    BY <1>1
  <2>2. QED
    BY <1>4, <2>1, FlagsTyped
<1>7. g \in Seq(Out) /\ Len(g) = b - (a + 1) + 1
  <2>1. a + 1 \in 1..(Len(s) + 1) /\ b \in ((a + 1) - 1)..Len(s)
    BY <1>1, <1>5
  <2>2. QED
    BY <1>5, <2>1, FlagsTyped
<1>8. l \in Meaning
  <2>1. b + 1 \in 1..(Len(s) + 1)
    BY <1>1, <1>4
  <2>2. QED
    BY <2>1, LastTyped
<1>9. e \in Out
  BY DEF Flags, Report, Out
<1>10. <<e>> \in Seq(Out) /\ Len(<<e>>) = 1 /\ <<e>>[1] = e
  BY <1>9, OneMember
<1>11. f = <<e>> \o g
  <2>1. \A i \in 1..Len(f) : f[i] = Report(s[a + i - 1], NULL)
    BY <1>6
  <2>2. \A i \in 1..Len(g) : g[i] = Report(s[a + i], NULL)
    <3>1. \A i \in 1..Len(g) : g[i] = Report(s[(a + 1) + i - 1], NULL)
      BY <1>7
    <3>2. \A i \in Int : (a + 1) + i - 1 = a + i
      BY <1>1
    <3>3. Len(g) \in Int
      BY <1>1, <1>5, <1>7
    <3> HIDE DEF g
    <3>4. QED
      BY <3>1, <3>2, <3>3
  <2> DEFINE h == <<e>> \o g
  <2> HIDE DEF f, g
  <2>3. /\ h \in Seq(Out) /\ Len(h) = 1 + Len(g)
        /\ \A i \in 1..(1 + Len(g)) : h[i] = IF i <= 1 THEN <<e>>[i] ELSE g[i - 1]
    BY <1>7, <1>10, ConcatProperties
  <2> HIDE DEF h
  <2>4. Len(f) = Len(h) /\ Len(f) \in Nat /\ Len(g) \in Nat /\ Len(f) = Len(g) + 1
    BY <1>1, <1>5, <1>6, <1>7, <2>3
  <2>5. ASSUME NEW i \in 1..Len(f) PROVE f[i] = h[i]
    <3>1. CASE i = 1
      <4>1. f[1] = Report(s[a + 1 - 1], NULL) /\ a + 1 - 1 = a
        BY <1>1, <2>1, <2>4
      <4>2. h[1] = e
        BY <1>10, <2>3, <2>4
      <4>3. QED
        BY <3>1, <4>1, <4>2
    <3>2. CASE i # 1
      <4>1. i - 1 \in 1..Len(g) /\ i \in 1..(1 + Len(g)) /\ ~(i <= 1)
        BY <2>4, <3>2
      <4>2. h[i] = g[i - 1] /\ g[i - 1] = Report(s[a + (i - 1)], NULL)
        BY <2>2, <2>3, <4>1
      <4>3. a + (i - 1) = a + i - 1
        BY <1>1
      <4>4. QED
        BY <2>1, <4>2, <4>3
    <3>3. QED
      BY <3>1, <3>2
  <2>6. f = h
    BY <1>6, <2>3, <2>4, <2>5, SeqEqual
  <2>7. QED
    BY <2>6 DEF h
<1> HIDE DEF f, g, l, e
<1>12. l.opts \in Seq(Out)
  BY <1>8 DEF Meaning
<1>13. f \o l.opts = <<e>> \o (g \o l.opts)
  <2> DEFINE o == l.opts
             h == <<e>>
  <2>1. o \in Seq(Out) /\ h \in Seq(Out)
    BY <1>10, <1>12
  <2> HIDE DEF o, h
  <2>2. g \in Seq(Out)
    BY <1>7
  <2>3. (h \o g) \o o = h \o (g \o o)
    BY <2>1, <2>2, JoinReports, Zenon
  <2>4. QED
    BY <1>11, <2>3 DEF o, h
<1>14. QED
  BY <1>2, <1>3, <1>8, <1>13 DEF Meaning, e

\* Whether a call leaves optpos inside the item s, and what s still means then.
Inside(r, s) == r.optpos > 0 /\ r.optpos + 1 < Len(s)
Onward(r, s, next) ==
    IF Inside(r, s) THEN ClusterMeans(s, r.optpos + 2, next) ELSE Means(<<>>, FALSE)

\* A call that finds r has read the first of the reports that c promises: a bad one
\* if that is bad, and else that one and no more.
Follows(r, c, s, i, next) ==
    /\ r.ret \in Out /\ r.optpos \in Nat
    /\ \/ r.ret.opt = "?" /\ c.opts # <<>> /\ c.opts[1].opt = "?"
       \/ /\ c.opts = <<r.ret>> \o Onward(r, s, next).opts
          /\ IF Inside(r, s) THEN r.optind = i /\ c.took = Onward(r, s, next).took
             ELSE r.optind = IF c.took THEN i + 1 ELSE i
          /\ r.optind # i => r.optpos = 0

\* next is the item at i, or NULL where the line ends.
Argument(i, end, v, next) ==
    /\ i \in Nat /\ end \in Int
    /\ IF i < end THEN next = At(v, i) /\ next \in Item ELSE next = NULL

\* The next item, if there is one.
LEMMA ArgumentFits ==
    ASSUME NEW i, NEW end, NEW v, NEW next, Argument(i, end, v, next)
    PROVE  next \in Item \union {NULL} /\ (i < end <=> next # NULL)
  BY NullAssumption DEF Argument, Item

\* A bad option follows what was refused.
LEMMA RefusedFollows ==
    ASSUME NEW r, NEW c, NEW s, NEW i, NEW next, NEW x \in Item \union {NULL},
           r.ret = Bad(x), r.optpos \in Nat, c = Refused
    PROVE  Follows(r, c, s, i, next)
<1>1. r.ret = [opt |-> "?", arg |-> x]
  BY DEF Bad, Report
<1>2. r.ret \in Out /\ r.ret.opt = "?"
  BY <1>1 DEF Out
<1>3. c.opts = <<[opt |-> "?", arg |-> NULL]>>
  BY DEF Refused, Means, Bad, Report
<1>4. c.opts # <<>> /\ c.opts[1].opt = "?"
  BY <1>3
<1>5. QED
  BY <1>2, <1>4 DEF Follows

\* One option that ends its item.
LEMMA LoneFollows ==
    ASSUME NEW r, NEW c, NEW s, NEW i, NEW next, NEW o \in Out, NEW took \in BOOLEAN,
           r.ret = o, r.optpos \in Nat, ~Inside(r, s), c = Means(<<o>>, took),
           r.optind = (IF took THEN i + 1 ELSE i), r.optind # i => r.optpos = 0
    PROVE  Follows(r, c, s, i, next)
<1>1. Onward(r, s, next).opts = <<>>
  BY DEF Onward, Means
<1>2. <<o>> \o <<>> = <<o>>
  BY OneMember, ConcatEmptySeq
<1>3. c.opts = <<o>> /\ c.took = took
  BY DEF Means
<1>4. QED
  BY <1>1, <1>2, <1>3 DEF Follows

\* Letter and LetterArgument find the first of the letters from a position on,
\* and leave the others.
LEMMA LetterFollows ==
    ASSUME NEW s \in Item, NEW pos \in Nat, pos >= 1, pos < Len(s), NEW i, NEW end, NEW v,
           NEW next, Argument(i, end, v, next), NEW argument \in Item \union {NULL}
    PROVE  Follows(Letter(s, pos, i, v, end, argument), ClusterMeans(s, pos + 1, next), s, i, next)
<1> DEFINE n == Len(s)
           a == pos + 1
           ch == s[pos + 1]
           r == Letter(s, pos, i, v, end, argument)
           c == ClusterMeans(s, pos + 1, next)
<1>1. n \in Nat /\ a \in 1..n /\ a \in Int /\ a \in 1..(n + 1) /\ i \in Nat
  BY LenProperties DEF Item, Argument
<1>2. next \in Item \union {NULL} /\ (i < end <=> next # NULL) /\ (i < end => next = At(v, i))
  BY ArgumentFits DEF Argument
<1>3. At(s, pos) = ch
  BY DEF At
<1>4. a \notin Flags(s) => c = LastMeans(s, a, next)
  BY <1>1, <1>2, ClusterStop
<1>5. ~(a > n)
  BY <1>1
<1>6. CASE ch \notin DOMAIN Letters
  <2>1. r.ret = Bad(argument) /\ r.optpos \in Nat
    BY <1>3, <1>6 DEF Letter
  <2>2. a \notin Flags(s)
    BY <1>6 DEF Flags
  <2>3. c = Refused
    BY <1>4, <1>5, <1>6, <2>2 DEF LastMeans
  <2> HIDE DEF r, c
  <2>4. QED
    BY <2>1, <2>3, RefusedFollows DEF r, c
<1>7. CASE ch \in DOMAIN Letters /\ Letters[ch] # "none"
  <2> DEFINE rest == SubSeq(s, pos + 2, n)
  <2>1. r = LetterArgument(s, pos, i, v, end)
    BY <1>3, <1>7 DEF Letter
  <2>2. From(s, pos + 1) = rest
    <3>1. (pos + 1) + 1 = pos + 2
      OBVIOUS
    <3>2. QED
      BY <3>1 DEF From
  <2>3. a \notin Flags(s)
    BY <1>7 DEF Flags
  <2>4. c = LastMeans(s, a, next)
    BY <1>4, <2>3
  <2>5. a + 1 = pos + 2
    OBVIOUS
  <2>6. CASE a < n
    <3>1. rest \in Item /\ Len(rest) = n - a /\ rest # <<>>
      <4>1. rest \in Item /\ Len(rest) = n - a
        BY <1>1, <2>6, SubSeqProperties, ElementOfSeq DEF Item
      <4>2. n - a # 0
        BY <1>1, <2>6
      <4> HIDE DEF rest
      <4>3. QED
        BY <4>1, <4>2
    <3> DEFINE o == Report(ch, Strip(rest))
    <3>2. c = Means(<<o>>, FALSE)
      BY <1>5, <1>7, <2>4, <2>5, <2>6 DEF LastMeans
    <3>3. r = [ret |-> o, optpos |-> n - 1, optind |-> i]
      BY <1>3, <2>1, <2>2, <3>1 DEF LetterArgument, DropSeparator, Strip
    <3>4. o \in Out
      <4>1. Tail(rest) \in Item
        BY <3>1, HeadTailProperties DEF Item
      <4>2. Strip(rest) \in Item
        BY <3>1, <4>1 DEF Strip
      <4>3. QED
        BY <1>7, <4>2 DEF Report, Out
    <3> HIDE DEF r, c, o
    <3>5. ~Inside(r, s) /\ r.optpos \in Nat /\ r.ret = o /\ r.optind = i
      BY <1>1, <3>3 DEF Inside
    <3>6. QED
      BY <3>2, <3>4, <3>5, LoneFollows DEF r, c
  <2>7. CASE a = n
    <3>1. rest = <<>>
      BY <1>1, <2>7, SubSeqEmpty
    <3>2. ~(a < n)
      BY <1>1, <2>7
    <3>3. CASE Letters[ch] = "optional"
      <4> DEFINE o == Report(ch, NULL)
      <4>1. c = Means(<<o>>, FALSE)
        BY <1>5, <1>7, <2>4, <3>2, <3>3 DEF LastMeans
      <4>2. r = [ret |-> o, optpos |-> pos, optind |-> i]
        BY <1>3, <2>1, <2>2, <3>1, <3>3 DEF LetterArgument
      <4>3. o \in Out
        BY <1>7 DEF Report, Out
      <4> HIDE DEF r, c, o
      <4>4. ~Inside(r, s) /\ r.optpos \in Nat /\ r.ret = o /\ r.optind = i
        BY <1>1, <2>7, <4>2 DEF Inside
      <4>5. QED
        BY <4>1, <4>3, <4>4, LoneFollows DEF r, c
    <3>4. CASE Letters[ch] # "optional" /\ i < end
      <4> DEFINE o == Report(ch, next)
      <4>1. c = Means(<<o>>, TRUE)
        BY <1>2, <1>5, <1>7, <2>4, <3>2, <3>4 DEF LastMeans
      <4>2. r = [ret |-> o, optpos |-> 0, optind |-> i + 1]
        BY <1>2, <1>3, <2>1, <2>2, <3>1, <3>4 DEF LetterArgument
      <4>3. o \in Out
        BY <1>2, <1>7 DEF Report, Out
      <4> HIDE DEF r, c, o
      <4>4. ~Inside(r, s) /\ r.optpos \in Nat /\ r.ret = o /\ r.optind = i + 1 /\ r.optpos = 0
        BY <1>1, <4>2 DEF Inside
      <4>5. QED
        BY <4>1, <4>3, <4>4, LoneFollows DEF r, c
    <3>5. CASE Letters[ch] # "optional" /\ ~(i < end)
      <4>1. c = Refused
        BY <1>2, <1>5, <1>7, <2>4, <3>2, <3>5 DEF LastMeans
      <4>2. r = [ret |-> Bad(NULL), optpos |-> pos, optind |-> i]
        BY <1>3, <2>1, <2>2, <3>1, <3>5 DEF LetterArgument
      <4> HIDE DEF r, c
      <4>3. r.ret = Bad(NULL) /\ r.optpos \in Nat
        BY <4>2
      <4>4. QED
        BY <4>1, <4>3, RefusedFollows DEF r, c
    <3>6. QED
      BY <3>3, <3>4, <3>5
  <2>8. QED
    BY <1>1, <2>6, <2>7
<1>8. CASE ch \in DOMAIN Letters /\ Letters[ch] = "none" /\ At(s, pos + 1) \in {"=", " "}
  <2>1. a < n /\ s[a + 1] \in {"=", " "}
    <3>1. a < n
      BY <1>8 DEF At
    <3>2. QED
      BY <1>8, <3>1 DEF At
  <2>2. a \notin Flags(s)
    BY <2>1 DEF Flags
  <2>3. c = Refused
    BY <1>4, <1>5, <1>8, <2>2 DEF LastMeans
  <2>4. r.ret = Bad(From(s, pos + 2)) /\ r.optpos \in Nat
    BY <1>3, <1>8 DEF Letter
  <2>5. From(s, pos + 2) \in Item
    BY <1>1, SubSeqProperties, ElementOfSeq DEF From, Item
  <2> HIDE DEF r, c
  <2>6. QED
    BY <2>3, <2>4, <2>5, RefusedFollows DEF r, c
<1>9. CASE ch \in DOMAIN Letters /\ Letters[ch] = "none" /\ At(s, pos + 1) \notin {"=", " "}
  <2> DEFINE o == Report(ch, NULL)
             d == ClusterMeans(s, pos + 2, next)
  <2>1. a \in Flags(s)
    <3>1. a < n => s[a + 1] \notin {"=", " "}
      BY <1>9 DEF At
    <3>2. QED
      BY <1>1, <1>9, <3>1 DEF Flags
  <2>2. r = [ret |-> o, optpos |-> pos, optind |-> i]
    BY <1>3, <1>9 DEF Letter
  <2>3. c.opts = <<o>> \o d.opts /\ c.took = d.took
    <3>1. a + 1 = pos + 2
      OBVIOUS
    <3>2. QED
      BY <1>1, <1>2, <2>1, <3>1, ClusterFlag
  <2>4. o \in Out
    BY <1>9 DEF Report, Out
  <2>5. a = n => d = Means(<<>>, FALSE)
    <3>1. SUFFICES ASSUME a = n PROVE d = Means(<<>>, FALSE)
      OBVIOUS
    <3>2. pos + 2 = n + 1 /\ pos + 2 \in 1..(n + 1) /\ pos + 2 > n
      BY <1>1, <3>1
    <3>3. pos + 2 \notin Flags(s)
      <4>1. Flags(s) \subseteq 1..n
        BY DEF Flags
      <4>2. QED
        BY <1>1, <3>2, <4>1
    <3>4. d = LastMeans(s, pos + 2, next)
      BY <1>2, <3>2, <3>3, ClusterStop
    <3>5. QED
      BY <3>2, <3>4 DEF LastMeans
  <2>6. Inside(r, s) <=> a < n
    BY <2>2 DEF Inside
  <2>7. Onward(r, s, next) = d
    <3>0. /\ Inside(r, s) => Onward(r, s, next) = ClusterMeans(s, r.optpos + 2, next)
          /\ ~Inside(r, s) => Onward(r, s, next) = Means(<<>>, FALSE)
      BY DEF Onward
    <3> HIDE DEF r
    <3>1. CASE a < n
      BY <2>2, <2>6, <3>0, <3>1
    <3>2. CASE a = n
      <4>1. ~(a < n)
        BY <1>1, <3>2
      <4>2. QED
        BY <2>5, <2>6, <3>0, <3>2, <4>1
    <3>3. QED
      BY <1>1, <3>1, <3>2
  <2>8. a = n => c.took = FALSE
    BY <2>3, <2>5 DEF Means
  <2> HIDE DEF r, c, o, d
  <2>9. ~Inside(r, s) => c.took = FALSE
    BY <1>1, <2>6, <2>8
  <2>10. QED
    BY <2>2, <2>3, <2>4, <2>7, <2>9 DEF Follows, r, c
<1>10. QED
  BY <1>6, <1>7, <1>8, <1>9

\* Min finds the least member.
LEMMA FirstIn ==
    ASSUME NEW W \in SUBSET Nat, W # {}
    PROVE  Min(W) \in W /\ \A x \in W : Min(W) <= x
<1>1. \E m \in W : \A x \in W : m <= x
  BY LeastOne
<1>2. QED
  BY <1>1 DEF Min

\* As NameEnd searches for a separator.
First(t, ch) == SelectInSeq(t, LAMBDA x : x = ch)

\* The first place of a character in an item, 0 if it has none.
LEMMA FirstIs ==
    ASSUME NEW t \in Item, NEW ch
    PROVE  LET f == First(t, ch) IN
           \/ f = 0 /\ \A j \in 1..Len(t) : t[j] # ch
           \/ f \in 1..Len(t) /\ t[f] = ch /\ \A j \in 1..Len(t) : j < f => t[j] # ch
<1> DEFINE W == {j \in 1..Len(t) : t[j] = ch}
           f == First(t, ch)
<1>1. Len(t) \in Nat
  BY LenProperties DEF Item
<1>2. f = IF W # {} THEN Min(W) ELSE 0
  BY DEF SelectInSeq, First
<1>3. W \in SUBSET Nat
  BY <1>1
<1>4. CASE W = {}
  BY <1>2, <1>4
<1>5. CASE W # {}
  <2>1. f = Min(W)
    BY <1>2, <1>5
  <2> HIDE DEF f
  <2>2. f \in W /\ \A x \in W : f <= x
    BY <1>3, <1>5, <2>1, FirstIn
  <2>3. f \in 1..Len(t) /\ t[f] = ch
    BY <2>2
  <2>4. ASSUME NEW j \in 1..Len(t), j < f PROVE t[j] # ch
    <3>1. j \in Int /\ f \in Int /\ ~(f <= j)
      BY <1>1, <2>3, <2>4
    <3>2. j \notin W
      BY <2>2, <3>1
    <3>3. QED
      BY <3>2
  <2>5. QED
    BY <2>3, <2>4 DEF f
<1>6. QED
  BY <1>4, <1>5

\* A name ends behind its first character just when what follows has the form of
\* an argument.
LEMMA NameEndIs ==
    ASSUME NEW t \in Item, t # <<>>
    PROVE  LET rest == SubSeq(t, 2, Len(t)) IN
           /\ NameEnd(t) \in 1..(Len(t) + 1)
           /\ t[1] \notin Separators => (NameEnd(t) = 2 <=> Parts(rest))
           /\ rest \in Item /\ Len(rest) = Len(t) - 1
<1> DEFINE n == Len(t)
           rest == SubSeq(t, 2, Len(t))
           e == First(t, "=")
           b == First(t, " ")
           c == First(t, ":")
           end == NameEnd(t)
<1>1. n \in Nat /\ n >= 1
  BY EmptySeq DEF Item
<1>2. rest \in Item /\ Len(rest) = n - 1 /\ \A i \in 1..(n - 1) : rest[i] = t[i + 1]
  <2>1. \A i \in 2..n : t[i] \in STRING
    BY <1>1, ElementOfSeq DEF Item
  <2>2. /\ rest \in Item /\ Len(rest) = IF 2 <= n THEN n - 2 + 1 ELSE 0
        /\ \A i \in 1..(n - 2 + 1) : rest[i] = t[2 + i - 1]
    BY <1>1, <2>1, SubSeqProperties DEF Item
  <2> HIDE DEF rest
  <2>3. Len(rest) = n - 1
    <3> DEFINE l == Len(rest)
    <3>1. l = IF 2 <= n THEN n - 2 + 1 ELSE 0
      BY <2>2
    <3> HIDE DEF l, n
    <3>2. l = n - 1
      BY <1>1, <3>1
    <3>3. QED
      BY <3>2 DEF l
  <2>4. \A i \in 1..(n - 1) : 2 + i - 1 = i + 1 /\ i \in 1..(n - 2 + 1)
    BY <1>1
  <2>5. QED
    BY <2>2, <2>3, <2>4
<1>3. end = IF e > 0 THEN e ELSE IF b > 0 THEN b ELSE IF c > 0 THEN c ELSE n + 1
  BY DEF NameEnd, First
<1>4. \/ e = 0 /\ \A j \in 1..n : t[j] # "="
      \/ e \in 1..n /\ t[e] = "=" /\ \A j \in 1..n : j < e => t[j] # "="
  BY FirstIs
<1>5. \/ b = 0 /\ \A j \in 1..n : t[j] # " "
      \/ b \in 1..n /\ t[b] = " " /\ \A j \in 1..n : j < b => t[j] # " "
  BY FirstIs
<1>6. \/ c = 0 /\ \A j \in 1..n : t[j] # ":"
      \/ c \in 1..n /\ t[c] = ":" /\ \A j \in 1..n : j < c => t[j] # ":"
  BY FirstIs
<1> HIDE DEF e, b, c, end
<1>13. /\ e \in 0..n /\ b \in 0..n /\ c \in 0..n
       /\ t[1] # "=" => e # 1
       /\ t[1] # " " => b # 1
       /\ t[1] # ":" => c # 1
  <2>1. ASSUME NEW f, NEW ch,
               \/ f = 0 /\ \A j \in 1..n : t[j] # ch
               \/ f \in 1..n /\ t[f] = ch /\ \A j \in 1..n : j < f => t[j] # ch
        PROVE  f \in 0..n /\ (t[1] # ch => f # 1)
    <3> HIDE DEF n
    <3>1. QED
      BY <1>1, <2>1
  <2>2. e \in 0..n /\ (t[1] # "=" => e # 1)
    BY <1>4, <2>1
  <2>3. b \in 0..n /\ (t[1] # " " => b # 1)
    BY <1>5, <2>1
  <2>4. c \in 0..n /\ (t[1] # ":" => c # 1)
    BY <1>6, <2>1
  <2>5. QED
    BY <2>2, <2>3, <2>4
<1>7. end \in 1..(n + 1)
  <2> HIDE DEF n
  <2>1. e \in 0..n /\ b \in 0..n /\ c \in 0..n
    BY <1>13
  <2>2. n + 1 \in 1..(n + 1) /\ \A x \in 0..n : x > 0 => x \in 1..(n + 1)
    BY <1>1
  <2>3. QED
    BY <1>3, <2>1, <2>2
<1>8. ASSUME NEW ch PROVE ch \in ToSet(rest) <=> \E j \in 2..n : t[j] = ch
  <2>1. ToSet(rest) = {rest[i] : i \in 1..(n - 1)}
    <3>1. DOMAIN rest = 1..(n - 1)
      BY <1>2, LenProperties DEF Item
    <3>2. QED
      BY <3>1 DEF ToSet
  <2>2. ASSUME NEW i \in 1..(n - 1) PROVE i + 1 \in 2..n /\ rest[i] = t[i + 1]
    BY <1>1, <1>2
  <2>3. ASSUME NEW j \in 2..n PROVE j - 1 \in 1..(n - 1) /\ rest[j - 1] = t[j]
    <3>1. j - 1 \in 1..(n - 1) /\ (j - 1) + 1 = j
      BY <1>1
    <3>2. QED
      BY <1>2, <3>1
  <2> HIDE DEF rest
  <2>4. QED
    BY <2>1, <2>2, <2>3
<1>9. n >= 2 => rest # <<>> /\ rest[1] = t[2] /\ 2 \in 2..n
  <2>1. SUFFICES ASSUME n >= 2 PROVE rest # <<>> /\ rest[1] = t[2] /\ 2 \in 2..n
    OBVIOUS
  <2> HIDE DEF rest
  <2>5. n - 1 # 0 /\ 1 \in 1..(n - 1)
    BY <1>1, <2>1
  <2>2. Len(rest) # 0 /\ rest[1] = t[1 + 1]
    BY <1>2, <2>5
  <2>3. 1 + 1 = 2 /\ 2 \in 2..n
    BY <1>1, <2>1
  <2>4. QED
    BY <2>2, <2>3
<1>10. n = 1 => rest = <<>>
  BY <1>1, SubSeqEmpty
<1>11. ASSUME t[1] \notin Separators PROVE end = 2 <=> Parts(rest)
  <2> HIDE DEF rest
  <2>1. t[1] # "=" /\ t[1] # " " /\ t[1] # ":"
    BY <1>11 DEF Separators
  <2>2. CASE n = 1
    <3>1. \A j \in 1..n : j = 1
      BY <1>1, <2>2
    <3>2. e = 0 /\ b = 0 /\ c = 0
      BY <1>4, <1>5, <1>6, <2>1, <3>1
    <3>3. end = 2
      BY <1>3, <2>2, <3>2
    <3>4. QED
      BY <1>10, <2>2, <3>3 DEF Parts
  <2>3. CASE n # 1
    <3>1. n >= 2 /\ n + 1 # 2 /\ 1 \in 1..n /\ 2 \in 1..n
      BY <1>1, <2>3
    <3>2. rest # <<>> /\ rest[1] = t[2]
      BY <1>9, <3>1
    <3>3. ASSUME NEW j \in 2..n PROVE j \in 1..n
      BY <3>1
    <3>4. /\ e # 1 /\ b # 1 /\ c # 1
          /\ e \in Nat /\ b \in Nat /\ c \in Nat
      <4>1. e # 1 /\ b # 1 /\ c # 1
        BY <1>13, <2>1
      <4>2. e \in 0..n /\ b \in 0..n /\ c \in 0..n
        BY <1>13
      <4>3. QED
        BY <1>1, <4>1, <4>2
    <3>5. /\ e = 2 <=> t[2] = "="
          /\ b = 2 <=> t[2] = " "
          /\ c = 2 <=> t[2] = ":"
      <4>1. 1 < 2 /\ \A j \in 1..n : j < 2 => j = 1
        OBVIOUS
      <4>2. ASSUME NEW f \in Nat, NEW ch, t[1] # ch,
                   \/ f = 0 /\ \A j \in 1..n : t[j] # ch
                   \/ f \in 1..n /\ t[f] = ch /\ \A j \in 1..n : j < f => t[j] # ch
            PROVE  f = 2 <=> t[2] = ch
        <5>1. CASE f = 0
          BY <3>1, <4>2, <5>1
        <5>2. CASE f # 0
          <6>1. f # 1
            BY <4>2, <5>2
          <6>2. t[2] = ch => ~(2 < f)
            BY <3>1, <4>2, <5>2
          <6>3. QED
            BY <4>2, <5>2, <6>1, <6>2
        <5>3. QED
          BY <5>1, <5>2
      <4>3. e = 2 <=> t[2] = "="
        BY <1>4, <2>1, <3>4, <4>2
      <4>4. b = 2 <=> t[2] = " "
        BY <1>5, <2>1, <3>4, <4>2
      <4>5. c = 2 <=> t[2] = ":"
        BY <1>6, <2>1, <3>4, <4>2
      <4>6. QED
        BY <4>3, <4>4, <4>5
    <3>6. /\ "=" \in ToSet(rest) <=> e > 0
          /\ " " \in ToSet(rest) <=> b > 0
      <4>1. ASSUME NEW f \in Nat, f # 1, NEW ch,
                   \/ f = 0 /\ \A j \in 1..n : t[j] # ch
                   \/ f \in 1..n /\ t[f] = ch /\ \A j \in 1..n : j < f => t[j] # ch
            PROVE  ch \in ToSet(rest) <=> f > 0
        <5>1. CASE f = 0
          <6>1. \A j \in 2..n : t[j] # ch
            BY <3>3, <4>1, <5>1
          <6>2. QED
            BY <1>8, <5>1, <6>1
        <5>2. CASE f # 0
          <6>1. f \in 2..n /\ t[f] = ch
            BY <3>1, <4>1, <5>2
          <6>2. QED
            BY <1>8, <5>2, <6>1
        <5>3. QED
          BY <5>1, <5>2
      <4>2. "=" \in ToSet(rest) <=> e > 0
        BY <1>4, <3>4, <4>1
      <4>3. " " \in ToSet(rest) <=> b > 0
        BY <1>5, <3>4, <4>1
      <4>4. QED
        BY <4>2, <4>3
    <3>7. Parts(rest) <=> \/ e = 2
                          \/ b = 2 /\ ~(e > 0)
                          \/ c = 2 /\ ~(e > 0) /\ ~(b > 0)
      BY <3>2, <3>5, <3>6 DEF Parts
    <3>8. end = 2 <=> \/ e = 2
                      \/ b = 2 /\ ~(e > 0)
                      \/ c = 2 /\ ~(e > 0) /\ ~(b > 0)
      BY <1>1, <1>3, <3>1, <3>4
    <3>9. QED
      BY <3>7, <3>8
  <2>4. QED
    BY <2>2, <2>3
<1>12. QED
  BY <1>2, <1>7, <1>11 DEF end

\* A part of an item.
LEMMA PartIs ==
    ASSUME NEW s \in Item, NEW a \in Nat, a >= 1, a <= Len(s) + 1
    PROVE  LET t == SubSeq(s, a, Len(s)) IN
           /\ t \in Item /\ Len(t) = Len(s) + 1 - a
           /\ \A i \in 1..(Len(s) + 1 - a) : t[i] = s[a + i - 1]
<1> DEFINE n == Len(s)
           t == SubSeq(s, a, n)
<1>1. n \in Nat
  BY LenProperties DEF Item
<1>2. \A i \in a..n : s[i] \in STRING
  BY <1>1, ElementOfSeq DEF Item
<1>3. /\ t \in Item /\ Len(t) = IF a <= n THEN n - a + 1 ELSE 0
      /\ \A i \in 1..(n - a + 1) : t[i] = s[a + i - 1]
  BY <1>1, <1>2, SubSeqProperties DEF Item
<1> DEFINE l == Len(t)
<1>4. l = IF a <= n THEN n - a + 1 ELSE 0
  BY <1>3
<1>5. a <= n + 1
  OBVIOUS
<1> HIDE DEF l, n
<1>6. l = n + 1 - a /\ n - a + 1 = n + 1 - a
  BY <1>1, <1>4, <1>5
<1>7. QED
  BY <1>3, <1>6 DEF l, n

\* The part of a part.
LEMMA PartOfPart ==
    ASSUME NEW s \in Item, NEW a \in Nat, a >= 1, a <= Len(s) + 1,
           NEW b \in Nat, b >= 1, b <= Len(s) + 2 - a
    PROVE  LET t == SubSeq(s, a, Len(s)) IN
           SubSeq(t, b, Len(t)) = SubSeq(s, a + b - 1, Len(s))
<1> DEFINE n == Len(s)
           t == SubSeq(s, a, n)
           u == SubSeq(t, b, Len(t))
           w == SubSeq(s, a + b - 1, n)
<1>1. n \in Nat
  BY LenProperties DEF Item
<1>2. t \in Item /\ Len(t) = n + 1 - a /\ \A i \in 1..(n + 1 - a) : t[i] = s[a + i - 1]
  BY PartIs
<1>3. a + b - 1 \in Nat /\ a + b - 1 >= 1 /\ a + b - 1 <= n + 1
  BY <1>1
<1>4. /\ w \in Item /\ Len(w) = n + 1 - (a + b - 1)
      /\ \A i \in 1..(n + 1 - (a + b - 1)) : w[i] = s[(a + b - 1) + i - 1]
  BY <1>3, PartIs
<1>5. b <= (n + 1 - a) + 1
  BY <1>1
<1>6. /\ u \in Item /\ Len(u) = (n + 1 - a) + 1 - b
      /\ \A i \in 1..((n + 1 - a) + 1 - b) : u[i] = t[b + i - 1]
  <2> HIDE DEF t
  <2>1. b <= Len(t) + 1
    BY <1>2, <1>5
  <2>2. /\ u \in Item /\ Len(u) = Len(t) + 1 - b
        /\ \A i \in 1..(Len(t) + 1 - b) : u[i] = t[b + i - 1]
    BY <1>2, <2>1, PartIs
  <2>3. QED
    BY <1>2, <2>2
<1>7. (n + 1 - a) + 1 - b = n + 1 - (a + b - 1)
  BY <1>1
<1>8. ASSUME NEW i \in 1..(n + 1 - (a + b - 1)) PROVE u[i] = w[i]
  <2>1. u[i] = t[b + i - 1]
    BY <1>6, <1>7
  <2>2. b + i - 1 \in 1..(n + 1 - a)
    BY <1>1, <1>3
  <2>3. t[b + i - 1] = s[a + (b + i - 1) - 1]
    BY <1>2, <2>2
  <2>4. a + (b + i - 1) - 1 = (a + b - 1) + i - 1
    BY <1>1
  <2>5. QED
    BY <1>4, <2>1, <2>3, <2>4
<1> HIDE DEF u, w, t
<1>9. u = w
  <2>1. Len(u) = Len(w) /\ u \in Seq(STRING) /\ w \in Seq(STRING)
    BY <1>4, <1>6, <1>7 DEF Item
  <2>2. \A i \in 1..Len(u) : u[i] = w[i]
    BY <1>4, <1>8, <2>1
  <2>3. QED
    BY <2>1, <2>2, SeqEqual
<1>10. QED
  BY <1>9 DEF u, w, t

\* Name finds the option of an item with two dashes, long or a letter.
LEMMA NameFollows ==
    ASSUME NEW s \in Item, Len(s) >= 3, s[2] = "-", NEW i, NEW end, NEW v,
           NEW next, Argument(i, end, v, next)
    PROVE  Follows(Name(s, i, v, end), ItemMeans(s, next), s, i, next)
<1> DEFINE n == Len(s)
           t == SubSeq(s, 3, n)
           m == Len(t)
           e == NameEnd(t)
           name == SubSeq(t, 1, e - 1)
           rest == SubSeq(s, 4, n)
           argument == IF e > m THEN NULL ELSE From(t, e)
           r == Name(s, i, v, end)
           c == ItemMeans(s, next)
<1>1. n \in Nat /\ i \in Nat
  BY LenProperties DEF Item, Argument
<1>2. next \in Item \union {NULL} /\ (i < end <=> next # NULL) /\ (i < end => next = At(v, i))
  BY ArgumentFits DEF Argument
<1>3. t \in Item /\ m = n - 2 /\ m >= 1 /\ m \in Nat /\ t[1] = s[3]
  <2>1. /\ t \in Item /\ Len(t) = n + 1 - 3
        /\ \A j \in 1..(n + 1 - 3) : t[j] = s[3 + j - 1]
    BY <1>1, PartIs
  <2>2. n + 1 - 3 = n - 2 /\ 1 \in 1..(n + 1 - 3) /\ 3 + 1 - 1 = 3
    BY <1>1
  <2>3. QED
    BY <1>1, <2>1, <2>2
<1>4. rest = SubSeq(t, 2, m)
  <2>1. SubSeq(t, 2, Len(t)) = SubSeq(s, 3 + 2 - 1, n)
    BY <1>1, PartOfPart
  <2>2. 3 + 2 - 1 = 4
    OBVIOUS
  <2>3. QED
    BY <2>1, <2>2
<1>5. t # <<>>
  <2> HIDE DEF t
  <2>1. Len(t) # 0
    BY <1>3
  <2>2. QED
    BY <2>1
<1>6. From(s, 2) = t
  BY DEF From
<1>7. c = IF s[2] # "-" THEN ClusterMeans(s, 2, next)
          ELSE IF ~Parts(rest) THEN Refused
          ELSE IF s[3] \in DOMAIN Names THEN LongMeans(Names[s[3]], rest, next)
          ELSE ClusterMeans(s, 3, next)
  BY <1>1 DEF ItemMeans
<1>8. r = LET same(x, j) == [ret |-> x, optpos |-> 0, optind |-> j]
          IN IF Len(name) = 1 /\ name[1] \in DOMAIN Names
             THEN LET o == Names[name[1]] IN
                  IF o.arg = "none" /\ argument # NULL THEN same(Bad(argument), i)
                  ELSE IF o.arg = "required" /\ argument = NULL
                  THEN IF i < end THEN same(Report(o.val, At(v, i)), i + 1)
                       ELSE same(Bad(NULL), i)
                  ELSE same(Report(o.val, argument), i)
             ELSE IF Len(name) = 1 /\ name[1] \in DOMAIN Letters
             THEN Letter(s, 2, i, v, end, argument)
             ELSE same(Bad(NULL), i)
  BY <1>6 DEF Name
<1> HIDE DEF t, m, r, c
<1>9. /\ e \in 1..(m + 1) /\ (s[3] \notin Separators => (e = 2 <=> Parts(rest)))
      /\ rest \in Item /\ Len(rest) = m - 1
  BY <1>3, <1>4, <1>5, NameEndIs DEF m
<1> HIDE DEF e, rest
<1>18. e \in Nat /\ e >= 1 /\ Len(rest) = m - 1
  BY <1>3, <1>9
<1>10. Len(name) = e - 1 /\ (e >= 2 => name[1] = s[3])
  <2>1. \A j \in 1..(e - 1) : t[j] \in STRING
    BY <1>3, <1>9, ElementOfSeq DEF Item, m
  <2>2. /\ Len(name) = IF 1 <= e - 1 THEN e - 1 - 1 + 1 ELSE 0
        /\ \A j \in 1..((e - 1) - 1 + 1) : name[j] = t[1 + j - 1]
    BY <1>9, <2>1, SubSeqProperties
  <2> DEFINE l == Len(name)
  <2>3. l = IF 1 <= e - 1 THEN e - 1 - 1 + 1 ELSE 0
    BY <2>2
  <2>4. e \in Nat /\ e >= 1
    BY <1>3, <1>9
  <2> HIDE DEF l
  <2>5. l = e - 1
    BY <2>3, <2>4
  <2> HIDE DEF name
  <2>6. e >= 2 => 1 \in 1..((e - 1) - 1 + 1) /\ 1 + 1 - 1 = 1
    BY <2>4
  <2>7. QED
    BY <1>3, <2>2, <2>5, <2>6 DEF l
<1> HIDE DEF name
<1>11. argument \in Item \union {NULL}
  <2>1. CASE e > m
    BY <2>1
  <2>2. CASE e <= m
    <3>1. e + 1 \in Nat /\ e + 1 >= 1 /\ e + 1 <= m + 1
      BY <1>3, <1>9, <2>2
    <3>2. From(t, e) \in Item
      BY <1>3, <3>1, PartIs DEF From, m
    <3>3. QED
      BY <3>2
  <2>3. QED
    BY <1>3, <1>9, <2>1, <2>2
<1>12. ASSUME s[3] \notin Separators, Parts(rest)
       PROVE  /\ Len(name) = 1 /\ name[1] = s[3]
              /\ IF rest = <<>> THEN argument = NULL
                 ELSE argument = Tail(rest) /\ argument # NULL /\ argument \in Item
  <2>1. e = 2
    BY <1>9, <1>12
  <2>2. Len(name) = 1 /\ name[1] = s[3]
    BY <1>10, <2>1
  <2>3. CASE rest = <<>>
    <3>1. Len(rest) = 0
      BY <2>3
    <3> DEFINE l == Len(rest)
    <3>4. l = 0 /\ l = m - 1 /\ m \in Nat
      BY <1>3, <1>18, <3>1
    <3> HIDE DEF l
    <3>2. m = 1
      BY <3>4
    <3>3. QED
      BY <2>1, <2>2, <2>3, <3>2
  <2>4. CASE rest # <<>>
    <3>1. Len(rest) \in Nat /\ Len(rest) # 0
      BY <1>9, <2>4, EmptySeq DEF Item
    <3>2. m >= 2
      BY <1>3, <1>18, <3>1
    <3>3. Tail(rest) = SubSeq(rest, 2, Len(rest))
      BY <1>9, <2>4, TailIsSubSeq DEF Item
    <3>4. SubSeq(rest, 2, Len(rest)) = SubSeq(t, 3, m)
      <4>1. 2 <= Len(t) + 1 /\ 2 <= Len(t) + 2 - 2
        BY <1>3, <3>2 DEF m
      <4>2. LET q == SubSeq(t, 2, Len(t)) IN SubSeq(q, 2, Len(q)) = SubSeq(t, 2 + 2 - 1, Len(t))
        BY <1>3, <4>1, PartOfPart
      <4>3. 2 + 2 - 1 = 3
        OBVIOUS
      <4>4. QED
        BY <1>4, <4>2, <4>3 DEF m
    <3>5. argument = From(t, 2)
      BY <1>3, <2>1, <3>2
    <3>6. From(t, 2) = SubSeq(t, 3, m)
      BY DEF From, m
    <3>7. Tail(rest) \in Item
      BY <1>9, <2>4, HeadTailProperties DEF Item
    <3>8. QED
      BY <2>2, <2>4, <3>3, <3>4, <3>5, <3>6, <3>7, NullAssumption DEF Item
  <2>5. QED
    BY <2>3, <2>4
<1>13. ASSUME s[3] \in Separators \/ ~Parts(rest)
       PROVE  r.ret = Bad(NULL) /\ r.optpos \in Nat /\ c = Refused
  <2>1. s[3] \in Separators => s[3] \notin DOMAIN Names /\ s[3] \notin DOMAIN Letters
    BY OptionsAssumption
  <2>2. ~(Len(name) = 1 /\ (name[1] \in DOMAIN Names \/ name[1] \in DOMAIN Letters))
    <3>1. CASE s[3] \in Separators
      <4>1. Len(name) = 1 => e >= 2
        BY <1>18, <1>10
      <4>2. QED
        BY <1>10, <2>1, <3>1, <4>1
    <3>2. CASE s[3] \notin Separators
      <4>1. e # 2
        BY <1>9, <1>13, <3>2
      <4>2. Len(name) # 1
        BY <1>3, <1>9, <1>10, <4>1
      <4>3. QED
        BY <4>2
    <3>3. QED
      BY <3>1, <3>2
  <2>3. r = [ret |-> Bad(NULL), optpos |-> 0, optind |-> i]
    BY <1>8, <2>2
  <2>4. c = Refused
    <3>1. CASE ~Parts(rest)
      BY <1>7, <3>1
    <3>2. CASE Parts(rest)
      <4>1. s[3] \in Separators
        BY <1>13, <3>2
      <4>2. c = ClusterMeans(s, 3, next)
        BY <1>7, <2>1, <3>2, <4>1
      <4>3. 3 \notin Flags(s) /\ 3 \in 1..(n + 1) /\ ~(3 > n)
        <5>1. 3 \notin Flags(s)
          BY <2>1, <4>1 DEF Flags
        <5>2. 3 \in 1..(n + 1) /\ ~(3 > n)
          BY <1>1
        <5>3. QED
          BY <5>1, <5>2
      <4>4. c = LastMeans(s, 3, next)
        BY <1>2, <4>2, <4>3, ClusterStop
      <4>5. QED
        BY <2>1, <4>1, <4>3, <4>4 DEF LastMeans
    <3>3. QED
      BY <3>1, <3>2
  <2>5. QED
    BY <2>3, <2>4
<1>14. CASE s[3] \in Separators \/ ~Parts(rest)
  BY <1>13, <1>14, RefusedFollows DEF r, c
<1>15. CASE s[3] \notin Separators /\ Parts(rest) /\ s[3] \in DOMAIN Names
  <2> DEFINE o == Names[s[3]]
  <2>1. c = LongMeans(o, rest, next)
    BY <1>7, <1>15
  <2>2. /\ Len(name) = 1 /\ name[1] = s[3]
        /\ IF rest = <<>> THEN argument = NULL
           ELSE argument = Tail(rest) /\ argument # NULL /\ argument \in Item
    BY <1>12, <1>15
  <2> HIDE DEF argument
  <2>3. r = IF o.arg = "none" /\ argument # NULL
            THEN [ret |-> Bad(argument), optpos |-> 0, optind |-> i]
            ELSE IF o.arg = "required" /\ argument = NULL
            THEN IF i < end THEN [ret |-> Report(o.val, At(v, i)), optpos |-> 0, optind |-> i + 1]
                 ELSE [ret |-> Bad(NULL), optpos |-> 0, optind |-> i]
            ELSE [ret |-> Report(o.val, argument), optpos |-> 0, optind |-> i]
    BY <1>8, <1>15, <2>2
  <2>4. \A x \in Item \union {NULL} : Report(o.val, x) \in Out
    BY <1>15 DEF Report, Out
  <2>5. \A x, j : ~Inside([ret |-> x, optpos |-> 0, optind |-> j], s)
    BY DEF Inside
  <2> HIDE DEF o
  <2>6. CASE o.arg = "none" /\ argument # NULL
    <3>1. c = Refused
      BY <2>1, <2>2, <2>6 DEF LongMeans
    <3>2. r.ret = Bad(argument) /\ r.optpos \in Nat
      BY <2>3, <2>6
    <3>3. QED
      BY <1>11, <3>1, <3>2, RefusedFollows DEF r, c, argument
  <2>7. CASE o.arg = "required" /\ argument = NULL /\ i < end
    <3>1. r = [ret |-> Report(o.val, next), optpos |-> 0, optind |-> i + 1]
      BY <1>2, <2>3, <2>7
    <3>2. c = Means(<<Report(o.val, next)>>, TRUE)
      BY <1>2, <2>1, <2>2, <2>7 DEF LongMeans
    <3> DEFINE x == Report(o.val, next)
    <3>3. x \in Out
      BY <1>2, <2>4
    <3>4. r.ret = x /\ r.optpos = 0 /\ r.optind = i + 1 /\ ~Inside(r, s)
      BY <2>5, <3>1
    <3> HIDE DEF x
    <3>5. c = Means(<<x>>, TRUE)
      BY <3>2 DEF x
    <3>6. r.optpos \in Nat /\ r.optind = IF TRUE THEN i + 1 ELSE i
      BY <3>4
    <3>7. Follows(r, c, s, i, next)
      BY <3>3, <3>4, <3>5, <3>6, LoneFollows
    <3>8. QED
      BY <3>7 DEF r, c
  <2>8. CASE o.arg = "required" /\ argument = NULL /\ ~(i < end)
    <3>1. c = Refused
      BY <1>2, <2>1, <2>2, <2>8 DEF LongMeans
    <3>2. r.ret = Bad(NULL) /\ r.optpos \in Nat
      BY <2>3, <2>8
    <3>3. QED
      BY <3>1, <3>2, RefusedFollows DEF r, c
  <2>9. CASE ~(o.arg = "none" /\ argument # NULL) /\ ~(o.arg = "required" /\ argument = NULL)
    <3> DEFINE x == Report(o.val, argument)
    <3>1. r = [ret |-> x, optpos |-> 0, optind |-> i]
      BY <2>3, <2>9
    <3>2. c = Means(<<x>>, FALSE)
      BY <2>1, <2>2, <2>9 DEF LongMeans
    <3>3. x \in Out
      BY <1>11, <2>4 DEF argument
    <3>4. r.ret = x /\ r.optpos = 0 /\ r.optind = i /\ ~Inside(r, s)
      BY <2>5, <3>1
    <3> HIDE DEF x
    <3>5. r.optpos \in Nat /\ r.optind = IF FALSE THEN i + 1 ELSE i
      BY <3>4
    <3>6. Follows(r, c, s, i, next)
      BY <3>2, <3>3, <3>4, <3>5, LoneFollows
    <3>7. QED
      BY <3>6 DEF r, c
  <2>10. QED
    BY <2>6, <2>7, <2>8, <2>9
<1>16. CASE s[3] \notin Separators /\ Parts(rest) /\ s[3] \notin DOMAIN Names
  <2>1. Len(name) = 1 /\ name[1] = s[3]
    BY <1>12, <1>16
  <2>2. c = ClusterMeans(s, 3, next)
    BY <1>7, <1>16
  <2> HIDE DEF argument
  <2>3. CASE s[3] \in DOMAIN Letters
    <3>1. r = Letter(s, 2, i, v, end, argument)
      BY <1>8, <1>16, <2>1, <2>3
    <3>2. 2 + 1 = 3 /\ 2 \in Nat /\ 2 >= 1 /\ 2 < n
      BY <1>1
    <3>3. Follows(Letter(s, 2, i, v, end, argument), ClusterMeans(s, 2 + 1, next), s, i, next)
      BY <1>11, <3>2, LetterFollows DEF argument
    <3>4. QED
      BY <2>2, <3>1, <3>2, <3>3 DEF r, c
  <2>4. CASE s[3] \notin DOMAIN Letters
    <3>1. r = [ret |-> Bad(NULL), optpos |-> 0, optind |-> i]
      BY <1>8, <1>16, <2>1, <2>4
    <3>2. 3 \notin Flags(s) /\ 3 \in 1..(n + 1) /\ ~(3 > n)
      <4>1. 3 \notin Flags(s)
        BY <2>4 DEF Flags
      <4>2. 3 \in 1..(n + 1) /\ ~(3 > n)
        BY <1>1
      <4>3. QED
        BY <4>1, <4>2
    <3>3. c = LastMeans(s, 3, next)
      BY <1>2, <2>2, <3>2, ClusterStop
    <3>4. c = Refused
      BY <2>4, <3>2, <3>3 DEF LastMeans
    <3>5. r.ret = Bad(NULL) /\ r.optpos \in Nat
      BY <3>1
    <3>6. QED
      BY <3>4, <3>5, RefusedFollows DEF r, c
  <2>5. QED
    BY <2>3, <2>4
<1>17. QED
  BY <1>14, <1>15, <1>16

\* The parser finds the first option of an item.
LEMMA ItemFollows ==
    ASSUME NEW s \in Item, IsOption(s), s # EndMark, NEW i, NEW end, NEW v,
           NEW next, Argument(i, end, v, next)
    PROVE  Follows(IF At(s, 1) = "-" THEN Name(s, i, v, end) ELSE Letter(s, 1, i, v, end, NULL),
                   ItemMeans(s, next), s, i, next)
<1> DEFINE n == Len(s)
<1>1. n \in Nat /\ next \in Item \union {NULL}
  BY LenProperties, ArgumentFits DEF Item
<1>2. n >= 1 /\ s[1] = "-"
  BY <1>1 DEF IsOption, At
<1>3. CASE n = 1
  <2>1. At(s, 1) = "" /\ ItemMeans(s, next) = Refused
    BY <1>3 DEF At, ItemMeans
  <2> DEFINE r == Letter(s, 1, i, v, end, NULL)
  <2>2. "" \notin DOMAIN Letters
    BY OptionsAssumption
  <2>3. r = [ret |-> Bad(NULL), optpos |-> 1, optind |-> i]
    BY <2>1, <2>2 DEF Letter
  <2> HIDE DEF r
  <2>4. r.ret = Bad(NULL) /\ r.optpos \in Nat
    BY <2>3
  <2>5. Follows(r, ItemMeans(s, next), s, i, next)
    BY <2>1, <2>4, RefusedFollows
  <2>6. At(s, 1) # "-"
    BY <2>1
  <2>7. QED
    BY <2>5, <2>6 DEF r
<1>4. CASE n > 1 /\ s[2] = "-"
  <2>1. n >= 3
    <3>1. ASSUME n = 2 PROVE FALSE
      <4>1. Len(s) = Len(EndMark) /\ \A j \in 1..Len(s) : s[j] = EndMark[j]
        BY <1>2, <1>4, <3>1 DEF EndMark
      <4>2. EndMark \in Seq(STRING)
        <5>1. "-" \in STRING
          BY <1>2, ElementOfSeq DEF Item
        <5>2. QED
          BY <5>1 DEF EndMark
      <4>3. QED
        BY <4>1, <4>2, SeqEqual DEF Item
    <3>2. n # 2
      BY <3>1
    <3> HIDE DEF n
    <3>3. QED
      BY <1>1, <1>4, <3>2
  <2>2. At(s, 1) = "-"
    BY <1>4 DEF At
  <2>3. QED
    BY <1>4, <2>1, <2>2, NameFollows
<1>5. CASE n > 1 /\ s[2] # "-"
  <2>1. At(s, 1) # "-" /\ ItemMeans(s, next) = ClusterMeans(s, 2, next)
    BY <1>1, <1>5 DEF At, ItemMeans
  <2>2. Follows(Letter(s, 1, i, v, end, NULL), ClusterMeans(s, 1 + 1, next), s, i, next)
    BY <1>5, LetterFollows
  <2>3. QED
    BY <2>1, <2>2
<1>6. n = 1 \/ n > 1
  BY <1>1, <1>2
<1>7. QED
  BY <1>3, <1>4, <1>5, <1>6

\* What holds of an index when it holds of all later ones holds of all.
LEMMA Backwards ==
    ASSUME NEW n \in Nat, NEW S,
           \A i \in 1..n : (\A j \in (i + 1)..n : j \in S) => i \in S
    PROVE  \A i \in 1..n : i \in S
<1> DEFINE W == {k \in Nat : k < n /\ n - k \notin S}
<1>1. W = {}
  <2> SUFFICES ASSUME W # {} PROVE FALSE
    OBVIOUS
  <2>1. PICK k \in W : \A x \in W : k <= x
    BY LeastOne
  <2>2. k \in Nat /\ k < n /\ n - k \notin S
    OBVIOUS
  <2>3. n - k \in 1..n
    BY <2>2
  <2>4. ASSUME NEW j \in (n - k + 1)..n PROVE j \in S
    <3>1. n - j \in Nat /\ n - j < k /\ n - (n - j) = j /\ n - j < n
      BY <2>2, <2>4
    <3>2. n - j \notin W
      <4>1. ~(k <= n - j)
        BY <2>2, <3>1
      <4> HIDE DEF W
      <4>2. QED
        BY <2>1, <4>1
    <3>3. QED
      BY <3>1, <3>2
  <2>5. n - k \in S
    BY <2>3, <2>4
  <2>6. QED
    BY <2>2, <2>5
<1>2. ASSUME NEW i \in 1..n PROVE i \in S
  <2>1. n - i \in Nat /\ n - i < n /\ n - (n - i) = i
    BY <1>2
  <2>2. n - i \notin W
    BY <1>1
  <2>3. QED
    BY <2>1, <2>2
<1>3. QED
  BY <1>2

\* What a line means from an item on.
Reading == [opts : Seq(Out), words : Seq(Item), marked : BOOLEAN]

\* What a line means from each of its items on, as LineMeans has it.
RestOf(perm, line) == CHOOSE f : f = [i \in 1..(Len(line) + 2) |-> RestMeans(perm, line, i, f)]
Rest(line) == RestOf(permute, line)

\* A line means what it does from its first item on.
LEMMA LineIs ==
    ASSUME NEW line
    PROVE  LineMeans(line) = Rest(line)[1]
  BY DEF LineMeans, Rest, RestOf

\* What a line means from an item on needs only the two next ones.
LEMMA RestLocal ==
    ASSUME NEW line, Len(line) \in Nat, NEW i \in Nat, NEW f, NEW g,
           i <= Len(line) => f[i + 1] = g[i + 1] /\ f[i + 2] = g[i + 2]
    PROVE  RestMeans(permute, line, i, f) = RestMeans(permute, line, i, g)
<1>1. CASE i > Len(line)
  BY <1>1 DEF RestMeans
<1>2. CASE i <= Len(line)
  BY <1>2 DEF RestMeans
<1>3. QED
  BY <1>1, <1>2

\* There are such meanings, so that each one follows from the later ones.
LEMMA RestIs ==
    ASSUME NEW line \in Seq(Item)
    PROVE  \A i \in 1..(Len(line) + 2) : Rest(line)[i] = RestMeans(permute, line, i, Rest(line))
<1> DEFINE n == Len(line) + 2
           Right(f, i) == \A j \in i..n : f[j] = RestMeans(permute, line, j, f)
           Fun(f) == f = [j \in 1..n |-> f[j]]
           S == {i \in 1..n : \E f : Fun(f) /\ Right(f, i)}
<1>1. n \in Nat /\ n >= 1 /\ Len(line) \in Nat
  BY LenProperties
<1>2. ASSUME NEW i \in 1..n, \A j \in (i + 1)..n : j \in S PROVE i \in S
  <2>1. \E f : Fun(f) /\ Right(f, i + 1)
    <3>1. CASE i = n
      <4> DEFINE z == [j \in 1..n |-> 0]
      <4>1. Fun(z)
        OBVIOUS
      <4>2. Right(z, i + 1)
        <5>1. (i + 1)..n = {}
          BY <1>1, <3>1
        <5>2. QED
          BY <5>1
      <4>3. QED
        BY <4>1, <4>2
    <3>2. CASE i # n
      <4>1. i + 1 \in (i + 1)..n
        BY <1>1, <3>2
      <4>2. QED
        BY <1>2, <4>1
    <3>3. QED
      BY <3>1, <3>2
  <2>2. PICK f : Fun(f) /\ Right(f, i + 1)
    BY <2>1
  <2> DEFINE g == [j \in 1..n |-> IF j = i THEN RestMeans(permute, line, i, f) ELSE f[j]]
  <2>3. \A j \in 1..n : j # i => g[j] = f[j]
    OBVIOUS
  <2>4. g[i] = RestMeans(permute, line, i, f)
    OBVIOUS
  <2>5. Fun(g)
    OBVIOUS
  <2>6. \A j \in (i + 1)..n : f[j] = RestMeans(permute, line, j, f)
    BY <2>2
  <2> HIDE DEF g
  <2>7. ASSUME NEW j \in i..n PROVE RestMeans(permute, line, j, g) = RestMeans(permute, line, j, f)
    <3>1. j \in Nat /\ j >= i
      BY <1>1, <1>2
    <3>2. ASSUME j <= Len(line) PROVE f[j + 1] = g[j + 1] /\ f[j + 2] = g[j + 2]
      <4>1. j + 1 \in 1..n /\ j + 2 \in 1..n /\ j + 1 # i /\ j + 2 # i
        BY <1>1, <1>2, <3>1, <3>2
      <4>2. QED
        BY <2>3, <4>1
    <3>3. QED
      BY <1>1, <3>1, <3>2, RestLocal
  <2>8. ASSUME NEW j \in i..n PROVE g[j] = RestMeans(permute, line, j, g)
    <3>1. CASE j = i
      BY <2>4, <2>7, <3>1
    <3>2. CASE j # i
      <4>1. j \in (i + 1)..n /\ j \in 1..n
        BY <1>1, <1>2, <3>2
      <4>2. QED
        BY <2>3, <2>6, <2>7, <3>2, <4>1
    <3>3. QED
      BY <3>1, <3>2
  <2>9. QED
    BY <2>5, <2>8
<1>3. 1 \in S
  <2> HIDE DEF S, n
  <2>1. \A i \in 1..n : i \in S
    BY <1>1, <1>2, Backwards
  <2>2. QED
    BY <1>1, <2>1
<1>4. PICK f : Fun(f) /\ Right(f, 1)
  BY <1>3
<1>5. f = [i \in 1..n |-> RestMeans(permute, line, i, f)]
  BY <1>4
<1>6. Rest(line) = [i \in 1..n |-> RestMeans(permute, line, i, Rest(line))]
  <2> DEFINE Rec(h) == [i \in 1..n |-> RestMeans(permute, line, i, h)]
  <2>1. f = Rec(f)
    BY <1>5
  <2>2. Rest(line) = CHOOSE h : h = Rec(h)
    BY DEF Rest, RestOf
  <2> HIDE DEF Rec
  <2>3. Rest(line) = Rec(Rest(line))
    BY <2>1, <2>2
  <2>4. QED
    BY <2>3 DEF Rec
<1> HIDE DEF n
<1>7. \A i \in 1..n : Rest(line)[i] = RestMeans(permute, line, i, Rest(line))
  <2> DEFINE r == Rest(line)
  <2>1. r = [i \in 1..n |-> RestMeans(permute, line, i, r)]
    BY <1>6
  <2> HIDE DEF r
  <2>2. \A i \in 1..n : r[i] = RestMeans(permute, line, i, r)
    BY <2>1
  <2>3. QED
    BY <2>2 DEF r
<1>8. QED
  BY <1>7 DEF n

\* An item means reports, and takes the next one only if there is one.
LEMMA ItemTyped ==
    ASSUME NEW s \in Item, IsOption(s), s # EndMark, NEW next \in Item \union {NULL}
    PROVE  ItemMeans(s, next) \in Meaning /\ (next = NULL => ItemMeans(s, next).took = FALSE)
<1> DEFINE n == Len(s)
           rest == SubSeq(s, 4, n)
<1>1. n \in Nat /\ n >= 1 /\ s[1] = "-"
  <2>1. n \in Nat
    BY LenProperties DEF Item
  <2>2. QED
    BY <2>1 DEF IsOption, At
<1>2. Refused \in Meaning /\ Refused.took = FALSE
  <2>1. Bad(NULL) \in Out
    BY DEF Bad, Report, Out
  <2>2. QED
    BY <2>1, OneMember DEF Refused, Means, Meaning
<1>3. ASSUME NEW a \in 1..(n + 1)
      PROVE  /\ ClusterMeans(s, a, next) \in Meaning
             /\ next = NULL => ClusterMeans(s, a, next).took = FALSE
  <2>1. ClusterMeans(s, a, next) \in Meaning
    BY ClusterTyped
  <2>2. ASSUME next = NULL PROVE ClusterMeans(s, a, next).took = FALSE
    <3> DEFINE b == LastFlag(s, a)
               f == [i \in 1..(b - a + 1) |-> Report(s[a + i - 1], NULL)]
               l == LastMeans(s, b + 1, next)
    <3>1. ClusterMeans(s, a, next) = [l EXCEPT !.opts = f \o l.opts]
      BY DEF ClusterMeans
    <3>2. l.took = FALSE
      BY <1>2, <2>2 DEF LastMeans, Means
    <3>3. b + 1 \in 1..(n + 1)
      BY <1>1, LastFlagFits
    <3>4. l \in Meaning
      BY <3>3, LastTyped
    <3> HIDE DEF l, f
    <3>5. QED
      BY <3>1, <3>2, <3>4 DEF Meaning
  <2>3. QED
    BY <2>1, <2>2
<1>4. CASE n = 1
  BY <1>2, <1>4 DEF ItemMeans
<1>5. CASE n > 1 /\ s[2] # "-"
  <2>1. ItemMeans(s, next) = ClusterMeans(s, 2, next) /\ 2 \in 1..(n + 1)
    BY <1>1, <1>5 DEF ItemMeans
  <2>2. QED
    BY <1>3, <2>1
<1>6. CASE n > 1 /\ s[2] = "-" /\ ~Parts(rest)
  <2>1. ItemMeans(s, next) = Refused
    BY <1>1, <1>6 DEF ItemMeans
  <2>2. QED
    BY <1>2, <2>1
<1>7. CASE n > 1 /\ s[2] = "-" /\ Parts(rest) /\ s[3] \notin DOMAIN Names
  <2>1. ItemMeans(s, next) = ClusterMeans(s, 3, next) /\ 3 \in 1..(n + 1)
    BY <1>1, <1>7 DEF ItemMeans
  <2>2. QED
    BY <1>3, <2>1
<1>8. CASE n > 1 /\ s[2] = "-" /\ Parts(rest) /\ s[3] \in DOMAIN Names
  <2> DEFINE o == Names[s[3]]
  <2>1. ItemMeans(s, next) = LongMeans(o, rest, next)
    BY <1>1, <1>8 DEF ItemMeans
  <2>2. rest \in Item
    <3>1. \A i \in 4..n : s[i] \in STRING
      BY <1>1, ElementOfSeq DEF Item
    <3>2. QED
      BY <1>1, <3>1, SubSeqProperties DEF Item
  <2>3. rest # <<>> => Tail(rest) \in Item
    BY <2>2, HeadTailProperties DEF Item
  <2>4. ASSUME NEW x \in Item \union {NULL}, NEW t \in BOOLEAN
        PROVE  Means(<<Report(o.val, x)>>, t) \in Meaning
    <3>1. Report(o.val, x) \in Out
      BY <1>8 DEF Report, Out
    <3>2. QED
      BY <3>1, OneMember DEF Means, Meaning
  <2> HIDE DEF o, rest
  <2>5. LongMeans(o, rest, next) \in Meaning
    BY <1>2, <2>3, <2>4 DEF LongMeans
  <2>6. next = NULL => LongMeans(o, rest, next).took = FALSE
    BY <1>2 DEF LongMeans, Means
  <2>7. QED
    BY <2>1, <2>5, <2>6
<1>9. n = 1 \/ n > 1
  <2>1. n \in Nat /\ n >= 1
    BY <1>1
  <2> HIDE DEF n
  <2>2. QED
    BY <2>1
<1>10. QED
  BY <1>4, <1>5, <1>6, <1>7, <1>8, <1>9

\* A line means reports and words.
LEMMA RestTyped ==
    ASSUME NEW line \in Seq(Item)
    PROVE  \A i \in 1..(Len(line) + 2) : Rest(line)[i] \in Reading
<1> DEFINE n == Len(line)
           f == Rest(line)
           S == {i \in 1..(n + 2) : f[i] \in Reading}
<1>1. n \in Nat /\ \A i \in 1..n : line[i] \in Item
  BY LenProperties, ElementOfSeq
<1>2. \A i \in 1..(n + 2) : f[i] = RestMeans(permute, line, i, f)
  BY RestIs
<1> HIDE DEF f
<1>3. <<>> \in Seq(Out) /\ <<>> \in Seq(Item)
  BY EmptySeq
<1>4. ASSUME NEW i \in 1..(n + 2), \A j \in (i + 1)..(n + 2) : j \in S PROVE i \in S
  <2>1. CASE i > n
    <3>1. f[i] = [opts |-> <<>>, words |-> <<>>, marked |-> FALSE]
      BY <1>2, <2>1 DEF RestMeans
    <3>2. f[i] \in Reading
      BY <1>3, <3>1 DEF Reading
    <3>3. QED
      BY <3>2
  <2>2. CASE i <= n
    <3> DEFINE next == IF i < n THEN line[i + 1] ELSE NULL
               m == ItemMeans(line[i], next)
               k == IF m.took THEN i + 2 ELSE i + 1
    <3>1. next \in Item \union {NULL}
      BY <1>1, <2>2
    <3>2. f[i] = IF ~IsOption(line[i])
                 THEN IF permute THEN [f[i + 1] EXCEPT !.words = <<line[i]>> \o f[i + 1].words]
                      ELSE [opts |-> <<>>, words |-> SubSeq(line, i, n), marked |-> FALSE]
                 ELSE IF line[i] = EndMark
                 THEN [opts |-> <<>>, words |-> SubSeq(line, i + 1, n), marked |-> i < n]
                 ELSE [f[k] EXCEPT !.opts = m.opts \o f[k].opts]
      <4>1. ~(i > n)
        BY <1>1, <2>2
      <4>2. QED
        BY <1>2, <4>1 DEF RestMeans
    <3>3. i + 1 \in S /\ i + 2 \in S
      BY <1>1, <1>4, <2>2
    <3>4. f[i + 1] \in Reading /\ f[i + 2] \in Reading
      BY <3>3
    <3>5. line[i] \in Item
      BY <1>1, <2>2
    <3>6. CASE ~IsOption(line[i]) /\ permute
      <4>1. <<line[i]>> \in Seq(Item)
        BY <3>5, OneMember
      <4>2. <<line[i]>> \o f[i + 1].words \in Seq(Item)
        BY <3>4, <4>1, ConcatProperties DEF Reading
      <4>3. f[i] \in Reading
        BY <3>2, <3>4, <3>6, <4>2 DEF Reading
      <4>4. QED
        BY <4>3
    <3>7. ASSUME NEW a \in Nat, a >= 1 PROVE SubSeq(line, a, n) \in Seq(Item)
      <4>1. \A j \in a..n : line[j] \in Item
        BY <1>1, <3>7
      <4>2. QED
        BY <1>1, <3>7, <4>1, SubSeqProperties
    <3>8. CASE ~IsOption(line[i]) /\ ~permute
      <4>1. f[i] = [opts |-> <<>>, words |-> SubSeq(line, i, n), marked |-> FALSE]
        BY <3>2, <3>8
      <4>2. SubSeq(line, i, n) \in Seq(Item)
        BY <1>1, <3>7
      <4>3. f[i] \in Reading
        BY <1>3, <4>1, <4>2 DEF Reading
      <4>4. QED
        BY <4>3
    <3>9. CASE IsOption(line[i]) /\ line[i] = EndMark
      <4>1. f[i] = [opts |-> <<>>, words |-> SubSeq(line, i + 1, n), marked |-> i < n]
        BY <3>2, <3>9
      <4>2. SubSeq(line, i + 1, n) \in Seq(Item)
        BY <1>1, <3>7
      <4>3. f[i] \in Reading
        BY <1>3, <4>1, <4>2 DEF Reading
      <4>4. QED
        BY <4>3
    <3>10. CASE IsOption(line[i]) /\ line[i] # EndMark
      <4>1. m \in Meaning
        BY <3>1, <3>5, <3>10, ItemTyped
      <4>2. f[i] = [f[k] EXCEPT !.opts = m.opts \o f[k].opts]
        BY <3>2, <3>10
      <4> HIDE DEF m
      <4>3. f[k] \in Reading
        BY <3>4
      <4> HIDE DEF k
      <4>4. m.opts \o f[k].opts \in Seq(Out)
        BY <4>1, <4>3, ConcatProperties DEF Meaning, Reading
      <4>5. f[i] \in Reading
        BY <4>2, <4>3, <4>4 DEF Reading
      <4>6. QED
        BY <4>5
    <3>11. QED
      BY <3>6, <3>8, <3>9, <3>10
  <2>3. QED
    BY <1>1, <2>1, <2>2
<1>5. n + 2 \in Nat
  BY <1>1
<1>6. \A i \in 1..(n + 2) : i \in S
  <2> HIDE DEF S
  <2>1. QED
    BY <1>4, <1>5, Backwards
<1>7. QED
  BY <1>6 DEF f

\* What is behind the first of two joined sequences is the second.
LEMMA SuffixOfConcat ==
    ASSUME NEW S, NEW a \in Seq(S), NEW b \in Seq(S)
    PROVE  SubSeq(a \o b, Len(a) + 1, Len(a) + Len(b)) = b
<1> DEFINE c == a \o b
           m == Len(a)
           n == Len(b)
           t == SubSeq(c, m + 1, m + n)
<1>1. m \in Nat /\ n \in Nat
  BY LenProperties
<1>2. /\ c \in Seq(S) /\ Len(c) = m + n
      /\ \A i \in 1..(m + n) : c[i] = IF i <= m THEN a[i] ELSE b[i - m]
  BY ConcatProperties
<1> HIDE DEF c
<1>3. \A i \in (m + 1)..(m + n) : c[i] \in S
  <2>1. (m + 1)..(m + n) \subseteq 1..Len(c)
    BY <1>1, <1>2
  <2>2. QED
    BY <1>2, <2>1, ElementOfSeq
<1>4. /\ t \in Seq(S)
      /\ Len(t) = IF m + 1 <= m + n THEN (m + n) - (m + 1) + 1 ELSE 0
      /\ \A i \in 1..((m + n) - (m + 1) + 1) : t[i] = c[(m + 1) + i - 1]
  <2>1. m + 1 \in Int /\ m + n \in Int
    BY <1>1
  <2>2. QED
    BY <1>3, <2>1, SubSeqProperties
<1> HIDE DEF t
<1>5. Len(t) = n
  <2> DEFINE l == Len(t)
  <2>1. l = IF m + 1 <= m + n THEN (m + n) - (m + 1) + 1 ELSE 0
    BY <1>4
  <2> HIDE DEF l, m, n
  <2>2. l = n
    BY <1>1, <2>1
  <2>3. QED
    BY <2>2 DEF l
<1>6. ASSUME NEW i \in 1..n PROVE t[i] = b[i]
  <2>1. i \in 1..((m + n) - (m + 1) + 1) /\ (m + 1) + i - 1 = m + i
    BY <1>1
  <2>2. m + i \in 1..(m + n) /\ ~(m + i <= m) /\ (m + i) - m = i
    BY <1>1
  <2>3. QED
    BY <1>2, <1>4, <2>1, <2>2
<1>7. t = b
  BY <1>4, <1>5, <1>6, SeqEqual
<1>8. QED
  BY <1>7 DEF t, c

\* A part of a sequence, cut in two.
LEMMA CutPart ==
    ASSUME NEW S, NEW v \in Seq(S), NEW i \in Nat, NEW j \in Nat, NEW k \in Nat,
           i <= j, j <= k, k <= Len(v)
    PROVE  /\ SubSeq(v, i + 1, k) = SubSeq(v, i + 1, j) \o SubSeq(v, j + 1, k)
           /\ SubSeq(v, i + 1, k) \in Seq(S)
           /\ Len(SubSeq(v, i + 1, k)) = k - i
           /\ \A x \in 1..(k - i) : SubSeq(v, i + 1, k)[x] = v[i + x]
<1> DEFINE n == Len(v)
           t == SubSeq(v, i + 1, k)
<1>1. n \in Nat
  BY LenProperties
<1>2. i + 1 \in 1..(n + 1) /\ j \in ((i + 1) - 1)..n /\ k \in j..n
  BY <1>1
<1>3. t = SubSeq(v, i + 1, j) \o SubSeq(v, j + 1, k)
  BY <1>2, ConcatAdjacentSubSeq
<1>4. \A x \in (i + 1)..k : v[x] \in S
  <2>1. (i + 1)..k \subseteq 1..n
    BY <1>1
  <2>2. QED
    BY <2>1, ElementOfSeq
<1>5. /\ t \in Seq(S)
      /\ Len(t) = IF i + 1 <= k THEN k - (i + 1) + 1 ELSE 0
      /\ \A x \in 1..(k - (i + 1) + 1) : t[x] = v[(i + 1) + x - 1]
  <2>1. i + 1 \in Int /\ k \in Int
    OBVIOUS
  <2>2. QED
    BY <1>4, <2>1, SubSeqProperties
<1> HIDE DEF t
<1>6. Len(t) = k - i
  <2> DEFINE l == Len(t)
  <2>1. l = IF i + 1 <= k THEN k - (i + 1) + 1 ELSE 0
    BY <1>5
  <2> HIDE DEF l
  <2>2. l = k - i
    BY <2>1
  <2>3. QED
    BY <2>2 DEF l
<1>7. \A x \in 1..(k - i) : t[x] = v[i + x]
  <2>1. k - (i + 1) + 1 = k - i /\ \A x \in Int : (i + 1) + x - 1 = i + x
    OBVIOUS
  <2>2. QED
    BY <1>5, <2>1
<1>8. QED
  BY <1>3, <1>5, <1>6, <1>7 DEF t

\* The members of a part.
LEMMA Part ==
    ASSUME NEW S, NEW v \in Seq(S), NEW i \in Nat, NEW k \in Nat, i <= k, k <= Len(v)
    PROVE  /\ SubSeq(v, i + 1, k) \in Seq(S) /\ Len(SubSeq(v, i + 1, k)) = k - i
           /\ \A x \in 1..(k - i) : SubSeq(v, i + 1, k)[x] = v[i + x]
<1>1. i <= i
  OBVIOUS
<1>2. QED
  BY <1>1, CutPart

\* permute moves k items behind the rest and leaves what was in front of them.
LEMMA Permuted ==
    ASSUME NEW S, NEW v \in Seq(S), NEW i \in Nat, NEW k \in Nat, NEW e \in Nat,
           i + k <= e, e <= Len(v)
    PROVE  LET w == MoveToEnd(v, i, k)  n == Len(v) IN
           /\ w \in Seq(S) /\ Len(w) = n
           /\ \A j \in 1..i : w[j] = v[j]
           /\ \A j \in 1..(e - (i + k)) : w[i + j] = v[i + k + j]
           /\ SubSeq(w, i + 1, n) = SubSeq(v, i + k + 1, n) \o SubSeq(v, i + 1, i + k)
           /\ SubSeq(w, e - k + 1, n) = SubSeq(v, e + 1, n) \o SubSeq(v, i + 1, i + k)
<1> DEFINE n == Len(v)
           w == MoveToEnd(v, i, k)
           P == SubSeq(v, 1, i)
           F == SubSeq(v, i + k + 1, n)
           R == SubSeq(v, i + k + 1, e)
           W == SubSeq(v, e + 1, n)
           K == SubSeq(v, i + 1, i + k)
<1>1. n \in Nat /\ i + k \in Nat
  BY LenProperties
<1>2. P \in Seq(S) /\ Len(P) = i /\ \A x \in 1..i : P[x] = v[x]
  <2>1. 0 \in Nat /\ 0 <= i /\ i <= i /\ i <= n
    BY <1>1
  <2>2. /\ SubSeq(v, 0 + 1, i) \in Seq(S) /\ Len(SubSeq(v, 0 + 1, i)) = i - 0
        /\ \A x \in 1..(i - 0) : SubSeq(v, 0 + 1, i)[x] = v[0 + x]
    BY <2>1, CutPart
  <2>3. 0 + 1 = 1 /\ i - 0 = i /\ \A x \in Int : 0 + x = x
    OBVIOUS
  <2>4. QED
    BY <2>2, <2>3
<1>3. F = R \o W /\ F \in Seq(S) /\ Len(F) = n - (i + k)
  <2>1. ASSUME NEW a \in Nat, a <= e
        PROVE  /\ SubSeq(v, a + 1, n) = SubSeq(v, a + 1, e) \o SubSeq(v, e + 1, n)
               /\ SubSeq(v, a + 1, n) \in Seq(S) /\ Len(SubSeq(v, a + 1, n)) = n - a
    <3>1. n \in Nat /\ e <= n /\ n <= n /\ n <= Len(v)
      BY <1>1
    <3> HIDE DEF n
    <3>2. SubSeq(v, a + 1, n) = SubSeq(v, a + 1, e) \o SubSeq(v, e + 1, n)
      <4>1. a + 1 \in 1..(n + 1) /\ e \in ((a + 1) - 1)..n /\ n \in e..n
        BY <2>1, <3>1
      <4>2. n = Len(v)
        BY DEF n
      <4>3. QED
        BY <4>1, <4>2, ConcatAdjacentSubSeq
    <3>3. SubSeq(v, a + 1, n) \in Seq(S) /\ Len(SubSeq(v, a + 1, n)) = n - a
      BY <2>1, <3>1, CutPart
    <3>4. QED
      BY <3>2, <3>3
  <2>2. QED
    BY <1>1, <2>1
<1>4. /\ R \in Seq(S) /\ Len(R) = e - (i + k)
      /\ \A x \in 1..(e - (i + k)) : R[x] = v[i + k + x]
  <2>1. i + k <= i + k /\ i + k <= e /\ e <= n
    BY <1>1
  <2>2. QED
    BY <1>1, <2>1, CutPart
<1>5. W \in Seq(S) /\ Len(W) = n - e
  <2>1. e <= e /\ e <= n /\ n <= n
    BY <1>1
  <2>2. QED
    BY <1>1, <2>1, CutPart
<1>6. K \in Seq(S) /\ Len(K) = (i + k) - i
  <2>1. i <= i /\ i <= i + k /\ i + k <= n
    BY <1>1
  <2>2. QED
    BY <1>1, <2>1, CutPart
<1>7. w = (P \o F) \o K
  BY DEF MoveToEnd, From
<1> HIDE DEF P, F, R, W, K, w
<1>20. P \in Seq(S) /\ F \in Seq(S) /\ R \in Seq(S) /\ W \in Seq(S) /\ K \in Seq(S)
  BY <1>2, <1>3, <1>4, <1>5, <1>6
<1>21. ASSUME NEW a \in Seq(S), NEW b \in Seq(S), NEW c \in Seq(S)
       PROVE  (a \o b) \o c = a \o (b \o c)
  BY ConcatAssociative
<1>8. w = P \o (F \o K) /\ F \o K = R \o (W \o K)
  <2>1. (P \o F) \o K = P \o (F \o K)
    <3>1. P \in Seq(S) /\ F \in Seq(S) /\ K \in Seq(S)
      BY <1>20
    <3>2. QED
      BY <3>1, ConcatAssociative
  <2>2. (R \o W) \o K = R \o (W \o K)
    <3>1. R \in Seq(S) /\ W \in Seq(S) /\ K \in Seq(S)
      BY <1>20
    <3>2. QED
      BY <3>1, ConcatAssociative
  <2>3. QED
    BY <1>3, <1>7, <2>1, <2>2
<1>9. W \o K \in Seq(S) /\ F \o K \in Seq(S)
  BY <1>20, ConcatProperties
<1>10. w = (P \o R) \o (W \o K)
  <2>1. ASSUME NEW u \in Seq(S), w = P \o (R \o u) PROVE w = (P \o R) \o u
    <3>0. P \in Seq(S) /\ R \in Seq(S)
      BY <1>20
    <3>1. (P \o R) \o u = P \o (R \o u)
      BY <1>21, <3>0, Zenon
    <3>2. QED
      BY <2>1, <3>1
  <2>2. w = P \o (R \o (W \o K))
    BY <1>8
  <2>3. QED
    BY <1>9, <2>1, <2>2
<1>11. Len(W \o K) = n - e + k /\ Len(F \o K) = n - i
  <2>1. Len(W \o K) = Len(W) + Len(K) /\ Len(F \o K) = Len(F) + Len(K)
    <3>1. Len(W \o K) = Len(W) + Len(K)
      BY <1>20, ConcatProperties
    <3>2. Len(F \o K) = Len(F) + Len(K)
      BY <1>20, ConcatProperties
    <3>3. QED
      BY <3>1, <3>2
  <2>2. (n - e) + ((i + k) - i) = n - e + k /\ (n - (i + k)) + ((i + k) - i) = n - i
    BY <1>1
  <2>3. QED
    BY <1>3, <1>5, <1>6, <2>1, <2>2
<1>12. /\ P \o R \in Seq(S) /\ Len(P \o R) = e - k
       /\ \A x \in 1..(e - k) : (P \o R)[x] = IF x <= i THEN P[x] ELSE R[x - i]
  <2>1. i + (e - (i + k)) = e - k
    OBVIOUS
  <2>2. /\ P \o R \in Seq(S) /\ Len(P \o R) = Len(P) + Len(R)
        /\ \A x \in 1..(Len(P) + Len(R)) :
              (P \o R)[x] = IF x <= Len(P) THEN P[x] ELSE R[x - Len(P)]
    BY <1>20, ConcatProperties
  <2>3. Len(P) = i /\ Len(R) = e - (i + k)
    BY <1>2, <1>4
  <2>4. QED
    BY <2>1, <2>2, <2>3
<1>13. w \in Seq(S) /\ Len(w) = n
  <2>1. i + (n - i) = n
    BY <1>1
  <2> DEFINE u == F \o K
  <2>2. u \in Seq(S) /\ w = P \o u /\ Len(u) = n - i
    BY <1>8, <1>9, <1>11
  <2> HIDE DEF u
  <2>3. P \o u \in Seq(S) /\ Len(P \o u) = Len(P) + Len(u)
    BY <1>20, <2>2, ConcatProperties
  <2>4. QED
    BY <1>2, <2>1, <2>2, <2>3
<1>14. SubSeq(w, i + 1, n) = F \o K
  <2> DEFINE u == F \o K
  <2>1. u \in Seq(S) /\ w = P \o u /\ Len(u) = n - i
    BY <1>8, <1>9, <1>11
  <2> HIDE DEF u
  <2>2. SubSeq(w, Len(P) + 1, Len(P) + Len(u)) = u
    BY <1>2, <2>1, SuffixOfConcat
  <2>3. i + (n - i) = n
    BY <1>1
  <2>4. QED
    BY <1>2, <2>1, <2>2, <2>3 DEF u
<1>15. SubSeq(w, e - k + 1, n) = W \o K
  <2> DEFINE u == W \o K
             q == P \o R
  <2>1. u \in Seq(S) /\ w = q \o u /\ Len(u) = n - e + k /\ q \in Seq(S) /\ Len(q) = e - k
    BY <1>9, <1>10, <1>11, <1>12
  <2> HIDE DEF u, q
  <2>2. SubSeq(w, Len(q) + 1, Len(q) + Len(u)) = u
    BY <2>1, SuffixOfConcat
  <2>3. (e - k) + (n - e + k) = n
    BY <1>1
  <2>4. QED
    BY <2>1, <2>2, <2>3 DEF u
<1>16. \A x \in 1..(e - k) : w[x] = IF x <= i THEN P[x] ELSE R[x - i]
  <2> DEFINE u == W \o K
             q == P \o R
  <2>1. /\ u \in Seq(S) /\ w = q \o u /\ Len(u) = n - e + k /\ q \in Seq(S) /\ Len(q) = e - k
        /\ \A x \in 1..(e - k) : q[x] = IF x <= i THEN P[x] ELSE R[x - i]
    BY <1>9, <1>10, <1>11, <1>12
  <2> HIDE DEF u, q
  <2>2. \A x \in 1..(Len(q) + Len(u)) : w[x] = IF x <= Len(q) THEN q[x] ELSE u[x - Len(q)]
    BY <2>1, ConcatProperties
  <2>3. ASSUME NEW x \in 1..(e - k) PROVE x \in 1..((e - k) + (n - e + k)) /\ x <= e - k
    BY <1>1
  <2>4. QED
    BY <2>1, <2>2, <2>3
<1>17. ASSUME NEW j \in 1..i PROVE w[j] = v[j]
  <2>1. j \in 1..(e - k) /\ j <= i
    BY <1>1
  <2>2. QED
    BY <1>2, <1>16, <2>1
<1>18. ASSUME NEW j \in 1..(e - (i + k)) PROVE w[i + j] = v[i + k + j]
  <2>1. i + j \in 1..(e - k) /\ ~(i + j <= i) /\ (i + j) - i = j
    BY <1>1
  <2>2. QED
    BY <1>4, <1>16, <2>1
<1>19. QED
  BY <1>13, <1>14, <1>15, <1>17, <1>18 DEF w, F, W, K

\* The first of the items that stay comes to where the moved ones were.
LEMMA PermutedNext ==
    ASSUME NEW S, NEW v \in Seq(S), NEW i \in Nat, NEW k \in Nat, i + k < Len(v)
    PROVE  MoveToEnd(v, i, k)[i + 1] = v[i + k + 1]
<1> DEFINE e == i + k + 1
<1>1. e \in Nat /\ i + k <= e /\ e <= Len(v) /\ 1 \in 1..(e - (i + k))
  <2>1. Len(v) \in Nat
    BY LenProperties
  <2>2. QED
    BY <2>1
<1> HIDE DEF e
<1> DEFINE w == MoveToEnd(v, i, k)
<1>2. /\ w \in Seq(S) /\ Len(w) = Len(v)
      /\ \A j \in 1..i : w[j] = v[j]
      /\ \A j \in 1..(e - (i + k)) : w[i + j] = v[i + k + j]
      /\ SubSeq(w, i + 1, Len(v)) = SubSeq(v, i + k + 1, Len(v)) \o SubSeq(v, i + 1, i + k)
      /\ SubSeq(w, e - k + 1, Len(v)) = SubSeq(v, e + 1, Len(v)) \o SubSeq(v, i + 1, i + k)
  BY <1>1, Permuted, Zenon
<1>3. QED
  BY <1>1, <1>2

\* The item behind the one at i.
After(line, i) == IF i < Len(line) THEN line[i + 1] ELSE NULL

\* What the line means from item i on.
LEMMA RestAt ==
    ASSUME NEW line \in Seq(Item), NEW i \in 1..Len(line)
    PROVE  LET m == ItemMeans(line[i], After(line, i))
               k == IF m.took THEN i + 2 ELSE i + 1
               f == Rest(line) IN
           /\ ~IsOption(line[i]) /\ permute
                  => f[i] = [f[i + 1] EXCEPT !.words = <<line[i]>> \o f[i + 1].words]
           /\ ~IsOption(line[i]) /\ ~permute
                  => f[i] = [opts |-> <<>>, words |-> SubSeq(line, i, Len(line)), marked |-> FALSE]
           /\ IsOption(line[i]) /\ line[i] = EndMark
                  => f[i] = [opts |-> <<>>, words |-> SubSeq(line, i + 1, Len(line)),
                             marked |-> i < Len(line)]
           /\ IsOption(line[i]) /\ line[i] # EndMark
                  => f[i] = [f[k] EXCEPT !.opts = m.opts \o f[k].opts]
<1> DEFINE n == Len(line)
           f == Rest(line)
<1>1. n \in Nat /\ i \in 1..(n + 2) /\ ~(i > n)
  BY LenProperties
<1>2. f[i] = RestMeans(permute, line, i, f)
  BY <1>1, RestIs
<1> HIDE DEF f
<1>3. f[i] = IF ~IsOption(line[i])
             THEN IF permute THEN [f[i + 1] EXCEPT !.words = <<line[i]>> \o f[i + 1].words]
                  ELSE [opts |-> <<>>, words |-> SubSeq(line, i, n), marked |-> FALSE]
             ELSE IF line[i] = EndMark
             THEN [opts |-> <<>>, words |-> SubSeq(line, i + 1, n), marked |-> i < n]
             ELSE [f[IF ItemMeans(line[i], After(line, i)).took THEN i + 2 ELSE i + 1]
                   EXCEPT !.opts = ItemMeans(line[i], After(line, i)).opts
                                   \o f[IF ItemMeans(line[i], After(line, i)).took
                                        THEN i + 2 ELSE i + 1].opts]
  BY <1>1, <1>2 DEF RestMeans, After
<1>4. QED
  BY <1>3 DEF f

\* Behind the last item there is nothing.
LEMMA RestEnd ==
    ASSUME NEW line \in Seq(Item)
    PROVE  Rest(line)[Len(line) + 1] = [opts |-> <<>>, words |-> <<>>, marked |-> FALSE]
<1> DEFINE n == Len(line)
           f == Rest(line)
<1>1. n \in Nat /\ n + 1 \in 1..(n + 2) /\ n + 1 > n
  BY LenProperties
<1>2. f[n + 1] = RestMeans(permute, line, n + 1, f)
  BY <1>1, RestIs
<1>3. QED
  BY <1>1, <1>2 DEF RestMeans

\* Operands in a row come first among the words, as they stand.
LEMMA RowOfWords ==
    ASSUME NEW line \in Seq(Item), permute, NEW b \in 1..(Len(line) + 1)
    PROVE  \A a \in 1..b :
             (\A j \in a..(b - 1) : ~IsOption(line[j]))
             => /\ Rest(line)[a].opts = Rest(line)[b].opts
                /\ Rest(line)[a].marked = Rest(line)[b].marked
                /\ Rest(line)[a].words = SubSeq(line, a, b - 1) \o Rest(line)[b].words
<1> DEFINE n == Len(line)
           f == Rest(line)
           Row(a) == \A j \in a..(b - 1) : ~IsOption(line[j])
           Fits(a) == /\ f[a].opts = f[b].opts /\ f[a].marked = f[b].marked
                      /\ f[a].words = SubSeq(line, a, b - 1) \o f[b].words
           S == {a \in 1..b : Row(a) => Fits(a)}
<1>1. n \in Nat /\ b \in Nat /\ b <= n + 1 /\ b >= 1
  BY LenProperties
<1>2. \A i \in 1..(n + 2) : f[i] \in Reading
  BY RestTyped
<1>3. ASSUME NEW a \in 1..b, \A j \in (a + 1)..b : j \in S PROVE a \in S
  <2>1. CASE a = b
    <3>1. SubSeq(line, a, b - 1) = <<>>
      BY <1>1, <2>1, SubSeqEmpty
    <3>2. f[b] \in Reading
      BY <1>1, <1>2
    <3> HIDE DEF f
    <3>3. <<>> \o f[b].words = f[b].words
      BY <3>2, ConcatEmptySeq DEF Reading
    <3>4. Fits(a)
      BY <2>1, <3>1, <3>3
    <3>5. QED
      BY <3>4
  <2>2. CASE a # b /\ Row(a)
    <3>1. a + 1 \in 1..b /\ a + 1 \in (a + 1)..b /\ a \in 1..n /\ b - 1 \in a..n /\ a \in a..(b - 1)
      BY <1>1, <2>2
    <3>2. Row(a + 1)
      <4>1. (a + 1)..(b - 1) \subseteq a..(b - 1)
        BY <1>1
      <4>2. QED
        BY <2>2, <4>1
    <3>3. Fits(a + 1)
      BY <1>3, <3>1, <3>2
    <3>4. f[a] = [f[a + 1] EXCEPT !.words = <<line[a]>> \o f[a + 1].words]
      <4>1. ~IsOption(line[a])
        BY <2>2, <3>1
      <4>2. QED
        BY <3>1, <4>1, RestAt
    <3>5. f[a + 1] \in Reading /\ f[b] \in Reading
      BY <1>1, <1>2, <3>1
    <3>6. SubSeq(line, a, b - 1) = <<line[a]>> \o SubSeq(line, a + 1, b - 1)
      BY <3>1, SubSeqRecursiveFirst
    <3>7. <<line[a]>> \in Seq(Item)
      BY <3>1, ElementOfSeq, OneMember
    <3>8. SubSeq(line, a + 1, b - 1) \in Seq(Item)
      <4>1. \A j \in (a + 1)..(b - 1) : line[j] \in Item
        <5>1. (a + 1)..(b - 1) \subseteq 1..n
          BY <1>1
        <5>2. QED
          BY <5>1, ElementOfSeq
      <4>2. a + 1 \in Int /\ b - 1 \in Int
        BY <1>1
      <4>3. QED
        BY <4>1, <4>2, SubSeqProperties
    <3> DEFINE x == <<line[a]>>
               y == SubSeq(line, a + 1, b - 1)
               z == f[b].words
    <3>9. x \o (y \o z) = (x \o y) \o z
      <4>1. z \in Seq(Item)
        BY <3>5 DEF Reading
      <4>2. x \in Seq(Item) /\ y \in Seq(Item)
        BY <3>7, <3>8
      <4> HIDE DEF x, y, z
      <4>3. (x \o y) \o z = x \o (y \o z)
        BY <4>1, <4>2, JoinItems, Zenon
      <4>4. QED
        BY <4>3
    <3> HIDE DEF f
    <3>10. /\ f[a].opts = f[a + 1].opts /\ f[a].marked = f[a + 1].marked
           /\ f[a].words = <<line[a]>> \o f[a + 1].words
      BY <3>4, <3>5 DEF Reading
    <3>11. Fits(a)
      BY <3>3, <3>6, <3>9, <3>10
    <3>12. QED
      BY <3>11
  <2>3. CASE a # b /\ ~Row(a)
    BY <2>3
  <2>4. QED
    BY <2>1, <2>2, <2>3
<1>4. \A a \in 1..b : a \in S
  <2> HIDE DEF S
  <2>1. QED
    BY <1>1, <1>3, Backwards
<1>5. QED
  BY <1>4

-----------------------------------------------------------------------------
\* The parser in the middle of a line: what it has reported, and what c, the
\* options of the item it is reading, and the rest of the line will add, is what
\* the line means; what it has moved behind optend, and the operands to come,
\* are the operands of the line.
Midway(line, f, perm, v, i, end, rep, c) ==
    LET n == Len(line)
        p == n - (end - i)
        k == IF c.took THEN p + 2 ELSE p + 1
    IN /\ v \in Seq(Item) /\ Len(v) = n
       /\ i \in Nat /\ end \in Nat /\ i <= end /\ end <= n
       /\ \A j \in 1..(end - i) : v[i + j] = line[p + j]
       /\ rep \in Seq(Out) /\ c \in Meaning
       /\ c.took => i < end
       /\ f[1].opts = rep \o (c.opts \o f[k].opts)
       /\ f[1].words = SubSeq(v, end + 1, n) \o f[k].words
       /\ f[1].marked = f[k].marked
       /\ ~perm => end = n

\* What a finished item still means.
Nothing == Means(<<>>, FALSE)

\* The meaning of nothing.
LEMMA NothingTyped == Nothing \in Meaning /\ Nothing.took = FALSE /\ Nothing.opts = <<>>
<1>1. Nothing = [opts |-> <<>>, took |-> FALSE]
  BY DEF Nothing, Means
<1>2. <<>> \in Seq(Out)
  BY EmptySeq
<1>3. QED
  BY <1>1, <1>2 DEF Meaning

\* Items that are no options go behind the others, in their order.
LEMMA SkipKeeps ==
    ASSUME NEW line \in Seq(Item), permute, NEW perm, perm,
           NEW v, NEW i, NEW end, NEW rep, NEW k \in Nat,
           Midway(line, Rest(line), perm, v, i, end, rep, Nothing),
           k <= end - i, \A j \in 1..k : ~IsOption(v[i + j])
    PROVE  Midway(line, Rest(line), perm, MoveToEnd(v, i, k), i, end - k, rep, Nothing)
<1> DEFINE n == Len(line)
           f == Rest(line)
           w == MoveToEnd(v, i, k)
           p == n - (end - i)
           q == n - ((end - k) - i)
<1>1. /\ n \in Nat /\ i \in Nat /\ end \in Nat /\ i <= end /\ end <= n
      /\ v \in Seq(Item) /\ Len(v) = n /\ rep \in Seq(Out)
      /\ \A j \in 1..(end - i) : v[i + j] = line[p + j]
      /\ f[1].opts = rep \o (<<>> \o f[p + 1].opts)
      /\ f[1].words = SubSeq(v, end + 1, n) \o f[p + 1].words
      /\ f[1].marked = f[p + 1].marked
  <2>1. n \in Nat
    BY LenProperties
  <2> HIDE DEF f
  <2>2. QED
    BY <2>1, NothingTyped DEF Midway, f
<1>2. /\ p \in Nat /\ q = p + k /\ q \in Nat /\ q <= n /\ i + k <= end /\ i + k \in Nat
      /\ end - k \in Nat /\ i <= end - k /\ end - k <= n
  <2>1. n \in Nat /\ i \in Nat /\ end \in Nat /\ i <= end /\ end <= n
    BY <1>1
  <2> HIDE DEF n
  <2>2. QED
    BY <2>1
<1>3. /\ w \in Seq(Item) /\ Len(w) = n
      /\ \A j \in 1..(end - (i + k)) : w[i + j] = v[i + k + j]
      /\ SubSeq(w, end - k + 1, n) = SubSeq(v, end + 1, n) \o SubSeq(v, i + 1, i + k)
  <2>1. v \in Seq(Item) /\ i \in Nat /\ end \in Nat /\ i + k <= end /\ end <= Len(v)
    BY <1>1, <1>2
  <2>2. /\ w \in Seq(Item) /\ Len(w) = Len(v)
        /\ \A j \in 1..i : w[j] = v[j]
        /\ \A j \in 1..(end - (i + k)) : w[i + j] = v[i + k + j]
        /\ SubSeq(w, i + 1, Len(v)) = SubSeq(v, i + k + 1, Len(v)) \o SubSeq(v, i + 1, i + k)
        /\ SubSeq(w, end - k + 1, Len(v))
              = SubSeq(v, end + 1, Len(v)) \o SubSeq(v, i + 1, i + k)
    BY <2>1, Permuted, Zenon
  <2>3. Len(v) = n
    BY <1>1
  <2>4. QED
    BY <2>2, <2>3
<1>4. ASSUME NEW j \in 1..((end - k) - i) PROVE w[i + j] = line[q + j]
  <2>1. j \in 1..(end - (i + k)) /\ k + j \in 1..(end - i)
    BY <1>1, <1>2
  <2>2. i + k + j = i + (k + j) /\ p + (k + j) = q + j
    BY <1>1, <1>2
  <2>3. w[i + j] = v[i + (k + j)] /\ v[i + (k + j)] = line[p + (k + j)]
    BY <1>1, <1>3, <2>1, <2>2
  <2>4. QED
    BY <2>2, <2>3
<1>5. \A j \in (p + 1)..((q + 1) - 1) : ~IsOption(line[j])
  <2> TAKE j \in (p + 1)..((q + 1) - 1)
  <2>1. j - p \in 1..k /\ j - p \in 1..(end - i) /\ p + (j - p) = j
    BY <1>1, <1>2
  <2>2. QED
    BY <1>1, <2>1
<1>6. /\ f[p + 1].opts = f[q + 1].opts /\ f[p + 1].marked = f[q + 1].marked
      /\ f[p + 1].words = SubSeq(line, p + 1, (q + 1) - 1) \o f[q + 1].words
  <2>1. q + 1 \in 1..(n + 1) /\ p + 1 \in 1..(q + 1)
    <3>1. n \in Nat /\ p \in Nat /\ k \in Nat /\ q \in Nat /\ q = p + k /\ q <= n
      BY <1>1, <1>2
    <3> HIDE DEF n, p, q
    <3>2. QED
      BY <3>1
  <2>2. QED
    BY <1>5, <2>1, RowOfWords
<1>7. SubSeq(line, p + 1, (q + 1) - 1) = SubSeq(v, i + 1, i + k)
  <2> DEFINE a == SubSeq(line, p + 1, q)
             b == SubSeq(v, i + 1, i + k)
  <2>1. a \in Seq(Item) /\ Len(a) = q - p /\ \A x \in 1..(q - p) : a[x] = line[p + x]
    <3>1. p \in Nat /\ q \in Nat /\ p <= p /\ p <= q /\ q <= Len(line)
      <4>1. p \in Nat /\ q = p + k /\ q <= n
        BY <1>2
      <4> HIDE DEF p, q
      <4>2. QED
        BY <4>1
    <3> HIDE DEF p, q
    <3>2. QED
      BY <3>1, Part
  <2>2. b \in Seq(Item) /\ Len(b) = (i + k) - i /\ \A x \in 1..((i + k) - i) : b[x] = v[i + x]
    <3>1. i <= i /\ i <= i + k /\ i + k <= Len(v)
      BY <1>1, <1>2
    <3>2. QED
      BY <1>1, <1>2, <3>1, Part
  <2> HIDE DEF a, b
  <2>3. q - p = k /\ (i + k) - i = k /\ (q + 1) - 1 = q
    BY <1>1, <1>2
  <2>4. ASSUME NEW x \in 1..k PROVE a[x] = b[x]
    <3>1. x \in 1..(end - i)
      <4>1. k <= end - i /\ end - i \in Int
        BY <1>1
      <4>2. QED
        BY <4>1
    <3>2. QED
      BY <1>1, <2>1, <2>2, <2>3, <3>1
  <2>5. a = b
    BY <2>1, <2>2, <2>3, <2>4, SeqEqual
  <2>6. QED
    BY <2>3, <2>5 DEF a, b
<1>8. f[1].words = SubSeq(w, end - k + 1, n) \o f[q + 1].words
  <2> DEFINE x == SubSeq(v, end + 1, n)
             y == SubSeq(v, i + 1, i + k)
             z == f[q + 1].words
  <2>1. x \in Seq(Item)
    <3>1. end <= end /\ end <= n /\ n <= Len(v)
      BY <1>1
    <3>2. QED
      BY <1>1, <3>1, Part
  <2>2. y \in Seq(Item)
    <3>1. i <= i /\ i <= i + k /\ i + k <= Len(v)
      BY <1>1, <1>2
    <3>2. QED
      BY <1>1, <1>2, <3>1, Part
  <2>3. z \in Seq(Item)
    <3>1. f[q + 1] \in Reading
      <4>1. q + 1 \in 1..(n + 2)
        BY <1>1, <1>2
      <4>2. QED
        BY <4>1, RestTyped
    <3> HIDE DEF f
    <3>2. QED
      BY <3>1 DEF Reading
  <2>4. f[1].words = x \o (y \o z) /\ SubSeq(w, end - k + 1, n) = x \o y
    BY <1>1, <1>3, <1>6, <1>7
  <2> HIDE DEF x, y, z
  <2>5. (x \o y) \o z = x \o (y \o z)
    BY <2>1, <2>2, <2>3, ConcatAssociative
  <2>6. QED
    BY <2>4, <2>5 DEF z
<1>9. Midway(line, f, perm, w, i, end - k, rep, Nothing)
  <2> HIDE DEF f, w
  <2>1. SubSeq(w, (end - k) + 1, n) = SubSeq(w, end - k + 1, n)
    OBVIOUS
  <2>2. /\ f[1].opts = rep \o (<<>> \o f[q + 1].opts) /\ f[1].marked = f[q + 1].marked
    BY <1>1, <1>6
  <2> HIDE DEF p
  <2>3. QED
    BY <1>1, <1>2, <1>3, <1>4, <1>8, <2>2, NothingTyped DEF Midway
<1>10. QED
  BY <1>9

\* The argument that an option at the end of the item before optind would take.
Ahead(v, i, end) == IF i < end THEN At(v, i) ELSE NULL

\* rep is how meant begins, what is said of a bad option aside.
Begins(rep, meant) ==
    /\ Len(rep) <= Len(meant)
    /\ \A j \in 1..Len(rep) : Plain(rep[j]) = Plain(meant[j])

\* How a sequence of reports begins.
LEMMA PrefixBegins ==
    ASSUME NEW rep \in Seq(Out), NEW x \in Seq(Out)
    PROVE  Begins(rep, rep \o x)
<1> DEFINE y == rep \o x
           m == Len(rep)
           n == Len(x)
<1>1. m \in Nat /\ n \in Nat
  BY LenProperties
<1>2. Len(y) = m + n /\ \A j \in 1..(m + n) : y[j] = IF j <= m THEN rep[j] ELSE x[j - m]
  BY ConcatProperties
<1> HIDE DEF y
<1>3. m <= Len(y)
  BY <1>1, <1>2
<1>4. ASSUME NEW j \in 1..m PROVE rep[j] = y[j]
  <2>1. j \in 1..(m + n) /\ j <= m
    BY <1>1
  <2>2. QED
    BY <1>2, <2>1
<1>5. QED
  BY <1>3, <1>4 DEF Begins, y

\* One more report, bad where the line has a bad one.
LEMMA BadBegins ==
    ASSUME NEW rep \in Seq(Out), NEW x \in Seq(Out), NEW e \in Out,
           e.opt = "?", x # <<>>, x[1].opt = "?"
    PROVE  Begins(Append(rep, e), rep \o x)
<1> DEFINE y == rep \o x
           a == Append(rep, e)
           m == Len(rep)
           n == Len(x)
<1>1. m \in Nat /\ n \in Nat /\ n >= 1
  BY LenProperties, EmptySeq
<1>2. Len(y) = m + n /\ \A j \in 1..(m + n) : y[j] = IF j <= m THEN rep[j] ELSE x[j - m]
  BY ConcatProperties
<1>3. Len(a) = m + 1 /\ (\A j \in 1..m : a[j] = rep[j]) /\ a[m + 1] = e
  BY AppendProperties
<1> HIDE DEF a, y
<1>4. Len(a) <= Len(y)
  BY <1>1, <1>2, <1>3
<1>5. ASSUME NEW j \in 1..(m + 1) PROVE Plain(a[j]) = Plain(y[j])
  <2>1. CASE j = m + 1
    <3>1. j \in 1..(m + n) /\ ~(j <= m) /\ j - m = 1
      BY <1>1, <2>1
    <3>2. y[j] = x[1] /\ a[j] = e
      BY <1>2, <1>3, <2>1, <3>1
    <3>3. QED
      BY <3>2 DEF Plain
  <2>2. CASE j # m + 1
    <3>1. j \in 1..m /\ j \in 1..(m + n) /\ j <= m
      BY <1>1, <2>2
    <3>2. a[j] = rep[j] /\ y[j] = rep[j]
      BY <1>2, <1>3, <3>1
    <3>3. QED
      BY <3>2
  <2>3. QED
    BY <2>1, <2>2
<1>6. QED
  BY <1>3, <1>4, <1>5 DEF Begins, a, y

\* What of the line is left makes sense wherever the parser stands.
LEMMA MidwayRest ==
    ASSUME NEW line \in Seq(Item), NEW perm, NEW v, NEW i, NEW end, NEW rep, NEW c,
           Midway(line, Rest(line), perm, v, i, end, rep, c)
    PROVE  LET n == Len(line)  p == n - (end - i) IN
           /\ n \in Nat /\ p \in Nat /\ p <= n /\ end - i = n - p
           /\ Rest(line)[IF c.took THEN p + 2 ELSE p + 1] \in Reading
           /\ i < end => p + 1 \in 1..n /\ v[i + 1] = line[p + 1] /\ v[i + 1] \in Item
           /\ \A j \in 1..(i + 1) : j <= end => v[j] \in Item
<1> DEFINE n == Len(line)
           p == n - (end - i)
           k == IF c.took THEN p + 2 ELSE p + 1
<1>1. /\ n \in Nat /\ i \in Nat /\ end \in Nat /\ i <= end /\ end <= n
      /\ v \in Seq(Item) /\ Len(v) = n
      /\ \A j \in 1..(end - i) : v[i + j] = line[p + j]
  <2>1. n \in Nat
    BY LenProperties
  <2>2. QED
    BY <2>1 DEF Midway
<1>2. p \in Nat /\ p <= n /\ end - i = n - p
  <2> HIDE DEF n
  <2>1. QED
    BY <1>1
<1>3. k \in 1..(n + 2)
  <2> HIDE DEF p
  <2>1. QED
    BY <1>1, <1>2
<1>4. Rest(line)[k] \in Reading
  BY <1>3, RestTyped
<1>5. ASSUME i < end PROVE p + 1 \in 1..n /\ v[i + 1] = line[p + 1] /\ v[i + 1] \in Item
  <2>1. 1 \in 1..(end - i) /\ i + 1 \in 1..Len(v)
    BY <1>1, <1>5
  <2>2. p + 1 \in 1..n
    <3> HIDE DEF p
    <3>1. QED
      BY <1>1, <1>2, <1>5
  <2>3. QED
    BY <1>1, <2>1, <2>2, ElementOfSeq
<1>6. ASSUME NEW j \in 1..(i + 1), j <= end PROVE v[j] \in Item
  <2>1. j \in 1..Len(v)
    BY <1>1, <1>6
  <2>2. QED
    BY <1>1, <2>1, ElementOfSeq
<1>7. QED
  BY <1>1, <1>2, <1>4, <1>5, <1>6

\* Reading the next item, an option, adds nothing to what the line means.
LEMMA ReadKeeps ==
    ASSUME NEW line \in Seq(Item), NEW perm, NEW v, NEW i, NEW end, NEW rep,
           Midway(line, Rest(line), perm, v, i, end, rep, Nothing),
           i < end, IsOption(v[i + 1]), v[i + 1] # EndMark
    PROVE  /\ v[i + 1] \in Item /\ i + 1 \in Nat
           /\ Argument(i + 1, end, v, Ahead(v, i + 1, end))
           /\ Midway(line, Rest(line), perm, v, i + 1, end, rep,
                     ItemMeans(v[i + 1], Ahead(v, i + 1, end)))
<1> DEFINE n == Len(line)
           f == Rest(line)
           p == n - (end - i)
           q == n - (end - (i + 1))
           s == v[i + 1]
           next == Ahead(v, i + 1, end)
           m == ItemMeans(s, next)
           k == IF m.took THEN q + 2 ELSE q + 1
<1>1. /\ n \in Nat /\ i \in Nat /\ end \in Nat /\ i <= end /\ end <= n
      /\ v \in Seq(Item) /\ Len(v) = n /\ rep \in Seq(Out)
      /\ \A j \in 1..(end - i) : v[i + j] = line[p + j]
      /\ f[1].opts = rep \o (<<>> \o f[p + 1].opts)
      /\ f[1].words = SubSeq(v, end + 1, n) \o f[p + 1].words
      /\ f[1].marked = f[p + 1].marked
      /\ ~perm => end = n
  <2>1. n \in Nat
    BY LenProperties
  <2> HIDE DEF f
  <2>2. QED
    BY <2>1, NothingTyped DEF Midway, f
<1>2. p \in Nat /\ q = p + 1 /\ q <= n /\ end - i = n - p /\ q \in 1..n /\ end - (i + 1) = n - q
  <2>1. n \in Nat /\ i \in Nat /\ end \in Nat /\ i < end /\ end <= n
    BY <1>1
  <2> HIDE DEF n
  <2>2. QED
    BY <2>1
<1>3. s = line[q] /\ s \in Item
  <2>1. s = line[p + 1] /\ s \in Item
    BY MidwayRest
  <2>2. QED
    BY <1>2, <2>1
<1>4. next = After(line, q) /\ (i + 1 < end => next \in Item) /\ (i + 1 < end <=> q < n)
  <2> HIDE DEF p, q
  <2>0. i + 1 < end <=> q < n
    <3>1. /\ n \in Int /\ i \in Int /\ end \in Int /\ q \in Int
          /\ end - (i + 1) = n - q
      BY <1>1, <1>2
    <3> HIDE DEF n
    <3>2. QED
      BY <3>1
  <2>1. CASE i + 1 < end
    <3>1. 2 \in 1..(end - i) /\ i + 1 < Len(v) /\ (i + 1) + 1 = i + 2 /\ i + 2 \in 1..Len(v)
          /\ q < n /\ q + 1 = p + 2
      BY <1>1, <1>2, <2>1
    <3>2. next = v[i + 2]
      BY <2>1, <3>1 DEF Ahead, At
    <3>3. v[i + 2] = line[p + 2]
      BY <1>1, <3>1 DEF p
    <3>4. v[i + 2] \in Item
      BY <1>1, <3>1, ElementOfSeq
    <3>5. QED
      BY <2>0, <3>1, <3>2, <3>3, <3>4 DEF After
  <2>2. CASE ~(i + 1 < end)
    BY <2>0, <2>2 DEF Ahead, After
  <2>3. QED
    BY <2>1, <2>2
<1>5. Argument(i + 1, end, v, next)
  BY <1>1, <1>4 DEF Argument, Ahead
<1>6. m \in Meaning /\ (m.took => q < n)
  <2>1. next \in Item \union {NULL} /\ (~(i + 1 < end) => next = NULL)
    BY <1>4 DEF Ahead
  <2>2. m \in Meaning /\ (next = NULL => m.took = FALSE)
    BY <1>3, <2>1, ItemTyped
  <2>3. QED
    BY <1>4, <2>1, <2>2
<1>7. f[q] = [f[k] EXCEPT !.opts = m.opts \o f[k].opts]
  <2>1. m = ItemMeans(line[q], After(line, q))
    BY <1>3, <1>4
  <2>2. IsOption(line[q]) /\ line[q] # EndMark
    BY <1>3
  <2>3. (k = IF m.took THEN q + 2 ELSE q + 1)
    OBVIOUS
  <2> HIDE DEF m, q, k
  <2>4. QED
    BY <1>2, <2>1, <2>2, <2>3, RestAt
<1>8. f[k] \in Reading /\ f[q] \in Reading
  <2> HIDE DEF q, m
  <2>1. k \in 1..(n + 2) /\ q \in 1..(n + 2)
    BY <1>1, <1>2
  <2>2. QED
    BY <2>1, RestTyped
<1>9. f[q].opts = m.opts \o f[k].opts /\ f[q].words = f[k].words /\ f[q].marked = f[k].marked
  <2> HIDE DEF f, m, k, q
  <2>1. QED
    BY <1>7, <1>8 DEF Reading
<1>10. <<>> \o f[q].opts = f[q].opts
  <2> HIDE DEF f, q
  <2>1. QED
    BY <1>8, ConcatEmptySeq DEF Reading
<1>11. ASSUME NEW j \in 1..(end - (i + 1)) PROVE v[(i + 1) + j] = line[q + j]
  <2> HIDE DEF q
  <2>1. j + 1 \in 1..(end - i) /\ i + (j + 1) = (i + 1) + j /\ p + (j + 1) = q + j
    BY <1>1, <1>2
  <2>2. v[i + (j + 1)] = line[p + (j + 1)]
    BY <1>1, <2>1
  <2>3. QED
    BY <2>1, <2>2
<1>12. /\ f[1].opts = rep \o (m.opts \o f[k].opts)
       /\ f[1].words = SubSeq(v, end + 1, n) \o f[k].words
       /\ f[1].marked = f[k].marked
  <2>1. p + 1 = q
    BY <1>2
  <2> HIDE DEF f, m, k, q, p
  <2>2. QED
    BY <1>1, <1>9, <1>10, <2>1
<1>13. i + 1 \in Nat /\ i + 1 <= end /\ (m.took => i + 1 < end)
  BY <1>1, <1>4, <1>6
<1>14. Midway(line, f, perm, v, i + 1, end, rep, m)
  <2> HIDE DEF f, m
  <2>1. QED
    BY <1>1, <1>6, <1>11, <1>12, <1>13 DEF Midway
<1>15. QED
  BY <1>3, <1>5, <1>13, <1>14

\* The options of the item at optind that are still to be read.
Open(v, i, end, pos) ==
    IF pos > 0 /\ pos + 1 < Len(v[i]) THEN ClusterMeans(v[i], pos + 2, Ahead(v, i, end))
    ELSE Nothing

\* What is left of an item is reports.
LEMMA OpenTyped ==
    ASSUME NEW v, NEW i, NEW end, NEW pos \in Nat, pos > 0 => v[i] \in Item,
           Ahead(v, i, end) \in Item \union {NULL}
    PROVE  Open(v, i, end, pos) \in Meaning
<1>1. CASE pos > 0 /\ pos + 1 < Len(v[i])
  <2>1. Len(v[i]) \in Nat /\ v[i] \in Item
    BY <1>1, LenProperties DEF Item
  <2>2. pos + 2 \in 1..(Len(v[i]) + 1)
    BY <1>1, <2>1
  <2>3. ClusterMeans(v[i], pos + 2, Ahead(v, i, end)) \in Meaning
    BY <2>1, <2>2, ClusterTyped
  <2>4. QED
    BY <1>1, <2>3 DEF Open
<1>2. CASE ~(pos > 0 /\ pos + 1 < Len(v[i]))
  BY <1>2, NothingTyped DEF Open
<1>3. QED
  BY <1>1, <1>2

\* Between two items, the next one is an item of the line.
LEMMA AheadIs ==
    ASSUME NEW line \in Seq(Item), NEW perm, NEW v, NEW i, NEW end, NEW rep, NEW c,
           Midway(line, Rest(line), perm, v, i, end, rep, c)
    PROVE  Argument(i, end, v, Ahead(v, i, end))
<1>1. i \in Nat /\ end \in Nat /\ end <= Len(v) /\ v \in Seq(Item)
  BY DEF Midway
<1>2. ASSUME i < end PROVE At(v, i) \in Item
  <2>1. i < Len(v) /\ i + 1 \in 1..Len(v)
    BY <1>1, <1>2, LenProperties
  <2>2. QED
    BY <1>1, <2>1, ElementOfSeq DEF At
<1>3. QED
  BY <1>1, <1>2 DEF Argument, Ahead

\* A report adds to what has been reported what it takes from what is to come.
LEMMA FoundKeeps ==
    ASSUME NEW line \in Seq(Item), NEW perm, NEW v, NEW i, NEW end, NEW rep, NEW c, NEW r,
           Midway(line, Rest(line), perm, v, i, end, rep, c), i >= 1,
           Follows(r, c, v[i], i, Ahead(v, i, end))
    PROVE  /\ r.ret.opt = "?" => Begins(Append(rep, r.ret), Rest(line)[1].opts)
           /\ r.ret.opt # "?" =>
              /\ r.optpos \in Nat /\ r.optind \in Nat /\ r.optind >= 1
              /\ Midway(line, Rest(line), perm, v, r.optind, end, Append(rep, r.ret),
                        Open(v, r.optind, end, r.optpos))
<1> DEFINE n == Len(line)
           f == Rest(line)
           p == n - (end - i)
           k == IF c.took THEN p + 2 ELSE p + 1
           M == f[k].opts
           e == r.ret
           new == Append(rep, e)
<1>1. /\ n \in Nat /\ i \in Nat /\ end \in Nat /\ i <= end /\ end <= n
      /\ v \in Seq(Item) /\ Len(v) = n /\ rep \in Seq(Out) /\ c \in Meaning
      /\ \A j \in 1..(end - i) : v[i + j] = line[p + j]
      /\ c.took => i < end
      /\ f[1].opts = rep \o (c.opts \o M)
      /\ f[1].words = SubSeq(v, end + 1, n) \o f[k].words
      /\ f[1].marked = f[k].marked
      /\ ~perm => end = n
  <2>1. n \in Nat
    BY LenProperties
  <2> HIDE DEF f
  <2>2. QED
    BY <2>1 DEF Midway, f
<1>2. c.opts \in Seq(Out) /\ c.took \in BOOLEAN /\ e \in Out /\ r.optpos \in Nat /\ v[i] \in Item
  <2>1. i \in 1..Len(v)
    BY <1>1
  <2>2. QED
    BY <1>1, <2>1, ElementOfSeq DEF Meaning, Follows
<1>3. M \in Seq(Out)
  <2>1. f[k] \in Reading
    BY MidwayRest
  <2> HIDE DEF f, k
  <2>2. QED
    BY <2>1 DEF Reading
<1> DEFINE o == Onward(r, v[i], Ahead(v, i, end))
<1>20. ASSUME c.opts = <<e>> \o o.opts PROVE c.opts # <<>> /\ c.opts[1] = e /\ o \in Meaning
  <2>0. o \in Meaning
    <3>1. CASE Inside(r, v[i])
      <4>1. Ahead(v, i, end) \in Item \union {NULL}
        BY AheadIs, ArgumentFits
      <4>2. Len(v[i]) \in Nat
        BY <1>2, LenProperties DEF Item
      <4>3. r.optpos + 2 \in 1..(Len(v[i]) + 1)
        BY <1>2, <3>1, <4>2 DEF Inside
      <4>4. QED
        BY <1>2, <3>1, <4>1, <4>3, ClusterTyped DEF Onward
    <3>2. CASE ~Inside(r, v[i])
      BY <3>2, NothingTyped DEF Onward, Nothing
    <3>3. QED
      BY <3>1, <3>2
  <2> DEFINE x == o.opts
  <2>1. x \in Seq(Out)
    BY <2>0 DEF Meaning
  <2>2. <<e>> \in Seq(Out) /\ Len(<<e>>) = 1 /\ <<e>>[1] = e
    BY <1>2, OneMember
  <2> HIDE DEF x, e
  <2>3. /\ Len(<<e>> \o x) = 1 + Len(x)
        /\ \A j \in 1..(1 + Len(x)) : (<<e>> \o x)[j] = IF j <= 1 THEN <<e>>[j] ELSE x[j - 1]
    BY <2>1, <2>2, ConcatProperties
  <2>4. Len(x) \in Nat
    BY <2>1, LenProperties
  <2>5. Len(<<e>> \o x) # 0 /\ 1 \in 1..(1 + Len(x)) /\ 1 <= 1
    BY <2>3, <2>4
  <2>6. (<<e>> \o x) # <<>>
    BY <2>5
  <2>7. (<<e>> \o x)[1] = e
    BY <2>2, <2>3, <2>5
  <2>8. QED
    BY <1>20, <2>0, <2>6, <2>7 DEF x
<1>4. ASSUME e.opt = "?" PROVE Begins(new, f[1].opts)
  <2>1. c.opts # <<>> /\ c.opts[1].opt = "?"
    <3>1. CASE c.opts = <<e>> \o o.opts
      BY <1>4, <1>20, <3>1
    <3>2. CASE ~(c.opts = <<e>> \o o.opts)
      BY <1>4, <3>2 DEF Follows
    <3>3. QED
      BY <3>1, <3>2
  <2> DEFINE x == c.opts \o M
             y == c.opts
  <2>2. y \in Seq(Out) /\ x = y \o M
    BY <1>2
  <2> HIDE DEF x, y, M
  <2>3. /\ x \in Seq(Out) /\ Len(x) = Len(y) + Len(M)
        /\ \A j \in 1..(Len(y) + Len(M)) : x[j] = IF j <= Len(y) THEN y[j] ELSE M[j - Len(y)]
    BY <1>3, <2>2, ConcatProperties
  <2>4. Len(y) \in Nat /\ Len(y) >= 1 /\ Len(M) \in Nat
    BY <1>3, <2>1, <2>2, LenProperties, EmptySeq DEF y
  <2>5. x # <<>> /\ x[1] = y[1]
    <3>1. 1 \in 1..(Len(y) + Len(M)) /\ 1 <= Len(y)
      BY <2>4
    <3>2. Len(x) # 0
      BY <2>3, <2>4
    <3>3. QED
      BY <2>3, <3>1, <3>2
  <2>6. x[1].opt = "?"
    BY <2>1, <2>5 DEF y
  <2> HIDE DEF e, f, new
  <2>7. Begins(Append(rep, e), rep \o x)
    BY <1>1, <1>2, <1>4, <2>3, <2>5, <2>6, BadBegins DEF e
  <2>8. f[1].opts = rep \o x
    BY <1>1 DEF x
  <2>9. QED
    BY <2>7, <2>8 DEF new
<1>5. ASSUME e.opt # "?"
      PROVE  Midway(line, f, perm, v, r.optind, end, new, Open(v, r.optind, end, r.optpos))
  <2>1. /\ c.opts = <<e>> \o o.opts
        /\ IF Inside(r, v[i]) THEN r.optind = i /\ c.took = o.took
           ELSE r.optind = IF c.took THEN i + 1 ELSE i
        /\ r.optind # i => r.optpos = 0
    BY <1>5 DEF Follows
  <2>2. o \in Meaning
    BY <1>20, <2>1
  <2>3. Open(v, r.optind, end, r.optpos) = o
    <3>1. CASE Inside(r, v[i])
      BY <2>1, <3>1 DEF Open, Onward, Inside
    <3>2. CASE ~Inside(r, v[i]) /\ r.optind = i
      BY <3>2 DEF Open, Onward, Inside, Nothing
    <3>3. CASE ~Inside(r, v[i]) /\ r.optind # i
      <4>1. r.optpos = 0
        BY <2>1, <3>3
      <4>2. QED
        BY <3>3, <4>1 DEF Open, Onward, Nothing
    <3>4. QED
      BY <3>1, <3>2, <3>3
  <2> DEFINE x == o.opts
             y == <<e>>
  <2>4. x \in Seq(Out) /\ y \in Seq(Out) /\ o.took \in BOOLEAN
    BY <1>2, <2>2, OneMember DEF Meaning
  <2>5. new \in Seq(Out) /\ new = rep \o y
    BY <1>1, <1>2, AppendProperties, AppendIsConcat
  <2>6. f[1].opts = new \o (x \o M)
    <3> HIDE DEF x, y, M, new
    <3>0. x \o M \in Seq(Out)
      BY <1>3, <2>4, ConcatProperties
    <3>1. (y \o x) \o M = y \o (x \o M)
      BY <1>3, <2>4, JoinReports, Zenon
    <3>2. (rep \o y) \o (x \o M) = rep \o (y \o (x \o M))
      BY <1>1, <2>4, <3>0, JoinReports, Zenon
    <3>3. c.opts = y \o x
      BY <2>1 DEF x, y
    <3>4. QED
      BY <1>1, <2>5, <3>1, <3>2, <3>3
  <2> HIDE DEF new, x, y, M, f
  <2>7. CASE Inside(r, v[i])
    <3>1. r.optind = i /\ o.took = c.took
      BY <2>1, <2>7
    <3> HIDE DEF o
    <3>2. Midway(line, f, perm, v, i, end, new, o)
      BY <1>1, <2>2, <2>5, <2>6, <3>1 DEF Midway, x, M
    <3>3. QED
      BY <2>3, <3>1, <3>2
  <2>8. CASE ~Inside(r, v[i]) /\ ~c.took
    <3>1. r.optind = i /\ o.took = c.took
      BY <1>2, <2>1, <2>8, NothingTyped DEF Onward, Nothing
    <3> HIDE DEF o
    <3>2. Midway(line, f, perm, v, i, end, new, o)
      BY <1>1, <2>2, <2>5, <2>6, <3>1 DEF Midway, x, M
    <3>3. QED
      BY <2>3, <3>1, <3>2
  <2>9. CASE ~Inside(r, v[i]) /\ c.took
    <3>1. r.optind = i + 1 /\ o.took = FALSE /\ i < end
      BY <1>1, <1>2, <2>1, <2>9, NothingTyped DEF Onward, Nothing
    <3> HIDE DEF o
    <3> DEFINE q == n - (end - (i + 1))
    <3>2. q = p + 1 /\ q + 1 = k /\ i + 1 \in Nat /\ i + 1 <= end
      <4>1. n \in Nat /\ i \in Nat /\ end \in Nat /\ i < end /\ k = p + 2
        BY <1>1, <2>9, <3>1
      <4> HIDE DEF n, k
      <4>2. QED
        BY <4>1
    <3>3. ASSUME NEW j \in 1..(end - (i + 1)) PROVE v[(i + 1) + j] = line[q + j]
      <4>1. j + 1 \in 1..(end - i) /\ i + (j + 1) = (i + 1) + j /\ p + (j + 1) = (p + 1) + j
        <5>1. i \in Nat /\ end \in Nat /\ p \in Int
          BY <1>1
        <5> HIDE DEF p
        <5>2. QED
          BY <5>1
      <4> HIDE DEF q
      <4>2. v[i + (j + 1)] = line[p + (j + 1)]
        BY <1>1, <4>1
      <4>3. QED
        BY <3>2, <4>1, <4>2
    <3>4. /\ f[1].opts = new \o (o.opts \o f[q + 1].opts)
          /\ f[1].words = SubSeq(v, end + 1, n) \o f[q + 1].words
          /\ f[1].marked = f[q + 1].marked
      <4> HIDE DEF q, k
      <4>1. QED
        BY <1>1, <2>6, <3>2 DEF x, M
    <3>5. Midway(line, f, perm, v, i + 1, end, new, o)
      <4> HIDE DEF k
      <4>1. QED
        BY <1>1, <2>2, <2>5, <3>1, <3>2, <3>3, <3>4 DEF Midway
    <3>6. QED
      BY <2>3, <3>1, <3>5
  <2>10. QED
    BY <2>7, <2>8, <2>9
<1>6. (r.optind \in Nat /\ r.optind >= 1) \/ e.opt = "?"
  <2>1. CASE e.opt # "?"
    <3>1. r.optind = i \/ r.optind = i + 1
      BY <2>1 DEF Follows
    <3>2. QED
      BY <1>1, <3>1
  <2>2. QED
    BY <2>1
<1>7. QED
  BY <1>2, <1>4, <1>5, <1>6

\* What is behind the items in front after a permutation.
LEMMA PermutedBehind ==
    ASSUME NEW S, NEW v \in Seq(S), NEW i \in Nat, NEW k \in Nat, i + k <= Len(v)
    PROVE  /\ MoveToEnd(v, i, k) \in Seq(S) /\ Len(MoveToEnd(v, i, k)) = Len(v)
           /\ SubSeq(MoveToEnd(v, i, k), i + 1, Len(v))
                 = SubSeq(v, i + k + 1, Len(v)) \o SubSeq(v, i + 1, i + k)
<1> DEFINE e == i + k
<1>1. e \in Nat /\ i + k <= e /\ e <= Len(v)
  OBVIOUS
<1> HIDE DEF e
<1>2. QED
  BY <1>1, Permuted

\* What a parser that stops leaves behind optind.
Left(line, f, left) ==
    LET words == f[1].words  n == Len(words) IN
    IF f[1].marked THEN left = <<words[n]>> \o SubSeq(words, 1, n - 1) ELSE left = words

\* At the end of the line.
LEMMA EndKeeps ==
    ASSUME NEW line \in Seq(Item), NEW perm, NEW v, NEW i, NEW end, NEW rep,
           Midway(line, Rest(line), perm, v, i, end, rep, Nothing), ~(i < end)
    PROVE  /\ Rest(line)[1].opts = rep
           /\ Left(line, Rest(line), From(v, i))
<1> DEFINE n == Len(line)
           f == Rest(line)
           p == n - (end - i)
<1>1. /\ n \in Nat /\ i \in Nat /\ end \in Nat /\ i = end /\ end <= n
      /\ v \in Seq(Item) /\ Len(v) = n /\ rep \in Seq(Out)
      /\ f[1].opts = rep \o (<<>> \o f[p + 1].opts)
      /\ f[1].words = SubSeq(v, end + 1, n) \o f[p + 1].words
      /\ f[1].marked = f[p + 1].marked
  <2>1. n \in Nat
    BY LenProperties
  <2>2. i \in Nat /\ end \in Nat /\ i <= end
    BY DEF Midway
  <2>3. i = end
    BY <2>2
  <2> HIDE DEF f
  <2>4. QED
    BY <2>1, <2>3, NothingTyped DEF Midway, f
<1>2. p = n
  <2> HIDE DEF n
  <2>1. QED
    BY <1>1
<1>3. f[p + 1] = [opts |-> <<>>, words |-> <<>>, marked |-> FALSE]
  <2> HIDE DEF p
  <2>1. QED
    BY <1>2, RestEnd
<1> HIDE DEF f, p
<1>4. f[1].opts = rep
  <2>1. f[1].opts = rep \o (<<>> \o <<>>)
    BY <1>1, <1>3
  <2>2. <<>> \o <<>> = <<>> /\ rep \o <<>> = rep
    BY <1>1, EmptySeq, ConcatEmptySeq
  <2>3. QED
    BY <2>1, <2>2
<1>5. f[1].words = SubSeq(v, end + 1, n) /\ f[1].marked = FALSE
  <2>1. SubSeq(v, end + 1, n) \in Seq(Item)
    <3>1. end <= end /\ end <= n /\ n <= Len(v)
      BY <1>1
    <3>2. QED
      BY <1>1, <3>1, Part
  <2>2. SubSeq(v, end + 1, n) \o <<>> = SubSeq(v, end + 1, n)
    BY <2>1, ConcatEmptySeq
  <2>3. QED
    BY <1>1, <1>3, <2>2
<1>6. From(v, i) = SubSeq(v, end + 1, n)
  BY <1>1 DEF From
<1>7. QED
  BY <1>4, <1>5, <1>6 DEF Left, f

\* At an item that is no option, when the line is not permuted.
LEMMA WordKeeps ==
    ASSUME NEW line \in Seq(Item), ~permute, NEW perm, ~perm,
           NEW v, NEW i, NEW end, NEW rep,
           Midway(line, Rest(line), perm, v, i, end, rep, Nothing), i < end,
           ~IsOption(v[i + 1])
    PROVE  /\ Rest(line)[1].opts = rep
           /\ Left(line, Rest(line), From(v, i))
<1> DEFINE n == Len(line)
           f == Rest(line)
           p == n - (end - i)
<1>1. /\ n \in Nat /\ i \in Nat /\ end \in Nat /\ end = n
      /\ v \in Seq(Item) /\ Len(v) = n /\ rep \in Seq(Out)
      /\ \A j \in 1..(end - i) : v[i + j] = line[p + j]
      /\ f[1].opts = rep \o (<<>> \o f[p + 1].opts)
      /\ f[1].words = SubSeq(v, end + 1, n) \o f[p + 1].words
      /\ f[1].marked = f[p + 1].marked
  <2>1. n \in Nat
    BY LenProperties
  <2> HIDE DEF f
  <2>2. QED
    BY <2>1, NothingTyped DEF Midway, f
<1>2. p = i /\ i + 1 \in 1..n
  <2> HIDE DEF n
  <2>1. QED
    BY <1>1
<1>3. f[p + 1] = [opts |-> <<>>, words |-> SubSeq(line, p + 1, n), marked |-> FALSE]
  <2>1. v[i + 1] = line[p + 1] /\ p + 1 \in 1..n
    BY MidwayRest
  <2> HIDE DEF p
  <2>2. QED
    BY <2>1, RestAt
<1> HIDE DEF f, p
<1>4. f[1].opts = rep
  <2>1. f[1].opts = rep \o (<<>> \o <<>>)
    BY <1>1, <1>3
  <2>2. <<>> \o <<>> = <<>> /\ rep \o <<>> = rep
    BY <1>1, EmptySeq, ConcatEmptySeq
  <2>3. QED
    BY <2>1, <2>2
<1> DEFINE a == SubSeq(v, i + 1, n)
           b == SubSeq(line, i + 1, n)
<1>5. a \in Seq(Item) /\ Len(a) = n - i /\ \A x \in 1..(n - i) : a[x] = v[i + x]
  <2>1. i <= i /\ i <= n /\ n <= Len(v)
    BY <1>1
  <2>2. QED
    BY <1>1, <2>1, Part
<1>6. b \in Seq(Item) /\ Len(b) = n - i /\ \A x \in 1..(n - i) : b[x] = line[i + x]
  <2>1. i <= i /\ i <= n /\ n <= Len(line)
    BY <1>1
  <2>2. QED
    BY <1>1, <2>1, Part
<1>7. a = b
  <2> HIDE DEF a, b
  <2>1. \A x \in 1..Len(a) : a[x] = b[x]
    BY <1>1, <1>2, <1>5, <1>6
  <2>2. QED
    BY <1>5, <1>6, <2>1, SeqEqual
<1>8. f[1].words = b /\ f[1].marked = FALSE
  <2>1. SubSeq(v, end + 1, n) = <<>>
    BY <1>1, SubSeqEmpty
  <2> HIDE DEF b
  <2>2. <<>> \o b = b
    BY <1>6, ConcatEmptySeq
  <2>3. f[p + 1].words = b /\ f[p + 1].marked = FALSE
    BY <1>2, <1>3 DEF b
  <2>4. QED
    BY <1>1, <2>1, <2>2, <2>3
<1>9. From(v, i) = a
  BY <1>1 DEF From
<1>10. QED
  BY <1>4, <1>7, <1>8, <1>9 DEF Left, f

\* At an end mark, behind which all but the last item go to the end.
LEMMA MarkKeeps ==
    ASSUME NEW line \in Seq(Item), NEW perm, NEW v, NEW i, NEW end, NEW rep,
           Midway(line, Rest(line), perm, v, i, end, rep, Nothing), i < end,
           IsOption(v[i + 1]), v[i + 1] = EndMark,
           NEW k \in Nat, (i + 1) + k <= end, end - (i + 1) >= 1 => (i + 1) + k + 1 = end
    PROVE  /\ Rest(line)[1].opts = rep
           /\ Left(line, Rest(line), From(MoveToEnd(v, i + 1, k), i + 1))
<1> DEFINE n == Len(line)
           f == Rest(line)
           p == n - (end - i)
           g == i + 1
           W == SubSeq(v, end + 1, n)
           K == SubSeq(v, g + 1, g + k)
           L == SubSeq(line, p + 2, n)
           words == f[1].words
           w == MoveToEnd(v, g, k)
<1>1. /\ n \in Nat /\ i \in Nat /\ end \in Nat /\ end <= n
      /\ v \in Seq(Item) /\ Len(v) = n /\ rep \in Seq(Out)
      /\ \A j \in 1..(end - i) : v[i + j] = line[p + j]
      /\ f[1].opts = rep \o (<<>> \o f[p + 1].opts)
      /\ words = W \o f[p + 1].words
      /\ f[1].marked = f[p + 1].marked
  <2>1. n \in Nat
    BY LenProperties
  <2> HIDE DEF f
  <2>2. QED
    BY <2>1, NothingTyped DEF Midway, f
<1>2. p \in Nat /\ end - i = n - p /\ p + 1 <= n /\ n - (p + 1) = end - g
  <2>1. n \in Nat /\ i \in Nat /\ end \in Nat /\ i < end /\ end <= n
    BY <1>1
  <2> HIDE DEF n
  <2>2. QED
    BY <2>1
<1>3. f[p + 1] = [opts |-> <<>>, words |-> L, marked |-> p + 1 < n]
  <2>1. v[i + 1] = line[p + 1] /\ p + 1 \in 1..n
    BY MidwayRest
  <2>2. (p + 1) + 1 = p + 2
    BY <1>2
  <2>3. IsOption(line[p + 1]) /\ line[p + 1] = EndMark
    BY <2>1
  <2> HIDE DEF p, f
  <2>4. f[p + 1] = [opts |-> <<>>, words |-> SubSeq(line, (p + 1) + 1, n), marked |-> p + 1 < n]
    BY <2>1, <2>3, RestAt DEF f
  <2>5. QED
    BY <2>2, <2>4
<1> HIDE DEF f, p
<1>4. f[1].opts = rep
  <2>1. f[1].opts = rep \o (<<>> \o <<>>)
    BY <1>1, <1>3
  <2>2. <<>> \o <<>> = <<>> /\ rep \o <<>> = rep
    BY <1>1, EmptySeq, ConcatEmptySeq
  <2>3. QED
    BY <2>1, <2>2
<1>5. g \in Nat /\ k \in Nat /\ g + k <= end /\ (end - g >= 1 => g + k + 1 = end)
      /\ (end - g = 0 => k = 0 /\ g = end) /\ end - g \in Nat
  BY <1>1
<1>6. From(w, g) = SubSeq(v, g + k + 1, n) \o K /\ w \in Seq(Item)
  <2>1. g + k <= end /\ end <= Len(v)
    BY <1>1, <1>5
  <2> HIDE DEF w
  <2>2. /\ w \in Seq(Item) /\ Len(w) = Len(v)
        /\ SubSeq(w, g + 1, Len(v)) = SubSeq(v, g + k + 1, Len(v)) \o SubSeq(v, g + 1, g + k)
    <3>1. /\ v \in Seq(Item) /\ g \in Nat /\ k \in Nat /\ end \in Nat
          /\ g + k <= end /\ end <= Len(v)
      BY <1>1, <1>5
    <3>2. ASSUME NEW a \in Nat, a + k <= end
          PROVE  /\ MoveToEnd(v, a, k) \in Seq(Item) /\ Len(MoveToEnd(v, a, k)) = Len(v)
                 /\ SubSeq(MoveToEnd(v, a, k), a + 1, Len(v))
                       = SubSeq(v, a + k + 1, Len(v)) \o SubSeq(v, a + 1, a + k)
      <4>1. v \in Seq(Item) /\ k \in Nat
        BY <3>1
      <4>2. a + k <= Len(v)
        <5>1. Len(v) \in Nat
          BY <4>1, LenProperties
        <5>2. QED
          BY <3>1, <3>2, <5>1
      <4> HIDE DEF w, g, n
      <4>3. QED
        BY <4>1, <4>2, PermutedBehind
    <3> HIDE DEF g
    <3>3. QED
      BY <3>1, <3>2 DEF w
  <2>3. QED
    BY <1>1, <2>2 DEF From
<1>7. W \in Seq(Item) /\ Len(W) = n - end
  <2>1. v \in Seq(Item) /\ end \in Nat /\ n \in Nat /\ end <= n /\ n <= Len(v)
    BY <1>1
  <2> HIDE DEF n
  <2>2. QED
    BY <2>1, Part
<1>8. K \in Seq(Item) /\ Len(K) = k /\ \A x \in 1..k : K[x] = v[g + x]
  <2>1. g + k \in Nat /\ g <= g /\ g <= g + k /\ g + k <= Len(v) /\ (g + k) - g = k
    BY <1>1, <1>5
  <2> HIDE DEF g
  <2>2. QED
    BY <1>1, <1>5, <2>1, Part
<1>9. L \in Seq(Item) /\ Len(L) = end - g /\ \A x \in 1..(end - g) : L[x] = line[(p + 1) + x]
  <2>1. /\ p + 1 \in Nat /\ p + 1 <= n /\ n <= Len(line) /\ (p + 1) + 1 = p + 2
        /\ n \in Nat
    BY <1>1, <1>2
  <2> HIDE DEF n
  <2>2. /\ SubSeq(line, (p + 1) + 1, n) \in Seq(Item)
        /\ Len(SubSeq(line, (p + 1) + 1, n)) = n - (p + 1)
        /\ \A x \in 1..(n - (p + 1)) : SubSeq(line, (p + 1) + 1, n)[x] = line[(p + 1) + x]
    BY <2>1, Part
  <2>3. QED
    BY <1>2, <2>1, <2>2
<1>10. words = W \o L /\ (f[1].marked <=> end - g >= 1)
  <2>1. f[1].marked = (p + 1 < n)
    BY <1>1, <1>3
  <2>2. p + 1 < n <=> end - g >= 1
    BY <1>1, <1>2, <1>5
  <2> HIDE DEF words, W, L
  <2>3. words = W \o L
    BY <1>1, <1>3
  <2>4. QED
    BY <2>1, <2>2, <2>3
<1>11. ASSUME NEW x \in 1..(end - g) PROVE line[(p + 1) + x] = v[g + x]
  <2>1. 1 + x \in 1..(end - i) /\ p + (1 + x) = (p + 1) + x /\ i + (1 + x) = g + x
    BY <1>1, <1>2
  <2>2. v[i + (1 + x)] = line[p + (1 + x)]
    BY <1>1, <2>1
  <2>3. QED
    BY <2>1, <2>2
<1> HIDE DEF W, K, L, w, words
<1>12. CASE end - g = 0
  <2>1. L = <<>>
    BY <1>9, <1>12, EmptySeq
  <2>2. words = W
    BY <1>7, <1>10, <2>1, ConcatEmptySeq
  <2>3. K = <<>>
    BY <1>5, <1>8, <1>12, EmptySeq
  <2>4. SubSeq(v, g + k + 1, n) = W
    <3>1. g + k + 1 = end + 1
      BY <1>5, <1>12
    <3>2. QED
      BY <3>1 DEF W
  <2>5. From(w, g) = W
    BY <1>6, <1>7, <2>3, <2>4, ConcatEmptySeq
  <2>6. ~f[1].marked
    BY <1>10, <1>12
  <2> HIDE DEF g
  <2>7. Left(line, f, From(w, g))
    BY <2>2, <2>5, <2>6 DEF Left, words
  <2>8. QED
    BY <1>4, <2>7 DEF f, w, g
<1>13. CASE end - g >= 1
  <2> DEFINE x == v[end]
             y == <<x>>
  <2>1. x \in Item
    BY <1>1, <1>5, ElementOfSeq
  <2>2. y \in Seq(Item) /\ Len(y) = 1 /\ y[1] = x
    BY <2>1, OneMember
  <2>3. SubSeq(v, g + k + 1, n) = y \o W
    <3>1. g + k + 1 = end /\ end \in 1..Len(v) /\ n \in end..Len(v)
      BY <1>1, <1>5, <1>13
    <3>2. SubSeq(v, end, n) = <<v[end]>> \o SubSeq(v, end + 1, n)
      BY <1>1, <3>1, SubSeqRecursiveFirst
    <3>3. QED
      BY <3>1, <3>2 DEF W
  <2> HIDE DEF y
  <2>4. From(w, g) = y \o (W \o K)
    <3>1. From(w, g) = (y \o W) \o K
      BY <1>6, <2>3
    <3>2. y \in Seq(Item) /\ W \in Seq(Item) /\ K \in Seq(Item)
      BY <1>7, <1>8, <2>2
    <3>3. (y \o W) \o K = y \o (W \o K)
      BY <3>2, JoinItems, Zenon
    <3>4. QED
      BY <3>1, <3>3
  <2>5. L = K \o y
    <3> DEFINE h == K \o y
    <3>1. /\ h \in Seq(Item) /\ Len(h) = k + 1
          /\ \A j \in 1..(k + 1) : h[j] = IF j <= k THEN K[j] ELSE y[j - k]
      <4>1. K \in Seq(Item) /\ y \in Seq(Item) /\ Len(K) = k /\ Len(y) = 1
        BY <1>8, <2>2
      <4>2. /\ K \o y \in Seq(Item) /\ Len(K \o y) = Len(K) + Len(y)
            /\ \A j \in 1..(Len(K) + Len(y)) :
                  (K \o y)[j] = IF j <= Len(K) THEN K[j] ELSE y[j - Len(K)]
        BY <4>1, ConcatProperties
      <4>3. QED
        BY <4>1, <4>2
    <3> HIDE DEF h
    <3>2. k + 1 = end - g /\ g + (k + 1) = end
      BY <1>1, <1>5, <1>13
    <3>3. ASSUME NEW j \in 1..(k + 1) PROVE L[j] = h[j]
      <4>1. L[j] = v[g + j]
        BY <1>9, <1>11, <3>2
      <4>2. CASE j = k + 1
        <5>1. ~(j <= k) /\ j - k = 1
          BY <1>5, <4>2
        <5>2. h[j] = x
          BY <2>2, <3>1, <5>1
        <5>3. QED
          BY <3>2, <4>1, <4>2, <5>2
      <4>3. CASE j # k + 1
        <5>1. j \in 1..k /\ j <= k
          BY <1>5, <4>3
        <5>2. h[j] = K[j] /\ K[j] = v[g + j]
          BY <1>8, <3>1, <5>1
        <5>3. QED
          BY <4>1, <5>2
      <4>4. QED
        BY <4>2, <4>3
    <3>4. L = h
      BY <1>9, <3>1, <3>2, <3>3, SeqEqual
    <3>5. QED
      BY <3>4 DEF h
  <2> DEFINE u == W \o K
  <2>6. u \in Seq(Item) /\ Len(u) \in Nat
    BY <1>7, <1>8, ConcatProperties, LenProperties
  <2>7. words = u \o y
    BY <1>7, <1>8, <1>10, <2>2, <2>5, JoinItems
  <2> DEFINE l == Len(u)
  <2> HIDE DEF u
  <2>8. /\ words \in Seq(Item) /\ Len(words) = l + 1
        /\ \A j \in 1..(l + 1) : words[j] = IF j <= l THEN u[j] ELSE y[j - l]
    <3>1. u \in Seq(Item) /\ y \in Seq(Item) /\ Len(y) = 1
      BY <2>2, <2>6
    <3>2. /\ u \o y \in Seq(Item) /\ Len(u \o y) = Len(u) + Len(y)
          /\ \A j \in 1..(Len(u) + Len(y)) :
                (u \o y)[j] = IF j <= Len(u) THEN u[j] ELSE y[j - Len(u)]
      BY <3>1, ConcatProperties
    <3>3. QED
      BY <2>7, <3>1, <3>2
  <2>9. words[l + 1] = x
    <3>1. l + 1 \in 1..(l + 1) /\ ~(l + 1 <= l) /\ (l + 1) - l = 1
      BY <2>6
    <3>2. QED
      BY <2>2, <2>8, <3>1
  <2>10. SubSeq(words, 1, l) = u
    <3> DEFINE a == SubSeq(words, 1, l)
    <3>1. 0 \in Nat /\ 0 <= 0 /\ 0 <= l /\ l <= Len(words)
      BY <2>6, <2>8
    <3>2. /\ SubSeq(words, 0 + 1, l) \in Seq(Item) /\ Len(SubSeq(words, 0 + 1, l)) = l - 0
          /\ \A j \in 1..(l - 0) : SubSeq(words, 0 + 1, l)[j] = words[0 + j]
      BY <2>6, <2>8, <3>1, Part
    <3>3. 0 + 1 = 1 /\ l - 0 = l /\ \A j \in Int : 0 + j = j
      BY <2>6
    <3>4. a \in Seq(Item) /\ Len(a) = l /\ \A j \in 1..l : a[j] = words[j]
      BY <3>2, <3>3
    <3> HIDE DEF a
    <3>5. ASSUME NEW j \in 1..l PROVE a[j] = u[j]
      <4>1. j \in 1..(l + 1) /\ j <= l
        BY <2>6
      <4>2. QED
        BY <2>8, <3>4, <4>1
    <3>6. a = u
      BY <2>6, <3>4, <3>5, SeqEqual
    <3>7. QED
      BY <3>6 DEF a
  <2>11. From(w, g) = <<words[Len(words)]>> \o SubSeq(words, 1, Len(words) - 1)
    <3>1. Len(words) - 1 = l
      BY <2>6, <2>8
    <3>2. From(w, g) = y \o u
      BY <2>4 DEF u
    <3>3. QED
      BY <2>8, <2>9, <2>10, <3>1, <3>2 DEF y
  <2>12. f[1].marked
    BY <1>10, <1>13
  <2> HIDE DEF g
  <2>13. Left(line, f, From(w, g))
    BY <2>11, <2>12 DEF Left, words
  <2>14. QED
    BY <1>4, <2>13 DEF f, w, g
<1>14. QED
  <2>1. end - g = 0 \/ end - g >= 1
    BY <1>5
  <2>2. QED
    BY <1>12, <1>13, <2>1

\* While the parser reads it stands in the middle of a line; when it stops it has
\* read all of it.
OptInv ==
    /\ given \in Seq(Item) /\ permute \in BOOLEAN
    /\ parsing \in {"parse", "bad", "end"}
    /\ parsing = "parse" =>
          /\ Midway(given, Rest(given), permute, argv, optind, optend, reported,
                    Open(argv, optind, optend, optpos))
          /\ optpos \in Nat
          /\ optpos > 0 => optind >= 1
    /\ parsing = "bad" => Begins(reported, Rest(given)[1].opts)
    /\ parsing = "end" =>
          /\ reported = Rest(given)[1].opts
          /\ Left(given, Rest(given), From(argv, optind))

\* Before the first call nothing has been read.
LEMMA OptFirst == OptionsInit => OptInv
<1> SUFFICES ASSUME OptionsInit PROVE OptInv
  OBVIOUS
<1> DEFINE n == Len(given)
           f == Rest(given)
<1>1. /\ given \in Seq(Item) /\ permute \in BOOLEAN /\ argv = given /\ optind = 0
      /\ optend = n /\ optpos = 0 /\ reported = <<>> /\ parsing = "parse"
  BY LinesAssumption DEF OptionsInit, Item
<1>2. n \in Nat /\ n - (n - 0) = 0 /\ n - 0 = n /\ 0 <= n /\ 0 + 1 = 1
  BY <1>1, LenProperties
<1>3. Open(argv, optind, optend, optpos) = Nothing
  BY <1>1 DEF Open
<1>4. f[1] \in Reading
  <2>1. 1 \in 1..(n + 2)
    BY <1>2
  <2>2. QED
    BY <1>1, <2>1, RestTyped
<1>5. <<>> \o (<<>> \o f[1].opts) = f[1].opts /\ <<>> \o f[1].words = f[1].words
  <2> HIDE DEF f
  <2>1. f[1].opts \in Seq(Out) /\ f[1].words \in Seq(Item)
    BY <1>4 DEF Reading
  <2>2. <<>> \o f[1].opts = f[1].opts
    BY <2>1, ConcatEmptySeq
  <2>3. QED
    BY <2>1, <2>2, ConcatEmptySeq
<1>6. SubSeq(argv, n + 1, n) = <<>>
  BY <1>2, SubSeqEmpty
<1>7. <<>> \in Seq(Out)
  BY EmptySeq
<1>8. \A j \in 1..(n - 0) : argv[0 + j] = given[0 + j]
  BY <1>1
<1> HIDE DEF f, n
<1>9. Midway(given, f, permute, argv, 0, n, <<>>, Nothing)
  <2>1. Len(given) = n
    BY DEF n
  <2>2. n <= n /\ Nothing \in Meaning /\ Nothing.took = FALSE /\ Nothing.opts = <<>> /\ n = n
    BY <1>2, NothingTyped
  <2>3. /\ f[1].opts = <<>> \o (Nothing.opts \o f[1].opts)
        /\ f[1].words = SubSeq(argv, n + 1, n) \o f[1].words
    BY <1>5, <1>6, <2>2
  <2>4. argv \in Seq(Item) /\ Len(argv) = n
    BY <1>1, <2>1
  <2>5. QED
    BY <1>2, <1>7, <1>8, <2>1, <2>2, <2>3, <2>4 DEF Midway
<1>10. Midway(given, f, permute, argv, optind, optend, reported, Nothing)
  BY <1>1, <1>9
<1>11. QED
  BY <1>1, <1>3, <1>10 DEF OptInv, f

\* What a call does with an option it found.
LEMMA FoundStep ==
    ASSUME OptInv, parsing = "parse", NEW r, NEW v, NEW i, NEW end, NEW c,
           Midway(given, Rest(given), permute, v, i, end, reported, c), i >= 1,
           Follows(r, c, v[i], i, Ahead(v, i, end)), Found(r, v, end)
    PROVE  OptInv'
<1> DEFINE f == Rest(given)
           new == Append(reported, r.ret)
<1>1. /\ reported' = new /\ parsing' = IF r.ret.opt = "?" THEN "bad" ELSE "parse"
      /\ argv' = v /\ optend' = end /\ optpos' = r.optpos /\ optind' = r.optind
      /\ given' = given /\ permute' = permute
  BY DEF Found
<1>2. /\ r.ret.opt = "?" => Begins(new, f[1].opts)
      /\ r.ret.opt # "?" =>
         /\ r.optpos \in Nat /\ r.optind \in Nat /\ r.optind >= 1
         /\ Midway(given, f, permute, v, r.optind, end, new, Open(v, r.optind, end, r.optpos))
  BY FoundKeeps DEF OptInv
<1>3. Rest(given)' = f
  BY <1>1 DEF Rest
<1>4. (given \in Seq(Item) /\ permute \in BOOLEAN)'
  BY <1>1 DEF OptInv
<1> HIDE DEF f, new
<1>5. CASE r.ret.opt = "?"
  <2>1. parsing' = "bad" /\ Begins(reported', f[1].opts)
    BY <1>1, <1>2, <1>5
  <2>2. QED
    BY <1>3, <1>4, <2>1 DEF OptInv
<1>6. CASE r.ret.opt # "?"
  <2>1. parsing' = "parse"
    BY <1>1, <1>6
  <2>2. Midway(given', f, permute', argv', optind', optend', reported',
               Open(argv', optind', optend', optpos'))
    BY <1>1, <1>2, <1>6
  <2>3. optpos' \in Nat /\ optind' >= 1
    BY <1>1, <1>2, <1>6
  <2>4. QED
    BY <1>3, <1>4, <2>1, <2>2, <2>3 DEF OptInv
<1>7. QED
  BY <1>5, <1>6

\* What a call does when it stops.
LEMMA StopStep ==
    ASSUME OptInv, NEW v, NEW i, NEW end, Stop(v, i, end),
           Rest(given)[1].opts = reported, Left(given, Rest(given), From(v, i))
    PROVE  OptInv'
<1> DEFINE f == Rest(given)
<1>1. /\ argv' = v /\ optind' = i /\ parsing' = "end"
      /\ given' = given /\ permute' = permute /\ reported' = reported
  BY DEF Stop
<1>2. Rest(given)' = f
  BY <1>1 DEF Rest
<1>3. (given \in Seq(Item) /\ permute \in BOOLEAN)'
  BY <1>1 DEF OptInv
<1>4. From(argv', optind') = From(v, i)
  BY <1>1
<1>5. QED
  BY <1>1, <1>2, <1>3, <1>4 DEF OptInv

\* A call inside an item keeps the invariant.
LEMMA LetterStep == OptInv /\ NextLetter => OptInv'
<1> SUFFICES ASSUME OptInv, NextLetter PROVE OptInv'
  OBVIOUS
<1> DEFINE s == argv[optind]
           r == Letter(s, optpos + 1, optind, argv, optend, NULL)
           c == ClusterMeans(s, optpos + 2, Ahead(argv, optind, optend))
<1>1. /\ parsing = "parse" /\ optpos > 0 /\ optpos + 1 < Len(s)
      /\ Found(r, argv, optend)
  BY DEF NextLetter, InCluster
<1>2. /\ given \in Seq(Item) /\ optpos \in Nat /\ optind >= 1
      /\ Midway(given, Rest(given), permute, argv, optind, optend, reported,
                Open(argv, optind, optend, optpos))
  BY <1>1 DEF OptInv
<1>3. Open(argv, optind, optend, optpos) = c
  BY <1>1 DEF Open
<1>4. s \in Item
  <2>1. optind \in Nat /\ optend \in Nat /\ optind <= optend /\ optend <= Len(argv)
        /\ argv \in Seq(Item)
    BY <1>2 DEF Midway
  <2>2. optind \in 1..Len(argv)
    BY <1>2, <2>1, LenProperties
  <2>3. QED
    BY <2>1, <2>2, ElementOfSeq
<1>5. Argument(optind, optend, argv, Ahead(argv, optind, optend))
  BY <1>2, AheadIs
<1>6. Follows(r, c, s, optind, Ahead(argv, optind, optend))
  <2>1. optpos + 1 \in Nat /\ optpos + 1 >= 1 /\ (optpos + 1) + 1 = optpos + 2
    BY <1>2
  <2>2. Follows(r, ClusterMeans(s, (optpos + 1) + 1, Ahead(argv, optind, optend)), s, optind,
                Ahead(argv, optind, optend))
    BY <1>1, <1>4, <1>5, <2>1, LetterFollows
  <2>3. QED
    BY <2>1, <2>2
<1>7. Midway(given, Rest(given), permute, argv, optind, optend, reported, c)
  BY <1>2, <1>3
<1> HIDE DEF r, c
<1>8. QED
  BY <1>1, <1>2, <1>6, <1>7, FoundStep

\* The items in front of the next option, and the option.
LEMMA SkippedIs ==
    ASSUME argv \in Seq(Item), optind \in Nat, optend \in Nat, optind <= optend
    PROVE  /\ Skipped \in Nat /\ Skipped <= optend - optind
           /\ \A j \in 1..Skipped : ~IsOption(argv[optind + j])
           /\ optind + Skipped < optend => IsOption(argv[optind + Skipped + 1])
<1> DEFINE W == {j \in (optind + 1)..optend : IsOption(argv[j])}
           k == IF W # {} THEN Min(W) ELSE 0
           z == Skipped
<1>1. z = IF k = 0 THEN optend - optind ELSE k - 1 - optind
  BY DEF Skipped, SelectInSubSeq
<1>2. CASE W = {}
  <2>1. z = optend - optind
    BY <1>1, <1>2
  <2> HIDE DEF z
  <2>2. \A j \in 1..z : optind + j \in (optind + 1)..optend
    BY <2>1
  <2>3. z \in Nat /\ z <= optend - optind /\ ~(optind + z < optend)
    BY <2>1
  <2>4. \A j \in 1..z : ~IsOption(argv[optind + j])
    BY <1>2, <2>2
  <2>5. QED
    BY <2>3, <2>4 DEF z
<1>3. CASE W # {}
  <2>1. W \in SUBSET Nat
    OBVIOUS
  <2>2. k \in W /\ \A x \in W : k <= x
    BY <1>3, <2>1, FirstIn
  <2>3. k \in Nat /\ k >= optind + 1 /\ k <= optend /\ IsOption(argv[k])
    BY <2>2
  <2>4. ASSUME NEW x \in (optind + 1)..optend, x < k PROVE ~IsOption(argv[x])
    <3>1. ~(k <= x)
      BY <2>3, <2>4
    <3> HIDE DEF k
    <3>2. QED
      BY <2>2, <3>1
  <2> HIDE DEF k, z
  <2>5. z = k - 1 - optind
    BY <1>1, <2>3
  <2>6. z \in Nat /\ z <= optend - optind /\ optind + z + 1 = k
    BY <2>3, <2>5
  <2>7. ASSUME NEW j \in 1..z PROVE ~IsOption(argv[optind + j])
    <3>1. optind + j \in (optind + 1)..optend /\ optind + j < k
      BY <2>3, <2>6
    <3>2. QED
      BY <2>4, <3>1
  <2>8. QED
    BY <2>3, <2>6, <2>7 DEF z
<1>4. QED
  BY <1>2, <1>3

\* A call that goes on to the next item keeps the invariant.
LEMMA ItemStep == OptInv /\ NextItem => OptInv'
<1> SUFFICES ASSUME OptInv, NextItem PROVE OptInv'
  OBVIOUS
<1> DEFINE z == Skipped
           v == IF permute THEN MoveToEnd(argv, optind, z) ELSE argv
           end == IF permute THEN optend - z ELSE optend
           i == optind + 1
           s == At(v, optind)
           k == IF end - i > 1 THEN end - i - 1 ELSE 0
           f == Rest(given)
<1>1. /\ parsing = "parse" /\ ~InCluster
      /\ IF ~permute /\ z > 0 THEN Stop(v, optind, end)
         ELSE IF optind >= end THEN Stop(v, optind, end - 1)
         ELSE IF s = EndMark THEN Stop(MoveToEnd(v, i, k), i, end - k)
         ELSE IF At(s, 1) = "-" THEN Found(Name(s, i, v, end), v, end)
         ELSE Found(Letter(s, 1, i, v, end, NULL), v, end)
  BY DEF NextItem
<1>2. /\ given \in Seq(Item) /\ permute \in BOOLEAN
      /\ Midway(given, f, permute, argv, optind, optend, reported,
                Open(argv, optind, optend, optpos))
  BY <1>1 DEF OptInv
<1>3. Open(argv, optind, optend, optpos) = Nothing
  BY <1>1 DEF Open, InCluster
<1>4. Midway(given, f, permute, argv, optind, optend, reported, Nothing)
  BY <1>2, <1>3
<1>5. /\ argv \in Seq(Item) /\ optind \in Nat /\ optend \in Nat /\ optind <= optend
      /\ optend <= Len(argv)
  BY <1>4 DEF Midway
<1>6. /\ z \in Nat /\ z <= optend - optind
      /\ \A j \in 1..z : ~IsOption(argv[optind + j])
      /\ optind + z < optend => IsOption(argv[optind + z + 1])
  BY <1>5, SkippedIs
<1> HIDE DEF z, f
<1>7. CASE ~permute /\ z > 0
  <2>1. Stop(argv, optind, end)
    BY <1>1, <1>7
  <2>2. optind < optend /\ 1 \in 1..z
    BY <1>5, <1>6, <1>7
  <2>3. ~IsOption(argv[optind + 1])
    BY <1>6, <2>2
  <2>4. f[1].opts = reported /\ Left(given, f, From(argv, optind))
    BY <1>2, <1>4, <1>7, <2>2, <2>3, WordKeeps DEF f
  <2>5. QED
    BY <2>1, <2>4, StopStep DEF f
<1>8. CASE ~(~permute /\ z > 0)
  <2>1. /\ Midway(given, f, permute, v, optind, end, reported, Nothing)
        /\ end \in Nat
        /\ optind < end => IsOption(v[optind + 1])
    <3>1. CASE permute
      <4>1. Midway(given, Rest(given), permute, argv, optind, optend, reported, Nothing)
        BY <1>2, <1>4, <3>1 DEF f
      <4>2. /\ Midway(given, Rest(given), permute, MoveToEnd(argv, optind, z), optind, optend - z,
                      reported, Nothing)
            /\ optind < optend - z
               => MoveToEnd(argv, optind, z)[optind + 1] = argv[optind + z + 1]
        <5>1. /\ given \in Seq(Item) /\ z \in Nat /\ z <= optend - optind
              /\ \A j \in 1..z : ~IsOption(argv[optind + j])
          BY <1>2, <1>6
        <5> HIDE DEF v, end, s, i, k
        <5>2. Midway(given, Rest(given), permute, MoveToEnd(argv, optind, z), optind,
                     optend - z, reported, Nothing)
          BY <3>1, <4>1, <5>1, SkipKeeps
        <5>3. optind < optend - z
              => MoveToEnd(argv, optind, z)[optind + 1] = argv[optind + z + 1]
          <6>1. ASSUME optind < optend - z PROVE optind + z < Len(argv)
            <7>1. Len(argv) \in Nat
              BY <1>5, LenProperties
            <7>2. QED
              BY <1>5, <5>1, <6>1, <7>1
          <6>2. QED
            BY <1>5, <5>1, <6>1, PermutedNext
        <5>4. QED
          BY <5>2, <5>3
      <4>3. optend - z \in Nat /\ (optind < optend - z => optind + z < optend)
        BY <1>5, <1>6
      <4>4. v = MoveToEnd(argv, optind, z) /\ end = optend - z /\ permute = TRUE
        BY <1>2, <3>1
      <4> HIDE DEF v, end
      <4>5. QED
        BY <1>6, <4>2, <4>3, <4>4 DEF f
    <3>2. CASE ~permute
      <4>1. z = 0
        BY <1>6, <1>8, <3>2
      <4>2. v = argv /\ end = optend /\ optind + z + 1 = optind + 1 /\ optind + z = optind
        BY <1>5, <3>2, <4>1
      <4> HIDE DEF v, end
      <4>3. QED
        BY <1>4, <1>5, <1>6, <4>2
    <3>3. QED
      BY <3>1, <3>2
  <2> HIDE DEF v, end
  <2>2. CASE optind >= end
    <3>1. Stop(v, optind, end - 1)
      BY <1>1, <1>8, <2>2
    <3>2. ~(optind < end)
      BY <1>5, <2>1, <2>2
    <3>3. f[1].opts = reported /\ Left(given, f, From(v, optind))
      BY <1>2, <2>1, <3>2, EndKeeps DEF f
    <3>4. QED
      BY <3>1, <3>3, StopStep DEF f
  <2>3. CASE ~(optind >= end)
    <3>1. optind < end
      BY <1>5, <2>1, <2>3
    <3>2. s = v[i] /\ i \in Nat /\ i >= 1
      <4>1. end <= Len(v) /\ v \in Seq(Item)
        BY <2>1 DEF Midway
      <4>2. optind < Len(v)
        BY <1>5, <2>1, <3>1, <4>1, LenProperties
      <4>3. QED
        BY <1>5, <4>2 DEF At
    <3>3. IsOption(v[i])
      BY <2>1, <3>1
    <3>4. CASE s = EndMark
      <4>1. Stop(MoveToEnd(v, i, k), i, end - k)
        BY <1>1, <1>8, <2>3, <3>4
      <4>2. k \in Nat /\ i + k <= end /\ (end - i >= 1 => i + k + 1 = end)
        BY <1>5, <2>1, <3>1
      <4> HIDE DEF k, s
      <4>3. v[optind + 1] = EndMark /\ IsOption(v[optind + 1])
        BY <3>2, <3>3, <3>4
      <4>4. /\ Rest(given)[1].opts = reported
            /\ Left(given, Rest(given), From(MoveToEnd(v, optind + 1, k), optind + 1))
        BY <1>2, <2>1, <3>1, <4>2, <4>3, MarkKeeps DEF f
      <4>5. QED
        BY <4>1, <4>4, StopStep
    <3>5. CASE s # EndMark
      <4> DEFINE r == IF At(s, 1) = "-" THEN Name(s, i, v, end) ELSE Letter(s, 1, i, v, end, NULL)
                 c == ItemMeans(s, Ahead(v, i, end))
      <4>1. Found(r, v, end)
        BY <1>1, <1>8, <2>3, <3>5
      <4>2. v[i] # EndMark
        BY <3>2, <3>5
      <4>3. /\ v[i] \in Item /\ Argument(i, end, v, Ahead(v, i, end))
            /\ Midway(given, Rest(given), permute, v, i, end, reported,
                      ItemMeans(v[i], Ahead(v, i, end)))
        BY <1>2, <2>1, <3>1, <3>3, <4>2, ReadKeeps DEF f
      <4>4. s \in Item /\ IsOption(s)
        BY <3>2, <3>3, <4>3
      <4> HIDE DEF i
      <4>5. Follows(r, c, s, i, Ahead(v, i, end))
        BY <3>5, <4>3, <4>4, ItemFollows
      <4>6. Midway(given, Rest(given), permute, v, i, end, reported, c)
        BY <3>2, <4>3
      <4> HIDE DEF r, c, s
      <4>7. Follows(r, c, v[i], i, Ahead(v, i, end))
        BY <3>2, <4>5
      <4>8. QED
        BY <1>1, <3>2, <4>1, <4>6, <4>7, FoundStep
    <3>6. QED
      BY <3>4, <3>5
  <2>4. QED
    BY <2>2, <2>3
<1>9. QED
  BY <1>7, <1>8

\* No step, no change.
LEMMA IdleStep == OptInv /\ UNCHANGED optVars => OptInv'
<1> SUFFICES ASSUME OptInv, UNCHANGED optVars PROVE OptInv'
  OBVIOUS
<1>1. /\ given' = given /\ permute' = permute /\ argv' = argv /\ optind' = optind
      /\ optend' = optend /\ optpos' = optpos /\ reported' = reported /\ parsing' = parsing
  BY DEF optVars
<1>2. Rest(given)' = Rest(given)
  BY <1>1 DEF Rest
<1>3. QED
  BY <1>1, <1>2 DEF OptInv

\* The invariant holds of every parse.
LEMMA OptAlways == OptionsSpec => []OptInv
<1>1. OptInv /\ [OptionsNext]_optVars => OptInv'
  BY LetterStep, ItemStep, IdleStep DEF OptionsNext
<1>2. QED
  BY <1>1, OptFirst, PTL DEF OptionsSpec

\* Before it is done the parser has reported how the line begins.
LEMMA MidwayBegins ==
    ASSUME NEW line \in Seq(Item), NEW perm, NEW v, NEW i, NEW end, NEW rep, NEW c,
           Midway(line, Rest(line), perm, v, i, end, rep, c)
    PROVE  Begins(rep, Rest(line)[1].opts)
<1> DEFINE n == Len(line)
           p == n - (end - i)
           k == IF c.took THEN p + 2 ELSE p + 1
           M == Rest(line)[k].opts
<1>1. rep \in Seq(Out) /\ c.opts \in Seq(Out) /\ Rest(line)[1].opts = rep \o (c.opts \o M)
  BY DEF Midway, Meaning
<1>2. M \in Seq(Out)
  <2>1. Rest(line)[k] \in Reading
    BY MidwayRest
  <2> HIDE DEF k
  <2>2. QED
    BY <2>1 DEF Reading
<1> HIDE DEF M
<1>3. c.opts \o M \in Seq(Out)
  BY <1>1, <1>2, ConcatProperties
<1>4. QED
  BY <1>1, <1>3, PrefixBegins

\* For every line, in both modes, the calls of longgetopt report the options that
\* are written, in their order and with their arguments, up to the first bad one,
\* though each call permutes the vector and may go on inside an item.
THEOREM OptionsRead == OptionsSpec => []OptionsAsWritten
<1>1. OptInv => OptionsAsWritten
  <2> SUFFICES ASSUME OptInv PROVE OptionsAsWritten
    OBVIOUS
  <2> DEFINE meant == Rest(given)[1].opts
             some == [j \in 1..Len(reported) |-> Plain(reported[j])]
  <2>1. LineMeans(given).opts = meant
    BY LineIs
  <2>2. Begins(reported, meant)
    <3>1. CASE parsing = "parse"
      BY <3>1, MidwayBegins DEF OptInv
    <3>2. CASE parsing = "bad"
      BY <3>2 DEF OptInv
    <3>3. CASE parsing = "end"
      <4>1. reported = meant
        BY <3>3 DEF OptInv
      <4>2. Len(meant) <= Len(meant)
        <5>1. given \in Seq(Item)
          BY DEF OptInv
        <5>2. Len(given) \in Nat
          BY <5>1, LenProperties
        <5>3. 1 \in 1..(Len(given) + 2)
          BY <5>2
        <5>4. Rest(given)[1] \in Reading
          BY <5>1, <5>3, RestTyped
        <5>5. meant \in Seq(Out)
          <6> DEFINE x == Rest(given)[1]
          <6>1. x \in Reading
            BY <5>4
          <6> HIDE DEF x
          <6>2. x.opts \in Seq(Out)
            BY <6>1 DEF Reading
          <6>3. QED
            BY <6>2 DEF x
        <5>6. Len(meant) \in Nat
          BY <5>5, LenProperties
        <5> HIDE DEF meant
        <5>7. QED
          BY <5>6
      <4>3. QED
        BY <4>1, <4>2 DEF Begins
    <3>4. QED
      BY <3>1, <3>2, <3>3 DEF OptInv
  <2>3. parsing = "end" => reported = meant
    BY DEF OptInv
  <2> HIDE DEF meant
  <2>4. \A j \in 1..Len(reported) : some[j] = Plain(reported[j])
    OBVIOUS
  <2>5. QED
    BY <2>1, <2>2, <2>3, <2>4 DEF OptionsAsWritten, Begins
<1>2. QED
  BY <1>1, OptAlways, PTL

\* For every line, in both modes, the operands are behind optind when a call returns
\* -1, none lost and none twice, in their order; only those behind an end mark come
\* with the last one first.
THEOREM OperandsStay == OptionsSpec => []OperandsKept
<1>1. OptInv => OperandsKept
  <2> SUFFICES ASSUME OptInv PROVE OperandsKept
    OBVIOUS
  <2>1. LineMeans(given) = Rest(given)[1]
    BY LineIs
  <2>2. QED
    BY <2>1 DEF OptInv, OperandsKept, Left
<1>2. QED
  BY <1>1, OptAlways, PTL

-----------------------------------------------------------------------------
\* What holds of 0 and, if of a number, of the next one holds up to any number.
LEMMA Upwards ==
    ASSUME NEW n \in Nat, NEW S, 0 \in S, \A i \in 1..n : i - 1 \in S => i \in S
    PROVE  \A i \in 0..n : i \in S
<1> DEFINE W == {k \in Nat : k <= n /\ k \notin S}
<1>1. W = {}
  <2> SUFFICES ASSUME W # {} PROVE FALSE
    OBVIOUS
  <2>1. PICK k \in W : \A x \in W : k <= x
    BY LeastOne
  <2>2. k \in Nat /\ k <= n /\ k \notin S
    OBVIOUS
  <2>3. k # 0
    BY <2>2
  <2>4. k \in 1..n /\ k - 1 \in Nat /\ k - 1 <= n /\ ~(k <= k - 1)
    BY <2>2, <2>3
  <2>5. k - 1 \in S
    <3>1. k - 1 \notin W
      <4> HIDE DEF W
      <4>1. QED
        BY <2>1, <2>4
    <3>2. QED
      BY <2>4, <3>1
  <2>6. QED
    BY <2>2, <2>4, <2>5
<1>2. QED
  BY <1>1

\* The turns of parselocate, as Follow has them.
Walk(node, q) ==
    CHOOSE w : w = [i \in 0..Turns(q) |-> IF i = 0 THEN Begin(node, q) ELSE Advance(w[i - 1], q, i)]

\* A parameter is where the last turn comes to.
LEMMA FollowIs ==
    ASSUME NEW node, NEW q
    PROVE  Follow(node, q) = Walk(node, q)[Turns(q)].node
  BY DEF Follow, Walk

\* There are such turns, each made from the one before.
LEMMA WalkIs ==
    ASSUME NEW node, NEW q, Turns(q) \in Nat
    PROVE  /\ Walk(node, q)[0] = Begin(node, q)
           /\ \A i \in 1..Turns(q) : Walk(node, q)[i] = Advance(Walk(node, q)[i - 1], q, i)
<1> DEFINE n == Turns(q)
           Next1(f, i) == IF i = 0 THEN Begin(node, q) ELSE Advance(f[i - 1], q, i)
           Fun(f) == f = [i \in 0..n |-> f[i]]
           S == {k \in 0..n : \E f : Fun(f) /\ \A i \in 0..k : f[i] = Next1(f, i)}
<1>1. 0 \in S
  <2> DEFINE z == [i \in 0..n |-> Begin(node, q)]
  <2>1. Fun(z) /\ z[0] = Next1(z, 0) /\ 0 \in 0..n
    OBVIOUS
  <2>2. \A i \in 0..0 : i = 0
    OBVIOUS
  <2> HIDE DEF z, Next1, Fun
  <2>3. QED
    BY <2>1, <2>2
<1>2. ASSUME NEW k \in 1..n, k - 1 \in S PROVE k \in S
  <2>1. PICK f : Fun(f) /\ \A i \in 0..(k - 1) : f[i] = Next1(f, i)
    BY <1>2
  <2> DEFINE g == [i \in 0..n |-> IF i = k THEN Next1(f, k) ELSE f[i]]
  <2>2. Fun(g) /\ g[k] = Next1(f, k) /\ \A i \in 0..n : i # k => g[i] = f[i]
    OBVIOUS
  <2> HIDE DEF g
  <2>3. ASSUME NEW i \in 0..k PROVE Next1(g, i) = Next1(f, i)
    <3>1. CASE i = 0
      BY <3>1
    <3>2. CASE i # 0
      <4>1. i - 1 \in 0..n /\ i - 1 # k
        BY <3>2
      <4>2. g[i - 1] = f[i - 1]
        BY <2>2, <4>1
      <4>3. QED
        BY <3>2, <4>2
    <3>3. QED
      BY <3>1, <3>2
  <2>4. ASSUME NEW i \in 0..k PROVE g[i] = Next1(g, i)
    <3>1. CASE i = k
      BY <2>2, <2>3, <3>1
    <3>2. CASE i # k
      <4>1. i \in 0..(k - 1) /\ i \in 0..n
        BY <3>2
      <4>2. g[i] = f[i] /\ f[i] = Next1(f, i)
        BY <2>1, <2>2, <3>2, <4>1
      <4>3. QED
        BY <2>3, <4>2
    <3>3. QED
      BY <3>1, <3>2
  <2>5. k \in 0..n
    OBVIOUS
  <2> HIDE DEF Next1, Fun
  <2>6. QED
    BY <2>2, <2>4, <2>5
<1>3. n \in S
  <2> HIDE DEF S, n
  <2>1. n \in Nat
    BY DEF n
  <2>2. \A i \in 0..n : i \in S
    BY <1>1, <1>2, <2>1, Upwards
  <2>3. QED
    BY <2>1, <2>2
<1>4. PICK f : Fun(f) /\ \A i \in 0..n : f[i] = Next1(f, i)
  BY <1>3
<1> DEFINE Rec(h) == [i \in 0..n |-> IF i = 0 THEN Begin(node, q) ELSE Advance(h[i - 1], q, i)]
<1>5. f = Rec(f)
  BY <1>4
<1>6. Walk(node, q) = Rec(Walk(node, q))
  <2>1. Walk(node, q) = CHOOSE h : h = Rec(h)
    BY DEF Walk
  <2> HIDE DEF Rec
  <2>2. QED
    BY <1>5, <2>1
<1> DEFINE w == Walk(node, q)
<1>7. w[0] = Begin(node, q)
  BY <1>6
<1>8. ASSUME NEW i \in 1..n PROVE w[i] = Advance(w[i - 1], q, i)
  <2>1. i \in 0..n /\ i # 0
    OBVIOUS
  <2> HIDE DEF w
  <2>2. w = Rec(w)
    BY <1>6 DEF w
  <2>3. w[i] = Rec(w)[i]
    BY <2>2
  <2>4. Rec(w)[i] = Advance(w[i - 1], q, i)
    BY <2>1
  <2>5. QED
    BY <2>3, <2>4
<1>9. QED
  BY <1>7, <1>8

Below == Nodes \union {None}

\* A child found by its name.
LEMMA ByNameTyped ==
    ASSUME NEW node \in Nodes, NEW name
    PROVE  ByName(node, name) \in Below
<1> DEFINE found == {i \in 1..Len(node.pairs) : node.pairs[i][1] = name}
<1>1. node.pairs \in Seq(Seq(STRING) \X Nodes)
  BY NodesAssumption
<1>2. Len(node.pairs) \in Nat /\ \A i \in 1..Len(node.pairs) : node.pairs[i] \in Seq(STRING) \X Nodes
  BY <1>1
<1>3. CASE found = {}
  BY <1>3 DEF ByName, Below
<1>4. CASE found # {}
  <2>1. \E m \in found : \A x \in found : m <= x
    <3>1. found \in SUBSET Nat
      BY <1>2
    <3> HIDE DEF found
    <3>2. QED
      BY <1>4, <3>1, LeastOne
  <2> DEFINE i == CHOOSE i \in found : \A j \in found : i <= j
  <2>2. i \in found
    BY <2>1
  <2>3. i \in 1..Len(node.pairs)
    BY <2>2
  <2>4. ByName(node, name) = None \/ ByName(node, name) = node.pairs[i][2]
    BY DEF ByName
  <2> HIDE DEF i
  <2>5. node.pairs[i][2] \in Nodes
    BY <1>2, <2>3
  <2>6. QED
    BY <2>4, <2>5 DEF Below
<1>5. QED
  BY <1>3, <1>4

\* An item found by its index.
LEMMA ByIndexTyped ==
    ASSUME NEW node \in Nodes, NEW index
    PROVE  ByIndex(node, index) \in Below
<1>1. node.items \in Seq(Nodes)
  BY NodesAssumption
<1>2. CASE node.kind # "sequence" \/ index \notin 0..(Len(node.items) - 1)
  BY <1>2 DEF ByIndex, Below
<1>3. CASE ~(node.kind # "sequence" \/ index \notin 0..(Len(node.items) - 1))
  <2>1. Len(node.items) \in Nat /\ index \in 0..(Len(node.items) - 1)
    BY <1>1, <1>3
  <2>2. index + 1 \in 1..Len(node.items)
    BY <2>1
  <2>3. node.items[index + 1] \in Nodes
    BY <1>1, <2>2
  <2>4. QED
    BY <1>3, <2>3 DEF ByIndex, Below
<1>4. QED
  BY <1>2, <1>3

\* A turn comes to a node, or to none.
Place(w) == w = [node |-> w.node, fmt |-> w.fmt, args |-> w.args] /\ w.node \in Below

\* A turn from one goes to one.
LEMMA AdvanceTyped ==
    ASSUME NEW w, Place(w), NEW q, NEW i
    PROVE  Place(Advance(w, q, i))
<1>1. CASE w.node = None \/ w.fmt = <<>>
  BY <1>1 DEF Advance
<1>2. CASE ~(w.node = None \/ w.fmt = <<>>) /\ q.fmt = None
  <2>1. w.node \in Nodes
    BY <1>2 DEF Place, Below
  <2> DEFINE v == ByName(w.node, q.args[i])
  <2>2. v \in Below
    BY <2>1, ByNameTyped
  <2>3. Advance(w, q, i) = [w EXCEPT !.node = v]
    BY <1>2 DEF Advance
  <2> HIDE DEF v
  <2>4. QED
    BY <2>2, <2>3 DEF Place
<1>3. CASE ~(w.node = None \/ w.fmt = <<>>) /\ q.fmt # None
  <2>1. w.node \in Nodes
    BY <1>3 DEF Place, Below
  <2>2. Advance(w, q, i) = Descend(w)
    BY <1>3 DEF Advance
  <2>3. /\ \A name : ByName(w.node, name) \in Below
        /\ \A index : ByIndex(w.node, index) \in Below
    BY <2>1, ByNameTyped, ByIndexTyped
  <2>4. Place(Descend(w))
    <3>1. CASE w.fmt[1] = "%s"
      BY <2>3, <3>1 DEF Descend, Place
    <3>2. CASE w.fmt[1] = "%d"
      BY <2>3, <3>2 DEF Descend, Place
    <3>3. CASE w.fmt[1] \notin {"%s", "%d"}
      BY <2>3, <3>3 DEF Descend, Place
    <3>4. QED
      BY <3>1, <3>2, <3>3
  <2>5. QED
    BY <2>2, <2>4
<1>4. QED
  BY <1>1, <1>2, <1>3

\* A path leads to a node, or to none.
LEMMA FollowTyped ==
    ASSUME NEW node \in Nodes, NEW q, Turns(q) \in Nat
    PROVE  Follow(node, q) \in Below
<1> DEFINE n == Turns(q)
           w == Walk(node, q)
           S == {i \in 0..n : Place(w[i])}
<1>1. w[0] = Begin(node, q) /\ \A i \in 1..n : w[i] = Advance(w[i - 1], q, i)
  BY WalkIs
<1>2. 0 \in S
  BY <1>1 DEF Place, Begin, Below
<1>3. ASSUME NEW i \in 1..n, i - 1 \in S PROVE i \in S
  <2>1. Place(w[i - 1])
    BY <1>3
  <2> HIDE DEF w
  <2>2. Place(w[i])
    BY <1>1, <2>1, AdvanceTyped
  <2>3. QED
    BY <2>2
<1>4. n \in S
  <2> HIDE DEF S, n
  <2>1. n \in Nat
    BY DEF n
  <2>2. \A i \in 0..n : i \in S
    BY <1>2, <1>3, <2>1, Upwards
  <2>3. QED
    BY <2>1, <2>2
<1>5. QED
  BY <1>4, FollowIs DEF Place

\* Where a text starts that starts with no blank.
Start(t) == SelectInSeq(t, LAMBDA x : x # Blank)

\* The first character that is no blank, 0 if there is none.
LEMMA StartIs ==
    ASSUME NEW t \in Item
    PROVE  LET f == Start(t) IN
           \/ f = 0 /\ \A j \in 1..Len(t) : t[j] = Blank
           \/ f \in 1..Len(t) /\ t[f] # Blank /\ \A j \in 1..Len(t) : j < f => t[j] = Blank
<1> DEFINE W == {j \in 1..Len(t) : t[j] # Blank}
           f == Start(t)
<1>1. Len(t) \in Nat
  BY LenProperties DEF Item
<1>2. f = IF W # {} THEN Min(W) ELSE 0
  BY DEF SelectInSeq, Start
<1>3. W \in SUBSET Nat
  BY <1>1
<1>4. CASE W = {}
  BY <1>2, <1>4
<1>5. CASE W # {}
  <2>1. f = Min(W)
    BY <1>2, <1>5
  <2> HIDE DEF f
  <2>2. f \in W /\ \A x \in W : f <= x
    BY <1>3, <1>5, <2>1, FirstIn
  <2>3. f \in 1..Len(t) /\ t[f] # Blank
    BY <2>2
  <2>4. ASSUME NEW j \in 1..Len(t), j < f PROVE t[j] = Blank
    <3>1. j \in Int /\ f \in Int /\ ~(f <= j)
      BY <1>1, <2>3, <2>4
    <3>2. j \notin W
      BY <2>2, <3>1
    <3>3. QED
      BY <3>2
  <2>5. QED
    BY <2>3, <2>4 DEF f
<1>6. QED
  BY <1>4, <1>5

\* Only blanks are taken off.
LEMMA BlanklessIs ==
    ASSUME NEW t \in Item
    PROVE  \E k \in 0..Len(t) :
              /\ Blankless(t) \in Item /\ Len(Blankless(t)) = Len(t) - k
              /\ \A j \in 1..(Len(t) - k) : Blankless(t)[j] = t[k + j]
              /\ \A j \in 1..k : t[j] = Blank
              /\ k < Len(t) => t[k + 1] # Blank
<1> DEFINE f == Start(t)
           n == Len(t)
           b == Blankless(t)
<1>1. n \in Nat
  BY LenProperties DEF Item
<1>2. b = IF f = 0 THEN <<>> ELSE SubSeq(t, f, n)
  BY DEF Blankless, Start
<1>3. \/ f = 0 /\ \A j \in 1..n : t[j] = Blank
      \/ f \in 1..n /\ t[f] # Blank /\ \A j \in 1..n : j < f => t[j] = Blank
  BY StartIs
<1> HIDE DEF f, b
<1>4. CASE f = 0
  <2>1. b = <<>> /\ \A j \in 1..n : t[j] = Blank
    BY <1>2, <1>3, <1>4
  <2>2. b \in Item /\ Len(b) = 0
    BY <2>1, EmptySeq DEF Item
  <2> HIDE DEF n
  <2>3. n \in 0..n /\ n - n = 0 /\ 1..(n - n) = {} /\ ~(n < n)
    BY <1>1
  <2>4. QED
    BY <2>1, <2>2, <2>3 DEF b, n
<1>5. CASE f # 0
  <2>1. f \in 1..n /\ t[f] # Blank /\ \A j \in 1..n : j < f => t[j] = Blank
    BY <1>3, <1>5
  <2> DEFINE k == f - 1
  <2>2. k \in Nat /\ k <= n /\ n <= n /\ k + 1 = f /\ k \in 0..n /\ k < n
    BY <1>1, <2>1
  <2> HIDE DEF k
  <2>3. b = SubSeq(t, k + 1, n)
    BY <1>2, <1>5, <2>2
  <2>4. /\ SubSeq(t, k + 1, n) \in Item /\ Len(SubSeq(t, k + 1, n)) = n - k
        /\ \A x \in 1..(n - k) : SubSeq(t, k + 1, n)[x] = t[k + x]
    BY <1>1, <2>2, Part DEF Item
  <2>5. \A j \in 1..k : t[j] = Blank
    <3>1. ASSUME NEW j \in 1..k PROVE j \in 1..n /\ j < f
      BY <1>1, <2>1, <2>2
    <3>2. QED
      BY <2>1, <3>1
  <2>6. t[k + 1] # Blank
    BY <2>1, <2>2
  <2> HIDE DEF n
  <2>7. QED
    BY <2>2, <2>3, <2>4, <2>5, <2>6 DEF b, n
<1>6. QED
  BY <1>4, <1>5

\* Up to the first character of one kind.
LEMMA UntilIs ==
    ASSUME NEW S, NEW t \in Seq(S), NEW ch
    PROVE  \E n \in 0..Len(t) :
              /\ Until(t, ch) = SubSeq(t, 1, n) /\ \A j \in 1..n : t[j] # ch
              /\ n < Len(t) => t[n + 1] = ch
<1> DEFINE f == First(t, ch)
           m == Len(t)
           W == {j \in 1..m : t[j] = ch}
<1>1. m \in Nat
  BY LenProperties
<1>2. /\ Until(t, ch) = IF f = 0 THEN t ELSE SubSeq(t, 1, f - 1)
      /\ f = IF W # {} THEN Min(W) ELSE 0
  BY DEF Until, First, SelectInSeq
<1> HIDE DEF f
<1>3. CASE W = {}
  <2>1. Until(t, ch) = t /\ t = SubSeq(t, 1, m)
    BY <1>2, <1>3, SubSeqFull
  <2>2. \A j \in 1..m : t[j] # ch
    BY <1>3
  <2> HIDE DEF m
  <2>3. m \in 0..m /\ ~(m < m)
    BY <1>1
  <2>4. QED
    BY <2>1, <2>2, <2>3 DEF m
<1>4. CASE W # {}
  <2>1. f \in W /\ \A x \in W : f <= x
    <3>1. W \in SUBSET Nat
      BY <1>1
    <3> HIDE DEF W
    <3>2. QED
      BY <1>2, <1>4, <3>1, FirstIn
  <2>2. f \in 1..m /\ t[f] = ch
    BY <2>1
  <2> DEFINE n == f - 1
  <2> HIDE DEF m, W
  <2>3. n \in 0..m /\ n + 1 = f /\ f # 0
    BY <1>1, <2>2
  <2>4. \A j \in 1..n : j \in 1..m /\ ~(f <= j)
    BY <1>1, <2>2
  <2>5. \A j \in 1..n : t[j] # ch
    BY <2>1, <2>4 DEF W
  <2>6. Until(t, ch) = SubSeq(t, 1, n)
    BY <1>2, <2>3
  <2> HIDE DEF n
  <2>7. QED
    BY <2>2, <2>3, <2>5, <2>6 DEF m
<1>5. QED
  BY <1>3, <1>4

\* What strtol reads starts the text, but for blanks.
LEMMA NumberIs ==
    ASSUME NEW t \in Item
    PROVE  /\ Number(t).val \in Int /\ Number(t).errno \in BOOLEAN
           /\ Number(t).read => \E i \in 1..Len(t) :
                                   /\ t[i] \in DOMAIN Strtol /\ Number(t).val = Strtol[t[i]].val
                                   /\ \A j \in 1..(i - 1) : t[j] = Blank
<1> DEFINE u == Blankless(t)
           n == Len(t)
<1>0. n \in Nat
  BY LenProperties DEF Item
<1>1. PICK k \in 0..n : /\ u \in Item /\ Len(u) = n - k
                        /\ \A j \in 1..(n - k) : u[j] = t[k + j]
                        /\ \A j \in 1..k : t[j] = Blank
  BY BlanklessIs
<1>2. CASE u # <<>> /\ u[1] \in DOMAIN Strtol
  <2>1. Number(t) = [val |-> Strtol[u[1]].val, errno |-> Strtol[u[1]].errno, read |-> TRUE]
    BY <1>2 DEF Number
  <2>2. Strtol[u[1]] \in [val : Int, errno : BOOLEAN]
    BY <1>2, ValuesAssumption
  <2> HIDE DEF u, n
  <2>3. Len(u) \in Nat \ {0}
    BY <1>1, <1>2, EmptySeq DEF Item
  <2>4. k < n /\ 1 \in 1..(n - k) /\ k + 1 \in 1..n /\ (k + 1) - 1 = k
    BY <1>0, <1>1, <2>3
  <2>5. u[1] = t[k + 1]
    BY <1>1, <2>4
  <2>6. \E i \in 1..n : /\ t[i] \in DOMAIN Strtol /\ Strtol[u[1]].val = Strtol[t[i]].val
                        /\ \A j \in 1..(i - 1) : t[j] = Blank
    BY <1>1, <1>2, <2>4, <2>5
  <2>7. QED
    BY <2>1, <2>2, <2>6 DEF n
<1>3. CASE ~(u # <<>> /\ u[1] \in DOMAIN Strtol)
  <2>1. Number(t) = [val |-> 0, errno |-> FALSE, read |-> FALSE]
    BY <1>3 DEF Number
  <2>2. QED
    BY <2>1
<1>4. QED
  BY <1>2, <1>3

\* The text of a scalar has no blank in front.
LEMMA ScalarIs ==
    ASSUME NEW node \in Nodes
    PROVE  Scalar(node) \in Item \union {None}
<1>1. node.text \in Item
  BY NodesAssumption DEF Item
<1>2. Blankless(node.text) \in Item
  BY <1>1, BlanklessIs
<1>3. QED
  BY <1>2 DEF Scalar

\* What a text spells: a number, perhaps behind a mark, or a name.
Reads(kind, text, val) ==
    \E i \in 1..Len(text) :
       /\ text[i] \in DOMAIN Strtol /\ val = Strtol[text[i]].val
       /\ \A j \in 1..(i - 1) : \/ text[j] = Blank
                               \/ /\ j = 1 /\ text[j] = "#"
                                  /\ kind # "enum"
Translates(kind, text, val) ==
    \E n \in 0..Len(text) :
       /\ kind = "named" /\ Word(text, n) \in DOMAIN Translate
       /\ val = Translate[Word(text, n)]
       /\ \A j \in 1..n : text[j] # Blank
       /\ n < Len(text) => text[n + 1] = Blank
Spells(kind, text, val) ==
    \/ Reads(kind, text, val)
    \/ kind = "enum" /\ text \in DOMAIN Enum /\ val = Enum[text]
    \/ Translates(kind, text, val)

\* A number at the start is read whatever the kind.
LEMMA NumberReads ==
    ASSUME NEW t \in Item, NEW kind, Number(t).read
    PROVE  Reads(kind, t, Number(t).val)
  BY NumberIs DEF Reads

\* So is one behind a mark.
LEMMA MarkedReads ==
    ASSUME NEW t \in Item, NEW kind, kind # "enum", Hash(t), Number(Tail(t)).read
    PROVE  Reads(kind, t, Number(Tail(t)).val)
<1> DEFINE u == Tail(t)
           v == Number(u).val
           n == Len(t)
<1>1. t # <<>> /\ t[1] = "#"
  BY DEF Hash
<1>2. u \in Item /\ Len(u) = n - 1 /\ \A i \in 1..Len(u) : u[i] = t[i + 1]
  BY <1>1, HeadTailProperties DEF Item
<1>3. n \in Nat
  BY LenProperties DEF Item
<1>4. PICK i \in 1..Len(u) : /\ u[i] \in DOMAIN Strtol /\ v = Strtol[u[i]].val
                             /\ \A j \in 1..(i - 1) : u[j] = Blank
  BY <1>2, NumberIs
<1> HIDE DEF u, v, n
<1>5. i + 1 \in 1..n /\ u[i] = t[i + 1] /\ (i + 1) - 1 = i
  BY <1>2, <1>3, <1>4
<1>6. ASSUME NEW j \in 1..i PROVE t[j] = Blank \/ (j = 1 /\ t[j] = "#")
  <2>1. CASE j = 1
    BY <1>1, <2>1
  <2>2. CASE j # 1
    <3>1. j - 1 \in 1..Len(u) /\ j - 1 \in 1..(i - 1) /\ (j - 1) + 1 = j
      BY <1>2, <1>3, <1>4, <2>2
    <3>2. u[j - 1] = t[j] /\ u[j - 1] = Blank
      BY <1>2, <1>4, <3>1
    <3>3. t[j] = Blank
      BY <3>2, Zenon
    <3>4. QED
      BY <3>3
  <2>3. QED
    BY <2>1, <2>2
<1>7. QED
  BY <1>4, <1>5, <1>6 DEF Reads, u, v, n

\* What comes out of a text: never nothing, and of the kinds that can refuse
\* one only what it spells.
LEMMA ParsedIs ==
    ASSUME NEW t \in Item, NEW kind \in Kinds, Parsed(kind, t).ok
    PROVE  /\ Parsed(kind, t).val # Unset
           /\ kind \in {"enum", "count", "named"} => Spells(kind, t, Parsed(kind, t).val)
<1> DEFINE p == Parsed(kind, t)
<1>0. Unset \notin Int /\ Unset \notin Item
  BY ValuesAssumption DEF Item
<1>1. CASE kind = "bool"
  <2>1. p = [ok |-> TRUE, val |-> 1]
    BY <1>1 DEF Parsed
  <2>2. QED
    BY <1>0, <1>1, <2>1
<1>2. CASE kind = "string"
  <2>1. p = [ok |-> TRUE, val |-> t]
    BY <1>2 DEF Parsed
  <2>2. QED
    BY <1>0, <1>2, <2>1
<1>3. CASE kind \in {"int", "long"}
  <2>1. p = AnyNumber(t)
    BY <1>3 DEF Parsed
  <2>2. p.val = Number(t).val
    BY <2>1 DEF AnyNumber
  <2> HIDE DEF p
  <2>3. p.val \in Int
    BY <2>2, NumberIs
  <2>4. QED
    BY <1>0, <1>3, <2>3 DEF p
<1>4. CASE kind = "enum"
  <2>1. p = EnumOf(t)
    BY <1>4 DEF Parsed
  <2> HIDE DEF p
  <2>2. CASE ~Number(t).errno /\ Number(t).read
    <3>1. p.val = Number(t).val
      BY <2>1, <2>2 DEF EnumOf
    <3>2. p.val \in Int
      BY <3>1, NumberIs
    <3>3. Reads(kind, t, p.val)
      BY <2>2, <3>1, NumberReads
    <3>4. QED
      BY <1>0, <3>2, <3>3 DEF Spells, p
  <2>3. CASE ~(~Number(t).errno /\ Number(t).read)
    <3>1. p = IF t \in DOMAIN Enum THEN Named(Enum, t) ELSE [ok |-> FALSE, val |-> Number(t).val]
      BY <2>1, <2>3 DEF EnumOf
    <3>2. p.ok
      BY DEF p
    <3>3. t \in DOMAIN Enum /\ p.val = Enum[t]
      BY <3>1, <3>2 DEF Named
    <3>4. p.val \in Int
      BY <3>3, ValuesAssumption
    <3>5. QED
      BY <1>0, <1>4, <3>3, <3>4 DEF Spells, p
  <2>4. QED
    BY <2>2, <2>3
<1>5. CASE kind = "count"
  <2> DEFINE u == IF Hash(t) THEN Tail(t) ELSE t
  <2>1. p = SomeNumber(u)
    BY <1>5 DEF Parsed, CountOf
  <2> HIDE DEF p, u
  <2>2. p.val = Number(u).val /\ p.ok = (~Number(u).errno /\ Number(u).read)
    BY <2>1 DEF SomeNumber
  <2>3. p.ok
    BY DEF p
  <2>4. Number(u).read
    BY <2>2, <2>3
  <2>5. u \in Item
    BY HeadTailProperties DEF Item, u, Hash
  <2>6. Reads(kind, t, p.val)
    BY <1>5, <2>2, <2>4, NumberReads, MarkedReads DEF u
  <2>7. p.val \in Int
    BY <2>2, <2>5, NumberIs
  <2>8. QED
    BY <1>0, <2>6, <2>7 DEF Spells, p
<1>6. CASE kind = "named"
  <2>1. p = NamedOf(t)
    BY <1>6 DEF Parsed
  <2> HIDE DEF p
  <2>0. p.ok
    BY DEF p
  <2>2. CASE Hash(t)
    <3>1. p = SomeNumber(Tail(t))
      BY <2>1, <2>2 DEF NamedOf
    <3>2. p.val = Number(Tail(t)).val /\ p.ok = (~Number(Tail(t)).errno /\ Number(Tail(t)).read)
      BY <3>1 DEF SomeNumber
    <3>3. Reads(kind, t, p.val)
      BY <1>6, <2>0, <2>2, <3>2, MarkedReads
    <3>4. Tail(t) \in Item
      BY <2>2, HeadTailProperties DEF Item, Hash
    <3>5. p.val \in Int
      BY <3>2, <3>4, NumberIs
    <3>6. QED
      BY <1>0, <3>3, <3>5 DEF Spells, p
  <2>3. CASE ~Hash(t)
    <3> DEFINE w == Until(t, Blank)
    <3>1. p = Named(Translate, w)
      BY <2>1, <2>3 DEF NamedOf
    <3> HIDE DEF w
    <3>2. w \in DOMAIN Translate /\ p.val = Translate[w]
      BY <2>0, <3>1 DEF Named
    <3>3. p.val \in Int
      BY <3>2, ValuesAssumption
    <3>4. \E n \in 0..Len(t) : /\ w = Word(t, n) /\ \A j \in 1..n : t[j] # Blank
                               /\ n < Len(t) => t[n + 1] = Blank
      BY UntilIs DEF w, Word, Item
    <3>5. Translates(kind, t, p.val)
      BY <1>6, <3>2, <3>4 DEF Translates
    <3>6. QED
      BY <1>0, <3>3, <3>5 DEF Spells, p
  <2>4. QED
    BY <2>2, <2>3
<1>7. QED
  BY <1>1, <1>2, <1>3, <1>4, <1>5, <1>6 DEF Kinds

\* What AnswerIsWarranted says of an answer a about a node.
Warrants(kind, default, node, a) ==
    LET text == IF node = None THEN None ELSE Scalar(node)
        ok == a.rc = 0
    IN /\ ok => a.val # Unset
       /\ default # None /\ ~ok => a.val = default
       /\ ok /\ node = None => a.val = default
       /\ ok /\ node # None /\ kind \in {"enum", "count", "named"} => Spells(kind, text, a.val)
       /\ ok /\ node # None => text # None

\* What the getters leave, by the code of parsescalar.
LEMMA ParseScalarWarrants ==
    ASSUME NEW node \in Below, NEW kind \in Kinds, NEW default \in {None, 7}, NEW before
    PROVE  Warrants(kind, default, node, ParseScalar(kind, node, default, before))
<1> DEFINE a == ParseScalar(kind, node, default, before)
           text == Scalar(node)
           p == Parsed(kind, text)
<1>0. Unset # 7 /\ None # 7 /\ None \notin Nodes /\ None \notin Item
  BY ValuesAssumption DEF Item
<1>1. CASE node = None
  <2>1. a = [rc |-> IF default = None THEN 1 ELSE 0, val |-> Or(default, before)]
    BY <1>1 DEF ParseScalar
  <2> HIDE DEF a
  <2>2. a.rc = 0 => default = 7 /\ a.val = 7
    BY <1>0, <2>1 DEF Or
  <2>3. default # None => a.rc = 0
    BY <2>1
  <2>4. QED
    BY <1>0, <1>1, <2>2, <2>3 DEF Warrants, a
<1>2. CASE node # None /\ text = None
  <2>1. a = [rc |-> -1, val |-> Or(default, before)]
    BY <1>2 DEF ParseScalar
  <2> HIDE DEF a
  <2>2. a.rc # 0 /\ (default # None => a.val = default)
    BY <2>1 DEF Or
  <2>3. QED
    BY <1>2, <2>2 DEF Warrants, a
<1>3. CASE node # None /\ text # None /\ p.ok
  <2>1. a = [rc |-> 0, val |-> p.val]
    BY <1>3 DEF ParseScalar
  <2>2. text \in Item
    BY <1>3, ScalarIs DEF Below
  <2> HIDE DEF a, text
  <2>3. p.val # Unset /\ (kind \in {"enum", "count", "named"} => Spells(kind, text, p.val))
    BY <1>3, <2>2, ParsedIs
  <2> HIDE DEF p
  <2>4. a.rc = 0 /\ a.val = p.val
    BY <2>1
  <2>5. QED
    BY <1>3, <2>3, <2>4 DEF Warrants, a, text
<1>4. CASE node # None /\ text # None /\ ~p.ok
  <2>1. a.rc = -1 /\ (default # None => a.val = default)
    BY <1>4 DEF ParseScalar
  <2> HIDE DEF a
  <2>2. a.rc # 0
    BY <2>1
  <2>3. QED
    BY <1>4, <2>1, <2>2 DEF Warrants, a
<1>5. QED
  BY <1>1, <1>2, <1>3, <1>4

\* A string is copied, and the default only pointed to.
LEMMA StringWarrants ==
    ASSUME NEW node \in Below, NEW default \in {None, 7}, NEW s,
           s = ParseScalar("string", node, None, None)
    PROVE  Warrants("string", default, node, [s EXCEPT !.val = IF @ = None THEN default ELSE @])
<1> DEFINE a == [s EXCEPT !.val = IF @ = None THEN default ELSE @]
           text == Scalar(node)
<1>0. Unset # 7 /\ None # 7 /\ None \notin Nodes /\ None \notin Item /\ Unset \notin Item
  BY ValuesAssumption DEF Item
<1>1. CASE node = None
  <2>1. s = [rc |-> 1, val |-> None]
    BY <1>1 DEF ParseScalar, Or
  <2>2. a.rc # 0 /\ a.val = default
    BY <2>1
  <2> HIDE DEF a
  <2>3. QED
    BY <1>1, <2>2 DEF Warrants, a
<1>2. CASE node # None /\ text = None
  <2>1. s = [rc |-> -1, val |-> None]
    BY <1>2 DEF ParseScalar, Or
  <2>2. a.rc # 0 /\ a.val = default
    BY <2>1
  <2> HIDE DEF a
  <2>3. QED
    BY <1>2, <2>2 DEF Warrants, a
<1>3. CASE node # None /\ text # None
  <2>1. text \in Item
    BY <1>3, ScalarIs DEF Below
  <2>2. Parsed("string", text) = [ok |-> TRUE, val |-> text]
    BY DEF Parsed
  <2>3. s = [rc |-> 0, val |-> text]
    BY <1>3, <2>2 DEF ParseScalar
  <2>4. a.rc = 0 /\ a.val = text
    BY <1>0, <2>1, <2>3
  <2> HIDE DEF a, text
  <2>5. a.val # Unset
    BY <1>0, <2>1, <2>4
  <2>6. QED
    BY <1>3, <2>4, <2>5 DEF Warrants, a, text
<1>4. QED
  BY <1>1, <1>2, <1>3

\* A getter answers as AnswerIsWarranted says.
LEMMA GetWarrants ==
    ASSUME NEW kind \in Kinds, NEW q, NEW default \in {None, 7}, kind = "bool" => default = None,
           Locate(root, q) \in Below
    PROVE  Warrants(kind, default, Locate(root, q),
                    CASE kind = "bool" -> GetBool(q)
                      [] kind = "string" -> GetString(q, default)
                      [] OTHER -> GetNumber(kind, q, default))
<1> DEFINE node == Locate(root, q)
<1>1. CASE kind = "bool"
  <2>1. Warrants("bool", None, node, ParseScalar("bool", node, None, 0))
    BY <1>1, ParseScalarWarrants
  <2>2. GetBool(q) = ParseScalar("bool", node, None, 0)
    BY DEF GetBool
  <2> HIDE DEF node
  <2>3. QED
    BY <1>1, <2>1, <2>2 DEF node
<1>2. CASE kind = "string"
  <2> DEFINE s == ParseScalar("string", node, None, None)
  <2>1. GetString(q, default) = [s EXCEPT !.val = IF @ = None THEN default ELSE @]
    BY DEF GetString
  <2> HIDE DEF s
  <2>2. Warrants("string", default, node, [s EXCEPT !.val = IF @ = None THEN default ELSE @])
    BY StringWarrants DEF s
  <2> HIDE DEF node
  <2>3. QED
    BY <1>2, <2>1, <2>2 DEF node
<1>3. CASE kind \notin {"bool", "string"}
  <2>1. GetNumber(kind, q, default) = ParseScalar(kind, node, default, Unset)
    BY DEF GetNumber
  <2> HIDE DEF node
  <2>2. node \in Below
    BY DEF node
  <2>3. Warrants(kind, default, node, ParseScalar(kind, node, default, Unset))
    BY <2>2, ParseScalarWarrants
  <2>4. QED
    BY <1>3, <2>1, <2>3 DEF node
<1>4. QED
  BY <1>1, <1>2, <1>3

\* A handle stands at its document or at the node of the last context that was found.
LookInv ==
    /\ document \in Below
    /\ root \in Below
    /\ root # None => context \in Contexts /\ root = Locate(None, context)

\* A question leads to a node or to none.
LEMMA LocateTyped ==
    ASSUME document \in Below, NEW from \in Below, NEW q \in Questions \union Contexts
    PROVE  Locate(from, q) \in Below
<1>1. Turns(q) \in Nat
  <2>1. CASE q.fmt = None
    BY <2>1, QuestionsAssumption DEF Turns
  <2>2. CASE q.fmt # None
    <3>1. q.fmt \in Formats
      BY <2>2, QuestionsAssumption
    <3>2. Len(q.fmt) \in Nat
      BY <3>1, LenProperties DEF Formats
    <3>3. QED
      BY <2>2, <3>2 DEF Turns
  <2>3. QED
    BY <2>1, <2>2
<1> DEFINE node == IF from = None THEN document ELSE from
<1>2. node \in Below
  OBVIOUS
<1>3. Locate(from, q) = IF node = None THEN None ELSE Follow(node, q)
  BY DEF Locate
<1> HIDE DEF node
<1>4. QED
  BY <1>1, <1>2, <1>3, FollowTyped DEF Below

\* A handle stands where it may after every call.
LEMMA LookSteps == LookInv /\ [LookNext]_lookVars => LookInv'
<1> SUFFICES ASSUME LookInv, [LookNext]_lookVars PROVE LookInv'
  OBVIOUS
<1>1. CASE UNCHANGED <<document, root, context>>
  BY <1>1 DEF LookInv, Locate
<1>2. CASE SetContext
  <2>1. PICK q \in Contexts : /\ IF Locate(None, q) = None THEN UNCHANGED <<root, context>>
                                 ELSE root' = Locate(None, q) /\ context' = q
                              /\ UNCHANGED document
    BY <1>2 DEF SetContext
  <2>2. Locate(None, q)' = Locate(None, q)
    BY <2>1 DEF Locate
  <2>3. CASE Locate(None, q) = None
    BY <1>1, <2>1, <2>3
  <2>4. CASE Locate(None, q) # None
    <3>1. root' = Locate(None, q) /\ context' = q /\ document' = document
      BY <2>1, <2>4
    <3>2. Locate(None, q) \in Below
      BY LocateTyped DEF LookInv, Below
    <3>3. Locate(None, context)' = Locate(None, q)
      BY <3>1 DEF Locate
    <3>4. QED
      BY <3>1, <3>2, <3>3 DEF LookInv
  <2>5. QED
    BY <2>3, <2>4
<1>3. CASE Get
  BY <1>1, <1>3 DEF Get
<1>4. CASE GetCompound
  BY <1>1, <1>4 DEF GetCompound
<1>5. CASE UNCHANGED lookVars
  BY <1>1, <1>5 DEF lookVars
<1>6. QED
  BY <1>2, <1>3, <1>4, <1>5 DEF LookNext

\* A handle stands at the document first.
LEMMA LookStart == LookInit => LookInv
  BY NodesAssumption DEF LookInit, LookInv, Below

\* Whatever is asked, and whatever the document holds: an answer with the result 0
\* has a value, spelled by the text where a kind of parameter can be misspelled,
\* and one that failed has the default.
THEOREM AnswersWarranted == LookSpec => []AnswerIsWarranted
<1> DEFINE Good == told # None /\ told.kind \in Kinds
                      => Warrants(told.kind, told.default, Locate(root, told.q), answer)
<1>1. Good => AnswerIsWarranted
  BY DEF AnswerIsWarranted, Warrants, Spells, Reads, Translates
<1>2. LookInit => Good
  BY DEF LookInit
<1>3. LookInv /\ Good /\ [LookNext]_lookVars => Good'
  <2> SUFFICES ASSUME LookInv, Good, [LookNext]_lookVars PROVE Good'
    OBVIOUS
  <2>1. CASE Get
    <3>1. PICK kind \in Kinds, q \in Questions, default \in {None, 7} :
             /\ kind = "bool" => default = None
             /\ answer' = CASE kind = "bool" -> GetBool(q)
                            [] kind = "string" -> GetString(q, default)
                            [] OTHER -> GetNumber(kind, q, default)
             /\ told' = [kind |-> kind, q |-> q, default |-> default]
             /\ UNCHANGED <<document, root, context>>
      BY <2>1 DEF Get
    <3>2. Locate(root, q) \in Below
      BY LocateTyped DEF LookInv
    <3>3. Warrants(kind, default, Locate(root, q), answer')
      BY <3>1, <3>2, GetWarrants
    <3>4. told'.kind = kind /\ told'.q = q /\ told'.default = default
      BY <3>1
    <3>5. Locate(root, told.q)' = Locate(root, q)
      BY <3>1, <3>4 DEF Locate
    <3>6. Warrants(told.kind, told.default, Locate(root, told.q), answer)'
          <=> Warrants(kind, default, Locate(root, q), answer')
      BY <3>4, <3>5 DEF Warrants, Spells, Reads, Translates
    <3>7. QED
      BY <3>3, <3>6
  <2>2. CASE GetCompound
    <3>1. told'.kind = "compound"
      BY <2>2 DEF GetCompound
    <3>2. QED
      BY <3>1 DEF Kinds
  <2>3. CASE SetContext
    <3>1. told'.kind = "context"
      BY <2>3 DEF SetContext
    <3>2. QED
      BY <3>1 DEF Kinds
  <2>4. CASE UNCHANGED lookVars
    <3>1. UNCHANGED <<document, root, told, answer>>
      BY <2>4 DEF lookVars
    <3>2. Locate(root, told.q)' = Locate(root, told.q)
      BY <3>1 DEF Locate
    <3>3. Warrants(told.kind, told.default, Locate(root, told.q), answer)'
          <=> Warrants(told.kind, told.default, Locate(root, told.q), answer)
      BY <3>1, <3>2 DEF Warrants, Spells, Reads, Translates
    <3>4. QED
      BY <3>1, <3>3
  <2>5. QED
    BY <2>1, <2>2, <2>3, <2>4 DEF LookNext
<1>4. QED
  <2> HIDE DEF Good
  <2>1. QED
    BY <1>1, <1>2, <1>3, LookStart, LookSteps, PTL DEF LookSpec

\* A part up to the end, of two sequences that are joined.
LEMMA CutJoined ==
    ASSUME NEW S, NEW y \in Seq(S), NEW r \in Seq(S), NEW k \in 0..Len(y)
    PROVE  SubSeq(y \o r, k + 1, Len(y \o r)) = SubSeq(y, k + 1, Len(y)) \o r
<1> DEFINE m == Len(y)
           n == Len(r)
           c == y \o r
           a == SubSeq(c, k + 1, m + n)
           b == SubSeq(y, k + 1, m)
<1>1. m \in Nat /\ n \in Nat
  BY LenProperties
<1>2. /\ c \in Seq(S) /\ Len(c) = m + n
      /\ \A i \in 1..(m + n) : c[i] = IF i <= m THEN y[i] ELSE r[i - m]
  BY ConcatProperties
<1>3. k \in Nat /\ k <= m
  BY <1>1
<1>4. b \in Seq(S) /\ Len(b) = m - k /\ \A x \in 1..(m - k) : b[x] = y[k + x]
  BY <1>1, <1>3, Part
<1>5. a \in Seq(S) /\ Len(a) = (m + n) - k /\ \A x \in 1..((m + n) - k) : a[x] = c[k + x]
  <2> HIDE DEF c, m, n
  <2>1. m + n \in Nat /\ k <= m + n
    BY <1>1, <1>3
  <2>2. m + n <= Len(c)
    BY <1>2, <2>1
  <2>3. QED
    BY <1>2, <1>3, <2>1, <2>2, Part
<1> HIDE DEF b
<1>6. /\ b \o r \in Seq(S) /\ Len(b \o r) = Len(b) + n
      /\ \A i \in 1..(Len(b) + n) : (b \o r)[i] = IF i <= Len(b) THEN b[i] ELSE r[i - Len(b)]
  BY <1>4, ConcatProperties
<1> HIDE DEF m, n, c, a
<1>7. Len(a) = Len(b \o r)
  BY <1>1, <1>3, <1>4, <1>5, <1>6
<1>8. ASSUME NEW i \in 1..Len(a) PROVE a[i] = (b \o r)[i]
  <2>1. i \in 1..((m + n) - k) /\ k + i \in 1..(m + n) /\ i \in 1..(Len(b) + n)
    BY <1>1, <1>3, <1>4, <1>5
  <2>2. a[i] = IF k + i <= m THEN y[k + i] ELSE r[(k + i) - m]
    BY <1>2, <1>5, <2>1
  <2>3. (b \o r)[i] = IF i <= m - k THEN b[i] ELSE r[i - (m - k)]
    BY <1>4, <1>6, <2>1
  <2>4. CASE k + i <= m
    <3>1. i <= m - k /\ i \in 1..(m - k)
      BY <1>1, <1>3, <2>1, <2>4
    <3>2. QED
      BY <1>4, <2>2, <2>3, <2>4, <3>1
  <2>5. CASE ~(k + i <= m)
    <3>1. ~(i <= m - k) /\ (k + i) - m = i - (m - k)
      BY <1>1, <1>3, <2>1, <2>5
    <3>2. QED
      BY <2>2, <2>3, <2>5, <3>1
  <2>6. QED
    BY <2>4, <2>5
<1>9. a = b \o r
  BY <1>5, <1>6, <1>7, <1>8, SeqEqual
<1>10. QED
  BY <1>2, <1>9 DEF a, b, c, m

\* The first of two joined sequences decides the beginning.
LEMMA TailJoined ==
    ASSUME NEW S, NEW y \in Seq(S), NEW r \in Seq(S), y # <<>>
    PROVE  Tail(y \o r) = Tail(y) \o r /\ (y \o r)[1] = y[1] /\ y \o r # <<>>
<1>1. Len(y) \in Nat \ {0} /\ Len(r) \in Nat
  BY EmptySeq, LenProperties
<1>2. /\ y \o r \in Seq(S) /\ Len(y \o r) = Len(y) + Len(r)
      /\ \A i \in 1..(Len(y) + Len(r)) : (y \o r)[i] = IF i <= Len(y) THEN y[i] ELSE r[i - Len(y)]
  BY ConcatProperties
<1>3. y \o r # <<>>
  BY <1>1, <1>2, EmptySeq
<1>4. 1 \in 1..(Len(y) + Len(r)) /\ 1 <= Len(y) /\ 1 \in 0..Len(y) /\ 1 + 1 = 2
  BY <1>1
<1>5. (y \o r)[1] = y[1]
  BY <1>2, <1>4
<1>6. SubSeq(y \o r, 2, Len(y \o r)) = SubSeq(y, 2, Len(y)) \o r
  BY <1>4, CutJoined
<1>7. Tail(y \o r) = SubSeq(y \o r, 2, Len(y \o r)) /\ Tail(y) = SubSeq(y, 2, Len(y))
  BY <1>2, <1>3, TailIsSubSeq
<1>8. QED
  BY <1>3, <1>5, <1>6, <1>7

\* What is put behind the path of a context.
Behind(fmt) == <<".">> \o fmt

\* It is a dot and the other path.
LEMMA BehindIs ==
    ASSUME NEW fmt \in Formats
    PROVE  /\ Behind(fmt) \in Formats /\ Behind(fmt) # <<>> /\ Behind(fmt)[1] = "."
           /\ Tail(Behind(fmt)) = fmt
<1>1. <<".">> \in Formats /\ <<".">> # <<>> /\ <<".">>[1] = "." /\ Tail(<<".">>) = <<>>
  <2>1. <<".">> \in Seq(STRING \union {"."}) /\ Len(<<".">>) = 1 /\ <<".">>[1] = "."
    <3>1. "." \in STRING \union {"."}
      BY Zenon
    <3>2. QED
      BY <3>1, OneMember
  <2>2. Len(<<>>) = 0
    OBVIOUS
  <2>3. <<".">> # <<>>
    BY <2>1, <2>2
  <2>4. Tail(<<".">>) \in Seq(STRING \union {"."}) /\ Len(Tail(<<".">>)) = 0
    BY <2>1, <2>3, HeadTailProperties
  <2>5. Tail(<<".">>) = <<>>
    BY <2>4, EmptySeq
  <2>6. QED
    BY <2>1, <2>3, <2>5 DEF Formats
<1>2. Tail(Behind(fmt)) = Tail(<<".">>) \o fmt /\ Behind(fmt)[1] = "." /\ Behind(fmt) # <<>>
  BY <1>1, TailJoined DEF Formats, Behind
<1>3. <<>> \o fmt = fmt
  BY ConcatEmptySeq DEF Formats
<1>4. Behind(fmt) \in Formats
  BY <1>1, ConcatProperties DEF Formats, Behind
<1>5. QED
  BY <1>1, <1>2, <1>3, <1>4

\* A dot is skipped alike with something behind, unless nothing is in front of that.
LEMMA SkipBoth ==
    ASSUME NEW y \in Formats, NEW fmt \in Formats, y # <<>> => y[Len(y)] # "."
    PROVE  /\ y = <<>> => SkipDot(y) = <<>> /\ SkipDot(y \o Behind(fmt)) = fmt
           /\ y # <<>> => /\ SkipDot(y) # <<>> /\ SkipDot(y \o Behind(fmt)) = SkipDot(y) \o Behind(fmt)
<1>1. Behind(fmt) \in Formats /\ Behind(fmt) # <<>> /\ Behind(fmt)[1] = "." /\ Tail(Behind(fmt)) = fmt
  BY BehindIs
<1>2. CASE y = <<>>
  <2>1. y \o Behind(fmt) = Behind(fmt)
    BY <1>1, <1>2, ConcatEmptySeq DEF Formats
  <2>2. QED
    BY <1>1, <1>2, <2>1 DEF SkipDot
<1>3. CASE y # <<>>
  <2>1. /\ Tail(y \o Behind(fmt)) = Tail(y) \o Behind(fmt)
        /\ (y \o Behind(fmt))[1] = y[1] /\ y \o Behind(fmt) # <<>>
    BY <1>1, <1>3, TailJoined DEF Formats
  <2>2. CASE y[1] = "."
    <3>1. Len(y) # 1 /\ Len(y) \in Nat
      BY <1>3, <2>2, LenProperties DEF Formats
    <3>2. Tail(y) \in Formats /\ Len(Tail(y)) = Len(y) - 1
      BY <1>3, HeadTailProperties DEF Formats
    <3>3. Tail(y) # <<>>
      <4>1. Len(Tail(y)) # 0
        BY <3>1, <3>2
      <4>2. Len(<<>>) = 0
        BY EmptySeq
      <4>3. QED
        BY <4>1, <4>2
    <3>4. SkipDot(y) = Tail(y) /\ SkipDot(y \o Behind(fmt)) = Tail(y \o Behind(fmt))
      BY <1>3, <2>1, <2>2 DEF SkipDot
    <3>5. QED
      BY <1>3, <2>1, <3>3, <3>4
  <2>3. CASE y[1] # "."
    <3>1. SkipDot(y) = y /\ SkipDot(y \o Behind(fmt)) = y \o Behind(fmt)
      BY <1>3, <2>1, <2>3 DEF SkipDot
    <3>2. QED
      BY <1>3, <3>1
  <2>4. QED
    BY <2>2, <2>3
<1>4. QED
  BY <1>2, <1>3

\* What is left of a text behind a dot.
LEMMA SkipIs ==
    ASSUME NEW y \in Formats
    PROVE  \E e \in {0, 1} : /\ e <= Len(y) /\ SkipDot(y) = SubSeq(y, e + 1, Len(y))
                             /\ e = 1 <=> y # <<>> /\ y[1] = "."
<1>1. Len(y) \in Nat
  BY LenProperties DEF Formats
<1>2. CASE y # <<>> /\ y[1] = "."
  <2>1. SkipDot(y) = SubSeq(y, 2, Len(y))
    BY <1>2, TailIsSubSeq DEF Formats, SkipDot
  <2>2. Len(y) # 0
    BY <1>2, EmptySeq DEF Formats
  <2>3. 1 <= Len(y) /\ 1 + 1 = 2 /\ 1 \in {0, 1}
    BY <1>1, <2>2
  <2>4. SkipDot(y) = SubSeq(y, 1 + 1, Len(y)) /\ y[1] = "."
    BY <1>2, <2>1, <2>3
  <2>5. QED
    BY <1>2, <2>3, <2>4
<1>3. CASE ~(y # <<>> /\ y[1] = ".")
  <2>1. SkipDot(y) = y
    BY <1>3 DEF SkipDot
  <2>2. y = SubSeq(y, 1, Len(y))
    BY SubSeqFull DEF Formats
  <2>3. 0 <= Len(y) /\ 0 + 1 = 1 /\ 0 \in {0, 1} /\ 0 # 1
    BY <1>1
  <2>4. SkipDot(y) = SubSeq(y, 0 + 1, Len(y))
    BY <2>1, <2>2, <2>3
  <2>5. QED
    BY <1>3, <2>3, <2>4
<1>4. QED
  BY <1>2, <1>3

\* A name ends where it does with something behind.
LEMMA UntilBoth ==
    ASSUME NEW x \in Formats, NEW fmt \in Formats
    PROVE  \E n \in 0..Len(x) :
              /\ Until(x, ".") = SubSeq(x, 1, n) /\ Until(x \o Behind(fmt), ".") = SubSeq(x, 1, n)
              /\ \A j \in 1..n : x[j] # "."
              /\ n < Len(x) => x[n + 1] = "."
<1> DEFINE r == Behind(fmt)
           v == x \o r
           m == Len(x)
           l == Len(r)
<1>1. r \in Formats /\ r # <<>> /\ r[1] = "."
  BY BehindIs
<1> HIDE DEF r
<1>2. m \in Nat /\ l \in Nat /\ l >= 1
  <2>1. l \in Nat /\ l # 0
    BY <1>1, EmptySeq, LenProperties DEF Formats
  <2>2. m \in Nat
    BY LenProperties DEF Formats
  <2> HIDE DEF l
  <2>3. QED
    BY <2>1, <2>2
<1>3. /\ v \in Formats /\ Len(v) = m + l
      /\ \A i \in 1..(m + l) : v[i] = IF i <= m THEN x[i] ELSE r[i - m]
  BY <1>1, ConcatProperties DEF Formats
<1>4. PICK n \in 0..m : /\ Until(x, ".") = SubSeq(x, 1, n) /\ \A j \in 1..n : x[j] # "."
                        /\ n < m => x[n + 1] = "."
  BY UntilIs DEF Formats
<1>5. PICK o \in 0..Len(v) : /\ Until(v, ".") = SubSeq(v, 1, o) /\ \A j \in 1..o : v[j] # "."
                             /\ o < Len(v) => v[o + 1] = "."
  BY <1>3, UntilIs DEF Formats
<1> HIDE DEF m, l, v
<1>6. n \in Nat /\ n <= m /\ o \in Nat /\ o <= m + l
  BY <1>2, <1>3, <1>4, <1>5
<1>7. v[n + 1] = "."
  <2>1. n + 1 \in 1..(m + l)
    BY <1>2, <1>6
  <2>2. CASE n < m
    <3>1. n + 1 <= m
      BY <1>2, <1>6, <2>2
    <3>2. QED
      BY <1>3, <1>4, <2>1, <2>2, <3>1
  <2>3. CASE n = m
    <3>1. ~(n + 1 <= m) /\ (n + 1) - m = 1
      BY <1>2, <2>3
    <3>2. QED
      BY <1>1, <1>3, <2>1, <3>1
  <2>4. QED
    BY <1>2, <1>6, <2>2, <2>3
<1>8. ASSUME NEW j \in 1..n PROVE v[j] = x[j]
  <2>1. j \in 1..(m + l) /\ j <= m
    BY <1>2, <1>6
  <2>2. QED
    BY <1>3, <2>1
<1>9. o = n
  <2>1. ~(o > n)
    <3> SUFFICES ASSUME o > n PROVE FALSE
      OBVIOUS
    <3>1. n + 1 \in 1..o
      BY <1>6
    <3>2. QED
      BY <1>5, <1>7, <3>1
  <2>2. ~(o < n)
    <3> SUFFICES ASSUME o < n PROVE FALSE
      OBVIOUS
    <3>1. o + 1 \in 1..n /\ o < Len(v)
      BY <1>2, <1>3, <1>6
    <3>2. v[o + 1] = "." /\ v[o + 1] = x[o + 1] /\ x[o + 1] # "."
      BY <1>4, <1>5, <1>8, <3>1
    <3>3. QED
      BY <3>2
  <2>3. QED
    BY <1>6, <2>1, <2>2
<1>10. SubSeq(v, 1, n) = SubSeq(x, 1, n)
  <2>0. n <= Len(v) /\ 0 <= n /\ 0 \in Nat /\ n <= Len(x) /\ n - 0 = n /\ 0 + 1 = 1
    BY <1>2, <1>3, <1>6 DEF m
  <2>1. /\ SubSeq(v, 0 + 1, n) \in Formats /\ Len(SubSeq(v, 0 + 1, n)) = n - 0
        /\ \A i \in 1..(n - 0) : SubSeq(v, 0 + 1, n)[i] = v[0 + i]
    BY <1>3, <1>6, <2>0, Part DEF Formats
  <2>2. /\ SubSeq(x, 0 + 1, n) \in Formats /\ Len(SubSeq(x, 0 + 1, n)) = n - 0
        /\ \A i \in 1..(n - 0) : SubSeq(x, 0 + 1, n)[i] = x[0 + i]
    BY <1>6, <2>0, Part DEF Formats
  <2>3. \A i \in 1..n : 0 + i = i
    BY <1>6
  <2>4. \A i \in 1..n : SubSeq(v, 1, n)[i] = SubSeq(x, 1, n)[i]
    BY <1>8, <2>0, <2>1, <2>2, <2>3
  <2>5. /\ SubSeq(v, 1, n) \in Seq(STRING \union {"."}) /\ SubSeq(x, 1, n) \in Seq(STRING \union {"."})
        /\ Len(SubSeq(v, 1, n)) = n /\ Len(SubSeq(x, 1, n)) = n
    BY <2>0, <2>1, <2>2 DEF Formats
  <2>6. QED
    BY <2>4, <2>5, SeqEqual
<1>11. QED
  BY <1>4, <1>5, <1>9, <1>10 DEF m, v, r

\* What is left of a format from a character on, and of what is left.
LEMMA LeftIs ==
    ASSUME NEW x \in Formats, NEW k \in 0..Len(x)
    PROVE  LET y == SubSeq(x, k + 1, Len(x)) IN
           /\ y \in Formats /\ Len(y) = Len(x) - k
           /\ \A i \in 1..(Len(x) - k) : y[i] = x[k + i]
           /\ y # <<>> <=> k < Len(x)
           /\ y # <<>> => y[Len(y)] = x[Len(x)]
           /\ \A i \in 0..Len(y) : SubSeq(y, i + 1, Len(y)) = SubSeq(x, (k + i) + 1, Len(x))
<1> DEFINE n == Len(x)
           y == SubSeq(x, k + 1, n)
<1>1. n \in Nat
  BY LenProperties DEF Formats
<1>2. k \in Nat /\ k <= n /\ n <= n
  BY <1>1
<1>3. y \in Formats /\ Len(y) = n - k /\ \A i \in 1..(n - k) : y[i] = x[k + i]
  BY <1>1, <1>2, Part DEF Formats
<1>4. y # <<>> <=> k < n
  <2>1. y = <<>> <=> Len(y) = 0
    BY <1>3, EmptySeq DEF Formats
  <2> HIDE DEF y, n
  <2>2. Len(y) = 0 <=> ~(k < n)
    BY <1>1, <1>2, <1>3
  <2>3. QED
    BY <2>1, <2>2
<1>5. y # <<>> => y[Len(y)] = x[n]
  <2> SUFFICES ASSUME y # <<>> PROVE y[Len(y)] = x[n]
    OBVIOUS
  <2>1. k < n
    BY <1>4
  <2> HIDE DEF y, n
  <2>2. n - k \in 1..(n - k) /\ k + (n - k) = n
    BY <1>1, <1>2, <2>1
  <2>3. QED
    BY <1>3, <2>2
<1>6. ASSUME NEW i \in 0..Len(y) PROVE SubSeq(y, i + 1, Len(y)) = SubSeq(x, (k + i) + 1, n)
  <2> DEFINE a == SubSeq(y, i + 1, Len(y))
             b == SubSeq(x, (k + i) + 1, n)
  <2>1. i \in Nat /\ i <= n - k /\ n - k \in Nat
    BY <1>1, <1>2, <1>3
  <2>2. /\ a \in Seq(STRING \union {"."}) /\ Len(a) = (n - k) - i
        /\ \A j \in 1..((n - k) - i) : a[j] = y[i + j]
    <3> HIDE DEF y, n
    <3>1. Len(y) <= Len(y) /\ i <= Len(y) /\ Len(y) \in Nat
      BY <1>3, <2>1
    <3>2. /\ a \in Seq(STRING \union {"."}) /\ Len(a) = Len(y) - i
          /\ \A j \in 1..(Len(y) - i) : a[j] = y[i + j]
      BY <1>3, <2>1, <3>1, Part DEF Formats
    <3>3. QED
      BY <1>3, <3>2
  <2>3. /\ b \in Seq(STRING \union {"."}) /\ Len(b) = n - (k + i)
        /\ \A j \in 1..(n - (k + i)) : b[j] = x[(k + i) + j]
    <3> DEFINE h == k + i
    <3>1. h \in Nat /\ h <= n
      BY <1>1, <1>2, <2>1
    <3> HIDE DEF h
    <3>2. /\ SubSeq(x, h + 1, n) \in Seq(STRING \union {"."}) /\ Len(SubSeq(x, h + 1, n)) = n - h
          /\ \A j \in 1..(n - h) : SubSeq(x, h + 1, n)[j] = x[h + j]
      BY <1>1, <1>2, <3>1, Part DEF Formats
    <3>3. QED
      BY <3>2 DEF h
  <2> HIDE DEF a, b, y, n
  <2>4. Len(a) = Len(b)
    BY <1>1, <1>2, <2>1, <2>2, <2>3
  <2>5. ASSUME NEW j \in 1..Len(a) PROVE a[j] = b[j]
    <3>1. /\ j \in 1..((n - k) - i) /\ j \in 1..(n - (k + i)) /\ i + j \in 1..(n - k)
          /\ k + (i + j) = (k + i) + j
      BY <1>1, <1>2, <2>1, <2>2
    <3>2. QED
      BY <1>3, <2>2, <2>3, <3>1
  <2>6. a = b
    BY <2>2, <2>3, <2>4, <2>5, SeqEqual
  <2>7. QED
    BY <2>6 DEF a, b
<1>7. QED
  BY <1>3, <1>4, <1>5, <1>6

\* The tail is what is left from the second on.
LEMMA TailIs ==
    ASSUME NEW x \in Formats, x # <<>>
    PROVE  1 \in 0..Len(x) /\ Tail(x) = SubSeq(x, 1 + 1, Len(x))
<1>1. Len(x) \in Nat /\ Len(x) # 0
  BY EmptySeq, LenProperties DEF Formats
<1>2. 1 \in 0..Len(x) /\ 1 + 1 = 2
  BY <1>1
<1>3. QED
  BY <1>2, TailIsSubSeq DEF Formats

\* The name without the mark of an attribute.
Plainly(x) == IF x[1] = "@" THEN Tail(x) ELSE x

\* Where a turn goes on.
Onwards(w) ==
    CASE w.fmt[1] \in {"%s", "%d"} -> SkipDot(Tail(w.fmt))
      [] OTHER -> SkipDot(SubSeq(Plainly(w.fmt), Len(Until(Plainly(w.fmt), ".")) + 1,
                                 Len(Plainly(w.fmt))))

\* A turn, taken apart.
LEMMA DescendIs ==
    ASSUME NEW w
    PROVE  /\ Descend(w).fmt = Onwards(w)
           /\ Descend(w).args = IF w.fmt[1] \in {"%s", "%d"} THEN Tail(w.args) ELSE w.args
           /\ Descend(w).node = CASE w.fmt[1] = "%s" -> ByName(w.node, w.args[1])
                                  [] w.fmt[1] = "%d" -> ByIndex(w.node, w.args[1])
                                  [] OTHER -> ByName(w.node, Until(Plainly(w.fmt), "."))
           /\ Descend(w) = [node |-> Descend(w).node, fmt |-> Descend(w).fmt,
                            args |-> Descend(w).args]
<1>1. CASE w.fmt[1] = "%s"
  BY <1>1 DEF Descend, Onwards
<1>2. CASE w.fmt[1] = "%d"
  BY <1>2 DEF Descend, Onwards
<1>3. CASE w.fmt[1] \notin {"%s", "%d"}
  <2> DEFINE f == Plainly(w.fmt)
  <2>1. Descend(w) = [node |-> ByName(w.node, Until(f, ".")),
                      fmt |-> SkipDot(SubSeq(f, Len(Until(f, ".")) + 1, Len(f))), args |-> w.args]
    BY <1>3 DEF Descend, Plainly
  <2> HIDE DEF f
  <2>2. Onwards(w) = SkipDot(SubSeq(f, Len(Until(f, ".")) + 1, Len(f)))
    BY <1>3 DEF Onwards, f
  <2>3. QED
    BY <1>3, <2>1, <2>2 DEF f
<1>4. QED
  BY <1>1, <1>2, <1>3

\* The mark of an attribute is one character.
LEMMA PlainlyIs ==
    ASSUME NEW x \in Formats, x # <<>>
    PROVE  \E h \in {0, 1} : /\ h <= Len(x) /\ Plainly(x) = SubSeq(x, h + 1, Len(x))
                             /\ h = 1 <=> x[1] = "@"
<1>1. Len(x) \in Nat /\ Len(x) # 0
  BY EmptySeq, LenProperties DEF Formats
<1>2. CASE x[1] = "@"
  <2>1. Plainly(x) = SubSeq(x, 1 + 1, Len(x))
    BY <1>2, TailIs DEF Plainly
  <2>2. 1 <= Len(x) /\ 1 \in {0, 1}
    BY <1>1
  <2>3. QED
    BY <1>2, <2>1, <2>2
<1>3. CASE x[1] # "@"
  <2>1. Plainly(x) = SubSeq(x, 1, Len(x))
    BY <1>3, SubSeqFull DEF Plainly, Formats
  <2>2. 0 <= Len(x) /\ 0 \in {0, 1} /\ 0 # 1 /\ 0 + 1 = 1
    BY <1>1
  <2>3. Plainly(x) = SubSeq(x, 0 + 1, Len(x))
    BY <2>1, <2>2
  <2>4. QED
    BY <1>3, <2>2, <2>3
<1>4. QED
  BY <1>2, <1>3

\* A turn takes off a beginning of the format: a conversion or a name, and the dot
\* behind it, and no other one.
LEMMA OnwardsCuts ==
    ASSUME NEW w, w.fmt \in Formats, w.fmt # <<>>
    PROVE  \E k \in 1..Len(w.fmt) :
              /\ Onwards(w) = SubSeq(w.fmt, k + 1, Len(w.fmt))
              /\ \A i \in 1..(k - 1) : w.fmt[1] \in {"%s", "%d"} \/ w.fmt[i] # "."
              /\ w.fmt[1] \in {"%s", "%d"} => \A i \in 2..k : w.fmt[i] = "."
<1> DEFINE x == w.fmt
           n == Len(x)
<1>0. n \in Nat /\ n # 0
  BY EmptySeq, LenProperties DEF Formats
<1>1. CASE x[1] \in {"%s", "%d"}
  <2> DEFINE y == SubSeq(x, 1 + 1, n)
  <2>1. 1 \in 0..n /\ Tail(x) = y
    BY TailIs
  <2>2. Onwards(w) = SkipDot(y)
    BY <1>1, <2>1 DEF Onwards
  <2> HIDE DEF x
  <2>3. /\ y \in Formats /\ Len(y) = n - 1 /\ \A i \in 1..(n - 1) : y[i] = x[1 + i]
        /\ \A i \in 0..Len(y) : SubSeq(y, i + 1, Len(y)) = SubSeq(x, (1 + i) + 1, n)
    BY <2>1, LeftIs DEF x
  <2> HIDE DEF y
  <2>4. PICK e \in {0, 1} : /\ e <= Len(y) /\ SkipDot(y) = SubSeq(y, e + 1, Len(y))
                            /\ e = 1 <=> y # <<>> /\ y[1] = "."
    BY <2>3, SkipIs
  <2> HIDE DEF n
  <2>5. e \in 0..Len(y) /\ 1 + e \in 1..n /\ Len(y) \in Nat
    BY <1>0, <2>3, <2>4
  <2>6. Onwards(w) = SubSeq(x, (1 + e) + 1, n)
    BY <2>2, <2>3, <2>4, <2>5
  <2>7. ASSUME NEW i \in 2..(1 + e) PROVE x[i] = "."
    <3>1. e = 1 /\ i = 2 /\ 1 \in 1..(n - 1) /\ 1 + 1 = 2
      BY <1>0, <2>3, <2>4, <2>5
    <3>2. y[1] = x[2]
      BY <2>3, <3>1
    <3>3. QED
      BY <2>4, <3>1, <3>2
  <2> DEFINE k == 1 + e
  <2>8. k \in 1..n /\ Onwards(w) = SubSeq(x, k + 1, n) /\ \A i \in 2..k : x[i] = "."
    BY <2>5, <2>6, <2>7
  <2> HIDE DEF k
  <2>9. QED
    BY <1>1, <2>8 DEF x, n
<1>2. CASE x[1] \notin {"%s", "%d"}
  <2> DEFINE f == Plainly(x)
             m == Len(Until(f, "."))
             y == SubSeq(f, m + 1, Len(f))
  <2>1. Onwards(w) = SkipDot(y)
    BY <1>2 DEF Onwards
  <2>2. PICK h \in {0, 1} : h <= n /\ f = SubSeq(x, h + 1, n) /\ (h = 1 <=> x[1] = "@")
    BY PlainlyIs
  <2> HIDE DEF x, f
  <2>3. h \in 0..n
    BY <1>0, <2>2
  <2>4. /\ f \in Formats /\ Len(f) = n - h /\ \A i \in 1..(n - h) : f[i] = x[h + i]
        /\ \A i \in 0..Len(f) : SubSeq(f, i + 1, Len(f)) = SubSeq(x, (h + i) + 1, n)
    BY <2>2, <2>3, LeftIs DEF x
  <2>5. PICK o \in 0..Len(f) : /\ Until(f, ".") = SubSeq(f, 1, o) /\ \A j \in 1..o : f[j] # "."
                               /\ o < Len(f) => f[o + 1] = "."
    BY <2>4, UntilIs DEF Formats
  <2> HIDE DEF n, y
  <2>6. Len(f) \in Nat /\ o \in Nat /\ h \in Nat /\ o <= Len(f)
    BY <1>0, <2>3, <2>4, <2>5
  <2>7. m = o
    <3>1. 0 \in Nat /\ 0 <= o /\ o - 0 = o /\ 0 + 1 = 1
      BY <2>6
    <3>2. Len(SubSeq(f, 0 + 1, o)) = o - 0
      BY <2>4, <2>6, <3>1, Part DEF Formats
    <3>3. QED
      BY <2>5, <3>1, <3>2
  <2> HIDE DEF m
  <2>8. /\ y \in Formats /\ Len(y) = Len(f) - o /\ \A i \in 1..(Len(f) - o) : y[i] = f[o + i]
        /\ \A i \in 0..Len(y) : SubSeq(y, i + 1, Len(y)) = SubSeq(f, (o + i) + 1, Len(f))
    BY <2>4, <2>5, <2>7, LeftIs DEF y
  <2>9. PICK e \in {0, 1} : /\ e <= Len(y) /\ SkipDot(y) = SubSeq(y, e + 1, Len(y))
                            /\ e = 1 <=> y # <<>> /\ y[1] = "."
    BY <2>8, SkipIs
  <2> DEFINE k == (h + o) + e
  <2>10. e \in 0..Len(y) /\ o + e \in 0..Len(f) /\ h + (o + e) = k /\ k <= n /\ k \in Nat
    <3>1. /\ e \in {0, 1} /\ e <= Len(y) /\ Len(y) = Len(f) - o /\ Len(f) = n - h
          /\ n \in Nat /\ o \in Nat /\ h \in Nat /\ o <= Len(f) /\ Len(f) \in Nat
      BY <1>0, <2>4, <2>6, <2>8, <2>9
    <3> DEFINE l == Len(f)
               j == Len(y)
    <3>2. /\ e \in {0, 1} /\ e <= j /\ j = l - o /\ l = n - h
          /\ n \in Nat /\ o \in Nat /\ h \in Nat /\ o <= l /\ l \in Nat
      BY <3>1
    <3> HIDE DEF l, j
    <3>3. e \in 0..j /\ o + e \in 0..l /\ h + (o + e) = k /\ k <= n /\ k \in Nat
      BY <3>2
    <3>4. QED
      BY <3>3 DEF l, j
  <2>11. Onwards(w) = SubSeq(x, k + 1, n)
    <3>1. SkipDot(y) = SubSeq(f, (o + e) + 1, Len(f))
      BY <2>8, <2>9, <2>10
    <3>2. SubSeq(f, (o + e) + 1, Len(f)) = SubSeq(x, (h + (o + e)) + 1, n)
      BY <2>4, <2>10
    <3>3. QED
      BY <2>1, <2>10, <3>1, <3>2
  <2>12. k # 0
    <3> SUFFICES ASSUME k = 0 PROVE FALSE
      OBVIOUS
    <3>1. h = 0 /\ o = 0 /\ e = 0
      BY <2>2, <2>6, <2>9
    <3>2. Len(f) = n /\ o < Len(f) /\ o + 1 = 1 /\ 1 \in 1..(Len(f) - o) /\ Len(y) # 0
      BY <1>0, <2>4, <2>8, <3>1
    <3>3. f[1] = "." /\ y[1] = f[1]
      BY <2>5, <2>8, <3>1, <3>2
    <3>4. y # <<>>
      <4>1. Len(<<>>) = 0
        BY EmptySeq
      <4>2. QED
        BY <3>2, <4>1
    <3>5. QED
      BY <2>9, <3>1, <3>3, <3>4
  <2>13. ASSUME NEW i \in 1..(k - 1) PROVE x[i] # "."
    <3>1. i \in Nat /\ i <= h + o /\ i >= 1
      BY <2>2, <2>6, <2>9
    <3>2. CASE i <= h
      <4>1. h = 1 /\ i = 1
        BY <2>2, <3>1, <3>2
      <4>2. x[1] = "@" /\ "@" # "."
        BY <2>2, <4>1
      <4>3. QED
        BY <4>1, <4>2
    <3>3. CASE ~(i <= h)
      <4>1. i - h \in 1..o /\ i - h \in 1..(n - h) /\ h + (i - h) = i
        BY <1>0, <2>2, <2>4, <2>5, <2>6, <3>1, <3>3
      <4>2. f[i - h] = x[i] /\ f[i - h] # "."
        BY <2>4, <2>5, <4>1
      <4>3. QED
        BY <4>2
    <3>4. QED
      BY <3>2, <3>3
  <2>14. k \in 1..n
    BY <1>0, <2>10, <2>12
  <2> HIDE DEF k
  <2>15. QED
    BY <1>2, <2>11, <2>13, <2>14 DEF x, n
<1>3. QED
  BY <1>1, <1>2

\* A turn on the path of a context with another path behind it: what is left of the
\* first, and all of the second.
Beside(w, q) ==
    [node |-> w.node, fmt |-> w.fmt \o Behind(q.fmt), args |-> w.args \o q.args]

\* With another path behind it a turn goes the same way; what it leaves is in front
\* of the other path, and when it leaves nothing the other path begins.
LEMMA DescendBoth ==
    ASSUME NEW w, NEW S, NEW q, q.fmt \in Formats, q.args \in Seq(S),
           w.fmt \in Formats, w.fmt # <<>>, w.fmt[Len(w.fmt)] # ".", w.args \in Seq(S),
           w.fmt[1] \in {"%s", "%d"} => w.args # <<>>
    PROVE  LET v == Beside(w, q) IN
           /\ Descend(v).node = Descend(w).node /\ Descend(v).args = Descend(w).args \o q.args
           /\ Onwards(v) = IF Onwards(w) = <<>> THEN q.fmt ELSE Onwards(w) \o Behind(q.fmt)
<1> DEFINE x == w.fmt
           n == Len(x)
           r == Behind(q.fmt)
           v == Beside(w, q)
<1>0. n \in Nat /\ n # 0 /\ r \in Formats
  BY EmptySeq, LenProperties, BehindIs DEF Formats
<1>1. v.node = w.node /\ v.fmt = x \o r /\ v.args = w.args \o q.args
  BY DEF Beside
<1>2. Tail(x \o r) = Tail(x) \o r /\ (x \o r)[1] = x[1] /\ x \o r # <<>>
  BY <1>0, TailJoined DEF Formats
<1> HIDE DEF r, v
<1>3. CASE x[1] \in {"%s", "%d"}
  <2> DEFINE y == SubSeq(x, 1 + 1, n)
  <2>1. Tail(w.args \o q.args) = Tail(w.args) \o q.args /\ (w.args \o q.args)[1] = w.args[1]
    BY <1>3, TailJoined
  <2>2. 1 \in 0..n /\ Tail(x) = y
    BY TailIs
  <2>3. Onwards(w) = SkipDot(y) /\ Onwards(v) = SkipDot(y \o r)
    <3>1. Onwards(w) = SkipDot(Tail(x))
      BY <1>3 DEF Onwards
    <3>2. Onwards(v) = SkipDot(Tail(x \o r))
      BY <1>1, <1>2, <1>3 DEF Onwards
    <3> HIDE DEF x, y
    <3>3. QED
      BY <1>2, <2>2, <3>1, <3>2
  <2>4. /\ Descend(v).args = Descend(w).args \o q.args
        /\ Descend(v).node = Descend(w).node
    <3>1. /\ Descend(w).args = Tail(w.args)
          /\ Descend(w).node = IF x[1] = "%s" THEN ByName(w.node, w.args[1])
                                              ELSE ByIndex(w.node, w.args[1])
      BY <1>3, DescendIs
    <3>2. /\ Descend(v).args = Tail(v.args)
          /\ Descend(v).node = IF x[1] = "%s" THEN ByName(v.node, v.args[1])
                                              ELSE ByIndex(v.node, v.args[1])
      <4>1. v.fmt[1] = x[1]
        BY <1>1, <1>2
      <4>2. QED
        BY <1>3, <4>1, DescendIs
    <3> HIDE DEF x
    <3>3. QED
      BY <1>1, <2>1, <3>1, <3>2
  <2>5. y \in Formats /\ (y # <<>> => y[Len(y)] = x[n])
    BY <2>2, LeftIs
  <2> HIDE DEF y
  <2>6. /\ y = <<>> => SkipDot(y) = <<>> /\ SkipDot(y \o r) = q.fmt
        /\ y # <<>> => SkipDot(y) # <<>> /\ SkipDot(y \o r) = SkipDot(y) \o r
    BY <2>5, SkipBoth DEF r
  <2>7. QED
    BY <2>3, <2>4, <2>6 DEF r, v
<1>4. CASE x[1] \notin {"%s", "%d"}
  <2> DEFINE f == Plainly(x)
             g == Plainly(x \o r)
             y == SubSeq(f, Len(Until(f, ".")) + 1, Len(f))
             z == SubSeq(g, Len(Until(g, ".")) + 1, Len(g))
  <2>1. PICK h \in {0, 1} : h <= n /\ f = SubSeq(x, h + 1, n)
    BY PlainlyIs
  <2>2. g = f \o r
    BY <1>2 DEF Plainly
  <2>3. v.fmt[1] = x[1]
    BY <1>1, <1>2
  <2>4. Onwards(w) = SkipDot(y) /\ Onwards(v) = SkipDot(z)
    <3>1. Onwards(w) = SkipDot(y)
      BY <1>4 DEF Onwards
    <3>2. Onwards(v) = SkipDot(z)
      BY <1>1, <1>4, <2>3 DEF Onwards
    <3>3. QED
      BY <3>1, <3>2
  <2>5. /\ Descend(w).args = w.args /\ Descend(w).node = ByName(w.node, Until(f, "."))
        /\ Descend(v).args = v.args /\ Descend(v).node = ByName(v.node, Until(g, "."))
    <3>1. Descend(w).args = w.args /\ Descend(w).node = ByName(w.node, Until(f, "."))
      BY <1>4, DescendIs
    <3>2. Descend(v).args = v.args /\ Descend(v).node = ByName(v.node, Until(Plainly(v.fmt), "."))
      BY <1>4, <2>3, DescendIs
    <3>3. QED
      BY <1>1, <3>1, <3>2
  <2> HIDE DEF x, f, g
  <2>6. h \in 0..n
    BY <1>0, <2>1
  <2>7. f \in Formats /\ (f # <<>> => f[Len(f)] = x[n])
    BY <2>1, <2>6, LeftIs DEF x
  <2>8. PICK o \in 0..Len(f) : Until(f, ".") = SubSeq(f, 1, o) /\ Until(g, ".") = SubSeq(f, 1, o)
    BY <2>2, <2>7, UntilBoth DEF r
  <2>9. Len(SubSeq(f, 1, o)) = o
    <3>1. Len(f) \in Nat
      BY <2>7, LenProperties DEF Formats
    <3>2. o \in Nat /\ o <= Len(f) /\ 0 \in Nat /\ 0 <= o /\ o - 0 = o /\ 0 + 1 = 1
      BY <2>8, <3>1
    <3>3. Len(SubSeq(f, 0 + 1, o)) = o - 0
      BY <2>7, <3>2, Part DEF Formats
    <3>4. QED
      BY <3>2, <3>3
  <2>10. y = SubSeq(f, o + 1, Len(f)) /\ z = SubSeq(f \o r, o + 1, Len(f \o r))
    BY <2>2, <2>8, <2>9
  <2> HIDE DEF y, z
  <2>11. z = y \o r
    BY <1>0, <2>7, <2>8, <2>10, CutJoined DEF Formats
  <2>12. y \in Formats /\ (y # <<>> => y[Len(y)] = f[Len(f)] /\ f # <<>>)
    <3>1. y \in Formats /\ (y # <<>> => y[Len(y)] = f[Len(f)]) /\ (y # <<>> => o < Len(f))
      BY <2>7, <2>8, <2>10, LeftIs
    <3>2. f = <<>> => Len(f) = 0 /\ ~(o < Len(f))
      BY <2>8, EmptySeq
    <3>3. QED
      BY <3>1, <3>2
  <2>13. y # <<>> => y[Len(y)] # "."
    BY <2>7, <2>12 DEF x
  <2>14. /\ y = <<>> => SkipDot(y) = <<>> /\ SkipDot(y \o r) = q.fmt
         /\ y # <<>> => SkipDot(y) # <<>> /\ SkipDot(y \o r) = SkipDot(y) \o r
    BY <2>12, <2>13, SkipBoth DEF r
  <2>15. /\ Descend(v).node = Descend(w).node /\ Descend(v).args = Descend(w).args \o q.args
    BY <1>1, <2>5, <2>8
  <2>16. QED
    BY <2>4, <2>11, <2>14, <2>15 DEF r, v
<1>5. QED
  BY <1>3, <1>4

\* The conversions behind a place of a format.
Coming(fmt, p) == {i \in Conversions(fmt) : i > p}

\* Where a turn stands in the path of a context: what is left of the format, and an
\* argument for each conversion that is left.
Stands(w, fmt, p, S) ==
    /\ w = [node |-> w.node, fmt |-> w.fmt, args |-> w.args]
    /\ w.fmt = SubSeq(fmt, p + 1, Len(fmt))
    /\ w.args \in Seq(S) /\ Len(w.args) = Cardinality(Coming(fmt, p))

\* As the path of a context is made.
Sound(fmt) ==
    /\ fmt \in Formats /\ fmt # <<>> /\ fmt[Len(fmt)] # "."
    /\ \A i \in Conversions(fmt) \ {1} : i - 1 \in Conversions(fmt) \/ fmt[i - 1] = "."

\* The conversions that are left are finitely many.
LEMMA ComingFinite ==
    ASSUME NEW fmt \in Formats, NEW p
    PROVE  IsFiniteSet(Coming(fmt, p))
<1>1. Len(fmt) \in Nat
  BY LenProperties DEF Formats
<1>2. IsFiniteSet(1..Len(fmt))
  BY <1>1, FS_Interval
<1>3. Coming(fmt, p) \subseteq 1..Len(fmt)
  BY DEF Coming, Conversions
<1>4. QED
  BY <1>2, <1>3, FS_Subset

\* A turn that reads a conversion uses one argument, another one none; and there is
\* one to use.
LEMMA StandsOn ==
    ASSUME NEW w, NEW fmt, Sound(fmt), NEW p \in Nat, p < Len(fmt), NEW S, Stands(w, fmt, p, S)
    PROVE  /\ w.fmt \in Formats /\ w.fmt # <<>> /\ w.fmt[Len(w.fmt)] # "."
           /\ w.fmt[1] \in {"%s", "%d"} => w.args # <<>>
           /\ \E k \in (p + 1)..Len(fmt) : Stands(Descend(w), fmt, k, S)
<1> DEFINE n == Len(fmt)
           x == w.fmt
           d == Descend(w)
<1>0. n \in Nat /\ fmt \in Formats
  BY LenProperties DEF Formats, Sound
<1>1. p \in 0..n /\ x = SubSeq(fmt, p + 1, n) /\ p < n
  BY <1>0 DEF Stands
<1>2. /\ x \in Formats /\ Len(x) = n - p /\ \A i \in 1..(n - p) : x[i] = fmt[p + i]
      /\ x # <<>> /\ x[Len(x)] = fmt[n]
      /\ \A i \in 0..Len(x) : SubSeq(x, i + 1, Len(x)) = SubSeq(fmt, (p + i) + 1, n)
  <2> DEFINE y == SubSeq(fmt, p + 1, n)
  <2>1. /\ y \in Formats /\ Len(y) = n - p /\ \A i \in 1..(n - p) : y[i] = fmt[p + i]
        /\ y # <<>> <=> p < n
        /\ y # <<>> => y[Len(y)] = fmt[n]
        /\ \A i \in 0..Len(y) : SubSeq(y, i + 1, Len(y)) = SubSeq(fmt, (p + i) + 1, n)
    BY <1>0, <1>1, LeftIs
  <2> HIDE DEF y, n, x
  <2>2. x = y
    BY <1>1 DEF y
  <2>3. QED
    BY <1>1, <2>1, <2>2
<1>3. PICK k \in 1..Len(x) :
         /\ Onwards(w) = SubSeq(x, k + 1, Len(x))
         /\ \A i \in 1..(k - 1) : x[1] \in {"%s", "%d"} \/ x[i] # "."
         /\ x[1] \in {"%s", "%d"} => \A i \in 2..k : x[i] = "."
  BY <1>2, OnwardsCuts
<1>4. d.fmt = Onwards(w) /\ d = [node |-> d.node, fmt |-> d.fmt, args |-> d.args]
      /\ d.args = IF x[1] \in {"%s", "%d"} THEN Tail(w.args) ELSE w.args
  BY DescendIs
<1>5. w.args \in Seq(S) /\ Len(w.args) = Cardinality(Coming(fmt, p))
  BY DEF Stands
<1>6. IsFiniteSet(Coming(fmt, p + k)) /\ Cardinality(Coming(fmt, p + k)) \in Nat
  BY <1>0, ComingFinite, FS_CardinalityType
<1> HIDE DEF d, x, n
<1>7. k \in 0..Len(x) /\ p + k \in (p + 1)..n /\ k <= n - p /\ k \in Nat /\ k >= 1
  BY <1>0, <1>1, <1>2, <1>3
<1>8. d.fmt = SubSeq(fmt, (p + k) + 1, n)
  BY <1>2, <1>3, <1>4, <1>7
<1>9. ASSUME NEW i \in Nat, i > p, i <= p + k
      PROVE  i - p \in 1..k /\ i - p \in 1..(n - p) /\ p + (i - p) = i /\ x[i - p] = fmt[i]
  <2>1. i - p \in 1..k /\ i - p \in 1..(n - p) /\ p + (i - p) = i
    BY <1>0, <1>7, <1>9
  <2>2. QED
    BY <1>2, <2>1
<1>10. Conversions(fmt) \subseteq Nat /\ \A i \in Conversions(fmt) : i \in 1..n /\ fmt[i] \in {"%s", "%d"}
  BY <1>0 DEF Conversions, n
<1>11. /\ x[1] \in {"%s", "%d"} => w.args # <<>>
       /\ d.args \in Seq(S) /\ Len(d.args) = Cardinality(Coming(fmt, p + k))
  <2>1. CASE x[1] \in {"%s", "%d"}
    <3>1. p + 1 \in Coming(fmt, p) /\ p + 1 \notin Coming(fmt, p + k)
      <4>1. p + 1 \in 1..n /\ p + 1 > p /\ ~(p + 1 > p + k) /\ 1 \in 1..(n - p)
        BY <1>0, <1>1, <1>7
      <4>2. fmt[p + 1] = x[1]
        BY <1>2, <4>1
      <4>3. p + 1 \in Conversions(fmt)
        BY <2>1, <4>1, <4>2 DEF Conversions, n
      <4>4. QED
        BY <4>1, <4>3 DEF Coming
    <3>2. ASSUME NEW i \in Coming(fmt, p), i # p + 1 PROVE i \in Coming(fmt, p + k)
      <4>1. i \in Conversions(fmt) /\ i > p /\ i \in Nat
        BY <1>10 DEF Coming
      <4>2. CASE i > p + k
        BY <4>1, <4>2 DEF Coming
      <4>3. CASE i <= p + k
        <5>1. i - p \in 1..k /\ x[i - p] = fmt[i]
          BY <1>9, <4>1, <4>3
        <5>2. i - p \in 2..k
          BY <1>7, <3>2, <4>1, <5>1
        <5>3. fmt[i] = "." /\ fmt[i] \in {"%s", "%d"}
          BY <1>3, <1>10, <2>1, <4>1, <5>1, <5>2
        <5>4. QED
          BY <5>3
      <4>4. QED
        BY <1>7, <4>1, <4>2, <4>3
    <3>3. Coming(fmt, p + k) \subseteq Coming(fmt, p)
      BY <1>7, <1>10 DEF Coming
    <3>4. Coming(fmt, p) = Coming(fmt, p + k) \union {p + 1}
      BY <3>1, <3>2, <3>3
    <3>5. Cardinality(Coming(fmt, p)) = Cardinality(Coming(fmt, p + k)) + 1
      BY <1>6, <3>1, <3>4, FS_AddElement
    <3>6. Len(w.args) # 0
      BY <1>5, <1>6, <3>5
    <3>7. w.args # <<>>
      BY <3>6, EmptySeq
    <3>8. d.args \in Seq(S) /\ Len(d.args) = Len(w.args) - 1
      BY <1>4, <1>5, <2>1, <3>7, HeadTailProperties
    <3>9. Len(d.args) = Cardinality(Coming(fmt, p + k))
      BY <1>5, <1>6, <3>5, <3>8
    <3>10. QED
      BY <3>7, <3>8, <3>9
  <2>2. CASE x[1] \notin {"%s", "%d"}
    <3> DEFINE W == {i \in Conversions(fmt) : i > p /\ i <= p + k}
    <3>1. W = {}
      <4> SUFFICES ASSUME W # {} PROVE FALSE
        OBVIOUS
      <4>1. PICK i \in W : \A j \in W : i <= j
        BY <1>10, LeastOne
      <4>2. i \in Conversions(fmt) /\ i > p /\ i <= p + k /\ i \in Nat
        BY <1>10, <4>1
      <4>3. i - p \in 1..k /\ x[i - p] = fmt[i] /\ fmt[i] \in {"%s", "%d"}
        BY <1>9, <1>10, <4>2
      <4>4. i - p # 1
        BY <2>2, <4>3
      <4>5. i - 1 > p /\ i - 1 <= p + k /\ i - 1 \in Nat /\ ~(i <= i - 1) /\ i # 1 /\ (i - 1) - p \in 1..(k - 1)
        BY <1>7, <4>2, <4>3, <4>4
      <4>6. i - 1 \notin Conversions(fmt)
        BY <4>1, <4>5
      <4>7. fmt[i - 1] = "."
        BY <4>2, <4>5, <4>6 DEF Sound
      <4>8. x[(i - 1) - p] = fmt[i - 1]
        BY <1>9, <4>5
      <4>9. QED
        BY <1>3, <2>2, <4>5, <4>7, <4>8
    <3>2. Coming(fmt, p) = Coming(fmt, p + k)
      <4>1. ASSUME NEW i \in Conversions(fmt) PROVE i > p <=> i > p + k
        <5>1. i \in Nat /\ i \notin W
          BY <1>10, <3>1
        <5>2. QED
          BY <1>7, <5>1
      <4>2. QED
        BY <4>1 DEF Coming
    <3>3. QED
      BY <1>4, <1>5, <2>2, <3>2
  <2>3. QED
    BY <2>1, <2>2
<1>12. Stands(d, fmt, p + k, S)
  BY <1>4, <1>8, <1>11 DEF Stands, n
<1>13. x[Len(x)] # "."
  BY <1>2 DEF Sound, n
<1>14. QED
  BY <1>2, <1>7, <1>11, <1>12, <1>13 DEF d, x, n

\* The two go on together until the first path ends.
LEMMA BesideOn ==
    ASSUME NEW w, NEW F, Sound(F), NEW p \in Nat, p < Len(F), NEW S, Stands(w, F, p, S),
           NEW q, q.fmt \in Formats, q.args \in Seq(S)
    PROVE  LET d == Descend(w)
               e == Descend(Beside(w, q))
           IN \/ \E k \in Nat : /\ p < k /\ k < Len(F) /\ Stands(d, F, k, S)
                                /\ e = Beside(d, q)
              \/ d.fmt = <<>> /\ e = Begin(d.node, q)
<1> DEFINE d == Descend(w)
           v == Beside(w, q)
           e == Descend(v)
           n == Len(F)
<1>1. n \in Nat /\ F \in Formats
  BY LenProperties DEF Sound, Formats
<1>2. /\ w.fmt \in Formats /\ w.fmt # <<>> /\ w.fmt[Len(w.fmt)] # "."
      /\ w.fmt[1] \in {"%s", "%d"} => w.args # <<>>
      /\ \E k \in (p + 1)..n : Stands(d, F, k, S)
  BY StandsOn
<1>3. w.args \in Seq(S)
  BY DEF Stands
<1>4. /\ e.node = d.node /\ e.args = d.args \o q.args
      /\ Onwards(v) = IF Onwards(w) = <<>> THEN q.fmt ELSE Onwards(w) \o Behind(q.fmt)
  BY <1>2, <1>3, DescendBoth
<1>5. d.fmt = Onwards(w)
  BY DescendIs
<1>6. e.fmt = Onwards(v) /\ e = [node |-> e.node, fmt |-> e.fmt, args |-> e.args]
  BY DescendIs
<1> HIDE DEF d, v, e, n
<1>7. PICK k \in (p + 1)..n : Stands(d, F, k, S)
  BY <1>2
<1>8. k \in Nat /\ p < k /\ k <= n /\ k \in 0..n
  BY <1>1, <1>7
<1>9. d.fmt # <<>> <=> k < n
  <2> DEFINE y == SubSeq(F, k + 1, n)
  <2>1. y # <<>> <=> k < n
    BY <1>1, <1>8, LeftIs DEF n
  <2>2. d.fmt = y
    BY <1>7 DEF Stands, n
  <2> HIDE DEF y
  <2>3. QED
    BY <2>1, <2>2
<1>10. CASE k < n
  <2>1. e.fmt = d.fmt \o Behind(q.fmt)
    BY <1>4, <1>5, <1>6, <1>9, <1>10
  <2>2. e = Beside(d, q)
    BY <1>4, <1>6, <2>1 DEF Beside
  <2>3. QED
    BY <1>7, <1>8, <1>10, <2>2 DEF d, e, v, n
<1>11. CASE k = n
  <2>1. d.fmt = <<>> /\ e.fmt = q.fmt
    BY <1>1, <1>4, <1>5, <1>6, <1>9, <1>11
  <2>2. d.args \in Seq(S) /\ Len(d.args) = Cardinality(Coming(F, k))
    BY <1>7 DEF Stands
  <2>3. Coming(F, k) = {}
    <3>1. \A i \in Conversions(F) : ~(i > n)
      BY <1>1 DEF Conversions, n
    <3>2. QED
      BY <1>11, <3>1 DEF Coming
  <2>4. d.args = <<>>
    BY <2>2, <2>3, FS_EmptySet, EmptySeq
  <2>5. e.args = q.args
    BY <1>4, <2>4, ConcatEmptySeq
  <2>6. e = Begin(d.node, q)
    BY <1>4, <1>6, <2>1, <2>5 DEF Begin
  <2>7. QED
    BY <2>1, <2>6 DEF d, e, v
<1>12. QED
  BY <1>1, <1>8, <1>10, <1>11

\* A turn that has come to nothing, or to the end of its format, stays there.
Rests(w) == w.node = None \/ w.fmt = <<>>

\* A path has been gone when its turns are over: each takes something off the format.
LEMMA WalkEnds ==
    ASSUME NEW node, NEW q, q.fmt \in Formats, q.fmt # None
    PROVE  Rests(Walk(node, q)[Turns(q)])
<1> DEFINE m == Len(q.fmt)
           u == Walk(node, q)
           T == {i \in 0..m : Rests(u[i]) \/ (u[i].fmt \in Formats /\ Len(u[i].fmt) <= m - i)}
<1>1. m \in Nat /\ m = Turns(q)
  BY LenProperties DEF Formats, Turns
<1>0. u[0] = Begin(node, q) /\ \A i \in 1..m : u[i] = Advance(u[i - 1], q, i)
  BY <1>1, WalkIs
<1> HIDE DEF u
<1>2. 0 \in T
  BY <1>0, <1>1 DEF Begin
<1>3. ASSUME NEW i \in 1..m, i - 1 \in T PROVE i \in T
  <2> DEFINE w == u[i - 1]
             x == w.fmt
  <2>1. u[i] = Advance(w, q, i) /\ i \in 0..m
    BY <1>0, <1>1
  <2>2. CASE Rests(w)
    <3>1. u[i] = w
      BY <2>1, <2>2 DEF Advance, Rests
    <3> HIDE DEF w
    <3>2. Rests(u[i])
      BY <2>2, <3>1
    <3>3. QED
      BY <2>1, <3>2
  <2>3. CASE ~Rests(w)
    <3>1. x \in Formats /\ Len(x) <= m - (i - 1)
      BY <1>3, <2>3
    <3>2. u[i] = Descend(w) /\ x # <<>>
      BY <2>1, <2>3 DEF Advance, Rests
    <3>3. u[i].fmt = Onwards(w)
      BY <3>2, DescendIs
    <3> HIDE DEF w
    <3>4. PICK k \in 1..Len(x) : Onwards(w) = SubSeq(x, k + 1, Len(x))
      BY <3>1, <3>2, OnwardsCuts
    <3> HIDE DEF x
    <3>5. Len(x) \in Nat
      BY <3>1, LenProperties DEF Formats
    <3>6. k \in 0..Len(x) /\ Len(x) - k <= m - i
      BY <1>1, <3>1, <3>4, <3>5
    <3> DEFINE y == SubSeq(x, k + 1, Len(x))
    <3>7. y \in Formats /\ Len(y) = Len(x) - k
      BY <3>1, <3>6, LeftIs
    <3> HIDE DEF y
    <3>8. u[i].fmt = y
      BY <3>3, <3>4 DEF y
    <3>9. QED
      BY <2>1, <3>6, <3>7, <3>8
  <2>4. QED
    BY <2>2, <2>3
<1>4. m \in T
  <2> HIDE DEF T, m
  <2>1. \A i \in 0..m : i \in T
    BY <1>1, <1>2, <1>3, Upwards
  <2>2. QED
    BY <1>1, <2>1
<1>5. CASE u[m].fmt \in Formats /\ Len(u[m].fmt) <= m - m
  <2>1. Len(u[m].fmt) \in Nat /\ m - m = 0
    BY <1>1, <1>5, LenProperties DEF Formats
  <2>2. Len(u[m].fmt) = 0
    BY <1>5, <2>1
  <2>3. u[m].fmt = <<>>
    BY <1>5, <2>2, EmptySeq DEF Formats
  <2>4. QED
    BY <1>1, <2>3 DEF Rests, u
<1>6. QED
  BY <1>1, <1>4, <1>5 DEF u

\* From the turn at which the one stands where the other begins they go the same way,
\* and the one waits where the other ends.
LEMMA SameWay ==
    ASSUME NEW node, NEW q, q.fmt \in Formats, q.fmt # None, Turns(q) \in Nat,
           NEW from, NEW j, j.fmt # None, Turns(j) \in Nat,
           \E k \in Nat : k + Turns(q) <= Turns(j) /\ Walk(from, j)[k] = Begin(node, q)
    PROVE  Follow(from, j) = Follow(node, q)
<1> DEFINE m == Turns(q)
           l == Turns(j)
           u == Walk(node, q)
           v == Walk(from, j)
<1>1. u[0] = Begin(node, q) /\ \A i \in 1..m : u[i] = Advance(u[i - 1], q, i)
  BY WalkIs
<1>2. \A i \in 1..l : v[i] = Advance(v[i - 1], j, i)
  BY WalkIs
<1>3. PICK k \in Nat : k + m <= l /\ v[k] = u[0]
  BY <1>1
<1>4. Rests(u[m])
  BY WalkEnds
<1>5. m \in Nat /\ l \in Nat
  OBVIOUS
<1> HIDE DEF m, l, u, v
<1>6. ASSUME NEW h \in 0..m PROVE v[k + h] = u[h]
  <2> DEFINE T == {i \in 0..m : v[k + i] = u[i]}
  <2>1. 0 \in T
    BY <1>3, <1>5
  <2>2. ASSUME NEW i \in 1..m, i - 1 \in T PROVE i \in T
    <3>1. k + i \in 1..l /\ (k + i) - 1 = k + (i - 1) /\ i \in 0..m
      BY <1>3, <1>5
    <3>2. v[k + (i - 1)] = u[i - 1]
      BY <2>2
    <3>3. v[k + i] = Advance(u[i - 1], j, k + i)
      BY <1>2, <3>1, <3>2
    <3>4. Advance(u[i - 1], j, k + i) = Advance(u[i - 1], q, i)
      BY DEF Advance
    <3>5. QED
      BY <1>1, <3>1, <3>3, <3>4
  <2> HIDE DEF T
  <2>3. \A i \in 0..m : i \in T
    BY <1>5, <2>1, <2>2, Upwards
  <2>4. QED
    BY <2>3 DEF T
<1> DEFINE r == l - (k + m)
           R == {h \in 0..r : v[(k + m) + h] = u[m]}
<1>7. r \in Nat /\ (k + m) + r = l
  BY <1>3, <1>5
<1>8. 0 \in R
  <2>1. v[k + m] = u[m] /\ (k + m) + 0 = k + m
    BY <1>3, <1>5, <1>6
  <2> HIDE DEF r
  <2>2. QED
    BY <1>7, <2>1
<1>9. ASSUME NEW h \in 1..r, h - 1 \in R PROVE h \in R
  <2>1. /\ (k + m) + h \in 1..l /\ ((k + m) + h) - 1 = (k + m) + (h - 1)
        /\ h \in 0..r
    BY <1>3, <1>5
  <2>2. v[(k + m) + (h - 1)] = u[m]
    BY <1>9
  <2>3. v[(k + m) + h] = Advance(u[m], j, (k + m) + h)
    BY <1>2, <2>1, <2>2
  <2>4. v[(k + m) + h] = u[m]
    BY <1>4, <2>3 DEF Advance, Rests
  <2>5. QED
    BY <2>1, <2>4
<1>10. v[l] = u[m]
  <2> HIDE DEF R, r
  <2>1. \A h \in 0..r : h \in R
    BY <1>7, <1>8, <1>9, Upwards
  <2>2. r \in R
    BY <1>7, <2>1
  <2>3. QED
    BY <1>7, <2>2 DEF R
<1>11. QED
  BY <1>10, FollowIs DEF m, l, u, v

\* The path of a context and the path behind it, in turns.
LEMMA JoinedIs ==
    ASSUME NEW c, NEW q, c.fmt \in Formats, q.fmt \in Formats
    PROVE  LET j == Joined(c, q) IN
           /\ j.fmt = c.fmt \o Behind(q.fmt) /\ j.args = c.args \o q.args
           /\ j.fmt \in Formats /\ Len(j.fmt) = (Len(c.fmt) + 1) + Len(q.fmt)
<1> DEFINE S == STRING \union {"."}
           d == <<".">>
           a == c.fmt
           b == q.fmt
<1>1. d \in Seq(S) /\ Len(d) = 1
  <2>1. "." \in S
    BY Zenon
  <2>2. QED
    BY <2>1, OneMember
<1>2. a \in Seq(S) /\ b \in Seq(S)
  BY DEF Formats
<1>3. Joined(c, q).fmt = (a \o d) \o b /\ Joined(c, q).args = c.args \o q.args
  BY DEF Joined
<1> HIDE DEF S, d, a, b
<1>4. (a \o d) \o b = a \o (d \o b)
  BY <1>1, <1>2, ConcatAssociative
<1>5. (a \o d) \o b \in Seq(S) /\ Len((a \o d) \o b) = (Len(a) + 1) + Len(b)
  <2>1. a \o d \in Seq(S) /\ Len(a \o d) = Len(a) + 1
    <3>1. a \o d \in Seq(S) /\ Len(a \o d) = Len(a) + Len(d)
      BY <1>1, <1>2, ConcatProperties
    <3>2. QED
      BY <1>1, <3>1
  <2>2. QED
    BY <1>2, <2>1, ConcatProperties
<1>6. QED
  BY <1>3, <1>4, <1>5 DEF Behind, Formats, S, d, a, b

\* The arguments of two paths, all of one kind.
LEMMA ArgumentsIn ==
    ASSUME NEW c \in Contexts, NEW q \in Questions
    PROVE  \E S : c.args \in Seq(S) /\ q.args \in Seq(S)
<1> DEFINE S == {c.args[i] : i \in 1..Len(c.args)} \union {q.args[i] : i \in 1..Len(q.args)}
<1>1. /\ Len(c.args) \in Nat /\ c.args = [i \in 1..Len(c.args) |-> c.args[i]]
      /\ Len(q.args) \in Nat /\ q.args = [i \in 1..Len(q.args) |-> q.args[i]]
  BY QuestionsAssumption
<1>2. \A i \in 1..Len(c.args) : c.args[i] \in S
  OBVIOUS
<1>3. \A i \in 1..Len(q.args) : q.args[i] \in S
  OBVIOUS
<1> HIDE DEF S
<1>4. c.args \in Seq(S)
  BY <1>1, <1>2
<1>5. q.args \in Seq(S)
  BY <1>1, <1>3
<1>6. QED
  BY <1>4, <1>5

\* When the turns along the path of a context have come to a node, those along the
\* joined path have come to it at some turn, with all of the second path before them.
LEMMA Together ==
    ASSUME NEW from, NEW c \in Contexts, NEW q \in Questions, c.fmt # None, q.fmt # None,
           Follow(from, c) # None
    PROVE  \E k \in 0..Len(c.fmt) : Walk(from, Joined(c, q))[k] = Begin(Follow(from, c), q)
<1> DEFINE F == c.fmt
           f == q.fmt
           n == Len(F)
           m == Len(f)
           l == (n + 1) + m
           j == Joined(c, q)
           w == Walk(from, c)
           v == Walk(from, j)
<1>1. F \in Formats /\ f \in Formats
  BY QuestionsAssumption
<1>2. Sound(F) /\ Len(c.args) = Cardinality(Conversions(F))
  BY <1>1, ContextsAssumption DEF Sound
<1>3. n \in Nat /\ m \in Nat /\ l \in Nat /\ n # 0
  <2>1. F # <<>>
    BY <1>2 DEF Sound
  <2> HIDE DEF F, f
  <2>2. n \in Nat /\ m \in Nat /\ n # 0
    BY <1>1, <2>1, LenProperties, EmptySeq DEF Formats
  <2>3. QED
    BY <2>2
<1>4. /\ j.fmt = F \o Behind(f) /\ j.args = c.args \o q.args
      /\ j.fmt \in Formats /\ Len(j.fmt) = l
  BY <1>1, JoinedIs
<1>5. j.fmt # None
  BY <1>4, ValuesAssumption
<1>6. PICK S : c.args \in Seq(S) /\ q.args \in Seq(S)
  BY ArgumentsIn
<1> HIDE DEF j
<1>7. Turns(c) = n /\ Turns(j) = l
  BY <1>4, <1>5 DEF Turns
<1>8. w[0] = Begin(from, c) /\ \A i \in 1..n : w[i] = Advance(w[i - 1], c, i)
  <2>1. Turns(c) \in Nat
    BY <1>3, <1>7
  <2>2. QED
    BY <1>7, <2>1, WalkIs
<1>9. v[0] = Begin(from, j) /\ \A i \in 1..l : v[i] = Advance(v[i - 1], j, i)
  <2>1. Turns(j) \in Nat
    BY <1>3, <1>7
  <2>2. QED
    BY <1>7, <2>1, WalkIs
<1>10. w[n].node = Follow(from, c)
  BY <1>7, FollowIs
<1> HIDE DEF w, v
<1>11. Stands(w[0], F, 0, S)
  <2>1. w[0] = [node |-> from, fmt |-> F, args |-> c.args]
    BY <1>8 DEF Begin
  <2>2. F = SubSeq(F, 0 + 1, n)
    <3>1. F = SubSeq(F, 1, n)
      BY <1>1, SubSeqFull DEF Formats
    <3>2. QED
      BY <3>1
  <2>3. Coming(F, 0) = Conversions(F)
    BY <1>3 DEF Coming, Conversions
  <2>4. QED
    BY <1>2, <1>6, <2>1, <2>2, <2>3 DEF Stands
<1>12. v[0] = Beside(w[0], q)
  BY <1>4, <1>8, <1>9 DEF Begin, Beside
<1> HIDE DEF F, f, n, m, l
<1> DEFINE On(i) == \E p \in Nat : i <= p /\ p < n /\ Stands(w[i], F, p, S) /\ v[i] = Beside(w[i], q)
           Done(i) == w[i].fmt = <<>> /\ \E k \in 0..n : v[k] = Begin(w[i].node, q)
           T == {i \in 0..n : w[i].node = None \/ On(i) \/ Done(i)}
<1>13. 0 \in T
  <2>1. On(0)
    BY <1>3, <1>11, <1>12
  <2> HIDE DEF On, Done
  <2>2. QED
    BY <1>3, <2>1
<1>14. ASSUME NEW i \in 1..n, i - 1 \in T PROVE i \in T
  <2> DEFINE h == i - 1
  <2>1. h \in 0..n /\ i \in 0..n /\ i = h + 1 /\ h \in Nat
    BY <1>3
  <2>2. w[h].node = None \/ On(h) \/ Done(h)
    <3> HIDE DEF On, Done
    <3>1. QED
      BY <1>14
  <2>3. w[i] = Advance(w[h], c, i) /\ v[i] = Advance(v[h], j, i)
    <3>1. i \in 1..l
      BY <1>3 DEF l
    <3>2. QED
      BY <1>8, <1>9, <3>1
  <2>4. CASE w[h].node = None \/ Done(h)
    <3>1. w[h].node = None \/ w[h].fmt = <<>>
      BY <2>4
    <3>2. w[i] = w[h]
      BY <2>3, <3>1 DEF Advance
    <3>3. w[i].node = None \/ Done(i)
      BY <2>4, <3>2
    <3> HIDE DEF On, Done
    <3>4. QED
      BY <2>1, <3>3
  <2>5. CASE w[h].node # None /\ On(h)
    <3>1. PICK p \in Nat : h <= p /\ p < n /\ Stands(w[h], F, p, S) /\ v[h] = Beside(w[h], q)
      BY <2>5
    <3>2. w[h].fmt # <<>> /\ w[h].fmt \in Formats
      BY <1>2, <3>1, StandsOn DEF n
    <3>3. w[i] = Descend(w[h])
      BY <2>3, <2>5, <3>2 DEF Advance, F
    <3>4. v[h].node = w[h].node /\ v[h].fmt # <<>>
      <4>1. w[h].fmt \o Behind(f) # <<>>
        BY <1>1, <3>2, BehindIs, TailJoined DEF Formats
      <4>2. QED
        BY <3>1, <4>1 DEF Beside, f
    <3>5. v[i] = Descend(v[h])
      BY <1>5, <2>3, <2>5, <3>4 DEF Advance
    <3>6. \/ \E k \in Nat : /\ p < k /\ k < n /\ Stands(Descend(w[h]), F, k, S)
                            /\ Descend(Beside(w[h], q)) = Beside(Descend(w[h]), q)
          \/ /\ Descend(w[h]).fmt = <<>>
             /\ Descend(Beside(w[h], q)) = Begin(Descend(w[h]).node, q)
      BY <1>1, <1>2, <1>6, <3>1, BesideOn DEF n, f
    <3>7. \/ \E k \in Nat : /\ p < k /\ k < n /\ Stands(w[i], F, k, S) /\ v[i] = Beside(w[i], q)
          \/ w[i].fmt = <<>> /\ v[i] = Begin(w[i].node, q)
      BY <3>1, <3>3, <3>5, <3>6
    <3>8. On(i) \/ Done(i)
      <4>1. \A k \in Nat : p < k => i <= k
        BY <2>1, <3>1
      <4>2. QED
        BY <2>1, <3>7, <4>1
    <3> HIDE DEF On, Done
    <3>9. QED
      BY <2>1, <3>8
  <2> HIDE DEF On, Done
  <2>6. QED
    BY <2>2, <2>4, <2>5
<1>15. n \in T
  <2> HIDE DEF T
  <2>1. \A i \in 0..n : i \in T
    BY <1>3, <1>13, <1>14, Upwards
  <2>2. QED
    BY <1>3, <2>1
<1>16. ~On(n)
  BY <1>3
<1>17. Done(n)
  <2> HIDE DEF On, Done
  <2>1. QED
    BY <1>10, <1>15, <1>16
<1>18. QED
  BY <1>10, <1>17 DEF F, n, v, j

\* What the path of a context leads to, the other path goes on from.
LEMMA FollowJoined ==
    ASSUME NEW from, NEW c \in Contexts, NEW q \in Questions, c.fmt # None, q.fmt # None,
           Follow(from, c) # None
    PROVE  Follow(from, Joined(c, q)) = Follow(Follow(from, c), q)
<1> DEFINE j == Joined(c, q)
           n == Len(c.fmt)
           m == Len(q.fmt)
<1>1. c.fmt \in Formats /\ q.fmt \in Formats
  BY QuestionsAssumption
<1>2. n \in Nat /\ m \in Nat
  BY <1>1, LenProperties DEF Formats
<1>3. j.fmt \in Formats /\ Len(j.fmt) = (n + 1) + m
  BY <1>1, JoinedIs
<1>4. j.fmt # None
  BY <1>3, ValuesAssumption
<1> HIDE DEF j
<1>5. Turns(q) = m /\ Turns(j) = (n + 1) + m
  BY <1>3, <1>4 DEF Turns
<1>6. PICK k \in 0..n : Walk(from, j)[k] = Begin(Follow(from, c), q)
  BY Together DEF j
<1> HIDE DEF n, m
<1>7. k \in Nat /\ k + m <= (n + 1) + m /\ (n + 1) + m \in Nat
  BY <1>2, <1>6
<1>8. \E i \in Nat : i + Turns(q) <= Turns(j) /\ Walk(from, j)[i] = Begin(Follow(from, c), q)
  BY <1>5, <1>6, <1>7
<1>9. Turns(q) \in Nat /\ Turns(j) \in Nat
  BY <1>2, <1>5, <1>7
<1>10. Follow(from, j) = Follow(Follow(from, c), q)
  BY <1>1, <1>4, <1>8, <1>9, SameWay
<1>11. QED
  BY <1>10 DEF j

\* A question asked in a context has the answer of the question that begins at the
\* document and has the path of the context in front (ContextIsAPrefix).
THEOREM ContextsArePrefixes == LookSpec => []ContextIsAPrefix
<1>1. LookInv => ContextIsAPrefix
  <2> SUFFICES ASSUME LookInv, root # None, context.fmt # None, NEW q \in Questions, q.fmt # None
               PROVE  Locate(root, q) = Locate(None, Joined(context, q))
    BY DEF ContextIsAPrefix
  <2>1. context \in Contexts /\ root = Locate(None, context)
    BY DEF LookInv
  <2>2. Locate(None, context) = IF document = None THEN None ELSE Follow(document, context)
    BY DEF Locate
  <2>3. document # None /\ root = Follow(document, context)
    BY <2>1, <2>2
  <2>4. Locate(None, Joined(context, q)) = Follow(document, Joined(context, q))
    BY <2>3 DEF Locate
  <2>5. Locate(root, q) = Follow(root, q)
    BY DEF Locate
  <2>6. Follow(document, Joined(context, q)) = Follow(Follow(document, context), q)
    BY <2>1, <2>3, FollowJoined
  <2>7. QED
    BY <2>3, <2>4, <2>5, <2>6
<1>2. QED
  BY <1>1, LookStart, LookSteps, PTL DEF LookSpec

-----------------------------------------------------------------------------
\* The characters of a period: digits in groups, and letters.
Chars == DOMAIN Digits \union (Marks \union Units)

\* A part of a period, with what is written behind it.
LEMMA PieceIs ==
    ASSUME NEW f \in Fields, NEW n \in DOMAIN f, NEW unit \in Units, NEW r \in Seq(Chars)
    PROVE  /\ Piece(f, n, unit) \in Seq(Chars)
           /\ Piece(f, n, unit) \o r \in Seq(Chars)
           /\ f[n] = 0 => Piece(f, n, unit) = <<>> /\ Piece(f, n, unit) \o r = r
           /\ f[n] # 0 => /\ Piece(f, n, unit) \o r # <<>>
                          /\ (Piece(f, n, unit) \o r)[1] \in DOMAIN Digits
                          /\ Digits[(Piece(f, n, unit) \o r)[1]] = f[n]
                          /\ Tail(Piece(f, n, unit) \o r) = <<unit>> \o r
<1> DEFINE p == Piece(f, n, unit)
<1>1. CASE f[n] = 0
  <2>1. p = <<>>
    BY <1>1 DEF Piece
  <2>2. <<>> \in Seq(Chars) /\ <<>> \o r = r
    BY ConcatEmptySeq, EmptySeq
  <2>3. QED
    BY <1>1, <2>1, <2>2
<1>2. CASE f[n] # 0
  <2> DEFINE g == CHOOSE g \in DOMAIN Digits : Digits[g] = f[n]
  <2>1. g \in DOMAIN Digits /\ Digits[g] = f[n]
    BY <1>2, FieldsAssumption
  <2>2. p = <<g, unit>>
    BY <1>2 DEF Piece
  <2> HIDE DEF g
  <2>3. g \in Chars /\ unit \in Chars
    BY <2>1 DEF Chars
  <2> HIDE DEF p
  <2>4. /\ <<g, unit>> \in Seq(Chars) /\ <<g, unit>> # <<>> /\ <<g, unit>>[1] = g
        /\ Tail(<<g, unit>>) = <<unit>>
    BY <2>3
  <2>5. Tail(p \o r) = Tail(p) \o r /\ (p \o r)[1] = p[1] /\ p \o r # <<>>
    BY <2>2, <2>4, TailJoined
  <2>6. p \in Seq(Chars) /\ p \o r \in Seq(Chars)
    BY <2>2, <2>4, ConcatProperties
  <2>7. QED
    BY <1>2, <2>1, <2>2, <2>4, <2>5, <2>6 DEF p
<1>3. QED
  BY <1>1, <1>2

\* A letter with something behind it.
LEMMA LetterIs ==
    ASSUME NEW a \in Chars, NEW r \in Seq(Chars)
    PROVE  /\ <<a>> \o r \in Seq(Chars) /\ <<a>> \o r # <<>>
           /\ (<<a>> \o r)[1] = a /\ Tail(<<a>> \o r) = r
<1>1. <<a>> \in Seq(Chars) /\ Len(<<a>>) = 1 /\ <<a>>[1] = a
  BY OneMember
<1>2. <<a>> # <<>>
  BY <1>1, EmptySeq
<1>3. Tail(<<a>>) = <<>>
  <2>1. Tail(<<a>>) \in Seq(Chars) /\ Len(Tail(<<a>>)) = 0
    BY <1>1, <1>2, HeadTailProperties
  <2>2. QED
    BY <2>1, EmptySeq
<1>4. <<>> \o r = r
  BY ConcatEmptySeq
<1>5. Tail(<<a>> \o r) = Tail(<<a>>) \o r /\ (<<a>> \o r)[1] = <<a>>[1] /\ <<a>> \o r # <<>>
  BY <1>1, <1>2, TailJoined
<1>6. <<a>> \o r \in Seq(Chars)
  BY <1>1, ConcatProperties
<1>7. QED
  BY <1>1, <1>3, <1>4, <1>5, <1>6

\* What has not been read of a period, from a character on.
Unread(p, i) == SubSeq(p, i, Len(p))

\* Its first character, and what has not been read after that.
LEMMA UnreadIs ==
    ASSUME NEW p \in Seq(Chars), NEW i \in Nat, i >= 1, i <= Len(p) + 1
    PROVE  /\ i > Len(p) <=> Unread(p, i) = <<>>
           /\ i <= Len(p) => Unread(p, i)[1] = p[i] /\ Tail(Unread(p, i)) = Unread(p, i + 1)
<1> DEFINE n == Len(p)
           u == Unread(p, i)
           h == i - 1
<1>1. n \in Nat /\ h \in Nat /\ h + 1 = i /\ h <= n
  BY LenProperties
<1>2. u \in Seq(Chars) /\ Len(u) = n - h /\ \A x \in 1..(n - h) : u[x] = p[h + x]
  <2>1. /\ SubSeq(p, h + 1, n) \in Seq(Chars) /\ Len(SubSeq(p, h + 1, n)) = n - h
        /\ \A x \in 1..(n - h) : SubSeq(p, h + 1, n)[x] = p[h + x]
    <3> HIDE DEF h
    <3>1. n \in Nat /\ n <= Len(p)
      BY <1>1
    <3> HIDE DEF n
    <3>2. QED
      BY <1>1, <3>1, Part
  <2>2. u = SubSeq(p, h + 1, n)
    BY <1>1 DEF Unread
  <2>3. QED
    BY <2>1, <2>2
<1>3. i > n <=> u = <<>>
  <2> HIDE DEF u, n
  <2>1. u = <<>> <=> Len(u) = 0
    BY <1>2, EmptySeq
  <2>2. QED
    BY <1>1, <1>2, <2>1
<1>4. ASSUME i <= n PROVE u[1] = p[i] /\ Tail(u) = Unread(p, i + 1)
  <2> DEFINE v == Unread(p, i + 1)
  <2>1. v \in Seq(Chars) /\ Len(v) = n - i /\ \A x \in 1..(n - i) : v[x] = p[i + x]
    <3>1. n \in Nat /\ n <= Len(p)
      BY <1>1
    <3> HIDE DEF n
    <3>2. /\ SubSeq(p, i + 1, n) \in Seq(Chars) /\ Len(SubSeq(p, i + 1, n)) = n - i
          /\ \A x \in 1..(n - i) : SubSeq(p, i + 1, n)[x] = p[i + x]
      BY <1>4, <3>1, Part
    <3>3. QED
      BY <3>2 DEF Unread, n
  <2> HIDE DEF u, v, n
  <2>2. u # <<>> /\ 1 \in 1..(n - h)
    BY <1>1, <1>3, <1>4
  <2>3. u[1] = p[i]
    BY <1>1, <1>2, <2>2
  <2>4. /\ Tail(u) \in Seq(Chars) /\ Len(Tail(u)) = Len(u) - 1
        /\ \A x \in 1..Len(Tail(u)) : Tail(u)[x] = u[x + 1]
    BY <1>2, <2>2, HeadTailProperties
  <2> DEFINE t == Tail(u)
  <2> HIDE DEF t
  <2>5. t \in Seq(Chars) /\ Len(t) = n - i /\ \A x \in 1..(n - i) : t[x] = u[x + 1]
    BY <1>1, <1>2, <2>4 DEF t
  <2>6. ASSUME NEW x \in 1..(n - i) PROVE t[x] = v[x]
    <3>1. x + 1 \in 1..(n - h) /\ h + (x + 1) = i + x
      BY <1>1
    <3>2. QED
      BY <1>2, <2>1, <2>5, <3>1
  <2>7. t = v
    BY <1>1, <1>4, <2>1, <2>5, <2>6, SeqEqual
  <2>8. QED
    BY <2>3, <2>7 DEF t, v
<1>5. QED
  BY <1>3, <1>4

\* Nothing is written of nothing.
LEMMA PieceEmpty ==
    ASSUME NEW f \in Fields, NEW n \in DOMAIN f, NEW unit \in Units, NEW r \in Seq(Chars),
           Piece(f, n, unit) \o r = <<>>
    PROVE  f[n] = 0 /\ r = <<>>
<1>1. f[n] = 0
  BY PieceIs
<1>2. QED
  BY <1>1, PieceIs

\* The standard's order: the mark P, three parts, the mark T, three parts.
Places == {1, 2, 3, 5, 6, 7}
NameOf(k) == CASE k = 1 -> "year" [] k = 2 -> "mon" [] k = 3 -> "mday"
               [] k = 5 -> "hour" [] k = 6 -> "min" [] k = 7 -> "sec"
UnitOf(k) == CASE k = 1 -> "Y" [] k = 2 -> "M" [] k = 3 -> "D"
               [] k = 5 -> "H" [] k = 6 -> "M" [] k = 7 -> "S"

\* What is written from a place in this order on.
Behind7(f) == Piece(f, "sec", "S") \o <<>>
Behind6(f) == Piece(f, "min", "M") \o Piece(f, "sec", "S")
Behind3(f) == Piece(f, "mday", "D") \o OfDay(f)
Behind2(f) == Piece(f, "mon", "M") \o Behind3(f)
Behind1(f) == Piece(f, "year", "Y") \o Behind2(f)
ToRead(f, k) == CASE k = 0 -> Written(f) [] k = 1 -> Behind1(f) [] k = 2 -> Behind2(f)
                [] k = 3 -> Behind3(f) [] k = 4 -> OfDay(f) [] k = 5 -> Clock(f)
                [] k = 6 -> Behind6(f) [] k = 7 -> Behind7(f) [] k = 8 -> <<>>

\* And what has been read before it.
WasRead(f, k) == [year |-> IF k > 1 THEN f.year ELSE 0, mon |-> IF k > 2 THEN f.mon ELSE 0,
                mday |-> IF k > 3 THEN f.mday ELSE 0, hour |-> IF k > 5 THEN f.hour ELSE 0,
                min |-> IF k > 6 THEN f.min ELSE 0, sec |-> IF k > 7 THEN f.sec ELSE 0]

\* The parts, one behind the other.
LEMMA ToReadIs ==
    ASSUME NEW f \in Fields
    PROVE  /\ \A k \in 0..8 : ToRead(f, k) \in Seq(Chars)
           /\ \A k \in Places : ToRead(f, k) = Piece(f, NameOf(k), UnitOf(k)) \o ToRead(f, k + 1)
           /\ \A k \in Places : NameOf(k) \in DOMAIN f /\ UnitOf(k) \in Units
           /\ ToRead(f, 0) = <<"P">> \o ToRead(f, 1)
           /\ ToRead(f, 4) = IF ToRead(f, 5) = <<>> THEN <<>> ELSE <<"T">> \o ToRead(f, 5)
           /\ ToRead(f, 5) = <<>> => f.hour = 0 /\ f.min = 0 /\ f.sec = 0
<1>1. DOMAIN f = {"year", "mon", "mday", "hour", "min", "sec"}
  BY FieldsAssumption
<1>2. \A k \in Places : NameOf(k) \in DOMAIN f /\ UnitOf(k) \in Units
  BY <1>1 DEF Places, NameOf, UnitOf, Units
<1>3. "P" \in Chars /\ "T" \in Chars
  BY DEF Chars, Marks
<1>4. <<>> \in Seq(Chars)
  BY EmptySeq
<1>5. /\ Piece(f, "sec", "S") \in Seq(Chars)
      /\ Piece(f, "sec", "S") \o <<>> = Piece(f, "sec", "S")
  <2>1. "sec" \in DOMAIN f /\ "S" \in Units
    BY <1>1 DEF Units
  <2>2. Piece(f, "sec", "S") \in Seq(Chars)
    BY <1>4, <2>1, PieceIs
  <2>3. QED
    BY <2>2, ConcatEmptySeq
<1>6. Behind7(f) = Piece(f, "sec", "S")
  BY <1>5 DEF Behind7
<1>7. Behind6(f) \in Seq(Chars)
  <2>1. "min" \in DOMAIN f /\ "M" \in Units
    BY <1>1 DEF Units
  <2>2. QED
    BY <1>5, <2>1, PieceIs DEF Behind6
<1>8. Clock(f) = Piece(f, "hour", "H") \o Behind6(f) /\ Clock(f) \in Seq(Chars)
  <2>1. "hour" \in DOMAIN f /\ "H" \in Units
    BY <1>1 DEF Units
  <2>2. Clock(f) = Piece(f, "hour", "H") \o Behind6(f)
    BY DEF Clock, Behind6
  <2>3. QED
    BY <1>7, <2>1, <2>2, PieceIs
<1>9. OfDay(f) \in Seq(Chars)
  <2>1. <<"T">> \o Clock(f) \in Seq(Chars)
    BY <1>3, <1>8, LetterIs
  <2>2. QED
    BY <1>4, <2>1 DEF OfDay
<1>10. Behind3(f) \in Seq(Chars)
  <2>1. "mday" \in DOMAIN f /\ "D" \in Units
    BY <1>1 DEF Units
  <2>2. QED
    BY <1>9, <2>1, PieceIs DEF Behind3
<1>11. Behind2(f) \in Seq(Chars)
  <2>1. "mon" \in DOMAIN f /\ "M" \in Units
    BY <1>1 DEF Units
  <2>2. QED
    BY <1>10, <2>1, PieceIs DEF Behind2
<1>12. Behind1(f) \in Seq(Chars)
  <2>1. "year" \in DOMAIN f /\ "Y" \in Units
    BY <1>1 DEF Units
  <2>2. QED
    BY <1>11, <2>1, PieceIs DEF Behind1
<1>13. Written(f) = <<"P">> \o Behind1(f) /\ Written(f) \in Seq(Chars)
  <2>1. Written(f) = <<"P">> \o Behind1(f)
    BY DEF Written, Behind1, Behind2, Behind3
  <2>2. QED
    BY <1>3, <1>12, <2>1, LetterIs
<1>14. /\ ToRead(f, 0) = Written(f) /\ ToRead(f, 1) = Behind1(f) /\ ToRead(f, 2) = Behind2(f)
       /\ ToRead(f, 3) = Behind3(f) /\ ToRead(f, 4) = OfDay(f) /\ ToRead(f, 5) = Clock(f)
       /\ ToRead(f, 6) = Behind6(f) /\ ToRead(f, 7) = Behind7(f) /\ ToRead(f, 8) = <<>>
  BY DEF ToRead
<1>15. ASSUME NEW k \in 0..8 PROVE ToRead(f, k) \in Seq(Chars)
  <2>1. k \in {0, 1, 2, 3, 4, 5, 6, 7, 8}
    OBVIOUS
  <2>2. QED
    BY <1>4, <1>5, <1>6, <1>7, <1>8, <1>9, <1>10, <1>11, <1>12, <1>13, <1>14, <2>1
<1>16. ASSUME NEW k \in Places PROVE ToRead(f, k) = Piece(f, NameOf(k), UnitOf(k)) \o ToRead(f, k + 1)
  <2>1. CASE k = 1
    BY <1>14, <2>1 DEF Behind1, NameOf, UnitOf
  <2>2. CASE k = 2
    BY <1>14, <2>2 DEF Behind2, NameOf, UnitOf
  <2>3. CASE k = 3
    BY <1>14, <2>3 DEF Behind3, NameOf, UnitOf
  <2>4. CASE k = 5
    BY <1>8, <1>14, <2>4 DEF NameOf, UnitOf
  <2>5. CASE k = 6
    BY <1>6, <1>14, <2>5 DEF Behind6, NameOf, UnitOf
  <2>6. CASE k = 7
    <3>1. NameOf(k) = "sec" /\ UnitOf(k) = "S" /\ k + 1 = 8
      BY <2>6 DEF NameOf, UnitOf
    <3>2. QED
      BY <1>14, <2>6, <3>1 DEF Behind7
  <2>7. QED
    BY <2>1, <2>2, <2>3, <2>4, <2>5, <2>6 DEF Places
<1>17. ToRead(f, 5) = <<>> => f.hour = 0 /\ f.min = 0 /\ f.sec = 0
  <2> SUFFICES ASSUME Clock(f) = <<>> PROVE f.hour = 0 /\ f.min = 0 /\ f.sec = 0
    BY <1>14
  <2>1. "hour" \in DOMAIN f /\ "H" \in Units /\ "min" \in DOMAIN f /\ "M" \in Units
        /\ "sec" \in DOMAIN f /\ "S" \in Units
    BY <1>1 DEF Units
  <2>2. f["hour"] = 0 /\ Behind6(f) = <<>>
    BY <1>7, <1>8, <2>1, PieceEmpty
  <2>3. f["min"] = 0 /\ Piece(f, "sec", "S") = <<>>
    BY <1>5, <2>1, <2>2, PieceEmpty DEF Behind6
  <2>4. f["sec"] = 0
    BY <1>4, <1>5, <2>1, <2>3, PieceEmpty
  <2>5. QED
    BY <2>2, <2>3, <2>4
<1>18. QED
  BY <1>2, <1>13, <1>14, <1>15, <1>16, <1>17 DEF OfDay

\* The unit that was the last when the parser comes to a place.
LastAt(f, k, u) ==
    CASE k = 0 -> u = NoChar
      [] k = 1 -> u = "P"
      [] k = 2 -> u \in {"P", "Y"}
      [] k = 3 -> u \in {"P", "Y", "M"} /\ (u = "M" <=> f.mon # 0)
      [] k = 4 -> u \in {"P", "Y", "M", "D"}
      [] k = 5 -> u = "T"
      [] k = 6 -> u \in {"T", "H"}
      [] k = 7 -> u \in {"T", "H", "M"}
      [] k = 8 -> TRUE

\* The parser stands before a part of a period: what is unread, the last unit, and
\* what it has made of the parts before.
Before(f, k, unread, u, t) ==
    /\ k \in 0..8 /\ unread = ToRead(f, k) /\ t = WasRead(f, k) /\ LastAt(f, k, u)
    /\ k >= 4 => f.mon = 0 \/ f.mday = 0

\* A part that is not written is none.
LEMMA BeforeNone ==
    ASSUME NEW f \in Fields, NEW k \in Places, f[NameOf(k)] = 0, NEW s, NEW u, NEW t,
           Before(f, k, s, u, t)
    PROVE  Before(f, k + 1, s, u, t)
<1>1. f \in [year : Nat, mon : Nat, mday : Nat, hour : Nat, min : Nat, sec : Nat]
  BY FieldsAssumption
<1>2. ToRead(f, k + 1) = ToRead(f, k)
  <2>1. k + 1 \in 0..8
    BY DEF Places
  <2>2. /\ ToRead(f, k) = Piece(f, NameOf(k), UnitOf(k)) \o ToRead(f, k + 1)
        /\ NameOf(k) \in DOMAIN f /\ UnitOf(k) \in Units /\ ToRead(f, k + 1) \in Seq(Chars)
    BY <2>1, ToReadIs
  <2>3. QED
    BY <2>2, PieceIs
<1>3. s = ToRead(f, k + 1)
  BY <1>2 DEF Before
<1>4. CASE k = 1
  <2>1. f.year = 0
    BY <1>4 DEF NameOf
  <2>2. WasRead(f, k) = WasRead(f, k + 1) /\ LastAt(f, k + 1, u)
    BY <1>4, <2>1 DEF Before, WasRead, LastAt
  <2>3. QED
    BY <1>3, <1>4, <2>2 DEF Before
<1>5. CASE k = 2
  <2>1. f.mon = 0
    BY <1>5 DEF NameOf
  <2>2. WasRead(f, k) = WasRead(f, k + 1) /\ LastAt(f, k + 1, u)
    BY <1>5, <2>1 DEF Before, WasRead, LastAt
  <2>3. QED
    BY <1>3, <1>5, <2>2 DEF Before
<1>6. CASE k = 3
  <2>1. f.mday = 0
    BY <1>6 DEF NameOf
  <2>2. WasRead(f, k) = WasRead(f, k + 1) /\ LastAt(f, k + 1, u)
    BY <1>6, <2>1 DEF Before, WasRead, LastAt
  <2>3. QED
    BY <1>3, <1>6, <2>1, <2>2 DEF Before
<1>7. CASE k = 5
  <2>1. f.hour = 0
    BY <1>7 DEF NameOf
  <2>2. WasRead(f, k) = WasRead(f, k + 1) /\ LastAt(f, k + 1, u)
    BY <1>7, <2>1 DEF Before, WasRead, LastAt
  <2>3. QED
    BY <1>3, <1>7, <2>2 DEF Before
<1>8. CASE k = 6
  <2>1. f.min = 0
    BY <1>8 DEF NameOf
  <2>2. WasRead(f, k) = WasRead(f, k + 1) /\ LastAt(f, k + 1, u)
    BY <1>8, <2>1 DEF Before, WasRead, LastAt
  <2>3. QED
    BY <1>3, <1>8, <2>2 DEF Before
<1>9. CASE k = 7
  <2>1. f.sec = 0
    BY <1>9 DEF NameOf
  <2>2. WasRead(f, k) = WasRead(f, k + 1) /\ LastAt(f, k + 1, u)
    BY <1>9, <2>1 DEF Before, WasRead, LastAt
  <2>3. QED
    BY <1>3, <1>9, <2>2 DEF Before
<1>10. QED
  BY <1>4, <1>5, <1>6, <1>7, <1>8, <1>9 DEF Places

\* A place at which something is written.
WrittenAt(f, k) ==
    \/ k \in {0, 8}
    \/ k = 4 /\ ToRead(f, 5) # <<>>
    \/ k \in Places /\ f[NameOf(k)] # 0

\* Wherever the parser stands, it stands before something that is written, or at the
\* end.
LEMMA BeforeSome ==
    ASSUME NEW f \in Fields, NEW s, NEW u, NEW t, \E k \in 0..8 : Before(f, k, s, u, t)
    PROVE  \E k \in 0..8 : Before(f, k, s, u, t) /\ WrittenAt(f, k)
<1> DEFINE Goal == \E k \in 0..8 : Before(f, k, s, u, t) /\ WrittenAt(f, k)
<1>1. Before(f, 8, s, u, t) => Goal
  BY DEF WrittenAt
<1>2. ASSUME NEW k \in Places, Before(f, k + 1, s, u, t) => Goal, Before(f, k, s, u, t) PROVE Goal
  <2>1. CASE f[NameOf(k)] = 0
    BY <1>2, <2>1, BeforeNone
  <2>2. CASE f[NameOf(k)] # 0
    <3>1. WrittenAt(f, k) /\ k \in 0..8
      BY <2>2 DEF WrittenAt, Places
    <3>2. QED
      BY <1>2, <3>1
  <2>3. QED
    BY <2>1, <2>2
<1> HIDE DEF Goal
<1>3. 1 \in Places /\ 2 \in Places /\ 3 \in Places /\ 5 \in Places /\ 6 \in Places /\ 7 \in Places
      /\ 1 + 1 = 2 /\ 2 + 1 = 3 /\ 3 + 1 = 4 /\ 5 + 1 = 6 /\ 6 + 1 = 7 /\ 7 + 1 = 8
  BY DEF Places
<1>4. Before(f, 7, s, u, t) => Goal
  BY <1>1, <1>2, <1>3
<1>5. Before(f, 6, s, u, t) => Goal
  BY <1>2, <1>3, <1>4
<1>6. Before(f, 5, s, u, t) => Goal
  BY <1>2, <1>3, <1>5
<1>7. ASSUME Before(f, 4, s, u, t) PROVE Goal
  <2>1. CASE ToRead(f, 5) # <<>>
    BY <1>7, <2>1 DEF WrittenAt, Goal
  <2>2. CASE ToRead(f, 5) = <<>>
    <3>1. ToRead(f, 4) = <<>> /\ f.hour = 0 /\ f.min = 0 /\ f.sec = 0
      BY <2>2, ToReadIs
    <3>2. WasRead(f, 4) = WasRead(f, 8)
      BY <3>1 DEF WasRead
    <3>3. ToRead(f, 8) = <<>> /\ LastAt(f, 8, u)
      BY DEF ToRead, LastAt
    <3>4. Before(f, 8, s, u, t)
      BY <1>7, <3>1, <3>2, <3>3 DEF Before
    <3>5. QED
      BY <1>1, <3>4
  <2>3. QED
    BY <2>1, <2>2
<1>8. Before(f, 3, s, u, t) => Goal
  BY <1>2, <1>3, <1>7
<1>9. Before(f, 2, s, u, t) => Goal
  BY <1>2, <1>3, <1>8
<1>10. Before(f, 1, s, u, t) => Goal
  BY <1>2, <1>3, <1>9
<1>11. Before(f, 0, s, u, t) => Goal
  BY DEF WrittenAt, Goal
<1>12. PICK k \in 0..8 : Before(f, k, s, u, t)
  OBVIOUS
<1>13. k \in {0, 1, 2, 3, 4, 5, 6, 7, 8}
  BY <1>12
<1>14. QED
  BY <1>1, <1>4, <1>5, <1>6, <1>7, <1>8, <1>9, <1>10, <1>11, <1>12, <1>13 DEF Goal

\* The parser stands between the digits of a part and its unit.
Within(f, k, unread, u, t, v) ==
    /\ k \in Places /\ v = f[NameOf(k)] /\ v # 0
    /\ unread = <<UnitOf(k)>> \o ToRead(f, k + 1)
    /\ t = WasRead(f, k) /\ LastAt(f, k, u)
    /\ k >= 4 => f.mon = 0 \/ f.mday = 0

\* What has come of a period: what the standard means by it, or what was read
\* before the days that follow months.
Came(f, e, t) == IF f.mon > 0 /\ f.mday > 0
                 THEN e /\ t = [Zero EXCEPT !.year = f.year, !.mon = f.mon]
                 ELSE ~e /\ t = f

\* The parser reads what the standard writes.
ReadInv ==
    \A f \in Fields : period = Written(f) =>
       \/ isoPc \in {"second", "done"} /\ Came(f, error, t2)
       \/ /\ isoPc \in {"first", "parse"} /\ ~error
          /\ at \in Nat /\ at >= 1 /\ at <= Len(period) + 1
          /\ LET unread == Unread(period, at) IN
             \/ \E k \in 0..8 : Before(f, k, unread, lastUnit, t2)
             \/ lastChar = "0" /\ \E k \in Places : Within(f, k, unread, lastUnit, t2, value)

\* At the end of a period everything has been read.
LEMMA AtEnd ==
    ASSUME NEW f \in Fields, NEW u, NEW t, Before(f, 8, <<>>, u, t)
    PROVE  Came(f, FALSE, t)
<1>1. f \in [year : Nat, mon : Nat, mday : Nat, hour : Nat, min : Nat, sec : Nat]
  BY FieldsAssumption
<1>2. t = f /\ (f.mon = 0 \/ f.mday = 0)
  BY <1>1 DEF Before, WasRead
<1>3. QED
  BY <1>1, <1>2 DEF Came

\* Something is unread wherever something is written.
LEMMA BeforeEnd ==
    ASSUME NEW f \in Fields, NEW k \in 0..8, WrittenAt(f, k), k # 8
    PROVE  /\ ToRead(f, k) # <<>>
           /\ k = 0 => ToRead(f, k)[1] = "P" /\ Tail(ToRead(f, k)) = ToRead(f, 1)
           /\ k = 4 => ToRead(f, k)[1] = "T" /\ Tail(ToRead(f, k)) = ToRead(f, 5)
           /\ k \in Places => /\ ToRead(f, k)[1] \in DOMAIN Digits
                             /\ Digits[ToRead(f, k)[1]] = f[NameOf(k)]
                             /\ Tail(ToRead(f, k)) = <<UnitOf(k)>> \o ToRead(f, k + 1)
<1>1. \A i \in 0..8 : ToRead(f, i) \in Seq(Chars)
  BY ToReadIs
<1>2. ASSUME k = 0
      PROVE  ToRead(f, k) # <<>> /\ ToRead(f, k)[1] = "P" /\ Tail(ToRead(f, k)) = ToRead(f, 1)
  <2>1. ToRead(f, 0) = <<"P">> \o ToRead(f, 1) /\ ToRead(f, 1) \in Seq(Chars)
    BY <1>1, ToReadIs
  <2>2. "P" \in Chars
    BY DEF Chars, Marks
  <2>3. QED
    BY <1>2, <2>1, <2>2, LetterIs
<1>3. ASSUME k = 4
      PROVE  ToRead(f, k) # <<>> /\ ToRead(f, k)[1] = "T" /\ Tail(ToRead(f, k)) = ToRead(f, 5)
  <2>1. ToRead(f, 5) # <<>>
    BY <1>3 DEF WrittenAt, Places
  <2>2. ToRead(f, 4) = <<"T">> \o ToRead(f, 5) /\ ToRead(f, 5) \in Seq(Chars)
    BY <1>1, <2>1, ToReadIs
  <2>3. "T" \in Chars
    BY DEF Chars, Marks
  <2>4. QED
    BY <1>3, <2>2, <2>3, LetterIs
<1>4. ASSUME k \in Places
      PROVE  /\ ToRead(f, k) # <<>>
             /\ ToRead(f, k)[1] \in DOMAIN Digits /\ Digits[ToRead(f, k)[1]] = f[NameOf(k)]
             /\ Tail(ToRead(f, k)) = <<UnitOf(k)>> \o ToRead(f, k + 1)
  <2>1. f[NameOf(k)] # 0
    BY <1>4 DEF WrittenAt, Places
  <2>2. k + 1 \in 0..8
    BY <1>4 DEF Places
  <2>3. /\ ToRead(f, k) = Piece(f, NameOf(k), UnitOf(k)) \o ToRead(f, k + 1)
        /\ NameOf(k) \in DOMAIN f /\ UnitOf(k) \in Units /\ ToRead(f, k + 1) \in Seq(Chars)
    BY <1>1, <1>4, <2>2, ToReadIs
  <2>4. QED
    BY <2>1, <2>3, PieceIs
<1>5. k = 0 \/ k = 4 \/ k \in Places
  BY DEF WrittenAt
<1>6. ToRead(f, k) # <<>>
  BY <1>2, <1>3, <1>4, <1>5
<1>7. QED
  BY <1>2, <1>3, <1>4, <1>6

\* The mark at a place of one.
MarkOf(k) == IF k = 0 THEN "P" ELSE "T"

\* A mark is passed over.
LEMMA MarkRead ==
    ASSUME NEW f \in Fields, NEW k \in {0, 4}, NEW s, NEW u, NEW t, Before(f, k, s, u, t)
    PROVE  /\ MarkOf(k) \in Marks /\ u \in MayFollow(MarkOf(k))
           /\ Before(f, k + 1, ToRead(f, k + 1), MarkOf(k), t)
<1>1. CASE k = 0
  <2>1. LastAt(f, 0, u) /\ t = WasRead(f, 0)
    BY <1>1 DEF Before
  <2>2. u = NoChar
    BY <2>1 DEF LastAt
  <2>3. WasRead(f, 0) = WasRead(f, 1)
    BY DEF WasRead
  <2>4. MarkOf(k) = "P" /\ k + 1 = 1
    BY <1>1 DEF MarkOf
  <2>5. "P" \in Marks /\ NoChar \in MayFollow("P") /\ LastAt(f, 1, "P")
    BY DEF MayFollow, Marks, LastAt
  <2>6. Before(f, 1, ToRead(f, 1), "P", t)
    BY <2>1, <2>3, <2>5 DEF Before
  <2>7. QED
    BY <2>2, <2>4, <2>5, <2>6
<1>2. CASE k = 4
  <2>1. LastAt(f, 4, u) /\ t = WasRead(f, 4) /\ (f.mon = 0 \/ f.mday = 0)
    BY <1>2 DEF Before
  <2>2. u \in {"P", "Y", "M", "D"}
    BY <2>1 DEF LastAt
  <2>3. WasRead(f, 4) = WasRead(f, 5)
    BY DEF WasRead
  <2>4. MarkOf(k) = "T" /\ k + 1 = 5
    BY <1>2 DEF MarkOf
  <2>5. "T" \in Marks /\ u \in MayFollow("T") /\ LastAt(f, 5, "T")
    BY <2>2 DEF MayFollow, Marks, LastAt
  <2>6. Before(f, 5, ToRead(f, 5), "T", t)
    BY <2>1, <2>3, <2>5 DEF Before
  <2>7. QED
    BY <2>4, <2>5, <2>6
<1>3. QED
  BY <1>1, <1>2

\* The field a unit stands for.
Meant(u, ch) == CASE ch = "Y" -> "year"
                  [] ch = "M" -> IF u \in {"T", "H"} THEN "min" ELSE "mon"
                  [] ch = "D" -> "mday" [] ch = "H" -> "hour" [] ch = "S" -> "sec"

\* A unit is read, but for the days that follow months.
LEMMA UnitRead ==
    ASSUME NEW f \in Fields, NEW k, NEW s, NEW u, NEW t, NEW v, Within(f, k, s, u, t, v)
    PROVE  LET ch == UnitOf(k) IN
           /\ ch \in Units
           /\ \/ /\ u \in MayFollow(ch)
                 /\ Before(f, k + 1, ToRead(f, k + 1), ch, [t EXCEPT ![Meant(u, ch)] = v])
              \/ u \notin MayFollow(ch) /\ Came(f, TRUE, t)
<1>1. f \in [year : Nat, mon : Nat, mday : Nat, hour : Nat, min : Nat, sec : Nat]
  BY FieldsAssumption
<1>2. t = WasRead(f, k) /\ v = f[NameOf(k)] /\ v # 0 /\ LastAt(f, k, u)
      /\ (k >= 4 => f.mon = 0 \/ f.mday = 0) /\ k \in Places
  BY DEF Within
<1>3. CASE k = 1
  <2>1. u = "P" /\ UnitOf(k) = "Y" /\ v = f.year /\ k + 1 = 2
    BY <1>2, <1>3 DEF LastAt, UnitOf, NameOf
  <2>2. "Y" \in Units /\ u \in MayFollow("Y") /\ Meant(u, "Y") = "year"
    BY <2>1 DEF Units, MayFollow, Marks, Meant
  <2>3. [t EXCEPT !["year"] = v] = WasRead(f, 2)
    BY <1>1, <1>2, <1>3, <2>1 DEF WasRead
  <2>4. Before(f, 2, ToRead(f, 2), "Y", WasRead(f, 2))
    BY DEF Before, LastAt
  <2>5. QED
    BY <2>1, <2>2, <2>3, <2>4
<1>4. CASE k = 2
  <2>1. u \in {"P", "Y"} /\ UnitOf(k) = "M" /\ v = f.mon /\ k + 1 = 3
    BY <1>2, <1>4 DEF LastAt, UnitOf, NameOf
  <2>2. "M" \in Units /\ u \in MayFollow("M") /\ Meant(u, "M") = "mon"
    BY <2>1 DEF Units, MayFollow, Marks, Meant
  <2>3. [t EXCEPT !["mon"] = v] = WasRead(f, 3)
    BY <1>1, <1>2, <1>4, <2>1 DEF WasRead
  <2>4. Before(f, 3, ToRead(f, 3), "M", WasRead(f, 3))
    <3>1. f.mon # 0
      BY <1>2, <2>1
    <3>2. LastAt(f, 3, "M")
      BY <3>1 DEF LastAt
    <3>3. QED
      BY <3>2 DEF Before
  <2>5. QED
    BY <2>1, <2>2, <2>3, <2>4
<1>5. CASE k = 3
  <2>1. u \in {"P", "Y", "M"} /\ (u = "M" <=> f.mon # 0) /\ UnitOf(k) = "D" /\ v = f.mday /\ k + 1 = 4
    BY <1>2, <1>5 DEF LastAt, UnitOf, NameOf
  <2>2. "D" \in Units /\ (u \in MayFollow("D") <=> u # "M") /\ Meant(u, "D") = "mday"
    <3>1. NoChar # "M"
      BY DEF NoChar
    <3>2. QED
      BY <2>1, <3>1 DEF Units, MayFollow, Marks, Meant
  <2>3. [t EXCEPT !["mday"] = v] = WasRead(f, 4)
    BY <1>1, <1>2, <1>5, <2>1 DEF WasRead
  <2>4. CASE u # "M"
    <3>1. Before(f, 4, ToRead(f, 4), "D", WasRead(f, 4))
      BY <2>1, <2>4 DEF Before, LastAt
    <3>2. QED
      BY <2>1, <2>2, <2>3, <2>4, <3>1
  <2>5. CASE u = "M"
    <3>1. f.mon > 0 /\ f.mday > 0
      BY <1>1, <1>2, <2>1, <2>5
    <3>2. t = [Zero EXCEPT !.year = f.year, !.mon = f.mon]
      <4> DEFINE z == [year |-> f.year, mon |-> f.mon, mday |-> 0, hour |-> 0, min |-> 0, sec |-> 0]
      <4>1. t = z
        BY <1>2, <1>5 DEF WasRead
      <4> DEFINE y == [year |-> f.year, mon |-> 0, mday |-> 0, hour |-> 0, min |-> 0, sec |-> 0]
      <4>2. [Zero EXCEPT !.year = f.year] = y
        BY DEF Zero
      <4>3. [y EXCEPT !.mon = f.mon] = z
        OBVIOUS
      <4> HIDE DEF y
      <4>4. [Zero EXCEPT !.year = f.year, !.mon = f.mon] = z
        BY <4>2, <4>3
      <4>5. QED
        BY <4>1, <4>4
    <3>3. QED
      BY <2>1, <2>2, <2>5, <3>1, <3>2 DEF Came
  <2>6. QED
    BY <2>4, <2>5
<1>6. CASE k = 5
  <2>1. u = "T" /\ UnitOf(k) = "H" /\ v = f.hour /\ k + 1 = 6
    BY <1>2, <1>6 DEF LastAt, UnitOf, NameOf
  <2>2. "H" \in Units /\ u \in MayFollow("H") /\ Meant(u, "H") = "hour"
    BY <2>1 DEF Units, MayFollow, Marks, Meant
  <2>3. [t EXCEPT !["hour"] = v] = WasRead(f, 6)
    BY <1>1, <1>2, <1>6, <2>1 DEF WasRead
  <2>4. Before(f, 6, ToRead(f, 6), "H", WasRead(f, 6))
    BY <1>2, <1>6 DEF Before, LastAt
  <2>5. QED
    BY <2>1, <2>2, <2>3, <2>4
<1>7. CASE k = 6
  <2>1. u \in {"T", "H"} /\ UnitOf(k) = "M" /\ v = f.min /\ k + 1 = 7
    BY <1>2, <1>7 DEF LastAt, UnitOf, NameOf
  <2>2. "M" \in Units /\ u \in MayFollow("M") /\ Meant(u, "M") = "min"
    BY <2>1 DEF Units, MayFollow, Marks, Meant
  <2>3. [t EXCEPT !["min"] = v] = WasRead(f, 7)
    BY <1>1, <1>2, <1>7, <2>1 DEF WasRead
  <2>4. Before(f, 7, ToRead(f, 7), "M", WasRead(f, 7))
    BY <1>2, <1>7 DEF Before, LastAt
  <2>5. QED
    BY <2>1, <2>2, <2>3, <2>4
<1>8. CASE k = 7
  <2>1. u \in {"T", "H", "M"} /\ UnitOf(k) = "S" /\ v = f.sec /\ k + 1 = 8
    BY <1>2, <1>8 DEF LastAt, UnitOf, NameOf
  <2>2. "S" \in Units /\ u \in MayFollow("S") /\ Meant(u, "S") = "sec"
    BY <2>1 DEF Units, MayFollow, Marks, Meant
  <2>3. [t EXCEPT !["sec"] = v] = WasRead(f, 8)
    BY <1>1, <1>2, <1>8, <2>1 DEF WasRead
  <2>4. Before(f, 8, ToRead(f, 8), "S", WasRead(f, 8))
    BY <1>2, <1>8 DEF Before, LastAt
  <2>5. QED
    BY <2>1, <2>2, <2>3, <2>4
<1>9. QED
  BY <1>2, <1>3, <1>4, <1>5, <1>6, <1>7, <1>8 DEF Places

\* A period is read from its beginning.
LEMMA ReadStart == IsoInit => ReadInv
<1> SUFFICES ASSUME IsoInit, NEW f \in Fields, period = Written(f)
             PROVE  /\ isoPc = "first" /\ ~error
                    /\ at \in Nat /\ at >= 1 /\ at <= Len(period) + 1
                    /\ Before(f, 0, Unread(period, at), lastUnit, t2)
  BY DEF ReadInv
<1>1. isoPc = "first" /\ ~error /\ at = 1 /\ lastUnit = NoChar /\ t2 = Zero
  BY DEF IsoInit
<1>2. ToRead(f, 0) = period /\ period \in Seq(Chars)
  <2>1. ToRead(f, 0) \in Seq(Chars)
    BY ToReadIs
  <2>2. ToRead(f, 0) = Written(f)
    BY DEF ToRead
  <2>3. QED
    BY <2>1, <2>2
<1>3. Len(period) \in Nat /\ SubSeq(period, 1, Len(period)) = period
  BY <1>2, LenProperties, SubSeqFull
<1>4. Unread(period, at) = ToRead(f, 0)
  BY <1>1, <1>2, <1>3 DEF Unread
<1>5. WasRead(f, 0) = Zero
  BY DEF WasRead, Zero
<1>6. LastAt(f, 0, lastUnit)
  BY <1>1 DEF LastAt
<1>7. QED
  BY <1>1, <1>3, <1>4, <1>5, <1>6 DEF Before

\* Each turn of the parser reads on.
LEMMA ReadOn == ReadInv /\ Parse => ReadInv'
<1> SUFFICES ASSUME ReadInv, Parse, NEW f \in Fields, period' = Written(f)
             PROVE  \/ isoPc' \in {"second", "done"} /\ Came(f, error', t2')
                    \/ /\ isoPc' \in {"first", "parse"} /\ ~error'
                       /\ at' \in Nat /\ at' >= 1 /\ at' <= Len(period') + 1
                       /\ LET unread == Unread(period', at') IN
                          \/ \E k \in 0..8 : Before(f, k, unread, lastUnit', t2')
                          \/ lastChar' = "0" /\ \E k \in Places : Within(f, k, unread, lastUnit', t2', value')
  BY DEF ReadInv
<1> DEFINE u == Unread(period, at)
           n == Len(period)
           ch == period[at]
<1>1. isoPc = "parse" /\ period' = period /\ period = Written(f)
  BY DEF Parse
<1>2. /\ ~error /\ at \in Nat /\ at >= 1 /\ at <= n + 1
      /\ \/ \E k \in 0..8 : Before(f, k, u, lastUnit, t2)
         \/ lastChar = "0" /\ \E k \in Places : Within(f, k, u, lastUnit, t2, value)
  BY <1>1 DEF ReadInv
<1>3. period \in Seq(Chars) /\ n \in Nat
  <2>1. ToRead(f, 0) \in Seq(Chars)
    BY ToReadIs
  <2>2. ToRead(f, 0) = Written(f)
    BY DEF ToRead
  <2>3. period \in Seq(Chars)
    BY <1>1, <2>1, <2>2
  <2>4. QED
    BY <2>3, LenProperties
<1>4. /\ at > n <=> u = <<>>
      /\ at <= n => u[1] = ch /\ Tail(u) = Unread(period, at + 1)
  BY <1>2, <1>3, UnreadIs
<1> HIDE DEF u, n, ch
<1> DEFINE Next1(r) == /\ isoPc' = "parse" /\ ~error' /\ at' = at + 1 /\ period' = period
                       /\ Unread(period', at') = r
<1>5. ASSUME u # <<>>, IsNumber(ch)
      PROVE  /\ Next1(Tail(u)) /\ value' = Digits[ch] /\ lastChar' = "0"
             /\ lastUnit' = lastUnit /\ t2' = t2
  <2>1. ~(at > n)
    BY <1>4, <1>5
  <2>2. at <= n
    BY <1>2, <1>3, <2>1
  <2>3. /\ at' = at + 1 /\ Digit(ch) /\ UNCHANGED <<error, isoPc>>
    BY <1>5, <2>1 DEF Parse, Wrong, n, ch
  <2>4. QED
    BY <1>1, <1>2, <1>4, <2>2, <2>3 DEF Digit
<1>6. ASSUME u # <<>>, ~IsNumber(ch), ~Wrong(ch) PROVE Next1(Tail(u)) /\ Unit(ch)
  <2>1. ~(at > n)
    BY <1>4, <1>6
  <2>2. at <= n
    BY <1>2, <1>3, <2>1
  <2>3. /\ at' = at + 1 /\ Unit(ch) /\ UNCHANGED <<error, isoPc>>
    BY <1>6, <2>1 DEF Parse, n, ch
  <2>4. QED
    BY <1>1, <1>2, <1>4, <2>2, <2>3
<1>7. ASSUME u # <<>>, ~IsNumber(ch), Wrong(ch)
      PROVE  isoPc' = "second" /\ error' = TRUE /\ t2' = t2
  <2>1. ~(at > n)
    BY <1>4, <1>7
  <2>2. QED
    BY <1>7, <2>1 DEF Parse, AddPeriod, n, ch
<1>8. ASSUME u = <<>> PROVE isoPc' = "second" /\ error' = error /\ t2' = t2
  <2>1. at > n
    BY <1>4, <1>8
  <2>2. QED
    BY <2>1 DEF Parse, AddPeriod, n
<1>9. u # <<>> => at + 1 \in Nat /\ at + 1 >= 1 /\ at + 1 <= n + 1
  <2> SUFFICES ASSUME u # <<>> PROVE at + 1 \in Nat /\ at + 1 >= 1 /\ at + 1 <= n + 1
    OBVIOUS
  <2>1. ~(at > n)
    BY <1>4
  <2>2. QED
    BY <1>2, <1>3, <2>1
<1> DEFINE Goal == \/ isoPc' \in {"second", "done"} /\ Came(f, error', t2')
                   \/ /\ isoPc' \in {"first", "parse"} /\ ~error'
                      /\ at' \in Nat /\ at' >= 1 /\ at' <= Len(period') + 1
                      /\ LET unread == Unread(period', at') IN
                         \/ \E k \in 0..8 : Before(f, k, unread, lastUnit', t2')
                         \/ lastChar' = "0" /\ \E k \in Places : Within(f, k, unread, lastUnit', t2', value')
<1>10. ASSUME u # <<>>, NEW r, Next1(r),
              \/ \E k \in 0..8 : Before(f, k, r, lastUnit', t2')
              \/ lastChar' = "0" /\ \E k \in Places : Within(f, k, r, lastUnit', t2', value')
       PROVE  Goal
  <2>1. at' \in Nat /\ at' >= 1 /\ at' <= Len(period') + 1
    BY <1>9, <1>10 DEF n
  <2>2. QED
    BY <1>10, <2>1
<1>11. ASSUME isoPc' = "second", Came(f, error', t2') PROVE Goal
  BY <1>11
<1> HIDE DEF Goal, Next1
<1>12. ASSUME NEW k \in 0..8, Before(f, k, u, lastUnit, t2), WrittenAt(f, k) PROVE Goal
  <2>1. u = ToRead(f, k)
    BY <1>12 DEF Before
  <2>2. CASE k = 8
    <3>1. u = <<>>
      BY <2>1, <2>2 DEF ToRead
    <3>2. Came(f, FALSE, t2)
      BY <1>12, <2>2, <3>1, AtEnd
    <3>3. isoPc' = "second" /\ t2' = t2 /\ ~error'
      BY <1>2, <1>8, <3>1
    <3>4. Came(f, error', t2')
      BY <3>2, <3>3 DEF Came
    <3>5. QED
      BY <1>11, <3>3, <3>4
  <2>3. CASE k \in {0, 4}
    <3>1. u # <<>> /\ u[1] = MarkOf(k) /\ Tail(u) = ToRead(f, k + 1)
      BY <1>12, <2>1, <2>3, BeforeEnd DEF MarkOf
    <3>2. /\ MarkOf(k) \in Marks /\ lastUnit \in MayFollow(MarkOf(k))
          /\ Before(f, k + 1, ToRead(f, k + 1), MarkOf(k), t2)
      BY <1>12, <2>3, MarkRead
    <3>3. ch = MarkOf(k)
      <4>1. ~(at > n)
        BY <1>4, <3>1
      <4>2. QED
        BY <1>2, <1>3, <1>4, <3>1, <4>1
    <3>4. ch \notin Units /\ ~IsNumber(ch)
      <4>1. ch \notin Units
        BY <3>3 DEF MarkOf, Units
      <4>2. QED
        BY <3>2, <3>3, <4>1, FieldsAssumption DEF IsNumber
    <3>5. ~Wrong(ch)
      BY <3>2, <3>3, <3>4 DEF Wrong
    <3>6. Next1(Tail(u)) /\ lastUnit' = ch /\ t2' = t2
      BY <1>6, <3>1, <3>4, <3>5 DEF Unit
    <3>7. k + 1 \in 0..8
      BY <2>3
    <3>8. Before(f, k + 1, Tail(u), lastUnit', t2')
      BY <3>1, <3>2, <3>3, <3>6
    <3>9. QED
      BY <1>10, <3>1, <3>6, <3>7, <3>8
  <2>4. CASE k \in Places
    <3>1. u # <<>> /\ u[1] \in DOMAIN Digits /\ Digits[u[1]] = f[NameOf(k)]
          /\ Tail(u) = <<UnitOf(k)>> \o ToRead(f, k + 1)
      <4>1. k # 8
        BY <2>4 DEF Places
      <4>2. QED
        BY <1>12, <2>1, <2>4, <4>1, BeforeEnd
    <3>2. ch = u[1]
      <4>1. ~(at > n)
        BY <1>4, <3>1
      <4>2. QED
        BY <1>2, <1>3, <1>4, <4>1
    <3>3. /\ Next1(Tail(u)) /\ value' = f[NameOf(k)] /\ lastChar' = "0"
          /\ lastUnit' = lastUnit /\ t2' = t2
      BY <1>5, <3>1, <3>2 DEF IsNumber
    <3>4. f[NameOf(k)] # 0
      BY <1>12, <2>4 DEF WrittenAt, Places
    <3>5. Within(f, k, Tail(u), lastUnit', t2', value')
      BY <1>12, <2>4, <3>1, <3>3, <3>4 DEF Before, Within
    <3>6. QED
      BY <1>10, <2>4, <3>1, <3>3, <3>5
  <2>5. QED
    BY <1>12, <2>2, <2>3, <2>4 DEF WrittenAt
<1>13. ASSUME NEW k \in Places, lastChar = "0", Within(f, k, u, lastUnit, t2, value) PROVE Goal
  <2>1. k + 1 \in 0..8
    BY DEF Places
  <2>2. /\ UnitOf(k) \in Units
        /\ \/ /\ lastUnit \in MayFollow(UnitOf(k))
              /\ Before(f, k + 1, ToRead(f, k + 1), UnitOf(k), [t2 EXCEPT ![Meant(lastUnit, UnitOf(k))] = value])
           \/ lastUnit \notin MayFollow(UnitOf(k)) /\ Came(f, TRUE, t2)
    BY <1>13, UnitRead
  <2>3. u # <<>> /\ u[1] = UnitOf(k) /\ Tail(u) = ToRead(f, k + 1)
    <3>1. u = <<UnitOf(k)>> \o ToRead(f, k + 1)
      BY <1>13 DEF Within
    <3>2. ToRead(f, k + 1) \in Seq(Chars) /\ UnitOf(k) \in Chars
      BY <2>1, <2>2, ToReadIs DEF Chars
    <3>3. QED
      BY <3>1, <3>2, LetterIs
  <2>4. ch = UnitOf(k)
    <3>1. ~(at > n)
      BY <1>4, <2>3
    <3>2. QED
      BY <1>2, <1>3, <1>4, <2>3, <3>1
  <2>5. ch \in Units /\ ~IsNumber(ch)
    BY <2>2, <2>4, FieldsAssumption DEF IsNumber
  <2>6. Wrong(ch) <=> lastUnit \notin MayFollow(ch)
    BY <1>13 DEF Wrong
  <2>7. CASE Wrong(ch)
    <3>1. isoPc' = "second" /\ error' = TRUE /\ t2' = t2
      BY <1>7, <2>3, <2>5, <2>7
    <3>2. Came(f, TRUE, t2)
      BY <2>2, <2>4, <2>6, <2>7
    <3>3. QED
      BY <1>11, <3>1, <3>2
  <2>8. CASE ~Wrong(ch)
    <3>1. Next1(Tail(u)) /\ Unit(ch)
      BY <1>6, <2>3, <2>5, <2>8
    <3>2. Field(ch) = Meant(lastUnit, ch)
      BY DEF Field, Meant
    <3>3. lastUnit' = ch /\ t2' = [t2 EXCEPT ![Meant(lastUnit, ch)] = value]
      BY <2>5, <3>1, <3>2 DEF Unit
    <3>4. Before(f, k + 1, Tail(u), lastUnit', t2')
      BY <2>2, <2>3, <2>4, <2>6, <2>8, <3>3
    <3>5. QED
      BY <1>10, <2>1, <2>3, <3>1, <3>4
  <2>9. QED
    BY <2>7, <2>8
<1>14. Goal
  <2>1. CASE \E k \in 0..8 : Before(f, k, u, lastUnit, t2)
    <3>1. \E k \in 0..8 : Before(f, k, u, lastUnit, t2) /\ WrittenAt(f, k)
      BY <2>1, BeforeSome
    <3>2. QED
      BY <1>12, <3>1
  <2>2. CASE lastChar = "0" /\ \E k \in Places : Within(f, k, u, lastUnit, t2, value)
    BY <1>13, <2>2
  <2>3. QED
    BY <1>2, <2>1, <2>2
<1>15. QED
  BY <1>14 DEF Goal

\* A period that is written as the standard has it is read for what it means, but for
\* days that follow months, which are refused (parseperiod, ReadsAsWritten).
THEOREM PeriodsRead == IsoSpec => []ReadsAsWritten
<1>1. ReadInv /\ [IsoNext]_isoVars => ReadInv'
  <2> SUFFICES ASSUME ReadInv, [IsoNext]_isoVars PROVE ReadInv'
    OBVIOUS
  <2>1. CASE Parse
    BY <2>1, ReadOn
  <2>2. CASE Normalize
    <3>1. UNCHANGED <<period, at, value, lastUnit, lastChar, t2, error>>
      BY <2>2 DEF Normalize
    <3>2. \/ isoPc \in {"first", "parse"} /\ isoPc' \in {"first", "parse"}
          \/ isoPc \notin {"first", "parse"} /\ isoPc' \in {"second", "done"}
      BY <2>2 DEF Normalize
    <3>3. QED
      BY <3>1, <3>2 DEF ReadInv
  <2>3. CASE UNCHANGED isoVars
    BY <2>3 DEF isoVars, ReadInv
  <2>4. QED
    BY <2>1, <2>2, <2>3 DEF IsoNext
<1>2. ReadInv => ReadsAsWritten
  BY DEF ReadInv, ReadsAsWritten, Came
<1>3. QED
  BY <1>1, <1>2, ReadStart, PTL DEF IsoSpec
=============================================================================
