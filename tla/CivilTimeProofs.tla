-------------------------- MODULE CivilTimeProofs ---------------------------
(***************************************************************************)
(* Proofs about CivilTime, for every offset of less than a day, every set  *)
(* of moments and delays up to an hour and every set of windows that begin *)
(* at a true date.                                                         *)
(*                                                                         *)
(* DayNo gives every date of the calendar its number.  The first part      *)
(* shows that all the day arithmetic of the code (the weekday of           *)
(* gregorian.py, the Julian day of lunar.py, the ordinal, the due minute   *)
(* and the comparison of scheduler.py, the local time of service.py) is    *)
(* arithmetic on that number; the second that the registers of the RTC     *)
(* keep the number of the true day; the third that the cells of the month  *)
(* grid are numbered one by one.                                           *)
(***************************************************************************)
EXTENDS CivilTime, FiniteSetTheorems, SequenceTheorems, WellFoundedInduction,
        TLAPS

-----------------------------------------------------------------------------
(* Days and minutes by their number.                                       *)

\* A leap year of the Gregorian calendar.
Leap(y) == y % 4 = 0 /\ (y % 100 # 0 \/ y % 400 = 0)

\* The days before the first of January of a year.
Jan1(y) == 365 * (y - 1) + (y - 1) \div 4 - (y - 1) \div 100 + (y - 1) \div 400

\* The days of a year before the first of a month.
Table == <<0, 31, 59, 90, 120, 151, 181, 212, 243, 273, 304, 334>>
DaysTo(y, m) == Table[m] + (IF m > 2 /\ Leap(y) THEN 1 ELSE 0)

\* The number of a day, and of a minute.
DayNo(t) == Jan1(t.year) + DaysTo(t.year, t.month) + t.day - 1
MinuteNo(t) == DayNo(t) * 1440 + t.hour * 60 + t.minute

\* A date of the calendar, and the records of a date and a time.
Valid(t) ==
    t.year \in Int /\ t.month \in 1 .. 12 /\ t.day \in 1 .. DaysInMonth(t.year, t.month)

Stamps ==
    [year : Int, month : 1 .. 12, day : 1 .. 31, weekday : 0 .. 6,
     hour : 0 .. 23, minute : 0 .. 59]

Civil == {t \in Stamps : Valid(t)}

\* A year is one day longer when it is a leap year of the Gregorian calendar.
LEMMA YearStep ==
    ASSUME NEW y \in Int
    PROVE  Jan1(y + 1) = Jan1(y) + 365 + (IF Leap(y) THEN 1 ELSE 0)
<1>1. y \div 4 = (y - 1) \div 4 + (IF y % 4 = 0 THEN 1 ELSE 0)
    OBVIOUS
<1>2. y \div 100 = (y - 1) \div 100 + (IF y % 100 = 0 THEN 1 ELSE 0)
    OBVIOUS
<1>3. y \div 400 = (y - 1) \div 400 + (IF y % 400 = 0 THEN 1 ELSE 0)
    OBVIOUS
<1>4. (y % 400 = 0 => y % 100 = 0) /\ (y % 100 = 0 => y % 4 = 0)
    OBVIOUS
<1>5. (y + 1) - 1 = y
    OBVIOUS
<1>6. 365 * y = 365 * (y - 1) + 365
    OBVIOUS
<1> QED BY <1>1, <1>2, <1>3, <1>4, <1>5, <1>6 DEF Jan1, Leap

\* The table of the days before a month adds up the lengths of the months.
LEMMA MonthDays ==
    ASSUME NEW y \in Int
    PROVE  /\ DaysTo(y, 1) = 0
           /\ \A m \in 2 .. 12 : DaysTo(y, m) = DaysTo(y, m - 1) + DaysInMonth(y, m - 1)
           /\ DaysTo(y, 12) + DaysInMonth(y, 12) = 365 + (IF Leap(y) THEN 1 ELSE 0)
BY DEF DaysTo, Table, DaysInMonth, Leap

\* The sum that remaining_minutes adds up month by month is the entry of the table.
LEMMA DaysBeforeIs ==
    ASSUME NEW y \in Int, NEW month \in 1 .. 12
    PROVE  DaysBefore(y, month) = DaysTo(y, month)
<1> DEFINE Good(f) == f = [m \in 1 .. 12 |-> IF m = 1 THEN 0 ELSE f[m - 1] + DaysInMonth(y, m - 1)]
           g == [m \in 1 .. 12 |-> DaysTo(y, m)]
           days == CHOOSE f : Good(f)
<1>1. Good(g)
    BY MonthDays
<1>2. Good(days)
    BY <1>1
<1> HIDE DEF days
<1>3. days[1] = 0
    BY <1>2
<1>4. \A m \in 2 .. 12 : days[m] = days[m - 1] + DaysInMonth(y, m - 1)
    BY <1>2
<1>5. \A m \in 1 .. 12 : days[m] = DaysTo(y, m)
    BY <1>3, <1>4, MonthDays
<1>6. DaysBefore(y, month) = days[month]
    BY DEF DaysBefore, days
<1> QED BY <1>5, <1>6

\* _jd_from_date counts days as DayNo does, from another day on.
LEMMA JulianIs ==
    ASSUME NEW t, Valid(t) PROVE JdFromDate(t) = DayNo(t) - 693595
<1>1. t.year \in Int /\ t.month \in 1 .. 12 /\ t.day \in Int
    BY SMT DEF Valid, DaysInMonth
<1>2. ASSUME NEW y \in Int
      PROVE  /\ (y + 4800) \div 4 = y \div 4 + 1200
             /\ (y + 4800) \div 100 = y \div 100 + 48
             /\ (y + 4800) \div 400 = y \div 400 + 12
    BY SMT
<1> DEFINE a == (14 - t.month) \div 12
           y == t.year + 4800 - a
           m == t.month + 12 * a - 3
           Q(z) == 365 * z + z \div 4 - z \div 100 + z \div 400
<1>3. CASE t.month \in 1 .. 2
    <2>1. a = 1
        BY <1>3, SMT
    <2>2. y = (t.year - 1) + 4800 /\ m = t.month + 9
        BY <1>1, <2>1, SMT
    <2>3. (153 * m + 2) \div 5 = IF t.month = 1 THEN 306 ELSE 337
        BY <1>3, <2>2, SMT
    <2>4. y \div 4 = (t.year - 1) \div 4 + 1200 /\ y \div 100 = (t.year - 1) \div 100 + 48
          /\ y \div 400 = (t.year - 1) \div 400 + 12
        BY <1>1, <1>2, <2>2, SMT
    <2>5. DaysTo(t.year, t.month) = IF t.month = 1 THEN 0 ELSE 31
        BY <1>3, SMT DEF DaysTo, Table
    <2> QED BY <1>1, <1>3, <2>2, <2>3, <2>4, <2>5, SMT DEF JdFromDate, DayNo, Jan1
<1>4. CASE t.month \in 3 .. 12
    <2>1. a = 0
        BY <1>4, SMT
    <2>2. y = t.year + 4800 /\ m = t.month - 3
        BY <1>1, <2>1, SMT
    <2>3. (153 * m + 2) \div 5 = Table[t.month] - 59
        BY <1>4, <2>2, SMT DEF Table
    <2>4. y \div 4 = t.year \div 4 + 1200 /\ y \div 100 = t.year \div 100 + 48
          /\ y \div 400 = t.year \div 400 + 12
        BY <1>1, <1>2, <2>2, SMT
    <2>5. DaysTo(t.year, t.month) = Table[t.month] + (IF Leap(t.year) THEN 1 ELSE 0)
        BY <1>4, SMT DEF DaysTo
    <2>6. Table[t.month] \in Int
        BY <1>4, SMT DEF Table
    <2>7. Jan1(t.year + 1) = Jan1(t.year) + 365 + (IF Leap(t.year) THEN 1 ELSE 0)
        BY <1>1, YearStep
    <2>8. Jan1(t.year + 1) = 365 * t.year + t.year \div 4 - t.year \div 100 + t.year \div 400
        BY <1>1, SMT DEF Jan1
    <2>9. Jan1(t.year) \in Int
        BY <1>1, SMT DEF Jan1
    <2>10. JdFromDate(t) = t.day + (Table[t.month] - 59) + 365 * y + y \div 4 - y \div 100
                             + y \div 400 - 32045 - 2415021
        BY <2>3 DEF JdFromDate
    <2> DEFINE extra == IF Leap(t.year) THEN 1 ELSE 0
               rest == t.year \div 4 - t.year \div 100 + t.year \div 400
    <2>11. y \div 4 - y \div 100 + y \div 400 = rest + 1164
        BY <1>1, <2>4, SMT
    <2>12. Jan1(t.year) + 365 + extra = 365 * t.year + rest
        BY <1>1, <2>7, <2>8, <2>9, SMT
    <2>13. DayNo(t) = Jan1(t.year) + (Table[t.month] + extra) + t.day - 1
        BY <2>5 DEF DayNo
    <2>14. extra \in Int /\ rest \in Int
        BY <1>1, SMT
    <2>15. JdFromDate(t) = t.day + (Table[t.month] - 59) + 365 * (t.year + 4800) + (rest + 1164)
                             - 32045 - 2415021
        BY <1>1, <2>2, <2>4, <2>6, <2>10, <2>11, SMT
    <2> DEFINE Y == t.year
               D == t.day
               T == Table[t.month]
               J == Jan1(t.year)
    <2>16. Y \in Int /\ D \in Int /\ T \in Int /\ J \in Int
        BY <1>1, <2>6, <2>9
    <2>17. /\ J + 365 + extra = 365 * Y + rest
           /\ DayNo(t) = J + (T + extra) + D - 1
           /\ JdFromDate(t) = D + (T - 59) + 365 * (Y + 4800) + (rest + 1164) - 32045 - 2415021
        BY <2>12, <2>13, <2>15
    <2> HIDE DEF extra, rest, Y, D, T, J
    <2> QED BY <2>14, <2>16, <2>17, SMT
<1> QED BY <1>1, <1>3, <1>4

\* weekday_from_ymd is the number of the day modulo seven: day 0 was a Monday.
LEMMA WeekdayIs ==
    ASSUME NEW t, Valid(t) PROVE WeekdayFromYmd(t.year, t.month, t.day) = DayNo(t) % 7
<1>1. t.year \in Int /\ t.month \in 1 .. 12 /\ t.day \in Int
    BY SMT DEF Valid, DaysInMonth
<1> DEFINE y == IF t.month < 3 THEN t.year - 1 ELSE t.year
           s == y + y \div 4 - y \div 100 + y \div 400 + Sakamoto[t.month] + t.day
<1>2. WeekdayFromYmd(t.year, t.month, t.day) = ((s % 7) + 6) % 7
    BY SMT DEF WeekdayFromYmd
<1>3. s \in Int
    BY <1>1, SMT DEF Sakamoto
<1> DEFINE lag == Table[t.month] - Sakamoto[t.month]
<1>4. /\ lag \in Int
      /\ t.month \in {1, 2} => lag = 7 * (lag \div 7)
      /\ t.month \in 3 .. 12 => lag = 1 + 7 * (lag \div 7)
    BY <1>1, SMT DEF Table, Sakamoto
<1>6. Table[t.month] \in Int /\ Sakamoto[t.month] \in Int
      /\ Table[t.month] = lag + Sakamoto[t.month]
    BY <1>1, SMT DEF Table, Sakamoto
<1> HIDE DEF lag
<1>7. \E k \in Int : DayNo(t) = s - 1 + 7 * k
    <2>1. CASE t.month \in {1, 2}
        <3>1. DaysTo(t.year, t.month) = Table[t.month]
            BY <1>6, <2>1, SMT DEF DaysTo
        <3>2. DayNo(t) = s - 1 + 7 * (52 * (t.year - 1) + (lag \div 7))
            BY <1>1, <1>4, <1>6, <2>1, <3>1, SMT DEF DayNo, Jan1
        <3>3. 52 * (t.year - 1) + (lag \div 7) \in Int
            BY <1>1, <1>4, SMT
        <3> QED BY <3>2, <3>3
    <2>2. CASE t.month \in 3 .. 12
        <3>1. DaysTo(t.year, t.month) = Table[t.month] + (IF Leap(t.year) THEN 1 ELSE 0)
            BY <2>2, SMT DEF DaysTo
        <3>2. Jan1(t.year + 1) = Jan1(t.year) + 365 + (IF Leap(t.year) THEN 1 ELSE 0)
            BY <1>1, YearStep
        <3>3. Jan1(t.year + 1) = 365 * t.year + t.year \div 4 - t.year \div 100 + t.year \div 400
            BY <1>1, SMT DEF Jan1
        <3>4. Jan1(t.year) \in Int
            BY <1>1, SMT DEF Jan1
        <3>5. y = t.year
            BY <2>2, SMT
        <3> DEFINE extra == IF Leap(t.year) THEN 1 ELSE 0
                   rest == t.year \div 4 - t.year \div 100 + t.year \div 400
        <3>8. s = t.year + rest + Sakamoto[t.month] + t.day
            BY <1>1, <1>6, <3>5, SMT
        <3>9. extra \in Int /\ rest \in Int /\ lag = 1 + 7 * (lag \div 7)
              /\ (lag \div 7) \in Int
            BY <1>1, <1>4, <2>2, SMT
        <3>10. Jan1(t.year) + 365 + extra = 365 * t.year + rest
            BY <1>1, <3>2, <3>3, <3>4, SMT
        <3>11. DayNo(t) = Jan1(t.year) + (Table[t.month] + extra) + t.day - 1
            BY <3>1 DEF DayNo
        <3> DEFINE Y == t.year
                   D == t.day
                   T == Table[t.month]
                   S == Sakamoto[t.month]
                   J == Jan1(t.year)
        <3>12. Y \in Int /\ D \in Int /\ T \in Int /\ S \in Int /\ J \in Int
            BY <1>1, <1>6, <3>4
        <3>13. /\ T = lag + S
               /\ s = Y + rest + S + D
               /\ J + 365 + extra = 365 * Y + rest
               /\ DayNo(t) = J + (T + extra) + D - 1
            BY <1>6, <3>8, <3>10, <3>11
        <3> HIDE DEF extra, rest, s, Y, D, T, S, J
        <3>14. DayNo(t) = s - 1 + 7 * (52 * (Y - 1) + (lag \div 7))
            BY <1>4, <3>9, <3>12, <3>13, SMT
        <3>6. DayNo(t) = s - 1 + 7 * (52 * (t.year - 1) + (lag \div 7))
            BY <3>14 DEF Y
        <3>7. 52 * (t.year - 1) + (lag \div 7) \in Int
            BY <1>1, <1>4, SMT
        <3> QED BY <3>6, <3>7
    <2> QED BY <1>1, <2>1, <2>2
<1> HIDE DEF s
<1>5. \A k \in Int : ((s % 7) + 6) % 7 = (s - 1 + 7 * k) % 7
    BY <1>3, SMT
<1> QED BY <1>2, <1>5, <1>7

\* The number of a day is an integer.
LEMMA DayNoInt ==
    ASSUME NEW t, Valid(t)
    PROVE DayNo(t) \in Int
<1>1. t.year \in Int /\ t.month \in 1 .. 12 /\ t.day \in Int
    BY SMT DEF Valid, DaysInMonth
<1>2. Jan1(t.year) \in Int /\ DaysTo(t.year, t.month) \in Int
    BY <1>1, SMT DEF Jan1, DaysTo, Table
<1> QED BY <1>1, <1>2, SMT DEF DayNo

\* A month has 28 to 31 days.
LEMMA MonthLength ==
    ASSUME NEW y \in Int, NEW m \in 1 .. 12
    PROVE DaysInMonth(y, m) \in 28 .. 31
BY SMT DEF DaysInMonth

\* The number of a first of January is an integer.
LEMMA Jan1Int ==
    ASSUME NEW y \in Int
    PROVE Jan1(y) \in Int
BY DEF Jan1

\* The days before a month are a natural number.
LEMMA DaysToInt ==
    ASSUME NEW y \in Int, NEW m \in 1 .. 12
    PROVE DaysTo(y, m) \in Nat
BY SMT DEF DaysTo, Table

\* DayAfter goes to the next day of the calendar and keeps the time of day.
LEMMA DayAfterIs ==
    ASSUME NEW t \in Civil
    PROVE  DayAfter(t) \in Civil /\ DayNo(DayAfter(t)) = DayNo(t) + 1
           /\ DayAfter(t).year \in {t.year, t.year + 1} /\ DayAfter(t).weekday = t.weekday
           /\ DayAfter(t).hour = t.hour /\ DayAfter(t).minute = t.minute
           /\ (DayAfter(t).year # t.year => DayAfter(t).month = 1)
<1> DEFINE y == t.year
           m == t.month
           d == t.day
<1>1. t \in Stamps /\ y \in Int /\ m \in 1 .. 12 /\ d \in 1 .. DaysInMonth(y, m)
    BY DEF Civil, Stamps, Valid
<1>2. DaysInMonth(y, m) \in 28 .. 31
    BY <1>1, MonthLength
<1>3. Jan1(y) \in Int /\ DaysTo(y, m) \in Nat
    BY <1>1, Jan1Int, DaysToInt
<1>4. CASE d < DaysInMonth(y, m)
    <2>1. DayAfter(t) = [t EXCEPT !.day = @ + 1]
        BY <1>4 DEF DayAfter
    <2>2. d + 1 \in 1 .. 31
        BY <1>1, <1>2, <1>4
    <2>3. DayAfter(t) \in Stamps /\ DayAfter(t).year = y /\ DayAfter(t).month = m
          /\ DayAfter(t).day = d + 1
          /\ DayAfter(t).weekday = t.weekday /\ DayAfter(t).hour = t.hour
          /\ DayAfter(t).minute = t.minute
        BY <1>1, <2>1, <2>2 DEF Stamps
    <2>4. DayAfter(t) \in Civil
        BY <1>1, <1>2, <1>4, <2>3 DEF Civil, Valid
    <2>5. DayNo(DayAfter(t)) = Jan1(y) + DaysTo(y, m) + (d + 1) - 1
          /\ DayNo(t) = Jan1(y) + DaysTo(y, m) + d - 1
        BY <2>3 DEF DayNo
    <2> HIDE DEF y, m, d
    <2>6. DayNo(DayAfter(t)) = DayNo(t) + 1
        BY <1>1, <1>2, <1>3, <2>5
    <2> QED BY <2>3, <2>4, <2>6 DEF y
<1>5. CASE d = DaysInMonth(y, m) /\ m < 12
    <2>2. m + 1 \in 1 .. 12 /\ 1 \in 1 .. 31
        BY <1>1, <1>5
    <2>1. DayAfter(t) = [t EXCEPT !.day = 1, !.month = m + 1]
        BY <1>5, <1>2 DEF DayAfter
    <2>3. DayAfter(t) \in Stamps /\ DayAfter(t).year = y /\ DayAfter(t).month = m + 1
          /\ DayAfter(t).day = 1
          /\ DayAfter(t).weekday = t.weekday /\ DayAfter(t).hour = t.hour
          /\ DayAfter(t).minute = t.minute
        <3> DEFINE u == DayAfter(t)
                   yy == y
                   mm == m + 1
        <3>1. t \in Stamps /\ yy \in Int /\ mm \in 1 .. 12 /\ 1 \in 1 .. 31
            BY <1>1, <2>2
        <3>2. yy = t.year /\ u = [t EXCEPT !.day = 1, !.month = mm]
            BY <2>1
        <3> HIDE DEF u, yy, mm
        <3>4. u = [year |-> yy, month |-> mm, day |-> 1, weekday |-> t.weekday, hour |-> t.hour,
                   minute |-> t.minute]
            BY <3>1, <3>2 DEF Stamps
        <3>5. t.weekday \in 0 .. 6 /\ t.hour \in 0 .. 23 /\ t.minute \in 0 .. 59
            BY <1>1 DEF Stamps
        <3>3. /\ u \in Stamps
              /\ u.year = yy /\ u.month = mm /\ u.day = 1
              /\ u.weekday = t.weekday /\ u.hour = t.hour /\ u.minute = t.minute
            BY <3>1, <3>4, <3>5 DEF Stamps
        <3> QED BY <3>3 DEF u, yy, mm
    <2>4. DaysInMonth(y, m + 1) \in 28 .. 31 /\ m + 1 \in 1 .. 12
        BY <1>1, <1>5, MonthLength
    <2>7. DayAfter(t) \in Civil
        BY <1>1, <1>2, <1>5, <2>3, <2>4 DEF Civil, Valid
    <2>5. DayNo(DayAfter(t)) = Jan1(y) + DaysTo(y, m + 1) + 1 - 1
          /\ DayNo(t) = Jan1(y) + DaysTo(y, m) + d - 1
        BY <2>3 DEF DayNo
    <2>8. DaysTo(y, m + 1) = DaysTo(y, m) + DaysInMonth(y, m)
        <3>1. m + 1 \in 2 .. 12 /\ (m + 1) - 1 = m
            BY <1>1, <1>5
        <3> QED BY <1>1, <3>1, MonthDays
    <2> HIDE DEF y, m, d
    <2>6. DayNo(DayAfter(t)) = DayNo(t) + 1
        BY <1>1, <1>2, <1>3, <1>5, <2>5, <2>8
    <2> QED BY <2>3, <2>7, <2>6 DEF y
<1>6. CASE d = DaysInMonth(y, m) /\ m = 12
    <2>2. y + 1 \in Int /\ 1 \in 1 .. 12 /\ 1 \in 1 .. 31
        BY <1>1
    <2>1. DayAfter(t) = [t EXCEPT !.day = 1, !.month = 1, !.year = y + 1]
        BY <1>6, <1>2 DEF DayAfter
    <2>3. DayAfter(t) \in Stamps /\ DayAfter(t).year = y + 1 /\ DayAfter(t).month = 1
          /\ DayAfter(t).day = 1
          /\ DayAfter(t).weekday = t.weekday /\ DayAfter(t).hour = t.hour
          /\ DayAfter(t).minute = t.minute
        <3> DEFINE u == DayAfter(t)
                   yy == y + 1
                   mm == 1
        <3>1. t \in Stamps /\ yy \in Int /\ mm \in 1 .. 12 /\ 1 \in 1 .. 31
            BY <1>1, <2>2
        <3>2. u = [t EXCEPT !.day = 1, !.month = mm, !.year = yy]
            BY <2>1
        <3> HIDE DEF u, yy, mm
        <3>4. u = [year |-> yy, month |-> mm, day |-> 1, weekday |-> t.weekday, hour |-> t.hour,
                   minute |-> t.minute]
            BY <3>1, <3>2 DEF Stamps
        <3>5. t.weekday \in 0 .. 6 /\ t.hour \in 0 .. 23 /\ t.minute \in 0 .. 59
            BY <1>1 DEF Stamps
        <3>3. /\ u \in Stamps
              /\ u.year = yy /\ u.month = mm /\ u.day = 1
              /\ u.weekday = t.weekday /\ u.hour = t.hour /\ u.minute = t.minute
            BY <3>1, <3>4, <3>5 DEF Stamps
        <3> QED BY <3>3 DEF u, yy, mm
    <2>4. DaysInMonth(y + 1, 1) \in 28 .. 31 /\ y + 1 \in Int
        BY <1>1, MonthLength
    <2>7. DayAfter(t) \in Civil
        BY <2>3, <2>4 DEF Civil, Valid
    <2>5. DayNo(DayAfter(t)) = Jan1(y + 1) + DaysTo(y + 1, 1) + 1 - 1
          /\ DayNo(t) = Jan1(y) + DaysTo(y, m) + d - 1
        BY <2>3 DEF DayNo
    <2>8. DaysTo(y + 1, 1) = 0
          /\ DaysTo(y, 12) + DaysInMonth(y, 12) = 365 + (IF Leap(y) THEN 1 ELSE 0)
          /\ Jan1(y + 1) = Jan1(y) + 365 + (IF Leap(y) THEN 1 ELSE 0)
        BY <1>1, <2>4, MonthDays, YearStep
    <2> HIDE DEF y, m, d
    <2>6. DayNo(DayAfter(t)) = DayNo(t) + 1
        BY <1>1, <1>2, <1>3, <1>6, <2>5, <2>8
    <2> QED BY <2>3, <2>7, <2>6 DEF y
<1> QED BY <1>1, <1>2, <1>4, <1>5, <1>6

\* DayBefore goes to the previous day of the calendar and keeps the time of day.
LEMMA DayBeforeIs ==
    ASSUME NEW t \in Civil
    PROVE  DayBefore(t) \in Civil /\ DayNo(DayBefore(t)) = DayNo(t) - 1
           /\ DayBefore(t).year \in {t.year, t.year - 1} /\ DayBefore(t).weekday = t.weekday
           /\ DayBefore(t).hour = t.hour /\ DayBefore(t).minute = t.minute
           /\ (DayBefore(t).year # t.year => DayBefore(t).month = 12)
<1> DEFINE y == t.year
           m == t.month
           d == t.day
           u == DayBefore(t)
           Dated(yy, mm, dd) == /\ u \in Stamps /\ u.year = yy /\ u.month = mm /\ u.day = dd
                                /\ u.weekday = t.weekday /\ u.hour = t.hour
                                /\ u.minute = t.minute
<1>1. t \in Stamps /\ y \in Int /\ m \in 1 .. 12 /\ d \in 1 .. DaysInMonth(y, m)
    BY DEF Civil, Stamps, Valid
<1>2. DaysInMonth(y, m) \in 28 .. 31
    BY <1>1, MonthLength
<1>3. Jan1(y) \in Int /\ DaysTo(y, m) \in Nat
    BY <1>1, Jan1Int, DaysToInt
<1>7. t.weekday \in 0 .. 6 /\ t.hour \in 0 .. 23 /\ t.minute \in 0 .. 59
    BY <1>1 DEF Stamps
<1>4. CASE d > 1
    <2> DEFINE dd == d - 1
    <2>1. u = [t EXCEPT !.day = dd]
        BY <1>4 DEF DayBefore
    <2>2. dd \in 1 .. 31
        BY <1>1, <1>2, <1>4
    <2> HIDE DEF dd, u
    <2>3. u = [year |-> t.year, month |-> t.month, day |-> dd, weekday |-> t.weekday,
               hour |-> t.hour,
               minute |-> t.minute]
        BY <1>1, <2>1 DEF Stamps
    <2>4. Dated(y, m, dd)
        BY <1>1, <1>7, <2>2, <2>3 DEF Stamps
    <2>5. dd \in 1 .. DaysInMonth(y, m)
        BY <1>1, <1>2, <1>4 DEF dd
    <2>6. u \in Civil
        BY <1>1, <2>4, <2>5 DEF Civil, Valid
    <2>7. DayNo(u) = Jan1(y) + DaysTo(y, m) + dd - 1
          /\ DayNo(t) = Jan1(y) + DaysTo(y, m) + d - 1
        BY <2>4 DEF DayNo
    <2> HIDE DEF y, m, d
    <2>8. DayNo(u) = DayNo(t) - 1
        BY <1>1, <1>2, <1>3, <2>7 DEF dd
    <2> QED BY <2>4, <2>6, <2>8 DEF u, y
<1>5. CASE d = 1 /\ m > 1
    <2> DEFINE mm == m - 1
               dd == DaysInMonth(y, mm)
    <2>1. u = [t EXCEPT !.year = y, !.month = mm, !.day = dd]
        <3>1. PrevMonth(t) = [year |-> y, month |-> mm] /\ ~(t.day > 1)
            BY <1>1, <1>5 DEF PrevMonth
        <3>2. PrevMonth(t).year = y /\ PrevMonth(t).month = mm
            BY <3>1
        <3> HIDE DEF mm
        <3> QED BY <3>1, <3>2 DEF DayBefore
    <2>2. mm \in 1 .. 12 /\ m \in 2 .. 12
        BY <1>1, <1>5
    <2>9. dd \in 28 .. 31
        BY <1>1, <2>2, MonthLength
    <2>10. DaysTo(y, m) = DaysTo(y, mm) + dd /\ DaysTo(y, mm) \in Nat
        BY <1>1, <2>2, MonthDays, DaysToInt
    <2>5. dd \in 1 .. DaysInMonth(y, mm)
        BY <2>9
    <2> HIDE DEF dd, mm, u
    <2>3. u = [year |-> y, month |-> mm, day |-> dd, weekday |-> t.weekday, hour |-> t.hour,
               minute |-> t.minute]
        BY <1>1, <2>1 DEF Stamps
    <2>4. Dated(y, mm, dd)
        BY <1>1, <1>7, <2>2, <2>3, <2>9 DEF Stamps
    <2>6. u \in Civil
        BY <1>1, <2>2, <2>4, <2>5 DEF Civil, Valid
    <2>7. DayNo(u) = Jan1(y) + DaysTo(y, mm) + dd - 1
          /\ DayNo(t) = Jan1(y) + DaysTo(y, m) + d - 1
        BY <2>4 DEF DayNo
    <2> HIDE DEF y, m, d
    <2>8. DayNo(u) = DayNo(t) - 1
        BY <1>1, <1>2, <1>3, <1>5, <2>7, <2>9, <2>10
    <2> QED BY <2>4, <2>6, <2>8 DEF u, y
<1>6. CASE d = 1 /\ m = 1
    <2> DEFINE yy == y - 1
               dd == DaysInMonth(yy, 12)
    <2>1. u = [t EXCEPT !.year = yy, !.month = 12, !.day = dd]
        BY <1>1, <1>6 DEF DayBefore, PrevMonth
    <2>2. yy \in Int /\ yy + 1 = y
        BY <1>1
    <2>9. dd \in 28 .. 31
        BY <2>2, MonthLength
    <2>10. Jan1(yy + 1) = Jan1(yy) + DaysTo(yy, 12) + dd /\ DaysTo(yy, 12) \in Nat
           /\ Jan1(yy) \in Int
           /\ DaysTo(y, 1) = 0
        <3> HIDE DEF yy
        <3>1. DaysTo(yy, 12) + DaysInMonth(yy, 12) = 365 + (IF Leap(yy) THEN 1 ELSE 0)
              /\ DaysTo(y, 1) = 0
            BY <1>1, <2>2, MonthDays
        <3>2. Jan1(yy + 1) = Jan1(yy) + 365 + (IF Leap(yy) THEN 1 ELSE 0)
            BY <2>2, YearStep
        <3>3. DaysTo(yy, 12) \in Nat /\ Jan1(yy) \in Int
            <4>1. 12 \in 1 .. 12
                OBVIOUS
            <4> QED BY <2>2, <4>1, Jan1Int, DaysToInt
        <3> QED BY <2>9, <3>1, <3>2, <3>3
    <2>5. dd \in 1 .. DaysInMonth(yy, 12)
        BY <2>9
    <2> HIDE DEF dd, yy, u
    <2>3. u = [year |-> yy, month |-> 12, day |-> dd, weekday |-> t.weekday, hour |-> t.hour,
               minute |-> t.minute]
        BY <1>1, <2>1 DEF Stamps
    <2>4. Dated(yy, 12, dd)
        BY <1>1, <1>7, <2>2, <2>3, <2>9 DEF Stamps
    <2>6. u \in Civil
        BY <1>1, <2>2, <2>4, <2>5 DEF Civil, Valid
    <2>7. DayNo(u) = Jan1(yy) + DaysTo(yy, 12) + dd - 1
          /\ DayNo(t) = Jan1(y) + DaysTo(y, m) + d - 1
        BY <2>4 DEF DayNo
    <2> HIDE DEF y, m, d
    <2>8. DayNo(u) = DayNo(t) - 1
        BY <1>1, <1>2, <1>3, <1>6, <2>2, <2>7, <2>9, <2>10
    <2> QED BY <2>2, <2>4, <2>6, <2>8 DEF u, y, yy
<1> QED BY <1>1, <1>2, <1>4, <1>5, <1>6

\* A whole year fits before a later one.
LEMMA YearsAscend ==
    ASSUME NEW y \in Int, NEW z \in Int, y < z
    PROVE  Jan1(y) + 365 + (IF Leap(y) THEN 1 ELSE 0) <= Jan1(z)
<1>1. Jan1(y + 1) = Jan1(y) + 365 + (IF Leap(y) THEN 1 ELSE 0)
    BY YearStep
<1>2. Jan1(y + 1) <= Jan1(z)
    <2>1. y \div 4 <= (z - 1) \div 4 /\ y \div 400 <= (z - 1) \div 400
        OBVIOUS
    <2>2. (z - 1) \div 100 <= y \div 100 + (z - 1 - y)
        OBVIOUS
    <2>3. (y + 1) - 1 = y
        OBVIOUS
    <2> QED BY <2>1, <2>2, <2>3 DEF Jan1
<1> QED BY <1>1, <1>2

\* A whole month fits before a later one of its year.
LEMMA MonthsAscend ==
    ASSUME NEW y \in Int, NEW m \in 1 .. 12, NEW n \in 1 .. 12, m < n
    PROVE  DaysTo(y, m) + DaysInMonth(y, m) <= DaysTo(y, n)
BY DEF DaysTo, Table, DaysInMonth, Leap

\* The months fit into their year.
LEMMA MonthInYear ==
    ASSUME NEW y \in Int, NEW m \in 1 .. 12
    PROVE  DaysTo(y, m) + DaysInMonth(y, m) <= 365 + (IF Leap(y) THEN 1 ELSE 0)
BY DEF DaysTo, Table, DaysInMonth, Leap

\* Later dates have greater numbers, and days of one month differ by their number.
LEMMA DatesOrdered ==
    ASSUME NEW t, NEW u, Valid(t), Valid(u)
    PROVE  /\ t.year < u.year => DayNo(t) < DayNo(u)
           /\ t.year = u.year /\ t.month < u.month => DayNo(t) < DayNo(u)
           /\ t.year = u.year /\ t.month = u.month => DayNo(u) - DayNo(t) = u.day - t.day
<1> DEFINE y == t.year
           m == t.month
           d == t.day
           z == u.year
           n == u.month
           e == u.day
           len == DaysInMonth(y, m)
           before == DaysTo(y, m)
           before2 == DaysTo(z, n)
           jan == Jan1(y)
           jan2 == Jan1(z)
           extra == IF Leap(y) THEN 1 ELSE 0
<1>1. /\ y \in Int /\ m \in 1 .. 12 /\ d \in 1 .. len /\ len \in 28 .. 31
      /\ z \in Int /\ n \in 1 .. 12 /\ e \in Int /\ e >= 1
    <2>1. y \in Int /\ m \in 1 .. 12 /\ d \in 1 .. len /\ z \in Int /\ n \in 1 .. 12
          /\ e \in 1 .. DaysInMonth(z, n)
        BY DEF Valid
    <2>2. len \in 28 .. 31 /\ DaysInMonth(z, n) \in 28 .. 31
        BY <2>1, MonthLength
    <2> HIDE DEF y, m, d, z, n, e, len
    <2> QED BY <2>1, <2>2
<1>2. before \in Nat /\ before2 \in Nat /\ jan \in Int /\ jan2 \in Int /\ extra \in Int
    <2>1. jan \in Int /\ jan2 \in Int
        BY <1>1, Jan1Int
    <2>2. before \in Nat /\ before2 \in Nat
        BY <1>1, DaysToInt
    <2>3. extra \in Int
        OBVIOUS
    <2> QED BY <2>1, <2>2, <2>3
<1>3. DayNo(t) = jan + before + d - 1 /\ DayNo(u) = jan2 + before2 + e - 1
    BY DEF DayNo
<1>4. before + len <= 365 + extra
    BY <1>1, MonthInYear
<1>5. ASSUME y < z PROVE jan + 365 + extra <= jan2
    BY <1>1, <1>5, YearsAscend
<1>6. ASSUME y = z, m < n PROVE before + len <= before2
    BY <1>1, <1>6, MonthsAscend
<1>7. (y = z => jan = jan2) /\ (y = z /\ m = n => before = before2)
    OBVIOUS
<1> HIDE DEF y, m, d, z, n, e, len, before, before2, jan, jan2, extra
<1>8. ASSUME y < z PROVE DayNo(t) < DayNo(u)
    BY <1>1, <1>2, <1>3, <1>4, <1>5, <1>8
<1>9. ASSUME y = z, m < n PROVE DayNo(t) < DayNo(u)
    BY <1>1, <1>2, <1>3, <1>6, <1>7, <1>9
<1>10. ASSUME y = z, m = n PROVE DayNo(u) - DayNo(t) = e - d
    BY <1>1, <1>2, <1>3, <1>7, <1>10
<1> QED BY <1>8, <1>9, <1>10 DEF y, m, d, z, n, e

\* The scheduler's ordinal is the number of the minute.
LEMMA OrdinalIs ==
    ASSUME NEW t \in Civil
    PROVE OrdinalMinutes(t) = MinuteNo(t)
<1>1. t.year \in Int /\ t.month \in 1 .. 12
    BY DEF Civil, Valid
<1>2. DaysBefore(t.year, t.month) = DaysTo(t.year, t.month)
    BY <1>1, DaysBeforeIs
<1> QED BY <1>2 DEF OrdinalMinutes, MinuteNo, DayNo, Jan1

\* DueReached, the comparison of the parts from the left, compares true minutes.
LEMMA DueIs ==
    ASSUME NEW t \in Civil, NEW u \in Civil
    PROVE  DueReached(t, u) <=> MinuteNo(t) >= MinuteNo(u)
<1>1. Valid(t) /\ Valid(u) /\ t \in Stamps /\ u \in Stamps
    BY DEF Civil
<1> DEFINE a == MinuteKey(t)
           b == MinuteKey(u)
           p == DayNo(t)
           q == DayNo(u)
           a1 == t.year    b1 == u.year
           a2 == t.month   b2 == u.month
           a3 == t.day     b3 == u.day
           a4 == t.hour    b4 == u.hour
           a5 == t.minute  b5 == u.minute
<1>2. p \in Int /\ q \in Int
    BY <1>1, DayNoInt
<1>3. /\ a1 \in Int /\ a2 \in 1 .. 12 /\ a3 \in 1 .. 31 /\ a4 \in 0 .. 23 /\ a5 \in 0 .. 59
      /\ b1 \in Int /\ b2 \in 1 .. 12 /\ b3 \in 1 .. 31 /\ b4 \in 0 .. 23 /\ b5 \in 0 .. 59
    BY <1>1 DEF Stamps
<1>4. a = <<a1, a2, a3, a4, a5>> /\ b = <<b1, b2, b3, b4, b5>>
    BY DEF MinuteKey
<1>5. DueReached(t, u)
         <=> a = b \/ \E i \in 1 .. 5 : a[i] > b[i] /\ \A j \in 1 .. (i - 1) : a[j] = b[j]
    BY DEF DueReached
<1>6. /\ a1 < b1 => p < q
      /\ a1 = b1 /\ a2 < b2 => p < q
      /\ a1 = b1 /\ a2 = b2 => q - p = b3 - a3
    BY <1>1, DatesOrdered
<1>7. /\ b1 < a1 => q < p
      /\ b1 = a1 /\ b2 < a2 => q < p
    BY <1>1, DatesOrdered
<1>8. MinuteNo(t) = p * 1440 + a4 * 60 + a5 /\ MinuteNo(u) = q * 1440 + b4 * 60 + b5
    BY DEF MinuteNo
<1> HIDE DEF a, b, p, q, a1, a2, a3, a4, a5, b1, b2, b3, b4, b5
<1>9. DueReached(t, u) <=>
        \/ a1 > b1
        \/ a1 = b1 /\ a2 > b2
        \/ a1 = b1 /\ a2 = b2 /\ a3 > b3
        \/ a1 = b1 /\ a2 = b2 /\ a3 = b3 /\ a4 > b4
        \/ a1 = b1 /\ a2 = b2 /\ a3 = b3 /\ a4 = b4 /\ a5 >= b5
    <2>1. a = b <=> a1 = b1 /\ a2 = b2 /\ a3 = b3 /\ a4 = b4 /\ a5 = b5
        BY <1>4
    <2>2. /\ a[1] = a1 /\ a[2] = a2 /\ a[3] = a3 /\ a[4] = a4 /\ a[5] = a5
          /\ b[1] = b1 /\ b[2] = b2 /\ b[3] = b3 /\ b[4] = b4 /\ b[5] = b5
        BY <1>4
    <2> DEFINE Later(i) == a[i] > b[i] /\ \A j \in 1 .. (i - 1) : a[j] = b[j]
    <2>3. /\ Later(1) <=> a1 > b1
          /\ Later(2) <=> a1 = b1 /\ a2 > b2
          /\ Later(3) <=> a1 = b1 /\ a2 = b2 /\ a3 > b3
        <3>1. 1 .. (1 - 1) = {} /\ 1 .. (2 - 1) = {1} /\ 1 .. (3 - 1) = {1, 2}
            OBVIOUS
        <3> QED BY <2>2, <3>1
    <2>4. /\ Later(4) <=> a1 = b1 /\ a2 = b2 /\ a3 = b3 /\ a4 > b4
          /\ Later(5) <=> a1 = b1 /\ a2 = b2 /\ a3 = b3 /\ a4 = b4 /\ a5 > b5
        <3>1. 1 .. (4 - 1) = {1, 2, 3} /\ 1 .. (5 - 1) = {1, 2, 3, 4}
            OBVIOUS
        <3> QED BY <2>2, <3>1
    <2>5. DueReached(t, u) <=> a = b \/ Later(1) \/ Later(2) \/ Later(3) \/ Later(4) \/ Later(5)
        <3>1. 1 .. 5 = {1, 2, 3, 4, 5}
            OBVIOUS
        <3> HIDE DEF Later
        <3>2. (\E i \in 1 .. 5 : Later(i))
                 <=> Later(1) \/ Later(2) \/ Later(3) \/ Later(4) \/ Later(5)
            BY <3>1
        <3> QED BY <1>5, <3>2 DEF Later
    <2> HIDE DEF Later
    <2> QED BY <1>3, <2>1, <2>3, <2>4, <2>5
<1>10. CASE a1 = b1 /\ a2 = b2
    <2>1. p = q + (a3 - b3)
        BY <1>2, <1>3, <1>6, <1>10
    <2> QED BY <1>2, <1>3, <1>8, <1>9, <1>10, <2>1
<1>11. CASE ~(a1 = b1 /\ a2 = b2)
    BY <1>2, <1>3, <1>6, <1>7, <1>8, <1>9, <1>11
<1> QED BY <1>10, <1>11

\* Another time of day and weekday do not change the number of the day.
LEMMA Retimed ==
    ASSUME NEW t \in Civil, NEW u \in Stamps, u.year = t.year, u.month = t.month, u.day = t.day
    PROVE  u \in Civil /\ DayNo(u) = DayNo(t)
           /\ MinuteNo(u) = DayNo(t) * 1440 + u.hour * 60 + u.minute
<1>1. Valid(u)
    BY DEF Civil, Valid
<1>2. DayNo(u) = DayNo(t)
    BY DEF DayNo
<1>3. MinuteNo(u) = DayNo(u) * 1440 + u.hour * 60 + u.minute
    BY DEF MinuteNo
<1> QED BY <1>1, <1>2, <1>3 DEF Civil

\* AddMinutes moves by exactly that many minutes, over midnight, month and year.
LEMMA AddMinutesIs ==
    ASSUME NEW t \in Civil, NEW minutes \in 1 .. 60
    PROVE  LET u == AddMinutes(t, minutes)
           IN  u \in Civil /\ u.year \in {t.year, t.year + 1}
               /\ MinuteNo(u) = MinuteNo(t) + minutes
<1> DEFINE total == t.hour * 60 + t.minute + minutes
           s == IF total >= 1440 THEN DayAfter(t) ELSE t
           w == WeekdayFromYmd(s.year, s.month, s.day)
           h == (total % 1440) \div 60
           mi == total % 60
           u == AddMinutes(t, minutes)
           over == IF total >= 1440 THEN 1 ELSE 0
<1>1. t.hour \in 0 .. 23 /\ t.minute \in 0 .. 59 /\ t.year \in Int
    BY DEF Civil, Stamps
<1>2. total \in 1 .. 1499
    <2> DEFINE hh == t.hour
               mm == t.minute
    <2>1. hh \in 0 .. 23 /\ mm \in 0 .. 59 /\ total = hh * 60 + mm + minutes
        BY <1>1
    <2> HIDE DEF hh, mm, total
    <2> QED BY <2>1
<1>3. s \in Civil /\ DayNo(s) = DayNo(t) + over /\ s.year \in {t.year, t.year + 1}
    <2>1. DayNo(t) \in Int
        BY DayNoInt DEF Civil
    <2>2. CASE total >= 1440
        <3>1. s = DayAfter(t) /\ over = 1
            BY <2>2
        <3> QED BY <3>1, DayAfterIs
    <2>3. CASE ~(total >= 1440)
        <3>1. s = t /\ over = 0
            BY <2>3
        <3> QED BY <2>1, <3>1
    <2> QED BY <2>2, <2>3
<1>4. DayNo(s) \in Int /\ DayNo(t) \in Int
    BY <1>3, DayNoInt DEF Civil
<1>5. w \in 0 .. 6
    <2>1. w = DayNo(s) % 7
        BY <1>3, WeekdayIs DEF Civil
    <2> QED BY <1>4, <2>1
<1>6. u = [s EXCEPT !.weekday = w, !.hour = h, !.minute = mi]
    BY DEF AddMinutes
<1>7. h \in 0 .. 23 /\ mi \in 0 .. 59 /\ total = over * 1440 + h * 60 + mi
    <2> HIDE DEF total
    <2> QED BY <1>2
<1>8. MinuteNo(t) + minutes = DayNo(t) * 1440 + total
    <2> DEFINE p == DayNo(t)
               hh == t.hour
               mm == t.minute
    <2>1. MinuteNo(t) = p * 1440 + hh * 60 + mm /\ total = hh * 60 + mm + minutes
        BY DEF MinuteNo
    <2>2. p \in Int /\ hh \in Int /\ mm \in Int
        BY <1>1, <1>4
    <2> HIDE DEF p, hh, mm, total
    <2>3. MinuteNo(t) + minutes = p * 1440 + total
        BY <2>1, <2>2
    <2> QED BY <2>3 DEF p
<1> HIDE DEF s, w, h, mi, u
<1>9. u = [year |-> s.year, month |-> s.month, day |-> s.day, weekday |-> w,
           hour |-> h, minute |-> mi]
    <2>1. s \in Stamps
        BY <1>3 DEF Civil
    <2> QED BY <1>6, <2>1 DEF Stamps
<1>11. u.year = s.year /\ u.month = s.month /\ u.day = s.day /\ u.hour = h /\ u.minute = mi
    BY <1>9
<1>13. u \in Stamps
    <2>1. s.year \in Int /\ s.month \in 1 .. 12 /\ s.day \in 1 .. 31
        BY <1>3 DEF Civil, Stamps
    <2> QED BY <1>5, <1>7, <1>9, <2>1 DEF Stamps
<1>10. u \in Civil /\ MinuteNo(u) = DayNo(s) * 1440 + h * 60 + mi
    BY <1>3, <1>11, <1>13, Retimed
<1>12. MinuteNo(u) = MinuteNo(t) + minutes
    <2> DEFINE p == DayNo(t)
               q == DayNo(s)
    <2>1. p \in Int /\ q = p + over /\ MinuteNo(u) = q * 1440 + h * 60 + mi
          /\ MinuteNo(t) + minutes = p * 1440 + total
        BY <1>3, <1>4, <1>8, <1>10
    <2>2. over \in Int
        OBVIOUS
    <2> HIDE DEF p, q, over, total
    <2> QED BY <1>2, <1>7, <2>1, <2>2
<1> QED BY <1>3, <1>10, <1>11, <1>12 DEF u

\* UtcToLocal moves by exactly the offset and keeps the weekday true.
LEMMA LocalIs ==
    ASSUME NEW t \in Civil, t.weekday = DayNo(t) % 7
    PROVE  LET u == UtcToLocal(t)
           IN  /\ u \in Civil /\ u.year \in {t.year - 1, t.year, t.year + 1}
               /\ u.year = t.year - 1 => u.month = 12
               /\ u.year = t.year + 1 => u.month = 1
               /\ u.weekday = DayNo(u) % 7
               /\ MinuteNo(u) = MinuteNo(t) + 60 * OffsetHours
<1> DEFINE hour == t.hour + OffsetHours
           s == IF hour >= 24 THEN DayAfter(t) ELSE IF hour < 0 THEN DayBefore(t) ELSE t
           shift == IF hour >= 24 THEN 1 ELSE IF hour < 0 THEN -1 ELSE 0
           w == (t.weekday + shift) % 7
           h == hour % 24
           u == UtcToLocal(t)
           p == DayNo(t)
           q == DayNo(s)
           mi == t.minute
           th == t.hour
<1>1. th \in 0 .. 23 /\ mi \in 0 .. 59 /\ t.year \in Int /\ t.weekday \in 0 .. 6
    BY DEF Civil, Stamps
<1>2. hour \in -23 .. 46
    BY <1>1, OffsetAssumption
<1>3. p \in Int
    BY DayNoInt DEF Civil
<1>4. /\ s \in Civil /\ q = p + shift /\ s.year \in {t.year - 1, t.year, t.year + 1}
      /\ s.year = t.year - 1 => s.month = 12
      /\ s.year = t.year + 1 => s.month = 1
      /\ s.weekday = t.weekday /\ s.hour = th /\ s.minute = mi
    <2>1. CASE hour >= 24
        <3>1. s = DayAfter(t) /\ shift = 1
            BY <2>1
        <3>2. q = p + 1
            BY <3>1, DayAfterIs
        <3> HIDE DEF p, q, s, shift, hour
        <3> QED BY <1>1, <3>1, <3>2, DayAfterIs
    <2>2. CASE hour < 0
        <3>1. s = DayBefore(t) /\ shift = -1
            BY <1>2, <2>2
        <3>2. q = p - 1
            BY <3>1, DayBeforeIs
        <3> HIDE DEF p, q, s, shift, hour
        <3> QED BY <1>1, <1>3, <3>1, <3>2, DayBeforeIs
    <2>3. CASE ~(hour >= 24) /\ ~(hour < 0)
        <3>1. s = t /\ shift = 0
            BY <2>3
        <3>2. q = p
            BY <3>1
        <3>3. t.year # t.year - 1 /\ t.year # t.year + 1 /\ p = p + 0
            <4>1. \A x \in Int : x # x - 1 /\ x # x + 1 /\ x = x + 0
                OBVIOUS
            <4> HIDE DEF p
            <4> QED BY <1>1, <1>3, <4>1
        <3> HIDE DEF p, q, s, shift, hour
        <3>4. s = t /\ q = p + shift /\ s.year = t.year /\ s.weekday = t.weekday
            BY <3>1, <3>2, <3>3
        <3>5. s.hour = th /\ s.minute = mi
            BY <3>1
        <3> QED BY <3>3, <3>4, <3>5
    <2> QED BY <2>1, <2>2, <2>3
<1>5. shift \in {-1, 0, 1}
    OBVIOUS
<1>6. u = [s EXCEPT !.hour = h, !.weekday = WeekdayShifted(s.weekday, shift)]
    BY <1>4 DEF UtcToLocal
<1>7. WeekdayShifted(s.weekday, shift) = w
    BY <1>4 DEF WeekdayShifted
<1>8. h \in 0 .. 23 /\ hour = shift * 24 + h
    <2> HIDE DEF hour
    <2> QED BY <1>2
<1>9. w \in 0 .. 6 /\ w = q % 7
    <2>1. w = ((p % 7) + shift) % 7
        BY DEF p
    <2> HIDE DEF p, q, shift, w
    <2> QED BY <1>3, <1>4, <1>5, <2>1
<1> HIDE DEF s, w, h, u, shift, mi, q
<1>10. u = [year |-> s.year, month |-> s.month, day |-> s.day, weekday |-> w,
            hour |-> h, minute |-> mi]
    <2>1. u = [s EXCEPT !.hour = h, !.weekday = w]
        BY <1>6, <1>7
    <2>2. s \in Stamps /\ s.minute = mi
        BY <1>4 DEF Civil
    <2> QED BY <2>1, <2>2 DEF Stamps
<1>12. u.year = s.year /\ u.month = s.month /\ u.day = s.day /\ u.weekday = w /\ u.hour = h
       /\ u.minute = mi
    BY <1>10
<1>14. u \in Stamps
    <2>1. s.year \in Int /\ s.month \in 1 .. 12 /\ s.day \in 1 .. 31
        BY <1>4 DEF Civil, Stamps
    <2>2. mi \in 0 .. 59 /\ h \in 0 .. 23 /\ w \in 0 .. 6
        BY <1>1, <1>8, <1>9
    <2> QED BY <1>10, <2>1, <2>2 DEF Stamps
<1>11. u \in Civil /\ DayNo(u) = q /\ MinuteNo(u) = q * 1440 + h * 60 + mi
    BY <1>4, <1>12, <1>14, Retimed DEF q
<1>13. MinuteNo(u) = MinuteNo(t) + 60 * OffsetHours
    <2>1. MinuteNo(t) = p * 1440 + th * 60 + mi /\ hour = th + OffsetHours
        BY DEF MinuteNo, mi
    <2> HIDE DEF p, hour, th
    <2> QED BY <1>1, <1>3, <1>4, <1>5, <1>8, <1>11, <2>1, OffsetAssumption
<1> QED BY <1>4, <1>9, <1>11, <1>12, <1>13 DEF u

-----------------------------------------------------------------------------
(* The registers and the true time.                                        *)

\* 2024-01-01 was a Monday.
LEMMA EpochInt == Epoch \in Int /\ Epoch % 7 = 0
BY SMT DEF Epoch

\* What the registers r hold at the true minute n: up to 2099 its date, time and weekday.
ClockIs(r, n) ==
    /\ r \in Stamps /\ r.year >= 2001
    /\ n \in Int
    /\ r.year <= 2099 =>
           /\ r \in Civil
           /\ DayNo(r) = Epoch + n \div 1440
           /\ r.weekday = DayNo(r) % 7
           /\ r.hour * 60 + r.minute = n % 1440

ClockInv == ClockIs(rtc, now)

\* The due minute is a date of the calendar with the number of the minute promised.
DueInv ==
    due # None => /\ due \in Civil /\ due.year \in 2023 .. 2101
                  /\ dueAt \in Int
                  /\ MinuteNo(due) = Epoch * 1440 + dueAt

\* The true local minute.
LocalNow == now + 60 * OffsetHours

\* While the registers are true, the local time that the code shows is.
LEMMA LocalFacts ==
    ASSUME ClockInv, Local # None
    PROVE  /\ Local \in Civil /\ Local.year \in 2023 .. 2100
           /\ Local.year = 2023 => Local.month = 12
           /\ Local.year = 2100 => Local.month = 1
           /\ Local.weekday = DayNo(Local) % 7
           /\ MinuteNo(Local) = Epoch * 1440 + LocalNow
<1>1. rtc.year \in 2024 .. 2099 /\ Local = UtcToLocal(rtc)
    BY DEF Local, ReadUtc
<1>2. /\ rtc \in Civil /\ now \in Int
      /\ DayNo(rtc) = Epoch + now \div 1440
      /\ rtc.weekday = DayNo(rtc) % 7
      /\ rtc.hour * 60 + rtc.minute = now % 1440
    BY <1>1 DEF ClockInv, ClockIs
<1>3. /\ Local \in Civil /\ Local.year \in {rtc.year - 1, rtc.year, rtc.year + 1}
      /\ Local.year = rtc.year - 1 => Local.month = 12
      /\ Local.year = rtc.year + 1 => Local.month = 1
      /\ Local.weekday = DayNo(Local) % 7
      /\ MinuteNo(Local) = MinuteNo(rtc) + 60 * OffsetHours
    BY <1>1, <1>2, LocalIs
<1>4. MinuteNo(rtc) = Epoch * 1440 + now
    <2> DEFINE p == DayNo(rtc)
               h == rtc.hour
               mi == rtc.minute
    <2>1. p = Epoch + now \div 1440 /\ h * 60 + mi = now % 1440
        BY <1>2
    <2>4. MinuteNo(rtc) = p * 1440 + h * 60 + mi
        BY DEF MinuteNo
    <2>5. rtc \in Stamps
        BY <1>2 DEF Civil
    <2>2. h \in Int /\ mi \in Int
        BY <2>5 DEF Stamps
    <2>3. now = 1440 * (now \div 1440) + (now % 1440)
        BY <1>2
    <2> HIDE DEF p, h, mi
    <2> QED BY <1>2, <2>1, <2>2, <2>3, <2>4, EpochInt
<1>5. MinuteNo(Local) = Epoch * 1440 + LocalNow
    BY <1>2, <1>3, <1>4, OffsetAssumption, EpochInt DEF LocalNow
<1> DEFINE y == rtc.year
           z == Local.year
<1>6. y \in 2024 .. 2099 /\ z \in {y - 1, y, y + 1}
      /\ (z = y - 1 => Local.month = 12) /\ (z = y + 1 => Local.month = 1)
    BY <1>1, <1>3
<1> HIDE DEF y, z
<1>7. z \in 2023 .. 2100 /\ (z = 2023 => Local.month = 12) /\ (z = 2100 => Local.month = 1)
    BY <1>6
<1> QED BY <1>3, <1>5, <1>7 DEF z

\* The chip and the code agree on the length of a month from 2001 to 2099.
LEMMA ChipMonth ==
    ASSUME NEW t, t.year \in 2001 .. 2099
    PROVE  ChipDays(t) = DaysInMonth(t.year, t.month)
<1>1. \A y \in 2001 .. 2099 : y \in LeapYears <=> y % 4 = 0 /\ (y % 100 # 0 \/ y % 400 = 0)
    BY LeapYearsAssumption
<1> QED BY <1>1 DEF ChipDays, DaysInMonth

\* set_utc and the start of a window leave the registers true.
LEMMA StartsTrue ==
    ASSUME NEW w \in Windows
    PROVE  ClockIs(StartOf(w), w.day * 1440)
<1> DEFINE t == StartOf(w)
<1>1. /\ t.year \in 2001 .. 2099 /\ t.month \in 1 .. 12
      /\ t.day \in 1 .. DaysInMonth(t.year, t.month)
      /\ w.day \in Int
      /\ t.weekday = w.day % 7
      /\ OrdinalMinutes(t) = (Epoch + w.day) * 1440
      /\ t.hour = 0 /\ t.minute = 0
    BY WindowsAssumption DEF StartOf
<1>2. t = [year |-> t.year, month |-> t.month, day |-> t.day, weekday |-> t.weekday,
           hour |-> 0, minute |-> 0]
    BY DEF StartOf
<1> HIDE DEF t
<1>3. DaysInMonth(t.year, t.month) \in 28 .. 31
    BY <1>1, MonthLength
<1>4. t \in Stamps
    <2>1. t.day \in 1 .. 31 /\ t.weekday \in 0 .. 6 /\ t.year \in Int
        BY <1>1, <1>3
    <2> QED BY <1>1, <1>2, <2>1 DEF Stamps
<1>5. t \in Civil
    BY <1>1, <1>4 DEF Civil, Valid
<1>6. DayNo(t) \in Int /\ OrdinalMinutes(t) = DayNo(t) * 1440 + 0 * 60 + 0
    BY <1>1, <1>5, DayNoInt, OrdinalIs DEF MinuteNo, Civil
<1> DEFINE d == w.day
           p == DayNo(t)
           n == d * 1440
<1>7. p = Epoch + d
    <2>1. p * 1440 + 0 * 60 + 0 = (Epoch + d) * 1440 /\ d \in Int /\ p \in Int
        BY <1>1, <1>6
    <2> HIDE DEF d, p
    <2> QED BY <2>1, EpochInt
<1>8. n \in Int /\ p = Epoch + n \div 1440 /\ d % 7 = p % 7 /\ 0 * 60 + 0 = n % 1440
    <2>1. d \in Int /\ n = d * 1440
        BY <1>1
    <2> HIDE DEF d, p, n
    <2> QED BY <1>7, <2>1, EpochInt
<1>9. t.year >= 2001
    BY <1>1
<1>10. t.hour * 60 + t.minute = n % 1440
    BY <1>1, <1>8
<1>11. t.weekday = DayNo(t) % 7 /\ DayNo(t) = Epoch + n \div 1440
    BY <1>1, <1>8
<1> QED BY <1>4, <1>5, <1>8, <1>9, <1>10, <1>11 DEF ClockIs, t

\* The least of a set of natural numbers is one of them.
LEMMA Soonest ==
    ASSUME NEW S, S \subseteq Nat, S # {}
    PROVE  Min(S) \in S
<1>1. PICK i \in S : \A j \in S : ~(<<j, i>> \in OpToRel(<, Nat))
    BY NatLessThanWellFounded, WFMin
<1>2. \A j \in S : ~(j < i)
    BY <1>1 DEF OpToRel
<1>3. \A j \in S : i =< j
    BY <1>2
<1>4. \E k \in S : \A j \in S : k =< j
    BY <1>3
<1> QED BY <1>4 DEF Min

\* A month of the chip has 28 to 31 days.
LEMMA ChipDaysTyped ==
    ASSUME NEW t PROVE ChipDays(t) \in 28 .. 31
BY DEF ChipDays

\* A stamp is the record of its fields.
LEMMA StampFields ==
    ASSUME NEW t \in Stamps
    PROVE  /\ t = [year |-> t.year, month |-> t.month, day |-> t.day, weekday |-> t.weekday,
                   hour |-> t.hour, minute |-> t.minute]
           /\ t.year \in Int /\ t.month \in 1 .. 12 /\ t.day \in 1 .. 31
           /\ t.weekday \in 0 .. 6 /\ t.hour \in 0 .. 23 /\ t.minute \in 0 .. 59
BY DEF Stamps

\* The same time of day on another date.
Redate(t, y, m, d) == [t EXCEPT !.day = d, !.month = m, !.year = y]

\* Another date leaves the weekday and the time of day alone.
LEMMA Redated ==
    ASSUME NEW t \in Stamps, NEW d, NEW m, NEW y
    PROVE  Redate(t, y, m, d)
             = [year |-> y, month |-> m, day |-> d, weekday |-> t.weekday, hour |-> t.hour,
                minute |-> t.minute]
<1> DEFINE u == Redate(t, y, m, d)
<1>1. u = [t EXCEPT !.day = d, !.month = m, !.year = y]
    BY DEF Redate
<1> HIDE DEF u
<1>2. u = [year |-> y, month |-> m, day |-> d, weekday |-> t.weekday, hour |-> t.hour,
           minute |-> t.minute]
    BY <1>1 DEF Stamps
<1> QED BY <1>2 DEF u

\* The day after on the chip is a stamp, of the same year or the next.
LEMMA ChipDayTyped ==
    ASSUME NEW t \in Stamps, t.year >= 2001
    PROVE  /\ ChipDayAfter(t) \in Stamps
           /\ ChipDayAfter(t).year \in {t.year, t.year + 1}
           /\ ChipDayAfter(t).weekday = (t.weekday + 1) % 7
<1> DEFINE w == (t.weekday + 1) % 7
           c == ChipDays(t)
           d == t.day
           y == t.year
           m == t.month
           u == ChipDayAfter(t)
           ny == NextMonth(t).year
           nm == NextMonth(t).month
<1>1. y \in Int /\ m \in 1 .. 12 /\ d \in 1 .. 31 /\ c \in 28 .. 31 /\ w \in 0 .. 6
    BY StampFields, ChipDaysTyped
<1>2. ny \in {y, y + 1} /\ nm \in 1 .. 12
    <2>1. CASE m = 12
        <3>1. NextMonth(t) = [year |-> y + 1, month |-> 1]
            BY <2>1 DEF NextMonth
        <3>2. ny = y + 1 /\ nm = 1
            BY <3>1
        <3> QED BY <3>2
    <2>2. CASE m # 12
        <3>1. NextMonth(t) = [year |-> y, month |-> m + 1]
            BY <2>2 DEF NextMonth
        <3>2. ny = y /\ nm = m + 1
            BY <3>1
        <3>3. m + 1 \in 1 .. 12
            BY <1>1, <2>2
        <3> QED BY <3>2, <3>3
    <2> QED BY <2>1, <2>2
<1>3. ny \in Int
    BY <1>1, <1>2
<1> DEFINE v == [t EXCEPT !.weekday = w]
<1>6. v = [year |-> t.year, month |-> t.month, day |-> d, weekday |-> w, hour |-> t.hour,
           minute |-> t.minute]
    <2> HIDE DEF w
    <2> QED BY DEF Stamps
<1>4. CASE d < c
    <2> DEFINE e == d + 1
    <2>1. e \in 1 .. 31
        BY <1>1, <1>4
    <2>2. u = [v EXCEPT !.day = e]
        <3>1. v.day = d
            BY <1>6
        <3>2. u = [v EXCEPT !.day = @ + 1]
            BY <1>4 DEF ChipDayAfter
        <3> HIDE DEF v, u, d
        <3> QED BY <3>1, <3>2
    <2> HIDE DEF e, u, w, v
    <2>3. u = [year |-> t.year, month |-> t.month, day |-> e, weekday |-> w, hour |-> t.hour,
               minute |-> t.minute]
        BY <1>6, <2>2
    <2>4. u \in Stamps /\ u.year = y /\ u.weekday = w
        BY <1>1, <2>1, <2>3, StampFields DEF Stamps
    <2> QED BY <2>4 DEF u, w
<1>5. CASE ~(d < c)
    <2>2. u = Redate(v, ny, nm, 1)
        BY <1>5 DEF ChipDayAfter, Redate
    <2> HIDE DEF u, w, nm, ny, v, d
    <2>5. v \in Stamps /\ v.weekday = w /\ v.hour = t.hour /\ v.minute = t.minute
        BY <1>1, <1>6, StampFields DEF Stamps
    <2>3. u = [year |-> ny, month |-> nm, day |-> 1, weekday |-> w, hour |-> t.hour,
               minute |-> t.minute]
        <3>2. u = [year |-> ny, month |-> nm, day |-> 1, weekday |-> v.weekday, hour |-> v.hour,
                   minute |-> v.minute]
            BY <2>2, <2>5, Redated
        <3> QED BY <2>5, <3>2
    <2>4. u \in Stamps /\ u.year = ny /\ u.weekday = w
        BY <1>1, <1>2, <1>3, <2>3, StampFields DEF Stamps
    <2> QED BY <1>2, <2>4 DEF u, w
<1> QED BY <1>4, <1>5

\* Up to 2099 the day after on the chip is the day after, with its weekday.
LEMMA ChipDayIs ==
    ASSUME NEW t \in Civil, t.year \in 2001 .. 2099, t.weekday = DayNo(t) % 7
    PROVE  LET u == ChipDayAfter(t)
           IN  /\ u \in Civil
               /\ DayNo(u) = DayNo(t) + 1
               /\ u.weekday = DayNo(u) % 7
<1> DEFINE w == (t.weekday + 1) % 7
           c == DaysInMonth(t.year, t.month)
           u == ChipDayAfter(t)
           a == DayAfter(t)
           ny == NextMonth(t).year
           nm == NextMonth(t).month
           p == DayNo(t)
<1>1. t \in Stamps /\ t.year >= 2001 /\ t.month \in 1 .. 12 /\ t.year \in Int
    BY DEF Civil, Stamps
<1>2. u \in Stamps /\ u.weekday = w
    BY <1>1, ChipDayTyped
<1>3. a \in Civil /\ DayNo(a) = p + 1
    BY DayAfterIs
<1>4. p \in Int
    BY DayNoInt DEF Civil
<1>5. ChipDays(t) = c
    BY ChipMonth
<1>6. u.year = a.year /\ u.month = a.month /\ u.day = a.day
    <2>1. CASE t.day < c
        <3>1. a = [t EXCEPT !.day = @ + 1]
            BY <2>1 DEF DayAfter
        <3>2. u = [[t EXCEPT !.weekday = w] EXCEPT !.day = @ + 1]
            BY <1>5, <2>1 DEF ChipDayAfter
        <3> HIDE DEF a, u, w
        <3> QED BY <1>1, <3>1, <3>2 DEF Stamps
    <2>2. CASE ~(t.day < c) /\ t.month < 12
        <3> DEFINE mm == t.month + 1
        <3>1. a = [t EXCEPT !.day = 1, !.month = mm]
            BY <2>2 DEF DayAfter
        <3>2. NextMonth(t) = [year |-> t.year, month |-> mm]
            BY <1>1, <2>2 DEF NextMonth
        <3>3. u = [[t EXCEPT !.weekday = w] EXCEPT !.day = 1, !.month = mm, !.year = t.year]
            BY <1>5, <2>2, <3>2 DEF ChipDayAfter
        <3> HIDE DEF a, u, w, mm
        <3> QED BY <1>1, <3>1, <3>3 DEF Stamps
    <2>3. CASE ~(t.day < c) /\ t.month = 12
        <3> DEFINE yy == t.year + 1
        <3>1. a = [t EXCEPT !.day = 1, !.month = 1, !.year = yy]
            BY <2>3 DEF DayAfter
        <3>2. NextMonth(t) = [year |-> yy, month |-> 1]
            BY <1>1, <2>3 DEF NextMonth
        <3>3. u = [[t EXCEPT !.weekday = w] EXCEPT !.day = 1, !.month = 1, !.year = yy]
            BY <1>5, <2>3, <3>2 DEF ChipDayAfter
        <3> HIDE DEF a, u, w, yy
        <3> QED BY <1>1, <3>1, <3>3 DEF Stamps
    <2> QED BY <1>1, <2>1, <2>2, <2>3
<1>7. u \in Civil /\ DayNo(u) = p + 1
    <2> HIDE DEF a, u, p
    <2> QED BY <1>2, <1>3, <1>6, Retimed
<1>8. w = (p + 1) % 7
    <2>1. w = ((p % 7) + 1) % 7
        BY DEF p
    <2> HIDE DEF p, w
    <2> QED BY <1>4, <2>1
<1> QED BY <1>2, <1>7, <1>8

\* The minutes of a day.
DayMinutes == 0 .. 1439

\* At changes the time of day only.
LEMMA AtIs ==
    ASSUME NEW t \in Stamps, NEW m \in DayMinutes, NEW u, u = At(t, m)
    PROVE  /\ u \in Stamps
           /\ u.year = t.year /\ u.month = t.month /\ u.day = t.day /\ u.weekday = t.weekday
           /\ u.hour * 60 + u.minute = m
<1> DEFINE h == m \div 60
           mi == m % 60
<1>1. h \in 0 .. 23 /\ mi \in 0 .. 59 /\ h * 60 + mi = m
    BY DEF DayMinutes
<1>2. u = [t EXCEPT !.hour = h, !.minute = mi]
    BY DEF At
<1> HIDE DEF h, mi
<1>3. u = [year |-> t.year, month |-> t.month, day |-> t.day, weekday |-> t.weekday, hour |-> h,
           minute |-> mi]
    BY <1>2 DEF Stamps
<1>4. u \in Stamps
    BY <1>1, <1>3, StampFields DEF Stamps
<1>5. u.year = t.year /\ u.month = t.month /\ u.day = t.day /\ u.weekday = t.weekday
      /\ u.hour = h /\ u.minute = mi
    BY <1>3
<1> QED BY <1>1, <1>4, <1>5

\* The RTC running on stays true.
LEMMA RunsTrue ==
    ASSUME ClockInv, RtcRuns
    PROVE  ClockInv'
<1> DEFINE later == {m \in Moments : m > MinuteOfDay(rtc)}
           next == IF later = {} THEN 0 ELSE Min(later)
           over == IF later = {} THEN 1 ELSE 0
           t == IF later = {} THEN ChipDayAfter(rtc) ELSE rtc
           day == now \div 1440
<1>1. rtc' = At(t, next) /\ now' = day * 1440 + over * 1440 + next
    <2>1. now' = day * 1440 + (IF later = {} THEN 1440 ELSE 0) + next /\ rtc' = At(t, next)
        BY DEF RtcRuns
    <2>2. over * 1440 = IF later = {} THEN 1440 ELSE 0
        OBVIOUS
    <2> QED BY <2>1, <2>2
<1>2. next \in 0 .. 1439
    <2>1. later \subseteq Nat
        <3>1. later \subseteq Moments
            OBVIOUS
        <3> HIDE DEF later
        <3> QED BY <3>1, MomentsAssumption
    <2>3. later \subseteq 0 .. 1439
        <3>1. later \subseteq Moments
            OBVIOUS
        <3> HIDE DEF later
        <3> QED BY <3>1, MomentsAssumption
    <2> HIDE DEF later
    <2>2. ASSUME later # {} PROVE Min(later) \in later
        BY <2>1, <2>2, Soonest, Zenon
    <2>4. CASE later = {}
        BY <2>4
    <2>5. CASE later # {}
        <3>1. next = Min(later) /\ next \in later
            BY <2>2, <2>5
        <3> HIDE DEF next
        <3> QED BY <2>3, <3>1
    <2> QED BY <2>4, <2>5
<1>3. rtc \in Stamps /\ rtc.year >= 2001 /\ now \in Int /\ rtc.year \in Int
    BY DEF ClockInv, ClockIs, Stamps
<1>4. day \in Int /\ over \in 0 .. 1
    BY <1>3
<1>5. now' \in Int /\ now' \div 1440 = day + over /\ now' % 1440 = next
    <2> HIDE DEF day, over, next
    <2> QED BY <1>1, <1>2, <1>4
<1>6. t \in Stamps /\ t.year \in {rtc.year, rtc.year + 1} /\ t.year \in Int
    BY <1>3, ChipDayTyped DEF Stamps
<1>7. ASSUME rtc.year <= 2099
      PROVE  t \in Civil /\ DayNo(t) = Epoch + (day + over) /\ t.weekday = DayNo(t) % 7
    <2>1. rtc \in Civil /\ DayNo(rtc) = Epoch + day /\ rtc.weekday = DayNo(rtc) % 7
        BY <1>7 DEF ClockInv, ClockIs
    <2>2. rtc.year \in 2001 .. 2099
        BY <1>3, <1>7
    <2>3. CASE later = {}
        <3>1. t = ChipDayAfter(rtc) /\ over = 1
            BY <2>3
        <3>2. t \in Civil /\ DayNo(t) = DayNo(rtc) + 1 /\ t.weekday = DayNo(t) % 7
            BY <2>1, <2>2, <3>1, ChipDayIs
        <3> HIDE DEF t, day, over
        <3> QED BY <1>4, <2>1, <3>1, <3>2, EpochInt
    <2>4. CASE later # {}
        <3>1. t = rtc /\ over = 0
            BY <2>4
        <3> HIDE DEF t, day, over
        <3> QED BY <1>4, <2>1, <3>1, EpochInt
    <2> QED BY <2>3, <2>4
<1>8. rtc' \in Stamps /\ rtc'.year = t.year /\ rtc'.month = t.month /\ rtc'.day = t.day
      /\ rtc'.weekday = t.weekday /\ rtc'.hour * 60 + rtc'.minute = next
    <2> DEFINE r == rtc'
    <2>1. r = At(t, next) /\ t \in Stamps
        BY <1>1, <1>6
    <2>3. next \in DayMinutes
        BY <1>2 DEF DayMinutes
    <2> HIDE DEF t, next, r
    <2>2. /\ r \in Stamps
          /\ r.year = t.year /\ r.month = t.month /\ r.day = t.day /\ r.weekday = t.weekday
          /\ r.hour * 60 + r.minute = next
        BY <2>1, <2>3, AtIs
    <2> QED BY <2>2 DEF r
<1> HIDE DEF t, next, over, day, later
<1>9. rtc'.year >= 2001 /\ (rtc'.year <= 2099 => rtc.year <= 2099)
    <2>1. \A a, b \in Int :
              b = a \/ b = a + 1 => (a >= 2001 => b >= 2001) /\ (b <= 2099 => a <= 2099)
        OBVIOUS
    <2> QED BY <1>3, <1>6, <1>8, <2>1
<1>10. ASSUME rtc'.year <= 2099
       PROVE  rtc' \in Civil /\ DayNo(rtc') = DayNo(t)
    BY <1>7, <1>8, <1>9, <1>10, Retimed
<1> QED BY <1>5, <1>7, <1>8, <1>9, <1>10 DEF ClockInv, ClockIs

\* Postpone leaves a due minute with the number of the minute promised.
LEMMA PostponeDue ==
    ASSUME ClockInv, DueInv, Postpone
    PROVE  DueInv'
<1>1. PICK m \in Delays : due' = AddMinutes(Local, m) /\ dueAt' = now + 60 * OffsetHours + m
    BY DEF Postpone
<1>2. Local # None
    BY DEF Postpone
<1>3. Local \in Civil /\ Local.year \in 2023 .. 2100
      /\ MinuteNo(Local) = Epoch * 1440 + LocalNow
    BY <1>2, LocalFacts
<1>4. m \in 1 .. 60
    BY DelaysAssumption
<1>5. due' \in Civil /\ due'.year \in {Local.year, Local.year + 1}
      /\ MinuteNo(due') = MinuteNo(Local) + m
    <2> DEFINE u == AddMinutes(Local, m)
    <2>1. u \in Civil /\ u.year \in {Local.year, Local.year + 1}
          /\ MinuteNo(u) = MinuteNo(Local) + m
        <3>1. Local \in Civil
            BY <1>3
        <3> QED BY <1>4, <3>1, AddMinutesIs, Zenon
    <2> HIDE DEF u
    <2>2. due' = u
        BY <1>1 DEF u
    <2> QED BY <2>1, <2>2
<1>6. LocalNow \in Int /\ dueAt' = LocalNow + m /\ dueAt' \in Int
    BY <1>1, <1>4, OffsetAssumption DEF LocalNow, ClockInv, ClockIs
<1>7. MinuteNo(due') = Epoch * 1440 + dueAt'
    <2> HIDE DEF LocalNow
    <2> QED BY <1>3, <1>4, <1>5, <1>6, EpochInt
<1>8. due'.year \in 2023 .. 2101
    <2>1. \A a \in 2023 .. 2100 : a \in 2023 .. 2101 /\ a + 1 \in 2023 .. 2101
        OBVIOUS
    <2> QED BY <1>3, <1>5, <2>1
<1> QED BY <1>5, <1>6, <1>7, <1>8 DEF DueInv

\* The inductive invariant.
CivilInv == ClockInv /\ DueInv

\* The invariant holds at the start.
LEMMA CivilInvInit == Init => CivilInv
<1> SUFFICES ASSUME Init PROVE CivilInv
    OBVIOUS
<1>1. ClockInv
    BY StartsTrue DEF Init, ClockInv
<1> QED BY <1>1 DEF CivilInv, DueInv, Init

\* Every step keeps the invariant.
LEMMA CivilInvNext == CivilInv /\ [Next]_vars => CivilInv'
<1> SUFFICES ASSUME CivilInv, [Next]_vars PROVE CivilInv'
    OBVIOUS
<1> USE DEF CivilInv
<1>1. CASE RtcRuns
    <2>1. ClockInv'
        BY <1>1, RunsTrue
    <2>2. DueInv'
        BY <1>1 DEF RtcRuns, DueInv
    <2> QED BY <2>1, <2>2
<1>2. CASE SetUtc
    <2>1. ClockInv'
        BY <1>2, StartsTrue DEF SetUtc, ClockInv
    <2>2. DueInv'
        BY <1>2 DEF SetUtc, DueInv
    <2> QED BY <2>1, <2>2
<1>3. CASE Postpone
    <2>1. ClockInv'
        BY <1>3 DEF Postpone, ClockInv
    <2> QED BY <1>3, <2>1, PostponeDue
<1>4. CASE RaisePostponed
    BY <1>4 DEF RaisePostponed, ClockInv, DueInv
<1>5. CASE UNCHANGED vars
    BY <1>5 DEF vars, ClockInv, DueInv
<1> QED BY <1>1, <1>2, <1>3, <1>4, <1>5 DEF Next

\* The registers of the RTC are the true time up to the end of 2099, and a due minute has
\* the number of the minute it was promised for: the inductive invariant behind the three
\* theorems below.
THEOREM CivilInvAlways == Spec => []CivilInv
<1> QED BY CivilInvInit, CivilInvNext, PTL DEF Spec

\* The day and the minute of the day of the local time are the true ones.
LEMMA LocalDay ==
    ASSUME ClockInv, Local # None
    PROVE  /\ DayNo(Local) = Epoch + LocalNow \div 1440 /\ LocalNow \in Int
           /\ Local.hour * 60 + Local.minute = LocalNow % 1440
<1>1. Local \in Stamps /\ DayNo(Local) \in Int /\ MinuteNo(Local) = Epoch * 1440 + LocalNow
    BY LocalFacts, DayNoInt DEF Civil
<1>2. LocalNow \in Int
    BY OffsetAssumption DEF LocalNow, ClockInv, ClockIs
<1> DEFINE p == DayNo(Local)
           h == Local.hour
           mi == Local.minute
<1>3. h \in 0 .. 23 /\ mi \in 0 .. 59
    BY <1>1, StampFields
<1>4. p * 1440 + h * 60 + mi = Epoch * 1440 + LocalNow /\ p \in Int
    BY <1>1 DEF MinuteNo
<1> HIDE DEF p, h, mi, LocalNow
<1>5. h * 60 + mi = LocalNow % 1440 /\ p = Epoch + LocalNow \div 1440
    BY <1>2, <1>3, <1>4, EpochInt, SMT
<1> QED BY <1>2, <1>5 DEF p, h, mi

\* The two counts of days are 693595 apart.
LEMMA EpochJulian == \A d \in Int : Epoch + d - 693595 = 45290 + d
BY SMT DEF Epoch

\* The invariant implies LocalIsCivil.
LEMMA CivilShown == ClockInv => LocalIsCivil
<1> SUFFICES ASSUME ClockInv, Local # None
             PROVE  LET true == now + 60 * OffsetHours
                        day  == true \div 1440
                    IN  /\ Local.hour * 60 + Local.minute = true % 1440
                        /\ Local.weekday = day % 7
                        /\ WeekdayFromYmd(Local.year, Local.month, Local.day) = day % 7
                        /\ JdFromDate(Local) = 45290 + day
                        /\ OrdinalMinutes(Local) = Epoch * 1440 + true
    BY DEF LocalIsCivil
<1> DEFINE day == LocalNow \div 1440
<1>1. DayNo(Local) = Epoch + day /\ LocalNow \in Int
      /\ Local.hour * 60 + Local.minute = LocalNow % 1440
    BY LocalDay
<1>2. Local \in Civil /\ Valid(Local) /\ Local.weekday = DayNo(Local) % 7
      /\ MinuteNo(Local) = Epoch * 1440 + LocalNow
    BY LocalFacts DEF Civil
<1>3. day \in Int
    BY <1>1
<1>4. (Epoch + day) % 7 = day % 7
    <2> HIDE DEF day
    <2> QED BY <1>3, EpochInt
<1>5. WeekdayFromYmd(Local.year, Local.month, Local.day) = DayNo(Local) % 7
    BY <1>2, WeekdayIs
<1>6. JdFromDate(Local) = 45290 + day
    <2>1. JdFromDate(Local) = DayNo(Local) - 693595
        BY <1>2, JulianIs, SMT
    <2>2. DayNo(Local) = Epoch + day
        BY <1>1
    <2> HIDE DEF day
    <2> QED BY <1>3, <2>1, <2>2, EpochJulian, SMT
<1>7. OrdinalMinutes(Local) = Epoch * 1440 + LocalNow
    BY <1>2, OrdinalIs
<1>8. Local.weekday = day % 7 /\ WeekdayFromYmd(Local.year, Local.month, Local.day) = day % 7
    BY <1>1, <1>2, <1>4, <1>5
<1> QED BY <1>1, <1>6, <1>7, <1>8, SMT DEF LocalNow

\* The invariant implies DueOnTime.
LEMMA DueShown == CivilInv => DueOnTime
<1> SUFFICES ASSUME ClockInv, DueInv, Local # None, due # None
             PROVE  LET true == now + 60 * OffsetHours
                    IN  /\ due \in DateTimes
                        /\ DueReached(Local, due) <=> true >= dueAt
                        /\ RemainingMinutes(Local, due) = Max({0, dueAt - true})
    BY DEF DueOnTime, CivilInv, Waiting
<1>1. Local \in Civil /\ MinuteNo(Local) = Epoch * 1440 + LocalNow /\ LocalNow \in Int
    BY LocalFacts, LocalDay
<1>2. due \in Civil /\ due.year \in 2023 .. 2101 /\ dueAt \in Int
      /\ MinuteNo(due) = Epoch * 1440 + dueAt
    BY DEF DueInv
<1>3. due \in DateTimes
    <2>1. due \in Stamps /\ due.year \in 2020 .. 2101
        <3>1. \A y \in 2023 .. 2101 : y \in 2020 .. 2101
            BY SMT
        <3> QED BY <1>2, <3>1 DEF Civil
    <2> QED BY <2>1, StampFields DEF DateTimes
<1>4. DueReached(Local, due) <=> LocalNow >= dueAt
    <2>1. DueReached(Local, due) <=> MinuteNo(Local) >= MinuteNo(due)
        BY <1>1, <1>2, DueIs
    <2> HIDE DEF LocalNow
    <2> QED BY <1>1, <1>2, <2>1, EpochInt, SMT
<1>5. RemainingMinutes(Local, due) = Max({0, dueAt - LocalNow})
    <2>1. RemainingMinutes(Local, due) = Max({0, MinuteNo(due) - MinuteNo(Local)})
        BY <1>1, <1>2, OrdinalIs DEF RemainingMinutes
    <2>2. MinuteNo(due) - MinuteNo(Local) = dueAt - LocalNow
        <3> HIDE DEF LocalNow
        <3> QED BY <1>1, <1>2, EpochInt, SMT
    <2> QED BY <2>1, <2>2
<1> QED BY <1>3, <1>4, <1>5 DEF LocalNow

\* The local time shown is the true time OffsetHours away, on the true weekday, and the three
\* ways the code numbers a day agree (UtcToLocal, weekday_from_ymd, _jd_from_date and the
\* ordinal of remaining_minutes), for every offset of less than a day and every window.
THEOREM LocalIsCivilAlways == Spec => []LocalIsCivil
<1> QED BY CivilInvAlways, CivilShown, PTL DEF CivilInv

\* A postponed alert is due from exactly the minute it was promised for, and the minutes the
\* overlay counts down are the true ones (add_minutes, due_reached, remaining_minutes), for every
\* set of delays up to an hour.
THEOREM DueOnTimeAlways == Spec => []DueOnTime
<1> QED BY CivilInvAlways, DueShown, PTL

-----------------------------------------------------------------------------
(* The month grid.                                                         *)

\* A date of a month, as a stamp.
OnDay(y, m, d) == [year |-> y, month |-> m, day |-> d, weekday |-> 0, hour |-> 0, minute |-> 0]

\* A day of a month is a civil stamp, and its number is known.
LEMMA OnDayIs ==
    ASSUME NEW y \in Int, NEW m \in 1 .. 12, NEW d \in 1 .. DaysInMonth(y, m)
    PROVE  /\ OnDay(y, m, d) \in Civil
           /\ DayNo(OnDay(y, m, d)) = Jan1(y) + DaysTo(y, m) + d - 1
<1> DEFINE t == OnDay(y, m, d)
<1>1. t.year = y /\ t.month = m /\ t.day = d
    BY DEF OnDay
<1>2. DaysInMonth(y, m) \in 28 .. 31
    BY MonthLength
<1>3. d \in 1 .. 31
    BY <1>2
<1>4. t \in Stamps
    BY <1>3 DEF Stamps, OnDay
<1>5. t \in Civil
    BY <1>1, <1>4 DEF Civil, Valid
<1> HIDE DEF t
<1>6. DayNo(t) = Jan1(y) + DaysTo(y, m) + d - 1
    BY <1>1 DEF DayNo
<1> QED BY <1>5, <1>6 DEF t

\* The number of the first day of a month.
MonthFirst(y, m) == Jan1(y) + DaysTo(y, m)

\* The number of the first of a month is an integer.
LEMMA MonthFirstInt ==
    ASSUME NEW y \in Int, NEW m \in 1 .. 12 PROVE MonthFirst(y, m) \in Int
<1>1. Jan1(y) \in Int
    BY Jan1Int
<1>2. DaysTo(y, m) \in Nat
    BY DaysToInt
<1> QED BY <1>1, <1>2 DEF MonthFirst

\* The next month is another one and begins after the last day of this one.
LEMMA NextMonthIs ==
    ASSUME NEW t, t.year \in Int, t.month \in 1 .. 12
    PROVE  LET n == NextMonth(t)
           IN  /\ n.year \in Int /\ n.month \in 1 .. 12
               /\ <<n.year, n.month>> # <<t.year, t.month>>
               /\ MonthFirst(n.year, n.month) = MonthFirst(t.year, t.month) + DaysInMonth(t.year, t.month)
<1> DEFINE y == t.year
           m == t.month
           n == NextMonth(t)
           ny == n.year
           nm == n.month
<1>1. y \in Int /\ m \in 1 .. 12
    OBVIOUS
<1>2. Jan1(y) \in Int /\ DaysTo(y, m) \in Nat /\ DaysInMonth(y, m) \in 28 .. 31
    BY Jan1Int, DaysToInt, MonthLength
<1>3. CASE m = 12
    <2>1. ny = y + 1 /\ nm = 1
        BY <1>3 DEF NextMonth
    <2> HIDE DEF y, m, ny, nm
    <2>2. DaysTo(y + 1, 1) = 0
          /\ DaysTo(y, 12) + DaysInMonth(y, 12) = 365 + (IF Leap(y) THEN 1 ELSE 0)
        <3>1. y + 1 \in Int
            BY <1>1
        <3> QED BY <1>1, <3>1, MonthDays
    <2>3. Jan1(y + 1) = Jan1(y) + 365 + (IF Leap(y) THEN 1 ELSE 0)
        BY <1>1, YearStep
    <2>4. MonthFirst(ny, nm) = MonthFirst(y, m) + DaysInMonth(y, m)
        BY <1>1, <1>2, <1>3, <2>1, <2>2, <2>3 DEF MonthFirst
    <2>5. ny \in Int /\ nm \in 1 .. 12 /\ nm # m
        BY <1>1, <1>3, <2>1
    <2> QED BY <2>4, <2>5 DEF y, m, ny, nm
<1>4. CASE m < 12
    <2>1. ny = y /\ nm = m + 1
        BY <1>4 DEF NextMonth
    <2> HIDE DEF y, m, ny, nm
    <2>2. nm \in 2 .. 12 /\ nm - 1 = m
        BY <1>1, <1>4, <2>1
    <2>3. DaysTo(y, nm) = DaysTo(y, m) + DaysInMonth(y, m)
        BY <1>1, <2>2, MonthDays
    <2>4. MonthFirst(ny, nm) = MonthFirst(y, m) + DaysInMonth(y, m)
        BY <1>2, <2>1, <2>3 DEF MonthFirst
    <2>5. ny \in Int /\ nm \in 1 .. 12 /\ nm # m
        BY <1>1, <2>1, <2>2
    <2> QED BY <2>4, <2>5 DEF y, m, ny, nm
<1> QED BY <1>1, <1>3, <1>4

\* The month before is another one and ends before the first day of this one.
LEMMA PrevMonthIs ==
    ASSUME NEW t, t.year \in Int, t.month \in 1 .. 12
    PROVE  LET p == PrevMonth(t)
           IN  /\ p.year \in Int /\ p.month \in 1 .. 12
               /\ <<p.year, p.month>> # <<t.year, t.month>>
               /\ MonthFirst(t.year, t.month) = MonthFirst(p.year, p.month) + DaysInMonth(p.year, p.month)
<1> DEFINE p == PrevMonth(t)
           y == t.year
           m == t.month
           py == p.year
           pm == p.month
           n == NextMonth(p)
<1>1. y \in Int /\ m \in 1 .. 12
    OBVIOUS
<1>2. py \in Int /\ pm \in 1 .. 12 /\ pm # m /\ n.year = y /\ n.month = m
    <2>1. CASE m = 1
        <3>1. p = [year |-> y - 1, month |-> 12]
            BY <2>1 DEF PrevMonth
        <3>2. n = [year |-> (y - 1) + 1, month |-> 1]
            BY <3>1 DEF NextMonth
        <3>3. (y - 1) + 1 = y /\ y - 1 \in Int
            BY <1>1
        <3> QED BY <2>1, <3>1, <3>2, <3>3
    <2>2. CASE m # 1
        <3>1. p = [year |-> y, month |-> m - 1]
            BY <2>2 DEF PrevMonth
        <3>3. (m - 1) + 1 = m /\ m - 1 \in 1 .. 12 /\ m - 1 # 12
            BY <1>1, <2>2
        <3>2. n = [year |-> y, month |-> (m - 1) + 1]
            BY <3>1, <3>3 DEF NextMonth
        <3> QED BY <1>1, <2>2, <3>1, <3>2, <3>3
    <2> QED BY <2>1, <2>2
<1> HIDE DEF p
<1>3. MonthFirst(n.year, n.month) = MonthFirst(p.year, p.month) + DaysInMonth(p.year, p.month)
    BY <1>2, NextMonthIs
<1> QED BY <1>2, <1>3 DEF p

\* Two dates with one number are the same date.
LEMMA SameDay ==
    ASSUME NEW t, NEW u, Valid(t), Valid(u)
    PROVE  DayNo(t) = DayNo(u) <=> <<t.year, t.month, t.day>> = <<u.year, u.month, u.day>>
<1> DEFINE a == t.year   b == t.month   c == t.day
           x == u.year   y == u.month   z == u.day
           p == DayNo(t) q == DayNo(u)
<1>1. /\ a < x => p < q
      /\ a = x /\ b < y => p < q
      /\ a = x /\ b = y => q - p = z - c
    BY DatesOrdered
<1>2. /\ x < a => q < p
      /\ x = a /\ y < b => q < p
    BY DatesOrdered
<1>3. p \in Int /\ q \in Int
    BY DayNoInt
<1>4. a \in Int /\ b \in 1 .. 12 /\ x \in Int /\ y \in 1 .. 12
    BY DEF Valid
<1>5. c \in Int /\ z \in Int
    <2>1. c \in 1 .. DaysInMonth(a, b) /\ z \in 1 .. DaysInMonth(x, y)
        BY DEF Valid
    <2>2. DaysInMonth(a, b) \in 28 .. 31 /\ DaysInMonth(x, y) \in 28 .. 31
        BY <1>4, MonthLength
    <2> HIDE DEF a, b, c, x, y, z
    <2> QED BY <2>1, <2>2
<1> HIDE DEF a, b, c, x, y, z, p, q
<1>6. p = q <=> a = x /\ b = y /\ c = z
    BY <1>1, <1>2, <1>3, <1>4, <1>5
<1> QED BY <1>6 DEF a, b, c, x, y, z, p, q

\* A is a list of n elements of S.
Part(A, n, S) == A \in [1 .. n -> S]

\* A sequence put together from three.
LEMMA ThreeParts ==
    ASSUME NEW a, NEW b, NEW c, a \in Nat, b \in Nat, c \in Nat, NEW S,
           NEW A, NEW B, NEW C, Part(A, a, S), Part(B, b, S), Part(C, c, S)
    PROVE  /\ Len(A \o B \o C) = a + b + c
           /\ \A i \in 1 .. a + b + c :
                  (A \o B \o C)[i] = IF i <= a THEN A[i]
                                     ELSE IF i <= a + b THEN B[i - a] ELSE C[i - (a + b)]
<1>1. A \in Seq(S) /\ B \in Seq(S) /\ C \in Seq(S)
    BY SeqDef DEF Part
<1>2. Len(A) = a /\ Len(B) = b /\ Len(C) = c
    BY <1>1, LenProperties DEF Part
<1> DEFINE D == A \o B
<1>3. /\ D \in Seq(S) /\ Len(D) = a + b
      /\ \A i \in 1 .. a + b : D[i] = IF i <= a THEN A[i] ELSE B[i - a]
    BY <1>1, <1>2, ConcatProperties
<1> HIDE DEF D
<1>4. /\ Len(D \o C) = (a + b) + c
      /\ \A i \in 1 .. (a + b) + c : (D \o C)[i] = IF i <= a + b THEN D[i] ELSE C[i - (a + b)]
    <2>1. /\ Len(D \o C) = Len(D) + Len(C)
          /\ \A i \in 1 .. Len(D) + Len(C) :
                 (D \o C)[i] = IF i <= Len(D) THEN D[i] ELSE C[i - Len(D)]
        BY <1>1, <1>3, ConcatProperties
    <2>2. Len(D) = a + b /\ Len(C) = c
        BY <1>2, <1>3
    <2> QED BY <2>1, <2>2
<1>5. \A i \in 1 .. (a + b) + c : i <= a + b => i \in 1 .. a + b
    OBVIOUS
<1>6. \A i \in 1 .. (a + b) + c : i <= a => i <= a + b
    OBVIOUS
<1>7. \A i \in 1 .. a + b + c :
          (D \o C)[i] = IF i <= a THEN A[i] ELSE IF i <= a + b THEN B[i - a] ELSE C[i - (a + b)]
    BY <1>3, <1>4, <1>5, <1>6
<1> QED BY <1>4, <1>7 DEF D

\* The cells of a day inside and outside the month of t.
InsideCell(mm, d, t) ==
    [year |-> mm.year, month |-> mm.month, day |-> d, in_month |-> TRUE,
     is_today |-> <<mm.year, mm.month, d>> = <<t.year, t.month, t.day>>]

OutsideCell(mm, d, t) ==
    [year |-> mm.year, month |-> mm.month, day |-> d, in_month |-> FALSE,
     is_today |-> <<mm.year, mm.month, d>> = <<t.year, t.month, t.day>>]

\* A cell of the month shown.
LEMMA InsideCellIs ==
    ASSUME NEW mm, mm.year \in Int, mm.month \in 1 .. 12,
           NEW d, d \in 1 .. DaysInMonth(mm.year, mm.month), NEW t,
           NEW cell, cell = InsideCell(mm, d, t)
    PROVE  /\ Valid(cell) /\ cell.year = mm.year /\ cell.month = mm.month
           /\ DayNo(cell) = MonthFirst(mm.year, mm.month) + d - 1
           /\ cell.in_month
           /\ cell.is_today <=> <<cell.year, cell.month, cell.day>> = <<t.year, t.month, t.day>>
<1>1. /\ cell.year = mm.year /\ cell.month = mm.month /\ cell.day = d /\ cell.in_month
      /\ cell.is_today = (<<mm.year, mm.month, d>> = <<t.year, t.month, t.day>>)
    BY DEF InsideCell
<1>2. Valid(cell)
    BY <1>1 DEF Valid
<1>3. DayNo(cell) = MonthFirst(mm.year, mm.month) + d - 1
    BY <1>1 DEF DayNo, MonthFirst
<1> QED BY <1>1, <1>2, <1>3

\* A cell of another month.
LEMMA OutsideCellIs ==
    ASSUME NEW mm, mm.year \in Int, mm.month \in 1 .. 12,
           NEW d, d \in 1 .. DaysInMonth(mm.year, mm.month), NEW t,
           NEW cell, cell = OutsideCell(mm, d, t)
    PROVE  /\ Valid(cell) /\ cell.year = mm.year /\ cell.month = mm.month
           /\ DayNo(cell) = MonthFirst(mm.year, mm.month) + d - 1
           /\ ~cell.in_month
           /\ cell.is_today <=> <<cell.year, cell.month, cell.day>> = <<t.year, t.month, t.day>>
<1>1. /\ cell.year = mm.year /\ cell.month = mm.month /\ cell.day = d /\ ~cell.in_month
      /\ cell.is_today = (<<mm.year, mm.month, d>> = <<t.year, t.month, t.day>>)
    BY DEF OutsideCell
<1>2. Valid(cell)
    BY <1>1 DEF Valid
<1>3. DayNo(cell) = MonthFirst(mm.year, mm.month) + d - 1
    BY <1>1 DEF DayNo, MonthFirst
<1> QED BY <1>1, <1>2, <1>3

\* The three parts of the grid of the month of t.
PrevCells(t, lead) ==
    LET p == PrevMonth(t)
    IN  [i \in 1 .. lead |-> OutsideCell(p, DaysInMonth(p.year, p.month) - lead + i, t)]

MonthCells(t, dim) == [d \in 1 .. dim |-> InsideCell(t, d, t)]

NextCells(t, trail) == [d \in 1 .. trail |-> OutsideCell(NextMonth(t), d, t)]

\* The weekday of the first of a month.
LEMMA FirstWeekday ==
    ASSUME NEW y \in Int, NEW m \in 1 .. 12
    PROVE  WeekdayFromYmd(y, m, 1) = MonthFirst(y, m) % 7
<1>1. DaysInMonth(y, m) \in 28 .. 31
    BY MonthLength
<1>2. 1 \in 1 .. DaysInMonth(y, m)
    BY <1>1
<1> DEFINE t == OnDay(y, m, 1)
<1>3. t.year = y /\ t.month = m /\ t.day = 1
    BY DEF OnDay
<1>4. t \in Civil /\ DayNo(t) = MonthFirst(y, m) + 1 - 1
    BY <1>2, OnDayIs DEF MonthFirst
<1> HIDE DEF t
<1>5. WeekdayFromYmd(y, m, 1) = DayNo(t) % 7
    BY <1>3, <1>4, WeekdayIs DEF Civil
<1>6. MonthFirst(y, m) \in Int
    BY MonthFirstInt
<1> QED BY <1>4, <1>5, <1>6

\* The grid is the end of the month before, the month, and the start of the next.
LEMMA GridParts ==
    ASSUME NEW t \in Civil
    PROVE  LET lead == MonthFirst(t.year, t.month) % 7
               dim == DaysInMonth(t.year, t.month)
           IN  BuildMonthGrid(t, t)
                 = PrevCells(t, lead) \o MonthCells(t, dim) \o NextCells(t, Trail(lead + dim))
<1>1. t.year \in Int /\ t.month \in 1 .. 12
    BY DEF Civil, Stamps
<1>2. WeekdayFromYmd(t.year, t.month, 1) = MonthFirst(t.year, t.month) % 7
    BY <1>1, FirstWeekday
<1> QED BY <1>2 DEF BuildMonthGrid, PrevCells, MonthCells, NextCells, InsideCell, OutsideCell

\* The trail fills up the last week and is shorter than a week.
LEMMA TrailIs ==
    ASSUME NEW n \in Nat PROVE Trail(n) \in 0 .. 6 /\ (n + Trail(n)) % 7 = 0
BY DEF Trail

\* The i-th cell of the grid is the i-th day from the Monday on or before the first.
LEMMA GridCells ==
    ASSUME NEW t \in Civil, NEW first, first = MonthFirst(t.year, t.month),
           NEW lead, lead = first % 7, NEW dim, dim = DaysInMonth(t.year, t.month),
           NEW trail, trail = Trail(lead + dim), NEW grid, grid = BuildMonthGrid(t, t)
    PROVE  /\ first \in Int /\ lead \in 0 .. 6 /\ dim \in 28 .. 31 /\ trail \in 0 .. 6
           /\ (lead + dim + trail) % 7 = 0
           /\ Len(grid) = lead + dim + trail
           /\ \A i \in 1 .. lead + dim + trail :
                  /\ Valid(grid[i]) /\ DayNo(grid[i]) = first - lead + i - 1
                  /\ grid[i].in_month <=> lead < i /\ i <= lead + dim
                  /\ grid[i].in_month
                        <=> <<grid[i].year, grid[i].month>> = <<t.year, t.month>>
                  /\ grid[i].is_today
                        <=> <<grid[i].year, grid[i].month, grid[i].day>> = <<t.year, t.month, t.day>>
<1>1. t.year \in Int /\ t.month \in 1 .. 12
    BY DEF Civil, Stamps
<1>2. first \in Int /\ dim \in 28 .. 31
    BY <1>1, MonthFirstInt, MonthLength
<1>3. lead \in 0 .. 6
    BY <1>2
<1>4. trail \in 0 .. 6 /\ (lead + dim + trail) % 7 = 0
    <2>1. lead + dim \in Nat
        BY <1>2, <1>3
    <2> QED BY <2>1, TrailIs
<1> DEFINE A == PrevCells(t, lead)
           B == MonthCells(t, dim)
           C == NextCells(t, trail)
           p == PrevMonth(t)
           next == NextMonth(t)
           last == DaysInMonth(p.year, p.month)
           S == {A[i] : i \in 1 .. lead} \cup {B[i] : i \in 1 .. dim} \cup {C[i] : i \in 1 .. trail}
           Cell(cell, i, inside) ==
               /\ Valid(cell) /\ DayNo(cell) = first - lead + i - 1
               /\ cell.in_month <=> inside
               /\ inside <=> <<cell.year, cell.month>> = <<t.year, t.month>>
               /\ cell.is_today
                     <=> <<cell.year, cell.month, cell.day>> = <<t.year, t.month, t.day>>
<1>5. Part(A, lead, S) /\ Part(B, dim, S) /\ Part(C, trail, S)
    BY DEF Part, PrevCells, MonthCells, NextCells
<1>6. grid = A \o B \o C
    BY GridParts
<1>7. /\ Len(grid) = lead + dim + trail
      /\ \A i \in 1 .. lead + dim + trail :
             grid[i] = IF i <= lead THEN A[i]
                       ELSE IF i <= lead + dim THEN B[i - lead] ELSE C[i - (lead + dim)]
    <2> HIDE DEF A, B, C, S
    <2>1. lead \in Nat /\ dim \in Nat /\ trail \in Nat
        <3>1. (\A x \in 0 .. 6 : x \in Nat) /\ (\A x \in 28 .. 31 : x \in Nat)
            OBVIOUS
        <3> QED BY <1>2, <1>3, <1>4, <3>1
    <2>2. /\ Len(A \o B \o C) = lead + dim + trail
          /\ \A i \in 1 .. lead + dim + trail :
                 (A \o B \o C)[i] = IF i <= lead THEN A[i]
                                    ELSE IF i <= lead + dim THEN B[i - lead] ELSE C[i - (lead + dim)]
        BY <1>5, <2>1, ThreeParts
    <2> QED BY <1>6, <2>2
<1>8. /\ p.year \in Int /\ p.month \in 1 .. 12
      /\ <<p.year, p.month>> # <<t.year, t.month>>
      /\ first = MonthFirst(p.year, p.month) + last
    BY <1>1, PrevMonthIs
<1>9. /\ next.year \in Int /\ next.month \in 1 .. 12
      /\ <<next.year, next.month>> # <<t.year, t.month>>
      /\ MonthFirst(next.year, next.month) = first + dim
    BY <1>1, NextMonthIs
<1>10. last \in 28 .. 31 /\ MonthFirst(p.year, p.month) \in Int
    BY <1>8, MonthLength, MonthFirstInt
<1>11. ASSUME NEW i \in 1 .. lead PROVE Cell(A[i], i, FALSE)
    <2> DEFINE d == last - lead + i
               c == A[i]
    <2>1. c = OutsideCell(p, d, t)
        BY DEF PrevCells
    <2>2. d \in 1 .. last /\ first - lead + i - 1 = MonthFirst(p.year, p.month) + d - 1
        <3> HIDE DEF last, p
        <3> QED BY <1>2, <1>3, <1>8, <1>10
    <2> HIDE DEF d, c, p
    <2>5. p.year \in Int /\ p.month \in 1 .. 12
        BY <1>8
    <2>4. d \in 1 .. DaysInMonth(p.year, p.month)
        BY <2>2
    <2>3. /\ Valid(c) /\ c.year = p.year /\ c.month = p.month
          /\ DayNo(c) = MonthFirst(p.year, p.month) + d - 1
          /\ ~c.in_month
          /\ c.is_today <=> <<c.year, c.month, c.day>> = <<t.year, t.month, t.day>>
        BY <2>1, <2>4, <2>5, OutsideCellIs
    <2> QED BY <1>8, <2>2, <2>3 DEF c
<1>12. ASSUME NEW i \in 1 .. dim PROVE Cell(B[i], i + lead, TRUE)
    <2> DEFINE c == B[i]
               d == i
    <2>1. c = InsideCell(t, d, t)
        BY DEF MonthCells
    <2>2. first - lead + (i + lead) - 1 = first + i - 1
        BY <1>2, <1>3
    <2>4. d \in 1 .. DaysInMonth(t.year, t.month)
        OBVIOUS
    <2> HIDE DEF c, d
    <2>3. /\ Valid(c) /\ c.year = t.year /\ c.month = t.month
          /\ DayNo(c) = MonthFirst(t.year, t.month) + d - 1
          /\ c.in_month
          /\ c.is_today <=> <<c.year, c.month, c.day>> = <<t.year, t.month, t.day>>
        BY <1>1, <2>1, <2>4, InsideCellIs
    <2> QED BY <2>2, <2>3 DEF c, d
<1>13. ASSUME NEW i \in 1 .. trail PROVE Cell(C[i], i + (lead + dim), FALSE)
    <2> DEFINE c == C[i]
               d == i
    <2>1. c = OutsideCell(next, d, t)
        BY DEF NextCells
    <2>2. first - lead + (i + (lead + dim)) - 1 = MonthFirst(next.year, next.month) + i - 1
        <3> HIDE DEF next
        <3> QED BY <1>2, <1>3, <1>9
    <2>4. d \in 1 .. DaysInMonth(next.year, next.month)
        <3>1. DaysInMonth(next.year, next.month) \in 28 .. 31
            BY <1>9, MonthLength
        <3> HIDE DEF next
        <3> QED BY <1>4, <3>1
    <2> HIDE DEF c, d, next
    <2>3. /\ Valid(c) /\ c.year = next.year /\ c.month = next.month
          /\ DayNo(c) = MonthFirst(next.year, next.month) + d - 1
          /\ ~c.in_month
          /\ c.is_today <=> <<c.year, c.month, c.day>> = <<t.year, t.month, t.day>>
        BY <1>9, <2>1, <2>4, OutsideCellIs
    <2> QED BY <1>9, <2>2, <2>3 DEF c, d
<1>14. ASSUME NEW i \in 1 .. lead + dim + trail
       PROVE  \E inside \in BOOLEAN :
                  Cell(grid[i], i, inside) /\ (inside <=> lead < i /\ i <= lead + dim)
    <2> HIDE DEF A, B, C, Cell
    <2>1. CASE i <= lead
        <3>1. i \in 1 .. lead /\ grid[i] = A[i] /\ ~(lead < i)
            BY <1>3, <1>7, <2>1
        <3> QED BY <1>11, <3>1
    <2>2. CASE lead < i /\ i <= lead + dim
        <3>1. i - lead \in 1 .. dim /\ (i - lead) + lead = i /\ ~(i <= lead)
            BY <1>2, <1>3, <2>2
        <3>2. grid[i] = B[i - lead]
            BY <1>7, <2>2, <3>1
        <3> QED BY <1>12, <2>2, <3>1, <3>2
    <2>3. CASE lead + dim < i
        <3>1. i - (lead + dim) \in 1 .. trail /\ (i - (lead + dim)) + (lead + dim) = i
              /\ ~(i <= lead) /\ ~(i <= lead + dim)
            BY <1>2, <1>3, <1>4, <2>3
        <3>2. grid[i] = C[i - (lead + dim)]
            BY <1>7, <3>1
        <3> QED BY <1>13, <3>1, <3>2
    <2> QED BY <1>2, <1>3, <1>4, <2>1, <2>2, <2>3
<1>15. ASSUME NEW i \in 1 .. lead + dim + trail
       PROVE  /\ Valid(grid[i]) /\ DayNo(grid[i]) = first - lead + i - 1
              /\ grid[i].in_month <=> lead < i /\ i <= lead + dim
              /\ grid[i].in_month
                    <=> <<grid[i].year, grid[i].month>> = <<t.year, t.month>>
              /\ grid[i].is_today
                    <=> <<grid[i].year, grid[i].month, grid[i].day>> = <<t.year, t.month, t.day>>
    BY <1>14
<1> HIDE DEF A, B, C, S, Cell
<1> QED BY <1>2, <1>3, <1>4, <1>7, <1>15

\* The invariant implies GridIsTheMonth.
LEMMA GridShown == ClockInv => GridIsTheMonth
<1> SUFFICES ASSUME ClockInv, Local # None
             PROVE  LET grid == BuildMonthGrid(Local, Local)
                        n == Len(grid)
                    IN  /\ n % 7 = 0
                        /\ WeekdayFromYmd(grid[1].year, grid[1].month, grid[1].day) = 0
                        /\ \A i \in 1 .. n - 1 :
                              JdFromDate(grid[i + 1]) = JdFromDate(grid[i]) + 1
                        /\ \A w \in 0 .. (n \div 7) - 1 :
                              \E i \in 1 .. 7 : grid[7 * w + i].in_month
                        /\ \A i \in 1 .. n :
                              /\ grid[i].in_month
                                    <=> <<grid[i].year, grid[i].month>>
                                          = <<Local.year, Local.month>>
                              /\ grid[i].is_today
                                    <=> JdFromDate(grid[i]) = JdFromDate(Local)
                        /\ Cardinality({i \in 1 .. n : grid[i].in_month})
                              = ChipDays(Local)
    BY DEF GridIsTheMonth
<1> DEFINE t == Local
           grid == BuildMonthGrid(t, t)
           first == MonthFirst(t.year, t.month)
           lead == first % 7
           dim == DaysInMonth(t.year, t.month)
           trail == Trail(lead + dim)
           n == Len(grid)
<1>1. t \in Civil /\ t.year \in 2023 .. 2100 /\ (t.year = 2100 => t.month = 1)
    BY LocalFacts
<1> HIDE DEF t
<1>2. /\ first \in Int /\ lead \in 0 .. 6 /\ dim \in 28 .. 31 /\ trail \in 0 .. 6
      /\ (lead + dim + trail) % 7 = 0
      /\ n = lead + dim + trail
    BY <1>1, GridCells
<1>3. ASSUME NEW i \in 1 .. n
      PROVE  /\ Valid(grid[i]) /\ DayNo(grid[i]) = first - lead + i - 1
             /\ grid[i].in_month <=> lead < i /\ i <= lead + dim
             /\ grid[i].in_month <=> <<grid[i].year, grid[i].month>> = <<t.year, t.month>>
             /\ grid[i].is_today
                   <=> <<grid[i].year, grid[i].month, grid[i].day>> = <<t.year, t.month, t.day>>
    <2>1. \A j \in 1 .. lead + dim + trail :
             /\ Valid(grid[j]) /\ DayNo(grid[j]) = first - lead + j - 1
             /\ grid[j].in_month <=> lead < j /\ j <= lead + dim
             /\ grid[j].in_month <=> <<grid[j].year, grid[j].month>> = <<t.year, t.month>>
             /\ grid[j].is_today
                   <=> <<grid[j].year, grid[j].month, grid[j].day>> = <<t.year, t.month, t.day>>
        BY <1>1, GridCells
    <2> HIDE DEF grid, first, lead, dim, trail, n
    <2> QED BY <1>2, <2>1
<1>4. lead = first % 7
    OBVIOUS
<1> HIDE DEF grid, first, lead, trail, n
<1>5. n % 7 = 0 /\ n \in 28 .. 43
    <2> HIDE DEF dim
    <2> QED BY <1>2
<1>6. WeekdayFromYmd(grid[1].year, grid[1].month, grid[1].day) = 0
    <2>1. 1 \in 1 .. n
        BY <1>5
    <2>2. Valid(grid[1]) /\ DayNo(grid[1]) = first - lead + 1 - 1
        BY <1>3, <2>1
    <2>3. WeekdayFromYmd(grid[1].year, grid[1].month, grid[1].day) = DayNo(grid[1]) % 7
        BY <2>2, WeekdayIs
    <2>4. (first - lead + 1 - 1) % 7 = 0
        BY <1>2, <1>4
    <2> QED BY <2>2, <2>3, <2>4
<1>7. ASSUME NEW i \in 1 .. n - 1
      PROVE  JdFromDate(grid[i + 1]) = JdFromDate(grid[i]) + 1
    <2>1. i \in 1 .. n /\ i + 1 \in 1 .. n
        BY <1>5
    <2>2. /\ Valid(grid[i]) /\ DayNo(grid[i]) = first - lead + i - 1
          /\ Valid(grid[i + 1]) /\ DayNo(grid[i + 1]) = first - lead + (i + 1) - 1
        BY <1>3, <2>1
    <2>3. JdFromDate(grid[i]) = DayNo(grid[i]) - 693595
        BY <2>2, JulianIs, SMT
    <2>4. JdFromDate(grid[i + 1]) = DayNo(grid[i + 1]) - 693595
        BY <2>2, JulianIs, SMT
    <2> QED BY <1>2, <2>2, <2>3, <2>4, SMT
<1>8. ASSUME NEW w \in 0 .. (n \div 7) - 1
      PROVE  \E i \in 1 .. 7 : grid[7 * w + i].in_month
    <2> DEFINE i == IF w = 0 THEN lead + 1 ELSE 1
               k == 7 * w + i
    <2> HIDE DEF dim
    <2>1. i \in 1 .. 7 /\ k \in 1 .. n /\ lead < k /\ k <= lead + dim
        BY <1>2, <1>5
    <2> HIDE DEF i, k
    <2>2. grid[k].in_month
        BY <1>3, <2>1
    <2> QED BY <2>1, <2>2 DEF k
<1>9. ASSUME NEW i \in 1 .. n
      PROVE  grid[i].is_today <=> JdFromDate(grid[i]) = JdFromDate(t)
    <2>1. Valid(grid[i]) /\ Valid(t)
        BY <1>1, <1>3 DEF Civil
    <2>2. DayNo(grid[i]) = DayNo(t)
             <=> <<grid[i].year, grid[i].month, grid[i].day>> = <<t.year, t.month, t.day>>
        BY <2>1, SameDay
    <2>3. JdFromDate(grid[i]) = DayNo(grid[i]) - 693595 /\ JdFromDate(t) = DayNo(t) - 693595
        BY <2>1, JulianIs, SMT
    <2>4. DayNo(grid[i]) \in Int /\ DayNo(t) \in Int
        BY <2>1, DayNoInt
    <2>5. DayNo(grid[i]) = DayNo(t) <=> JdFromDate(grid[i]) = JdFromDate(t)
        BY <2>3, <2>4, SMT
    <2> QED BY <1>3, <2>2, <2>5
<1>10. Cardinality({i \in 1 .. n : grid[i].in_month}) = ChipDays(t)
    <2>1. {i \in 1 .. n : grid[i].in_month} = lead + 1 .. lead + dim
        <3> HIDE DEF dim
        <3>1. \A i \in lead + 1 .. lead + dim : i \in 1 .. n
            BY <1>2
        <3>2. \A i \in 1 .. n : grid[i].in_month <=> i \in lead + 1 .. lead + dim
            BY <1>2, <1>3
        <3> QED BY <3>1, <3>2
    <2>2. Cardinality(lead + 1 .. lead + dim) = dim
        <3> HIDE DEF dim
        <3>1. lead + 1 \in Int /\ lead + dim \in Int /\ ~(lead + 1 > lead + dim)
              /\ (lead + dim) - (lead + 1) + 1 = dim
            BY <1>2
        <3> QED BY <3>1, FS_Interval
    <2>3. dim = ChipDays(t)
        <3>1. CASE t.year \in 2001 .. 2099
            BY <3>1, ChipMonth
        <3>2. CASE t.year = 2100
            <4>1. t.month = 1
                BY <1>1, <3>2
            <4> QED BY <4>1 DEF ChipDays, DaysInMonth
        <3>3. \A y \in 2023 .. 2100 : y \in 2001 .. 2099 \/ y = 2100
            BY SMT
        <3> QED BY <1>1, <3>1, <3>2, <3>3
    <2> QED BY <2>1, <2>2, <2>3
<1> HIDE DEF dim
<1> QED BY <1>3, <1>5, <1>6, <1>7, <1>8, <1>9, <1>10 DEF t, grid, n

\* The month grid of build_month_grid is whole weeks of consecutive days from a Monday, holds
\* exactly the days of its month, no week without one, and marks today once, for every month the
\* local time can be in.
THEOREM GridIsTheMonthAlways == Spec => []GridIsTheMonth
<1> QED BY CivilInvAlways, GridShown, PTL DEF CivilInv

=============================================================================
