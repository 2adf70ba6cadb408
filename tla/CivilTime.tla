------------------------------ MODULE CivilTime ------------------------------
(***************************************************************************)
(* The device's time as the clock shows it: the UTC registers of the RTC   *)
(* (device/clock_port.py), the shift to local time (time/service.py), the  *)
(* minute arithmetic of a postponed alert (alert/scheduler.py), the month  *)
(* grid (calendar/gregorian.py) and the Vietnamese lunar date              *)
(* (calendar/lunar.py).                                                    *)
(*                                                                         *)
(* The RTC runs beside `now', the true number of UTC minutes since Monday  *)
(* 2024-01-01 00:00; every property compares what the code computes with   *)
(* that number.  Time moves from one of the Moments of a day to the next,  *)
(* inside one of the Windows; seconds are left out (a due minute has none).*)
(* The astronomy of lunar.py (_new_moon_day, _sun_longitude: floating      *)
(* point series) is data: NewMoonDay[k] is the day of the k-th new moon,   *)
(* SunSector[k] the sector of the sun on that day.  The calendar built     *)
(* from the two is modelled as written.                                    *)
(***************************************************************************)
EXTENDS Integers, FiniteSets, FiniteSetsExt, Sequences, SequencesExt

CONSTANTS
    Windows,     \* records [start, weekday, day, days]: a stretch of time
    Moments,     \* the minutes of the UTC day at which the RTC is looked at
    LeapYears,   \* the years in which the RTC has a 29 February
    OffsetHours, \* config.LOCAL_UTC_OFFSET_HOURS
    Delays,      \* the delays a user may postpone an alert by, in minutes
    NewMoonDay,  \* k |-> day of the k-th new moon after 1900-01-01
    SunSector,   \* k |-> twelfth of the ecliptic the sun is in on that day
    None

ASSUME MomentsAssumption == 0 \in Moments /\ Moments \subseteq 0 .. 1439
ASSUME DelaysAssumption == Delays \subseteq 1 .. 60
ASSUME OffsetAssumption == OffsetHours \in -23 .. 23
ASSUME LeapYearsAssumption == \A y \in 2001 .. 2099 : y \in LeapYears <=> y % 4 = 0

VARIABLES
    window,   \* the window the clock is in
    now,      \* true UTC minutes since 2024-01-01 00:00
    rtc,      \* the registers of the RTC
    due,      \* the due minute of the postponed occurrence, or None
    dueAt     \* the true (local) minute it was promised for

vars == <<window, now, rtc, due, dueAt>>

-----------------------------------------------------------------------------
(* calendar/gregorian.py *)

DaysInMonth(year, month) ==
    IF month = 2
    THEN IF year % 4 = 0 /\ (year % 100 # 0 \/ year % 400 = 0) THEN 29 ELSE 28
    ELSE IF month \in {4, 6, 9, 11} THEN 30 ELSE 31

Sakamoto == <<0, 3, 2, 5, 0, 3, 5, 1, 4, 6, 2, 4>>

\* Monday is 0.
WeekdayFromYmd(year, month, day) ==
    LET y == IF month < 3 THEN year - 1 ELSE year
        sunday0 == (y + y \div 4 - y \div 100 + y \div 400
                      + Sakamoto[month] + day) % 7
    IN  (sunday0 + 6) % 7

NextMonth(m) ==
    IF m.month = 12 THEN [year |-> m.year + 1, month |-> 1]
                    ELSE [year |-> m.year, month |-> m.month + 1]

PrevMonth(m) ==
    IF m.month = 1 THEN [year |-> m.year - 1, month |-> 12]
                   ELSE [year |-> m.year, month |-> m.month - 1]

\* A week too many when the month ends on a Sunday.
TrailsAWeek(n) == 7 - (n % 7)

\* The days of the next month that fill the last week.
Trail(n) == (7 - (n % 7)) % 7

\* The cells of the grid in reading order; a week is seven of them.
BuildMonthGrid(m, today) ==
    LET lead  == WeekdayFromYmd(m.year, m.month, 1)
        dim   == DaysInMonth(m.year, m.month)
        prev  == PrevMonth(m)
        next  == NextMonth(m)
        Cell(mm, d, inside) ==
            [year |-> mm.year, month |-> mm.month, day |-> d,
             in_month |-> inside,
             is_today |-> <<mm.year, mm.month, d>>
                            = <<today.year, today.month, today.day>>]
    IN  [i \in 1 .. lead |->
             Cell(prev, DaysInMonth(prev.year, prev.month) - lead + i, FALSE)]
        \o [d \in 1 .. dim |-> Cell(m, d, TRUE)]
        \o [d \in 1 .. Trail(lead + dim) |-> Cell(next, d, FALSE)]

-----------------------------------------------------------------------------
(* time/service.py and device/clock_port.py *)

DayAfter(t) ==
    IF t.day < DaysInMonth(t.year, t.month) THEN [t EXCEPT !.day = @ + 1]
    ELSE IF t.month < 12 THEN [t EXCEPT !.day = 1, !.month = @ + 1]
    ELSE [t EXCEPT !.day = 1, !.month = 1, !.year = @ + 1]

DayBefore(t) ==
    IF t.day > 1 THEN [t EXCEPT !.day = @ - 1]
    ELSE LET m == PrevMonth(t)
         IN  [t EXCEPT !.year = m.year, !.month = m.month,
                       !.day = DaysInMonth(m.year, m.month)]

\* The weekday of the UTC day kept for the local one.
WeekdayKept(weekday, shift) == weekday

WeekdayShifted(weekday, shift) == (weekday + shift) % 7

UtcToLocal(utc) ==
    LET hour == utc.hour + OffsetHours
        t == IF hour >= 24 THEN DayAfter(utc)
             ELSE IF hour < 0 THEN DayBefore(utc) ELSE utc
        shift == IF hour >= 24 THEN 1 ELSE IF hour < 0 THEN -1 ELSE 0
    IN  [t EXCEPT !.hour = hour % 24,
                  !.weekday = WeekdayShifted(@, shift)]

ReadUtc ==
    IF /\ rtc.year \in 2024 .. 2099
       /\ rtc.month \in 1 .. 12
       /\ rtc.day \in 1 .. DaysInMonth(rtc.year, rtc.month)
       /\ rtc.weekday \in 0 .. 6
    THEN rtc ELSE None

\* TimeSnapshot.local
Local == IF ReadUtc = None THEN None ELSE UtcToLocal(ReadUtc)

-----------------------------------------------------------------------------
(* alert/scheduler.py *)

\* The day is left alone when the hour passes midnight.
AddStaysToday(local, minutes) ==
    LET total == local.hour * 60 + local.minute + minutes
    IN  [local EXCEPT !.hour = total \div 60, !.minute = total % 60]

AddMinutes(local, minutes) ==
    LET total == local.hour * 60 + local.minute + minutes
        t == IF total >= 1440 THEN DayAfter(local) ELSE local
    IN  [t EXCEPT !.weekday = WeekdayFromYmd(t.year, t.month, t.day),
                  !.hour = (total % 1440) \div 60, !.minute = total % 60]

MinuteKey(t) == <<t.year, t.month, t.day, t.hour, t.minute>>

\* Every part is compared on its own.
DueByParts(local, d) ==
    \A i \in 1 .. 5 : MinuteKey(local)[i] >= MinuteKey(d)[i]

\* Tuples compare from the left.
DueReached(local, d) ==
    LET a == MinuteKey(local)
        b == MinuteKey(d)
    IN  a = b \/ \E i \in 1 .. 5 :
                    a[i] > b[i] /\ \A j \in 1 .. (i - 1) : a[j] = b[j]

\* The days of the months before `month', added one by one.
DaysBefore(year, month) ==
    LET days[m \in 1 .. 12] ==
            IF m = 1 THEN 0 ELSE days[m - 1] + DaysInMonth(year, m - 1)
    IN  days[month]

OrdinalMinutes(t) ==
    LET py   == t.year - 1
        days == 365 * py + py \div 4 - py \div 100 + py \div 400
                  + DaysBefore(t.year, t.month) + t.day - 1
    IN  days * 1440 + t.hour * 60 + t.minute

RemainingMinutes(local, d) ==
    Max({0, OrdinalMinutes(d) - OrdinalMinutes(local)})

-----------------------------------------------------------------------------
(* calendar/lunar.py: day numbers count from 1899-12-31 (JD 2415021 is 0)  *)
(* and the mean month 29.530588853 is 618341/20939; the two give the same  *)
(* k as the code's division on every day of the windows.                   *)

JdFromDate(t) ==
    LET a == (14 - t.month) \div 12
        y == t.year + 4800 - a
        m == t.month + 12 * a - 3
    IN  t.day + (153 * m + 2) \div 5 + 365 * y + y \div 4 - y \div 100
          + y \div 400 - 32045 - 2415021

LunarMonth11(year) ==
    LET off == JdFromDate([year |-> year, month |-> 12, day |-> 31])
        k == (20939 * off) \div 618341
    IN  IF SunSector[k] >= 9 THEN NewMoonDay[k - 1] ELSE NewMoonDay[k]

\* Thirteen months lie between the two eleventh months.
Leaps(a11, b11) == b11 - a11 > 365

\* The first month after a11 in which the sun does not change its sector.
LeapMonthOffset(a11) ==
    LET k == (20939 * a11 - 1609 + 309170) \div 618341
    IN  Min({i \in 2 .. 14 : i = 14 \/ SunSector[k + i] = SunSector[k + i - 1]})
          - 1

\* The step back to the month before is forgotten.
MonthStartsLate(k, number) == NewMoonDay[k + 1]

MonthStart(k, number) ==
    IF NewMoonDay[k + 1] > number THEN NewMoonDay[k] ELSE NewMoonDay[k + 1]

GregorianToLunar(t) ==
    LET number == JdFromDate(t)
        k == (20939 * number - 1609) \div 618341
        start == MonthStart(k, number)
        this  == LunarMonth11(t.year)
        a11   == IF this >= start THEN LunarMonth11(t.year - 1) ELSE this
        b11   == IF this >= start THEN this ELSE LunarMonth11(t.year + 1)
        diff  == (start - a11) \div 29
        leaps == Leaps(a11, b11)
        month == IF leaps /\ diff >= LeapMonthOffset(a11)
                 THEN diff + 10 ELSE diff + 11
    IN  [day   |-> number - start + 1,
         month |-> IF month > 12 THEN month - 12 ELSE month,
         leap  |-> leaps /\ diff = LeapMonthOffset(a11)]

-----------------------------------------------------------------------------
(* The registers of the chip: its own rule for the length of a month.      *)

ChipDays(t) ==
    IF t.month = 2 THEN IF t.year \in LeapYears THEN 29 ELSE 28
    ELSE IF t.month \in {4, 6, 9, 11} THEN 30 ELSE 31

ChipDayAfter(t) ==
    LET next == NextMonth(t)
        u == [t EXCEPT !.weekday = (@ + 1) % 7]
    IN  IF t.day < ChipDays(t) THEN [u EXCEPT !.day = @ + 1]
        ELSE [u EXCEPT !.day = 1, !.month = next.month, !.year = next.year]

At(t, minute) == [t EXCEPT !.hour = minute \div 60, !.minute = minute % 60]

MinuteOfDay(t) == t.hour * 60 + t.minute

Waiting == Local # None /\ due # None

(* The RTC runs to the next of the Moments.  (Bound: App looks at the      *)
(* clock many times a minute, so what is due is raised before.)            *)
RtcRuns ==
    LET later == {m \in Moments : m > MinuteOfDay(rtc)}
        next  == IF later = {} THEN 0 ELSE Min(later)
    IN  /\ Waiting => ~DueReached(Local, due)
        /\ later = {} => now \div 1440 < window.day + window.days
        /\ rtc' = At(IF later = {} THEN ChipDayAfter(rtc) ELSE rtc, next)
        /\ now' = (now \div 1440) * 1440
                    + (IF later = {} THEN 1440 ELSE 0) + next
        /\ UNCHANGED <<window, due, dueAt>>

StartOf(w) ==
    [year |-> w.start[1], month |-> w.start[2], day |-> w.start[3],
     weekday |-> w.weekday, hour |-> 0, minute |-> 0]

\* The number the scheduler's ordinal gives to 2024-01-01.
Epoch == 738885

(* A window begins at a date that is given with its true number and        *)
(* weekday.                                                                *)
ASSUME WindowsAssumption ==
    \A w \in Windows :
        LET t == StartOf(w)
        IN  /\ t.year \in 2001 .. 2099 /\ t.month \in 1 .. 12
            /\ t.day \in 1 .. DaysInMonth(t.year, t.month)
            /\ w.day \in Int
            /\ t.weekday = w.day % 7
            /\ OrdinalMinutes(t) = (Epoch + w.day) * 1440

(* set_utc: a sync gives a clock without a valid time the start of a       *)
(* window.  (Bound: a valid clock is not moved, and no delay is            *)
(* outstanding; AlertRuntime moves the clock under a delay.)               *)
SetUtc ==
    /\ ReadUtc = None
    /\ due = None
    /\ \E w \in Windows :
          /\ window' = w
          /\ now' = w.day * 1440
          /\ rtc' = StartOf(w)
    /\ UNCHANGED <<due, dueAt>>

\* The runtime postpones the ringing occurrence.
Postpone ==
    /\ Local # None
    /\ due = None
    /\ \E m \in Delays :
          /\ due' = AddMinutes(Local, m)
          /\ dueAt' = now + 60 * OffsetHours + m
    /\ UNCHANGED <<window, now, rtc>>

\* The runtime raises it again.
RaisePostponed ==
    /\ Waiting
    /\ DueReached(Local, due)
    /\ due' = None
    /\ dueAt' = None
    /\ UNCHANGED <<window, now, rtc>>

-----------------------------------------------------------------------------

Init ==
    /\ window \in Windows
    /\ now = window.day * 1440
    /\ rtc = StartOf(window)
    /\ due = None
    /\ dueAt = None

Next ==
    \/ RtcRuns
    \/ SetUtc
    \/ Postpone
    \/ RaisePostponed

Spec == Init /\ [][Next]_vars

-----------------------------------------------------------------------------
(* Properties *)

DateTimes ==
    [year : 2020 .. 2101, month : 1 .. 12, day : 1 .. 31, weekday : 0 .. 6,
     hour : 0 .. 23, minute : 0 .. 59]

(* The local time shown is the true time OffsetHours away, on the true     *)
(* weekday, and the three ways the code numbers a day (the weekday, the    *)
(* ordinal of the scheduler, the Julian day of the lunar calendar) agree   *)
(* with the true number of the day.                                        *)
LocalIsCivil ==
    Local # None =>
        LET true == now + 60 * OffsetHours
            day  == true \div 1440
        IN  /\ Local.hour * 60 + Local.minute = true % 1440
            /\ Local.weekday = day % 7
            /\ WeekdayFromYmd(Local.year, Local.month, Local.day) = day % 7
            /\ JdFromDate(Local) = 45290 + day
            /\ OrdinalMinutes(Local) = Epoch * 1440 + true

(* The due minute is a date and time of the calendar, and a postponed      *)
(* alert is due from exactly the minute it was promised for, whatever      *)
(* midnight, month or year lies between, and the minutes the overlay       *)
(* counts down are the true ones.                                          *)
DueOnTime ==
    Waiting =>
        LET true == now + 60 * OffsetHours
        IN  /\ due \in DateTimes
            /\ DueReached(Local, due) <=> true >= dueAt
            /\ RemainingMinutes(Local, due) = Max({0, dueAt - true})

(* The month grid is whole weeks of consecutive days from a Monday, holds  *)
(* every day of its month, no week of another month, and marks today once. *)
GridIsTheMonth ==
    Local # None =>
        LET grid == BuildMonthGrid(Local, Local)
            n == Len(grid)
        IN  /\ n % 7 = 0
            /\ WeekdayFromYmd(grid[1].year, grid[1].month, grid[1].day) = 0
            /\ \A i \in 1 .. n - 1 :
                  JdFromDate(grid[i + 1]) = JdFromDate(grid[i]) + 1
            /\ \A w \in 0 .. (n \div 7) - 1 :
                  \E i \in 1 .. 7 : grid[7 * w + i].in_month
            /\ \A i \in 1 .. n :
                  /\ grid[i].in_month
                        <=> <<grid[i].year, grid[i].month>>
                              = <<Local.year, Local.month>>
                  /\ grid[i].is_today
                        <=> JdFromDate(grid[i]) = JdFromDate(Local)
            /\ Cardinality({i \in 1 .. n : grid[i].in_month})
                  = ChipDays(Local)

(* Lunar days follow one another: within a month one by one, a month has   *)
(* 29 or 30 of them, and the next month is the next number or the leap     *)
(* month of the same number.  Only the last day of a month may come out as *)
(* day 0 of the next, where the estimate of the month is one too high      *)
(* (2054-05-07; lunar.py says "lunar_day is 1-30").                        *)
LunarFollows ==
    [][(/\ Local # None /\ Local' # None /\ window' = window
        /\ now' # now) =>
          LET a == GregorianToLunar(Local)
              b == GregorianToLunar(Local')
          IN  IF JdFromDate(Local') = JdFromDate(Local) THEN b = a
              ELSE \/ b = [a EXCEPT !.day = @ + 1] /\ b.day <= 30
                   \/ /\ IF b.day = 0 THEN a.day \in {28, 29}
                         ELSE a.day \in {29, 30} /\ b.day = 1
                      /\ \/ b.month = (a.month % 12) + 1 /\ ~b.leap
                         \/ b.month = a.month /\ b.leap /\ ~a.leap]_vars
=============================================================================
