----------------------------- MODULE MCCivilTime -----------------------------
(***************************************************************************)
(* CivilTime on four stretches of time: one without a valid clock, the     *)
(* years 2025 to 2028 (two of them with a leap month, one with a 29th of   *)
(* February), the spring of 2054, where an estimate of lunar.py is off,    *)
(* and the end of 2099, the last year of the RTC.  The new moons and the   *)
(* sectors of the sun are what lunar.py computes for them.                 *)
(***************************************************************************)
EXTENDS CivilTime, TLC

ColdBoot == [start |-> <<2021, 1, 1>>, weekday |-> 4, day |-> -1095,
             days |-> 1]
FourYears == [start |-> <<2024, 12, 29>>, weekday |-> 6, day |-> 363,
              days |-> 1470]
LastDays == [start |-> <<2099, 12, 27>>, weekday |-> 6, day |-> 27754,
             days |-> 6]
Spring2054 == [start |-> <<2054, 4, 28>>, weekday |-> 1, day |-> 11075,
               days |-> 30]

MCWindows == {ColdBoot, FourYears, Spring2054, LastDays}

MCLeapYears == {y \in 2001 .. 2099 : y % 4 = 0}

\* The day numbers of the new moons from month 1515 on.
NewMoonDay2023 ==
    <<
      44739, 44769, 44798, 44828, 44857, 44887, 44916, 44946, 44975, 45005,
      45034, 45063, 45093, 45123, 45152, 45182, 45212, 45241, 45271, 45300,
      45330, 45359, 45389, 45418, 45447, 45477, 45506, 45536, 45566, 45595,
      45625, 45655, 45684, 45714, 45743, 45773, 45802, 45831, 45861, 45890,
      45920, 45949, 45979, 46009, 46039, 46068, 46098, 46127, 46157, 46186,
      46215, 46245, 46274, 46303, 46333, 46363, 46393, 46422, 46452, 46482,
      46511, 46541, 46570, 46599, 46629, 46658, 46687, 46717, 46747, 46776,
      46806, 46836, 46866, 46895, 46925, 46954, 46983, 47013, 47042, 47071,
      47101, 47131, 47160, 47190, 47220, 47249, 47279, 47308, 47338, 47367,
      47397, 47426, 47455, 47485, 47514>>

\* The day numbers of the new moons from month 1880 on.
NewMoonDay2052 ==
    <<
      55518, 55548, 55577, 55607, 55636, 55665, 55695, 55724, 55753, 55783,
      55812, 55842, 55872, 55902, 55931, 55961, 55991, 56020, 56049, 56079,
      56108, 56137, 56167, 56196, 56226, 56256, 56286, 56315, 56345, 56375,
      56404, 56433, 56463, 56492, 56521, 56551, 56580, 56610, 56640, 56669,
      56699, 56729, 56758, 56788, 56817, 56847, 56876, 56905, 56935, 56964,
      56994, 57023, 57053, 57083, 57112>>

\* The day numbers of the new moons from month 2448 on.
NewMoonDay2098 ==
    <<
      72291, 72320, 72350, 72380, 72410, 72439, 72469, 72498, 72527, 72556,
      72586, 72615, 72645, 72674, 72704, 72734, 72764, 72793, 72823, 72852,
      72882, 72911, 72940, 72970, 72999, 73029, 73058, 73088, 73118, 73147,
      73177, 73207, 73236, 73266, 73295, 73325, 73354, 73383, 73413, 73442,
      73472, 73502, 73531, 73561, 73590, 73620, 73650>>

\* The sector of the sun on each of them from month 1515 on.
SunSector2023 ==
    <<
      3, 4, 5, 6, 7, 8, 9, 10, 11, 0,
      0, 1, 2, 3, 4, 5, 6, 7, 8, 9,
      10, 11, 0, 1, 2, 3, 4, 5, 6, 7,
      8, 9, 10, 11, 0, 1, 2, 3, 4, 4,
      5, 6, 7, 8, 9, 10, 11, 0, 1, 2,
      3, 4, 5, 6, 7, 8, 9, 10, 11, 0,
      1, 2, 3, 4, 5, 6, 7, 8, 9, 10,
      11, 0, 1, 2, 3, 3, 4, 5, 6, 7,
      8, 9, 10, 11, 0, 1, 2, 3, 4, 5,
      6, 7, 8, 9, 10>>

\* The sector of the sun on each of them from month 1880 on.
SunSector2052 ==
    <<
      9, 10, 11, 0, 1, 2, 3, 4, 5, 6,
      6, 7, 8, 10, 10, 11, 0, 1, 2, 3,
      4, 5, 6, 7, 8, 9, 10, 11, 0, 1,
      2, 3, 4, 5, 6, 7, 8, 9, 10, 11,
      0, 1, 2, 3, 4, 4, 5, 6, 7, 8,
      9, 10, 11, 0, 1>>

\* The sector of the sun on each of them from month 2448 on.
SunSector2098 ==
    <<
      8, 9, 10, 11, 0, 1, 2, 3, 4, 5,
      6, 7, 8, 9, 10, 11, 0, 0, 1, 2,
      3, 4, 5, 6, 7, 8, 9, 10, 11, 0,
      1, 2, 3, 4, 5, 6, 7, 8, 9, 10,
      11, 0, 1, 2, 3, 4, 5>>

MCNewMoonDay ==
    [k \in 1515 .. 1609 |-> NewMoonDay2023[k - 1514]]
    @@ [k \in 1880 .. 1934 |-> NewMoonDay2052[k - 1879]]
    @@ [k \in 2448 .. 2494 |-> NewMoonDay2098[k - 2447]]

MCSunSector ==
    [k \in 1515 .. 1609 |-> SunSector2023[k - 1514]]
    @@ [k \in 1880 .. 1934 |-> SunSector2052[k - 1879]]
    @@ [k \in 2448 .. 2494 |-> SunSector2098[k - 2447]]

=============================================================================
