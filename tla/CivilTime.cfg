SPECIFICATION Spec
CONSTANTS
    Windows <- MCWindows
    Moments = {0, 1019, 1020, 1110, 1439}
    LeapYears <- MCLeapYears
    OffsetHours = 7
    Delays = {1, 60}
    NewMoonDay <- MCNewMoonDay
    SunSector <- MCSunSector
    None = None
INVARIANTS
    LocalIsCivil
    DueOnTime
    GridIsTheMonth
PROPERTY
    LunarFollows
\* A window ends: the RTC does not run past it.
CHECK_DEADLOCK FALSE
