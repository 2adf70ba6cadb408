SPECIFICATION Spec
CONSTANTS
    Frame = 1
    Slide = 2
    Height = 2
    Redraw = 1
    Flash = 1
    TouchIdle = 2
    AlertsIdle = 2
    ClockDwell = 1
    CalendarDwell = 1
    Rows = 2
    PerPage = 1
    Faulty = {"clock", "calendar", "settings", "ringing"}
    None = None
INVARIANTS
    ScreenTrue
    IdleReturns
\* The device may be reset.
CHECK_DEADLOCK FALSE
