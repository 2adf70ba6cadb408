SPECIFICATION Spec
CONSTANTS
    Frame = 1
    Slide = 2
    Height = 2
    Redraw = 1
    Flash = 1
    TouchIdle = 2
    AlertsIdle = 2
    ClockDwell = 1
    CalendarDwell = 1
    Rows = 1
    PerPage = 1
    Faulty = {}
    None = None
INVARIANTS
    AlertLeaves
CHECK_DEADLOCK FALSE
