SPECIFICATION Spec
CONSTANTS
    once = once
    weekly = weekly
    Alerts = {once, weekly}
    Schedule <- MCSchedule
    DayLength = 2
    DayCount = 3
    Horizon = 4
    Delay = 2
    AutoStop = 2
    CommitMayFail = TRUE
    ClockMayBeLost = TRUE
    MaxRestarts = 1
    MaxSyncs = 1
    None = None
INVARIANT OneLife
PROPERTY RetiredStaysSilent
PROPERTY ActiveEnds
PROPERTY PostponedResolves
