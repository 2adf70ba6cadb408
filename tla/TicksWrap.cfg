SPECIFICATION DeadlinesSpec
CONSTANTS
    Period = 32
    CounterPeriod = 8
    MaxStep = 2
    RedrawAfter = 3
    IdleAfter = 4
    Tokens = {k1, k2}
    MaxSessions = 1
INVARIANT RedrawsInTime
