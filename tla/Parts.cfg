SPECIFICATION Spec
CONSTANTS
    Pauses = 4
    SampleCount = 5
    Limit = 3
    Times = {t7}
    Recurrence = {weekdays}
    Delays = {5}
    Bad = Bad
    Nothing = Nothing
    Words = {p, q}
    Salts = {s1, s2}
    Rounds = 5
    LegacyRounds = 7
    Budget = 2
    Unset = Unset
    Period = 32
    CounterPeriod = 8
    MaxStep = 2
    RedrawAfter = 3
    IdleAfter = 4
    Tokens = {k1, k2}
    MaxSessions = 1
    Texts <- RequestTexts
    Pages <- AnswerParts
    ErrorLength = 3
    MaxLine = 4
    MaxHeaders = 8
    MaxBody = 2
    PerTick = 2
    None = None
    Ids = {1, 2, 3, 4, 5, 6, 7, 8, 9, 10, 90, 91, 1000, 1001}
    Iterations = 2
INVARIANTS
    Recovers
    BusBelongs
    FormsFit
    DistinctUntilDeleted
    VerifierHolds
    SessionsIdleOut
    AnswerFits
    OwnAnswers
    IdleTells
    FailsOnlyLate
PROPERTIES
    OnePress
    OneChange
