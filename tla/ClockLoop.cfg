SPECIFICATION Spec
CONSTANTS
    Networks = {home, other}
    Ids = {0, 1}
    Deadline = 2
    Gap = 1
    FailureLimit = 2
    StreakLimit = 2
    KdfSteps = 2
    Retry = 3
    EventLimit = 2
    None = None
INVARIANT TypeOK
INVARIANT OneRequest
INVARIANT SetupOnScreen
INVARIANT OnlineIsStored
PROPERTY FreshClock
PROPERTY StationResolves
PROPERTY RequestEnds
