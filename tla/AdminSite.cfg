SPECIFICATION Spec
CONSTANTS
    Browsers = {b1, b2}
    MaxClients = 2
    Passwords = {p, q}
    SessionIds = {s1, s2}
    SessionMax = 2
    KdfSteps = 2
    IdleLimit = 1
    NoMemory = TRUE
    None = None
INVARIANT TypeOK
INVARIANT SessionsCurrent
PROPERTY SessionEarned
PROPERTY OneKnockOneSession
PROPERTY JobEnds
PROPERTY AbandonedEnds
