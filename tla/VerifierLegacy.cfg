SPECIFICATION LegacySpec
CONSTANTS
    Words = {p, q}
    Salts = {s1, s2}
    Rounds = 5
    LegacyRounds = 7
    Budget = 2
    Unset = Unset
INVARIANT LegacyVerifies
