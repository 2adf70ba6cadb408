SPECIFICATION Spec
CONSTANTS
    Payloads = {p1, p2}
    Faults = {"write", "sync", "remove"}
    None = None
    Down = Down
    Absent = Absent
    Bad = Bad
INVARIANT NeverLost
PROPERTY RebootServes
PROPERTY EvidenceKept
PROPERTY ImplementsContract
PROPERTY NoTornCurrent
