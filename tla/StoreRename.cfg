SPECIFICATION Spec
CONSTANTS
    Payloads = {p1, p2}
    Faults = {"rename"}
    None = None
    Down = Down
    Absent = Absent
    Bad = Bad
INVARIANT NeverLost
