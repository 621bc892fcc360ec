SPECIFICATION Spec
CONSTANTS
    Client = {c1, c2, c3}
    Caller = {k1, k2}
    NoClient = NoClient
    c1 = c1
    c2 = c2
    c3 = c3
    k1 = k1
    k2 = k2
    Limit = 2
    Minute = 3
    MaxTracked = 2
    MaxLag = 1
    MaxClock = 5
SYMMETRY Symmetry
INVARIANTS TypeOK BurstBound TrackedBound
