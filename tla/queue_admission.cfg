SPECIFICATION Spec
CONSTANTS
    Session = {s1, s2}
    Worker = {w1}
    Query = {q1, q2, q3}
    Client = {c1, c2, c3}
    NoClient = NoClient
    NoQuery = NoQuery
    s1 = s1
    s2 = s2
    w1 = w1
    q1 = q1
    q2 = q2
    q3 = q3
    c1 = c1
    c2 = c2
    c3 = c3
    MaxQueued = 2
    MaxQueuedPerClient = 1
    MaxAttempts = 1
    JobTimeout = 1
    WriteTimeout = 1
    Lease = 2
    CacheTTL = 2
    Retention = 3
    PruneInterval = 1
    MaxTxAge = 0
    MaxRequests = 3
    FaultKinds = {"shutdown"}
    MaxFaults = 1
SYMMETRY Symmetry
INVARIANTS AdmissionBound
