SPECIFICATION Spec
CONSTANTS
    Session = {s1}
    Worker = {w1, w2}
    Query = {q1, q2}
    Client = {c1}
    NoClient = NoClient
    NoQuery = NoQuery
    s1 = s1
    w1 = w1
    w2 = w2
    q1 = q1
    q2 = q2
    c1 = c1
    MaxQueued = 2
    MaxQueuedPerClient = 2
    MaxAttempts = 1
    JobTimeout = 1
    WriteTimeout = 1
    Lease = 2
    CacheTTL = 2
    Retention = 3
    PruneInterval = 1
    MaxTxAge = 1
    MaxRequests = 3
    FaultKinds = {"stall", "dberror"}
    MaxFaults = 1
SYMMETRY Symmetry
INVARIANTS RowsConsistent 
PROPERTIES ImplementsService AnswersSurviveWorkers
