SPECIFICATION ResolveSpec
CONSTANTS
    d = d
    b = b
    p = p
    q = q
    A = A
    B = B
    C = C
    D = D
    NoAddress = NoAddress
    Transfer = {"x", "y"}
    Deposit = {d}
    MadeBy <- MadeByX
    LooksLike <- OnlyX
    BlockOf <- Blocks
    Height = {0, 2, 3}
    Threshold = 1
    Body = {b}
    Trace = {p, q}
    MaxAttempts = 1
    MaxExports = 1
    FanBodies <- FanBody
    ChainBodies <- ChainBody
    FanWindow = 1
    MinDistinct = 2
    RapidWindow = 1
    MaxTransfers = 4
    Address = {1, 2, 3, 4, 5}
    Flow <- Web
    Seed = 1
    Known = {4}
    Directions = {"both", "outbound"}
    Rankings = {"most_recent", "total_raw_amount", "most_active", "known_entity"}
    Limits = {0, 2}
    CounterpartyLimits = {0}
    Depths = {0, 9}
    MaxPage = 3
    MaxCounterparties = 3
    DefaultCounterparties = 2
    MaxDepth = 3
    MaxNodes = 4
    MaxEdges = 4
    MaxOverlaps = 1
CHECK_DEADLOCK FALSE
SYMMETRY Workers
INVARIANTS
    PartsTyped RulesExact RunsReplay WalkHolds 
     RunsReplayable PackageClosed
