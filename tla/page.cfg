SPECIFICATION MCSpec
CONSTANTS
    ethereum = ethereum
    base = base
    alice = alice
    bob = bob
    None = None
    Network = {ethereum, base}
    Address = {alice, bob}
    Scope <- Scopes
    Package <- Packages
    Pages = 2
    MaxEvents = 3
    MaxFailures = 1
CHECK_DEADLOCK FALSE
INVARIANTS OnePage BranchesWhole
PROPERTY PollsEnd
