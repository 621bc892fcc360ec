SPECIFICATION Spec
CONSTANTS
    ETH = ETH
    WETH = WETH
    Truncated = Truncated
    alice = alice
    bob = bob
    Native = ETH
    Registry <- Written
    Deposits <- ThreeDeposits
    Confirmations <- Two
    MaxReorg = 1
    MaxLag = 1
    MaxHeight = 3
    MaxResolves = 1
CHECK_DEADLOCK FALSE
INVARIANTS FinalizedIsFinal WithinWindow 
