SPECIFICATION FairSpec
CONSTANTS
    t1 = t1
    l1 = l1
    None = None
    Traces = {t1}
    Lookups = {l1}
    Gap = 2
    Providers = {"trongrid", "etherscan", "evm", "tonapi"}
    Second = 1
    Cap = 3
    RetryAfters = {0, 5}
    MaxAttempts = 3
    MaxRequests = 3
CHECK_DEADLOCK FALSE
  
PROPERTIES Paced RetryAfterKept CallsEnd
