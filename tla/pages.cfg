SPECIFICATION Spec
CONSTANTS
    Providers <- Adapters
    Histories <- AdapterHistories
    Arrivals <- Newcomers
    Limit = 3
    BlockscoutPage = 2
    SignaturePage = 2
    MaxArrivals = 1
    MaxFailures = 1
    MaxPages = 4
CHECK_DEADLOCK FALSE
INVARIANTS WalksSkipNothing CompletePagesAreWhole 
