CONSTANTS
    MaxArrivals = 3
    MaxRequests = 3
SPECIFICATION FairSystemSpec
INVARIANTS SystemInv EveryRequestHandled RelayNeedsTunnel
PROPERTIES CloseIsFinal ConnectionEnds
CHECK_DEADLOCK FALSE
