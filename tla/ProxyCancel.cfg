CONSTANTS
    MaxArrivals = 2
    MaxRequests = 1
SPECIFICATION FairSystemSpec
PROPERTIES CancelStops
CHECK_DEADLOCK FALSE
