CONSTANTS
    Ops = {op}
    Results = {"ok", "error", "aborted"}
    NoResult = NoResult
    Timeout = 2
    Overlap = FALSE
    Elongate = FALSE
    Kinds = {"connect", "read"}
SPECIFICATION FairSessionSpec
PROPERTIES ConnectTimesOut
