CONSTANTS
    Ops = {op}
    Results = {"ok", "error", "aborted"}
    NoResult = NoResult
    Timeout = 2
    Overlap = FALSE
    Elongate = FALSE
    Kinds = {"read", "write", "request", "connect", "clientShutdown", "detect", "handshake", "serverShutdown"}
SPECIFICATION FairSessionSpec
INVARIANTS SessionInv DeadlineKept CutLeavesClosed OkMeansConnected
PROPERTIES OpsTimeOut
