CONSTANTS
    Ops = {op1, op2}
    Results = {"ok", "error", "aborted"}
    NoResult = NoResult
    Timeout = 1
    Overlap = TRUE
    Elongate = TRUE
    Kinds = {"read", "request", "clientShutdown", "handshake", "serverShutdown"}
SPECIFICATION SessionSpec
INVARIANTS Coherent NeverEarly ShutdownCloses
PROPERTIES CloseOnlyInFlight KeepsPromise RunsUnderTimer StagedTeardown
