CONSTANTS
    Codes = {"ok", "aborted", "refused"}
    MaxOps = 4
SPECIFICATION SpeakSpec
INVARIANTS HandlerToldResult
