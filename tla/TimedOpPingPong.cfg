CONSTANTS
    Ops = {read, write}
    Results = {ok, aborted}
    NoResult = NoResult
    Timeout = 3
    Overlap = TRUE
    Elongate = FALSE
SPECIFICATION FairSpec
PROPERTIES SomeOpReported
