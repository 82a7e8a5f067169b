CONSTANTS
    Conns = {c1, c2}
    MaxShutdowns = 2
    num_client_requests = 2
SPECIFICATION FairProgramSpec
INVARIANTS ProgramInv StopsAfterLast LastIsAgreed
PROPERTIES ShutdownStops ArrivedIsServed ProgramEnds
CHECK_DEADLOCK FALSE
