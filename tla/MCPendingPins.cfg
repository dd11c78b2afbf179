SPECIFICATION Spec
CONSTANTS
    a = a
    b = b
    p1 = p1
    p2 = p2
    Requests <- TwoRequests
    Processes <- TwoProcesses
    Workers <- OneWorker
    BatchSize = 1
    MaxAttempts = 1
    MaxFaults = 1
INVARIANT PayloadsAreKept
PROPERTY NothingWaitsForever
\* Every request is over and every row has been tried: nothing is left to do.
CHECK_DEADLOCK FALSE
