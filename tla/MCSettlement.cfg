SPECIFICATION Spec
CONSTANTS
    a = a
    b = b
    c = c
    p1 = p1
    p2 = p2
    Requests <- ThreeRequests
    Processes <- TwoProcesses
    Assignments <- AllMixes
INVARIANT RecordsAreBacked
INVARIANT AnswersAreTrue
INVARIANT OneWithdrawalAtATime
PROPERTY UnlocksAreAnswered
\* Every request has been answered: nothing is left to do.
CHECK_DEADLOCK FALSE
