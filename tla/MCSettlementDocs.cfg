SPECIFICATION Spec
CONSTANTS
    a = a
    b = b
    c = c
    p1 = p1
    p2 = p2
    Requests <- ThreeRequests
    Processes <- TwoProcesses
    \* One at a time, each with its requests.
    Assignments <- OneOffer
    \* Assignments <- OneWithdrawal
PROPERTY CancelledOffersAreTerminal
\* PROPERTY FlagIsCleared
\* Every request has been answered: nothing is left to do.
CHECK_DEADLOCK FALSE
