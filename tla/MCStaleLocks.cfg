SPECIFICATION StartedSpec
CONSTANTS
    s1 = s1
    s2 = s2
    scout = scout
    e1 = e1
    e2 = e2
    w1 = w1
    w2 = w2
    r1 = r1
    Events <- TwoEvents
    Subscriptions <- OneSubscription
    Scouts <- OneScout
    Owner <- OwnedByScout
    Sweeps <- OneSweep
    Requests <- OneRequest
    FailureThreshold = 1
    SuspendAfter = 2
    MinForSpan = 1
    MaxPerScout = 2
    MaxAutoRetries = 1
    PageSize = 1
    DispatchTries = 0
    RequeueTries = 1
    MaxCrashes = 1
\* One at a time: each is violated.
PROPERTY StaleLocksAreRecovered
\* PROPERTY DueLettersAreTried
CHECK_DEADLOCK FALSE
