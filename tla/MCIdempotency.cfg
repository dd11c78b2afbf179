SPECIFICATION Spec
CONSTANTS
    r1 = r1
    r2 = r2
    r3 = r3
    Requests <- ThreeRequests
    Fingerprints = {f}
    Lease = 1
    Ttl = 3
    MaxTime = 4
INVARIANTS
    OneLeaseHolder
    ReplaysAreAnswers
PROPERTY
    KeptAnswerStays
SYMMETRY Permuted
CHECK_DEADLOCK FALSE
