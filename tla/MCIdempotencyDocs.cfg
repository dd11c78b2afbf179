SPECIFICATION Spec
CONSTANTS
    r1 = r1
    r2 = r2
    r3 = r3
    Requests <- TwoRequests
    Fingerprints = {f, g}
    Lease = 1
    Ttl = 3
    MaxTime = 0
\* One at a time; the first is violated with one fingerprint, too.
INVARIANT KeySubmitsOnce
\* INVARIANT ReplaysMatchRequest
CHECK_DEADLOCK FALSE
