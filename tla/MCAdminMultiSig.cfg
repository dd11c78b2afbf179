SPECIFICATION Spec
CONSTANTS
    r1 = r1
    r2 = r2
    r3 = r3
    r4 = r4
    a1 = a1
    a2 = a2
    a3 = a3
    x = x
    Requests <- AllRequests
    Wallets = {a1, a2, a3, x}
    AdminWallets = {a1, a2, a3}
    AdminThreshold = 2
    ActionTtl = 1
    MaxTime = 2
INVARIANTS
    OnlyProposerCountsTwice
    RunsNearQuorum
SYMMETRY Permuted
CHECK_DEADLOCK FALSE
