SPECIFICATION Spec
CONSTANTS
    r1 = r1
    r2 = r2
    v1 = v1
    v2 = v2
    Replicas <- TwoReplicas
    Verifiers <- TwoVerifiers
    ArchiveBatch = 1
    MaxEvents = 3
    MaxEdits = 1
    ReportBatch = 2
    VerifyBatch = 2
    MaxBatches = 1
    MaxBreakOffs = 1
INVARIANT HistoryIsComplete
INVARIANT VerifyIsExact
INVARIANT CheckpointIsGenuine
PROPERTY EditsAreReported
