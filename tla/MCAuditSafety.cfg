SPECIFICATION Spec
CONSTANTS
    r1 = r1
    r2 = r2
    v1 = v1
    v2 = v2
    Replicas <- TwoReplicas
    Verifiers <- TwoVerifiers
    ArchiveBatch = 2
    MaxEvents = 4
    MaxEdits = 1
    ReportBatch = 2
    VerifyBatch = 2
    MaxBatches = 1
    MaxBreakOffs = 1
SYMMETRY Symmetry
INVARIANT HistoryIsComplete
INVARIANT VerifyIsExact
INVARIANT CheckpointIsGenuine
\* A rule of docs/audit-log.md that is violated (README, section 5):
\* INVARIANT OnlyEditsAreReported
