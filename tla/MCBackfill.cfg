SPECIFICATION BackfillSpec
CONSTANTS
    p1 = p1
    p2 = p2
    Polls <- TwoPolls
    Chain <- SomeEvents
    Tip = 3
    PageSize = 2
    FinalityMargin = 1
    BatchSize = 1
    CatchupBatchSize = 2
    CatchupThreshold = 2
    Ranges <- SomeRanges
    MaxJobs = 2
    MaxFaults = 1
INVARIANTS
    ProgressIsTrue
    CancelsAreHeeded
    CursorIsBacked
SYMMETRY Symmetry
CHECK_DEADLOCK FALSE
