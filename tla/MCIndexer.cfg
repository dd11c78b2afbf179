SPECIFICATION FairSpec
CONSTANTS
    p = p
    Chain <- FourEvents
    Undecodable <- MayBeUndecodable
    TrialPlayers = {p}
    FinalityMargin = 1
    PageSize = 3
    MaxFailures = 1
    MaxResets = 1
INVARIANTS
    NoEventSkipped
    LevelIsBacked
PROPERTIES
    ApprovedStaysApproved
    EventuallyIndexed
