SPECIFICATION FairSpec
CONSTANTS
    p = p
    Chain <- TwoEvents
    Undecodable <- AllDecodable
    TrialPlayers = {}
    FinalityMargin = 1
    PageSize = 2
    MaxFailures = 1
    MaxResets = 0
PROPERTY
    LevelCatchesUp
