SPECIFICATION Spec
CONSTANTS
    REGISTER = REGISTER
    PROGRESS = PROGRESS
    SUBSCRIPTION = SUBSCRIPTION
    CONNECTION = CONNECTION
    PauserHolders = {admin}
    Pausable = {REGISTER, PROGRESS, SUBSCRIPTION}
    MAX_PAGE_SIZE = 1
    w1 = w1
    u1 = u1
    s1 = s1
    s2 = s2
    Wallets = {w1, w2}
    Uris = {u1, u2}
    NoPlayer = NoPlayer
    LegacyPlayers <- OldDeployment
    MaxPlayers = 2
    MAX_PLAYER_MIGRATION_BATCH = 1
    MAX_AUTHORIZED_UPDATERS = 2
    Validators = {v1}
    MilestoneTypes = {"identity", "performance", "award"}
    MaxMilestones = 2
    Scouts = {s1}
    SubscriptionPlayers <- OnePlayer
    FeeManager = admin
    InitialTokens = 1
    InitialFeeBps = 0
    FeeBpsChoices = {0}
    Tiers = {1}
    DurationDays = {1}
    BASE_FEE = 2
    LEDGERS_PER_DAY = 1
    U32Max = 4
    MaxLedger = 1
INVARIANTS
    WalletsAndPlayersAgree
    MigrationLeavesNothingBehind
    LevelIsEarned
PROPERTY
    ProfilesSurviveEveryStep
CHECK_DEADLOCK FALSE
