SPECIFICATION Spec
CONSTANTS
    REGISTER = REGISTER
    PROGRESS = PROGRESS
    SUBSCRIPTION = SUBSCRIPTION
    CONNECTION = CONNECTION
    PauserHolders = {admin}
    Pausable = {CONNECTION}
    MAX_PAGE_SIZE = 1
    w1 = w1
    u1 = u1
    s1 = s1
    s2 = s2
    Wallets = {w1}
    Uris = {u1}
    NoPlayer = NoPlayer
    LegacyPlayers <- NoDeployment
    MaxPlayers = 2
    MAX_PLAYER_MIGRATION_BATCH = 1
    MAX_AUTHORIZED_UPDATERS = 1
    Validators = {}
    MilestoneTypes = {"identity", "performance"}
    MaxMilestones = 0
    Scouts = {s1, s2}
    SubscriptionPlayers <- OnePlayer
    FeeManager = admin
    InitialTokens = 2
    InitialFeeBps = 5000
    FeeBpsChoices = {0, 10001}
    Tiers = {1}
    DurationDays = {1}
    BASE_FEE = 2
    LEDGERS_PER_DAY = 1
    U32Max = 2
    MaxLedger = 2
INVARIANTS
    FeeBalanceBacked
    EveryContactPaidFor
    ListsMatchRecords
SYMMETRY ScoutSymmetry
CHECK_DEADLOCK FALSE
