SPECIFICATION TokenSpec
CONSTANTS
    h1 = h1
    h2 = h2
    h3 = h3
    t1 = t1
    t2 = t2
    TokenHolders <- ThreeHolders
    MAX_HOLDERS_PER_PAGE = 2
    Supply = 4
    Amounts <- OneOrTwo
    Transfers <- TwoTransfers
    Fees <- TwoOrFive
    Pages <- TwoPages
    Legacy <- TwoLegacyHolders
INVARIANT HoldersListedOnce
INVARIANT PayoutsAddUp
