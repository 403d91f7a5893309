SPECIFICATION FairSpec
CONSTANTS
    Subjects <- MC3Subjects
    Pubkeys <- MC3Subjects
    Genesis <- MCGenesis
    GenesisWeight <- MC3Weight
    Watched = {}
    JoinTxs <- MC3Joins
    LeaveTxs <- MC3Leaves
    FoldAvailable = TRUE
    ProverAvailable = TRUE
    AllowDummy = FALSE
    PersistEnabled = TRUE
    OwnsValset = TRUE
    MaxRawStarksPerLNPR = 3
    MaxPeriod = 1
PROPERTIES
    LeaveTakesEffect
    JoinTakesEffect
