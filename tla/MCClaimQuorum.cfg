SPECIFICATION Spec
CONSTANTS
    Subjects <- MCSubjects
    Pubkeys <- MCSubjects
    Genesis <- MCGenesis
    GenesisWeight <- MCWeight
    Watched = {4}
    JoinTxs <- MCJoins
    LeaveTxs <- MCLeaves
    FoldAvailable = TRUE
    ProverAvailable = TRUE
    AllowDummy = FALSE
    PersistEnabled = TRUE
    OwnsValset = TRUE
    MaxRawStarksPerLNPR = 3
    MaxPeriod = 1
PROPERTIES
    JoinKeepsQuorum
