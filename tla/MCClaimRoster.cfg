SPECIFICATION Spec
CONSTANTS
    Subjects <- MCSubjects
    Pubkeys <- MCPubkeys
    Genesis <- MCGenesis
    GenesisWeight <- MCWeight
    Watched = {4}
    JoinTxs <- MC3Joins
    LeaveTxs <- MCAllLeave
    FoldAvailable = TRUE
    ProverAvailable = TRUE
    AllowDummy = FALSE
    PersistEnabled = TRUE
    OwnsValset = TRUE
    MaxRawStarksPerLNPR = 3
    MaxPeriod = 2
INVARIANTS
    RosterIsBitsAndQueue
