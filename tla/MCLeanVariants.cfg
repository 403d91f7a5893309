SPECIFICATION VariantsSpec
CONSTANTS
    Subjects <- MCSubjects
    Pubkeys <- MCPubkeys
    Genesis <- MCGenesis
    GenesisWeight <- MCWeight
    Watched = {4}
    JoinTxs <- MCJoins
    LeaveTxs <- MC3Leaves
    FoldAvailable = FALSE
    ProverAvailable = TRUE
    AllowDummy = TRUE
    PersistEnabled = FALSE
    OwnsValset = TRUE
    MaxRawStarksPerLNPR = 4
    MaxPeriod = 1
INVARIANTS
    VariantApplicable
    CarriedSlotIsAllocated
PROPERTIES
    VariantRoster
