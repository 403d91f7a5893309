SPECIFICATION TokensSpec
CONSTANTS
    Accounts <- Mc_Accounts
    Subdenoms <- Mc_Subdenoms
    Gov = "gov"
    Funds = 1
    DefaultFee = 1
    Amounts = {1}
    MaxSupply = 2
    Validators <- Mc_Validators
    Power <- Mc_Power
    Chains = {"eth"}
    Algos = {"keccak256"}
    Sources = {"s1"}
    Contracts = {"a", "b"}
    EscrowDenoms = {"uterp", "uthiol"}
    Answers <- Mc_Answers
    ChainMsgs <- Mc_ChainMsgs
    ParamSets <- Mc_ParamSets
    Payments = {1, 2}
    PayerFunds = 2
    Word = 1024
    MaxHeight = 4
    None = None
    v1 = v1
    v2 = v2
    v3 = v3
INVARIANTS
    SupplyBacked
    RegistryAgrees
    EscrowBacked
    DisabledWithinInterval
    
PROPERTIES
    AdminRights
    ServedWhilePaid
CHECK_DEADLOCK FALSE
