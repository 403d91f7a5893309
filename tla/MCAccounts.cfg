SPECIFICATION AccountsSpec
CONSTANTS
  Trees <- Mc_Trees
  Depth <- Mc_Depth
  Signatures <- Mc_Signatures
  Patterns <- Mc_Values
  Messages <- Mc_Values
  Nesting <- Mc_Nesting
  Decimal <- Mc_Decimal
  Accounts = {"a", "b"}
  Own <- Mc_Own
  Controllers = {"a"}
  Contracts = {"c"}
  Genesis <- Mc_Genesis
  MsgLists <- Mc_MsgLists
  Sigs <- Mc_Sigs
  Verdicts <- Mc_Verdicts
  MaximumUnauthenticatedGas = 2
  Funds <- Mc_Funds
  MaxId = 4
INVARIANTS
    IdsUnique
    SelectedSurvives
    
PROPERTIES
    ConsentOnly
    TrackedArePaid
CHECK_DEADLOCK FALSE
