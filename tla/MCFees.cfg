SPECIFICATION FeesSpec
CONSTANTS
  Users = {"u", "v"}
  Contracts = {"k1", "k2"}
  Gov = "gov"
  Blocked = {"mod"}
  Creator <- Mc_Creator
  Admins = {"v", "k1", "gov"}
  ParamSets <- Mc_ParamSets
  Fees <- Mc_Fees
  Executions <- Mc_Executions
  MaxTxs = 1
  DripSets <- Mc_NoDrip
  Drips = {}
  Purse <- Mc_NoCoins
  Delegators = {"u", "v"}
  Order <- Mc_Order
  CreatorOf <- Mc_CreatorOf
  MaxShares = 1
  MaxHeight = 4
  PriceLists <- Mc_PriceLists
  LocalLists <- Mc_LocalLists
  TxSet <- Mc_TxSet
  BondDenom = 1
  Unit = 2
  MaxBypassGas = 1
INVARIANTS
    IndexesAgree
    DripsReachStakers
    
    

    
