------------------------------- MODULE MCFees -------------------------------
(***************************************************************************)
(* Instances of the modules around fees for TLC.  component says which one *)
(* a behaviour runs: the registry of feeshare with its admins, the payouts *)
(* of feeshare together with drip, the contract hooks, or the global       *)
(* minimum fee.                                                            *)
(***************************************************************************)
EXTENDS Drip, CwHooks, GlobalFee

P(e, n, d, a) == [enabled |-> e, num |-> n, den |-> d, allowed |-> a]
Mc_ParamSets == {P(TRUE, 1, 2, <<>>), P(TRUE, 1, 1, <<"t">>), P(FALSE, 1, 2, <<>>)}
Mc_Payouts == {P(TRUE, 1, 2, <<>>), P(TRUE, 1, 3, <<"t">>), P(TRUE, 1, 1, <<>>),
               P(TRUE, 1, 2, <<"t", "t">>), P(TRUE, 0, 1, <<>>)}
\* k2 was created by k1, k1 by a user.
Mc_Creator == [k1 |-> "u", k2 |-> "k1"]
Coins(t, o) == [t |-> t, o |-> o]
Mc_Fees == {Coins(5, 0)}
Mc_FeesWide == {Coins(1, 0), Coins(2, 0), Coins(3, 5), Coins(5, 0), Coins(7, 1)}
Mc_Executions == {<<"k2", "k1", "k2">>}
Mc_ExecutionsWide == {[i \in 1 .. n |-> "k1"] : n \in {0, 1, 2, 3, 6}}
Mc_NoDrip == {[enabled |-> FALSE, allowed |-> {}]}
Mc_DripSets == {[enabled |-> TRUE, allowed |-> {"u"}], [enabled |-> FALSE, allowed |-> {"u"}]}
Mc_NoCoins == Coins(0, 0)

VARIABLE component

feeVars == <<vars, dripVars>>

Payout == INSTANCE Drip WITH
  Users <- {"u"}, Contracts <- {"k1"}, Admins <- {}, Blocked <- {},
  ParamSets <- Mc_Payouts, Fees <- Mc_FeesWide, Executions <- Mc_ExecutionsWide, MaxTxs <- 2,
  DripSets <- Mc_DripSets, Drips <- {Coins(1, 0), Coins(0, 0)}, Purse <- Coins(1, 0)

Mc_Order == <<"k1", "k2">>
Mc_CreatorOf == [k1 |-> "u", k2 |-> "v"]

Coin(d, n) == [denom |-> d, amount |-> n]
\* Prices in halves of a coin; the last list is not in order.
Mc_PriceLists == {<<>>, <<Coin(1, 1)>>, <<Coin(1, 0), Coin(3, 3)>>, <<Coin(1, 3), Coin(2, 2), Coin(3, 1)>>,
                  <<Coin(2, 1), Coin(1, 1)>>}
Mc_LocalLists == {<<>>, <<Coin(1, 2)>>, <<Coin(1, 0)>>, <<Coin(1, 1), Coin(2, 4)>>,
                  <<Coin(1, 4), Coin(2, 1), Coin(3, 2)>>}
Mc_TxFees == {<<>>} \cup {<<Coin(d, n)>> : d \in 1 .. 3, n \in 1 .. 3}
               \cup {<<Coin(1, 1), Coin(2, n)>> : n \in 1 .. 2} \cup {<<Coin(2, 1), Coin(3, 2)>>}
Mc_TxSet == [fee : Mc_TxFees, gas : {0, 1, 3}, bypass : BOOLEAN]

\* The components that do not run keep one value.
RestFees ==
  /\ params = P(TRUE, 1, 2, <<>>) /\ feeshare = <<>> /\ byDeployer = {} /\ byWithdrawer = {}
  /\ admin = [c \in {"k1"} |-> "none"] /\ collector = Mc_NoCoins /\ txs = 0 /\ last = Nothing
  /\ drip = [enabled |-> FALSE, allowed |-> {"u"}] /\ purse = <<>> /\ dripped = Mc_NoCoins
  /\ modest = TRUE
RestHooks == HooksInit /\ cwAdmin = [c \in Subscribers |-> NoCwAdmin]
RestMin == prices = <<>> /\ local = <<>> /\ pool = {}

FeesInit ==
  \/ component = "registry" /\ DripInit /\ RestHooks /\ RestMin
  \/ component = "payout" /\ Payout!DripInit /\ RestHooks /\ RestMin
  \/ component = "hooks" /\ HooksInit /\ RestFees /\ RestMin
  \/ component = "minfee" /\ MinInit /\ RestFees /\ RestHooks

\* Transactions are checked one by one, so one in the pool is enough.
SmallPool == Cardinality(pool) <= 1

FeesNext ==
  /\ UNCHANGED component
  /\ \/ component = "registry" /\ DripNext /\ UNCHANGED <<hookVars, minVars>>
     \/ component = "payout" /\ Payout!DripNext /\ UNCHANGED <<hookVars, minVars>>
     \/ component = "hooks" /\ HooksNext /\ UNCHANGED <<feeVars, minVars>>
     \/ component = "minfee" /\ MinNext /\ SmallPool' /\ UNCHANGED <<feeVars, hookVars>>

FeesSpec == FeesInit /\ [][FeesNext]_<<component, feeVars, hookVars, minVars>>

=============================================================================
