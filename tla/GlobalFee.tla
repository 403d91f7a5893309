------------------------------ MODULE GlobalFee ------------------------------
(***************************************************************************)
(* x/globalfee: FeeDecorator admits a transaction to the mempool of a node *)
(* when its fee reaches the minimum gas prices, the ones governance sets   *)
(* for all nodes and the ones the node's operator sets.  The decorator is  *)
(* modelled as installed in the ante chain; the mempool that calls it for  *)
(* a new transaction and again after each block is external.               *)
(*                                                                         *)
(* Denoms are numbered in the order of their names.  Coins are sequences   *)
(* of [denom, amount] in that order.  Prices are in 1/Unit of a coin.  Gas *)
(* limits are in the signed range, as ValidateBasic of a transaction has   *)
(* them, so the conversion to int64 keeps them.                            *)
(***************************************************************************)
EXTENDS Integers, Sequences, FiniteSets, SequencesExt

CONSTANTS
  PriceLists,  \* minimum gas prices governance may set
  LocalLists,  \* minimum gas prices of an operator
  TxSet,       \* transactions: [fee, gas, bypass]
  BondDenom,
  Unit,
  MaxBypassGas \* MaxTotalBypassMinFeeMsgGasUsage

CoinList == Seq([denom : Int, amount : Nat])

VARIABLES
  prices,  \* MinimumGasPrices of the module's parameters
  local,   \* ctx.MinGasPrices of this node
  pool     \* the transactions in this node's mempool

minVars == <<prices, local, pool>>

\* DecCoins.Validate, for amounts that are not negative.
Valid(list) == \A i \in 1 .. Len(list) - 1 : list[i].denom < list[i + 1].denom

\* Prices are not negative.  The operator's are parsed with ParseDecCoins and the
\* coins of a fee that are not valid are refused by DeductFeeDecorator: both are
\* in order, each denom once.
ASSUME MinAssumption ==
  /\ BondDenom \in Int /\ MaxBypassGas \in Nat /\ Unit \in Nat \ {0}
  /\ PriceLists \subseteq CoinList
  /\ \A l \in LocalLists : l \in CoinList /\ Valid(l)
  /\ \A tx \in TxSet : /\ tx.fee \in CoinList /\ Valid(tx.fee)
                       /\ tx.gas \in Nat /\ tx.bypass \in BOOLEAN

MinInit ==
  /\ prices \in {l \in PriceLists : Valid(l)}
  /\ local \in LocalLists
  /\ pool = {}

-----------------------------------------------------------------------------
\* One coin more than the whole coins of price * gas.
FeeOfNext(price, gas) == (price * gas) \div Unit + 1

\* ceil(price * gas)
FeeOf(price, gas) == (price * gas + Unit - 1) \div Unit

RequiredFees(list, gas) ==
  [i \in DOMAIN list |-> [denom |-> list[i].denom, amount |-> FeeOf(list[i].amount, gas)]]

DefaultZeroGlobalFee == <<[denom |-> BondDenom, amount |-> 0]>>

GetGlobalFee(gas) == RequiredFees(IF prices = <<>> THEN DefaultZeroGlobalFee ELSE prices, gas)

\* Prices that are all zero are no prices.
GetMinGasPrice(gas) ==
  IF \A i \in DOMAIN local : local[i].amount = 0 THEN <<>> ELSE RequiredFees(local, gas)

\* Find: binary search among the coins lo .. hi of the list, which is s;
\* the amount found, or zero.
Slices(coins) == (1 .. Len(coins) + 1) \X (0 .. Len(coins))

Found(coin, denom) == IF coin.denom = denom THEN coin.amount ELSE 0

Find(coins, denom) ==
  LET find[s \in Slices(coins)] ==
        LET lo == s[1]
            hi == s[2]
            mid == lo + (hi - lo + 1) \div 2
        IN  IF lo > hi THEN 0
            ELSE IF lo = hi THEN Found(coins[lo], denom)
            ELSE IF denom < coins[mid].denom THEN find[<<lo, mid - 1>>]
            ELSE IF denom = coins[mid].denom THEN coins[mid].amount
            ELSE find[<<mid + 1, hi>>]
  IN  find[<<1, Len(coins)>>]

CombinedFeeRequirement(globalFees, minGasPrices) ==
  [i \in DOMAIN globalFees |->
     LET c == Find(minGasPrices, globalFees[i].denom)
     IN  IF c > globalFees[i].amount THEN [globalFees[i] EXCEPT !.amount = c] ELSE globalFees[i]]

\* Coins.AmountOf, Coins.DenomsSubsetOf and Coins.IsAnyGTE of the SDK, on sets.
AmountOf(coins, denom) ==
  LET S == {c \in coins : c.denom = denom} IN IF S = {} THEN 0 ELSE (CHOOSE c \in S : TRUE).amount
DenomsSubsetOf(A, B) == Cardinality(A) <= Cardinality(B) /\ \A c \in A : AmountOf(B, c.denom) # 0
IsAnyGTE(A, B) == \E c \in A : AmountOf(B, c.denom) # 0 /\ c.amount >= AmountOf(B, c.denom)

\* An empty fee is accepted if no price is set for some denom; else the coins
\* in denoms with a price must be worth one of the requirements, unless the
\* fee has a coin in a denom without a price or the messages need not pay.
Admits(tx, globalFees, localFees) ==
  LET combined == ToSet(CombinedFeeRequirement(globalFees, localFees))
      nonZero == {c \in combined : c.amount # 0}
      zeroDenoms == {c.denom : c \in combined \ nonZero}
      fee == ToSet(tx.fee)
      feeNonZero == {c \in fee : c.denom \notin zeroDenoms}
      mayBypass == tx.bypass /\ tx.gas <= MaxBypassGas
  IN  /\ combined # {}
      /\ DenomsSubsetOf(feeNonZero, nonZero)
      /\ \/ mayBypass
         \/ feeNonZero # fee
         \/ fee = {} /\ zeroDenoms # {}
         \/ IsAnyGTE(feeNonZero, nonZero)

\* AnteHandle in CheckTx.
AnteHandle(tx) == Admits(tx, GetGlobalFee(tx.gas), GetMinGasPrice(tx.gas))

-----------------------------------------------------------------------------
CheckTx(tx) ==
  /\ tx \notin pool
  /\ AnteHandle(tx)
  /\ pool' = pool \cup {tx}
  /\ UNCHANGED <<prices, local>>

\* A block: it may carry MsgUpdateParams with valid prices, and the mempool
\* checks what the block has not taken again.
Commit(p, taken) ==
  /\ Valid(p)
  /\ prices' = p
  /\ UNCHANGED local
  /\ pool' = {tx \in pool \ taken : AnteHandle(tx)'}

MinNext ==
  \/ \E tx \in TxSet : CheckTx(tx)
  \/ \E p \in PriceLists, taken \in SUBSET pool : Commit(p, taken)

MinSpec == MinInit /\ [][MinNext]_minVars

-----------------------------------------------------------------------------
\* The price of a denom: the higher one of the two lists.
PriceOf(list, d) == AmountOf(ToSet(list), d)
Required(d) == LET g == PriceOf(prices, d)
                   l == PriceOf(local, d)
               IN  IF g < l THEN l ELSE g
Global == IF prices = <<>> THEN {BondDenom} ELSE {prices[i].denom : i \in DOMAIN prices}

\* A transaction pays in denoms of the global list only, and pays the higher of
\* the two prices for its whole gas limit in one of them, unless its messages
\* need not pay or it brings no fee and a denom is free.
PaysPrice(tx) ==
  /\ \A i \in DOMAIN tx.fee : tx.fee[i].denom \in Global
  /\ \/ tx.bypass /\ tx.gas <= MaxBypassGas
     \/ \E i \in DOMAIN tx.fee : tx.fee[i].amount * Unit >= Required(tx.fee[i].denom) * tx.gas
     \/ tx.fee = <<>> /\ \E d \in Global : Required(d) * tx.gas = 0

\* Whatever governance has changed since a transaction was admitted, each
\* transaction of the pool pays the prices of now; and AnteHandle keeps nothing
\* out that pays them.
PoolPaysPrice ==
  /\ \A tx \in pool : PaysPrice(tx)
  /\ \A tx \in TxSet : PaysPrice(tx) => AnteHandle(tx)
=============================================================================
