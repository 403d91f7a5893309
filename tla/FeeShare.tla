------------------------------ MODULE FeeShare ------------------------------
(***************************************************************************)
(* x/feeshare: the controller of a contract registers an address that      *)
(* receives a part of the fees of the transactions that execute it.        *)
(*                                                                         *)
(* The store holds one record per contract and two indexes, by deployer    *)
(* and by withdrawer.  The payout is an ante decorator that runs after the *)
(* fee has been deducted; it is modelled as installed in the ante chain.   *)
(* The wasm module is external: it knows the creator and the admin of each *)
(* contract, and lets the admin be changed or cleared.                     *)
(***************************************************************************)
EXTENDS Integers, Sequences, FiniteSets, Functions

CONSTANTS
  Users, Contracts,
  Gov,          \* the governance module account
  Blocked,      \* module accounts the bank lets nobody send to
  Creator,      \* [Contracts -> Users \cup Contracts]
  Admins,       \* admins a contract may be given
  ParamSets,    \* parameters governance may choose
  Fees,         \* fees of transactions: [denoms -> Nat]
  Executions,   \* lists of contracts a transaction executes
  MaxTxs        \* bound on the transactions between two sweeps

NoAdmin == "none"
Addresses == Users \cup Contracts \cup {Gov} \cup Blocked
Denoms == UNION {DOMAIN f : f \in Fees}

ValidParams(p) ==
  /\ p.enabled \in BOOLEAN /\ p.allowed \in Seq(Denoms)
  /\ p.num \in Nat /\ p.den \in Nat \ {0} /\ p.num <= p.den

ASSUME FeeShareAssumption ==
  /\ Gov \notin Users \cup Contracts \cup Blocked /\ NoAdmin \notin Addresses
  /\ \A p \in ParamSets : ValidParams(p)
  /\ Fees \subseteq [Denoms -> Nat]
  /\ Executions \subseteq Seq(Contracts)
  /\ MaxTxs \in Nat

VARIABLES
  params,      \* [enabled, num, den, allowed]: DeveloperShares is num/den
  feeshare,    \* [contract -> [deployer, withdrawer]] for the registered ones
  byDeployer,  \* pairs <<deployer, contract>>
  byWithdrawer,
  admin,       \* [Contracts -> Admins \cup {NoAdmin}] (wasm)
  collector,   \* [Denoms -> Nat]: what the fee collector holds
  txs,         \* transactions since the last sweep
  last         \* the last transaction: what it paid and what it paid out

vars == <<params, feeshare, byDeployer, byWithdrawer, admin, collector, txs, last>>
registry == <<feeshare, byDeployer, byWithdrawer>>

NoCoins == [d \in Denoms |-> 0]
Nothing == [fee |-> NoCoins, out |-> NoCoins]

Init ==
  /\ params \in ParamSets
  /\ feeshare = <<>>
  /\ byDeployer = {} /\ byWithdrawer = {}
  /\ admin \in [Contracts -> Admins \cup {NoAdmin}]
  /\ collector = NoCoins
  /\ txs = 0
  /\ last = Nothing

Registered == DOMAIN feeshare
Put(c, d, w) ==
  [x \in Registered \cup {c} |->
     IF x = c THEN [deployer |-> d, withdrawer |-> w] ELSE feeshare[x]]

\* GetIfContractWasCreatedFromFactory
FromFactory(c) ==
  \/ admin[c] = Gov
  \/ admin[c] = NoAdmin /\ Creator[c] \in Contracts
  \/ admin[c] \in Contracts

\* GetContractAdminOrCreatorAddress: the account that speaks for the contract.
Controller(c) == IF admin[c] = NoAdmin THEN Creator[c] ELSE admin[c]

-----------------------------------------------------------------------------
\* The withdrawer of a factory's contract is not looked at.
RegisterAnyWithdrawer(c, signer, w) ==
  LET deployer == IF FromFactory(c) THEN c ELSE signer IN
  /\ params.enabled
  /\ c \notin Registered
  /\ FromFactory(c) \/ signer = Controller(c)
  /\ feeshare' = Put(c, deployer, w)
  /\ byDeployer' = byDeployer \cup {<<deployer, c>>}
  /\ byWithdrawer' = byWithdrawer \cup {<<w, c>>}
  /\ last' = Nothing
  /\ UNCHANGED <<params, admin, collector, txs>>

\* Anyone registers a factory's contract, to itself; the controller registers
\* any other, to whom they like.
RegisterFeeShare(c, signer, w) ==
  LET deployer == IF FromFactory(c) THEN c ELSE signer IN
  /\ params.enabled
  /\ c \notin Registered
  /\ IF FromFactory(c) THEN w = c ELSE signer = Controller(c)
  /\ feeshare' = Put(c, deployer, w)
  /\ byDeployer' = byDeployer \cup {<<deployer, c>>}
  /\ byWithdrawer' = byWithdrawer \cup {<<w, c>>}
  /\ last' = Nothing
  /\ UNCHANGED <<params, admin, collector, txs>>

\* The entry of the old withdrawer stays.
UpdateKeepingOld(c, signer, w) ==
  /\ params.enabled
  /\ c \in Registered
  /\ w # feeshare[c].withdrawer
  /\ signer = Controller(c)
  /\ byWithdrawer' = byWithdrawer \cup {<<w, c>>}
  /\ feeshare' = Put(c, feeshare[c].deployer, w)
  /\ last' = Nothing
  /\ UNCHANGED <<params, byDeployer, admin, collector, txs>>

UpdateFeeShare(c, signer, w) ==
  /\ params.enabled
  /\ c \in Registered
  /\ w # feeshare[c].withdrawer
  /\ signer = Controller(c)
  /\ byWithdrawer' = (byWithdrawer \ {<<feeshare[c].withdrawer, c>>}) \cup {<<w, c>>}
  /\ feeshare' = Put(c, feeshare[c].deployer, w)
  /\ last' = Nothing
  /\ UNCHANGED <<params, byDeployer, admin, collector, txs>>

CancelFeeShare(c, signer) ==
  /\ params.enabled
  /\ c \in Registered
  /\ signer = Controller(c)
  /\ feeshare' = [x \in Registered \ {c} |-> feeshare[x]]
  /\ byDeployer' = byDeployer \ {<<feeshare[c].deployer, c>>}
  /\ byWithdrawer' = byWithdrawer \ {<<feeshare[c].withdrawer, c>>}
  /\ last' = Nothing
  /\ UNCHANGED <<params, admin, collector, txs>>

UpdateParams(p) ==
  /\ p # params
  /\ params' = p
  /\ last' = Nothing
  /\ UNCHANGED <<registry, admin, collector, txs>>

\* wasm MsgUpdateAdmin and MsgClearAdmin, signed by the admin.
UpdateAdmin(c, a) ==
  /\ admin[c] # NoAdmin
  /\ admin' = [admin EXCEPT ![c] = a]
  /\ last' = Nothing
  /\ UNCHANGED <<params, registry, collector, txs>>

-----------------------------------------------------------------------------
\* RoundInt of n/d: to the nearest, and to the even one in the middle.
RoundUp(n, d) == (n + d - 1) \div d
RoundInt(n, d) ==
  LET q == n \div d
      r == 2 * (n % d)
  IN  IF r > d \/ (r = d /\ q % 2 = 1) THEN q + 1 ELSE q

\* The coins of the fee that may be paid out; a denom listed twice counts
\* twice, and an empty list means every denom.
AllowedFees(fee) ==
  [d \in Denoms |->
     IF params.allowed = <<>> THEN fee[d]
     ELSE fee[d] * Cardinality({i \in DOMAIN params.allowed : params.allowed[i] = d})]

\* FeePayLogic: what each of n withdrawers gets.
FeePayLogic(fees, n) ==
  [d \in Denoms |-> RoundInt(params.num * fees[d], params.den * n)]

\* The messages whose contract has a withdrawer; each is paid for.
ToPay(execs) == {i \in DOMAIN execs : execs[i] \in Registered}

\* FeeSharePayout: coins per denom that leave the collector.
FeeSharePayout(fee, execs) ==
  LET n == Cardinality(ToPay(execs)) IN
  IF ~params.enabled \/ n = 0 THEN NoCoins
  ELSE [d \in Denoms |-> n * FeePayLogic(AllowedFees(fee), n)[d]]

\* A transaction: the fee goes to the collector, then the decorator runs.  If
\* the collector cannot pay, or the bank blocks one of the withdrawers, the
\* transaction is refused.
Transact(fee, execs) ==
  LET payees == IF params.enabled THEN ToPay(execs) ELSE {}
      out == FeeSharePayout(fee, execs)
      have == [d \in Denoms |-> collector[d] + fee[d]]
  IN  /\ txs < MaxTxs
      /\ \A d \in Denoms : out[d] <= have[d]
      /\ \A i \in payees : feeshare[execs[i]].withdrawer \notin Blocked
      /\ collector' = [d \in Denoms |-> have[d] - out[d]]
      /\ txs' = txs + 1
      /\ last' = [fee |-> fee, out |-> out]
      /\ UNCHANGED <<params, registry, admin>>

\* x/distribution takes what the collector holds at the start of a block.
Sweep ==
  /\ collector' = NoCoins
  /\ txs' = 0
  /\ last' = Nothing
  /\ UNCHANGED <<params, registry, admin>>

\* ExportGenesis keeps the parameters and the records; InitGenesis builds the
\* indexes from the records.
Restart ==
  /\ byDeployer' = {<<feeshare[c].deployer, c>> : c \in Registered}
  /\ byWithdrawer' = {<<feeshare[c].withdrawer, c>> : c \in Registered}
  /\ last' = Nothing
  /\ UNCHANGED <<params, feeshare, admin, collector, txs>>

Step ==
  \/ \E c \in Contracts, s \in Addresses, w \in Addresses :
       RegisterFeeShare(c, s, w) \/ UpdateFeeShare(c, s, w)
  \/ \E c \in Contracts, s \in Addresses : CancelFeeShare(c, s)
  \/ \E p \in ParamSets : UpdateParams(p)
  \/ \E c \in Contracts, a \in Admins \cup {NoAdmin} : UpdateAdmin(c, a)
  \/ \E fee \in Fees, execs \in Executions : Transact(fee, execs)
  \/ Restart

Next == Step \/ Sweep

Spec == Init /\ [][Next]_vars

-----------------------------------------------------------------------------
\* The indexes by deployer and by withdrawer list exactly the records: a
\* record that changes hands, is cancelled by an admin who did not register
\* it, or is imported leaves no stale entry and misses none.
IndexesAgree ==
  /\ byDeployer = {<<feeshare[c].deployer, c>> : c \in Registered}
  /\ byWithdrawer = {<<feeshare[c].withdrawer, c>> : c \in Registered}

\* With a share of at most a half and no denom listed twice, a transaction
\* pays out no more than it paid in, for any number of executed contracts,
\* although each part is rounded on its own: the collector never pays from the
\* fees of others.
PaidWithinFee ==
  2 * params.num <= params.den /\ IsInjective(params.allowed)
    => \A d \in Denoms : last.out[d] <= last.fee[d]

\* A record names somebody who did not control the contract only if that is
\* the contract itself: the payout of a factory's contract never goes to an
\* outsider, whatever happens to its admin before the registration.
SelfOrController ==
  [][\A c \in Contracts :
       c \notin Registered /\ c \in DOMAIN feeshare' =>
         \/ feeshare'[c].deployer = Controller(c)
         \/ feeshare'[c] = [deployer |-> c, withdrawer |-> c]]_vars
=============================================================================
