-------------------------------- MODULE Drip --------------------------------
(***************************************************************************)
(* x/drip beside x/feeshare.  Accounts that governance allows send coins   *)
(* to the fee collector, from where x/distribution pays them to stakers.   *)
(* The collector is the account from which the feeshare decorator pays     *)
(* contract developers, so the two modules meet in its balance.            *)
(***************************************************************************)
EXTENDS FeeShare

CONSTANTS
  DripSets,    \* parameters governance may choose: [enabled, allowed]
  Drips,       \* amounts of MsgDistributeTokens: [Denoms -> Nat]
  Purse        \* [Denoms -> Nat]: what each user has at the start

ASSUME DripAssumption ==
  /\ \A p \in DripSets : p.enabled \in BOOLEAN /\ p.allowed \subseteq Users
  /\ Drips \subseteq [Denoms -> Nat]
  /\ Purse \in [Denoms -> Nat]

VARIABLES
  drip,     \* the parameters of x/drip
  purse,    \* [Users -> [Denoms -> Nat]]
  dripped,  \* [Denoms -> Nat]: coins dripped since the last sweep
  modest    \* since the last sweep the developers' share has been at most a
            \* half, with no denom listed twice

dripVars == <<drip, purse, dripped, modest>>

Modest(p) == 2 * p.num <= p.den /\ IsInjective(p.allowed)

DripInit ==
  /\ Init
  /\ drip \in DripSets
  /\ purse = [u \in Users |-> Purse]
  /\ dripped = NoCoins
  /\ modest = Modest(params)

DistributeTokens(u, amt) ==
  /\ amt # NoCoins
  /\ drip.enabled
  /\ u \in drip.allowed
  /\ \A d \in Denoms : amt[d] <= purse[u][d]
  /\ purse' = [purse EXCEPT ![u] = [d \in Denoms |-> @[d] - amt[d]]]
  /\ collector' = [d \in Denoms |-> collector[d] + amt[d]]
  /\ dripped' = [d \in Denoms |-> dripped[d] + amt[d]]
  /\ last' = Nothing
  /\ UNCHANGED <<params, registry, admin, txs, drip, modest>>

\* MsgUpdateParams of x/drip, from the governance account.
UpdateDripParams(p) ==
  /\ p # drip
  /\ drip' = p
  /\ last' = Nothing
  /\ UNCHANGED <<params, registry, admin, collector, txs, purse, dripped, modest>>

\* A step of x/feeshare that is not the sweep.
FeeShareStep ==
  /\ Step
  /\ modest' = (modest /\ Modest(params'))
  /\ UNCHANGED <<drip, purse, dripped>>

\* The sweep takes the dripped coins with the rest.
SweepDrips ==
  /\ Sweep
  /\ dripped' = NoCoins
  /\ modest' = Modest(params)
  /\ UNCHANGED <<drip, purse>>

DripNext ==
  \/ FeeShareStep
  \/ \E u \in Users, amt \in Drips : DistributeTokens(u, amt)
  \/ \E p \in DripSets : UpdateDripParams(p)
  \/ SweepDrips

DripSpec == DripInit /\ [][DripNext]_<<vars, dripVars>>

-----------------------------------------------------------------------------
\* What is dripped reaches the stakers: DistributeTokens puts coins into the
\* account from which the feeshare decorator pays developers, and no sequence
\* of payouts between two sweeps takes any of them, if the developers' share
\* was at most a half all the while.
DripsReachStakers == modest => \A d \in Denoms : dripped[d] <= collector[d]
=============================================================================
