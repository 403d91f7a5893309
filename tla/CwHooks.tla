------------------------------- MODULE CwHooks -------------------------------
(***************************************************************************)
(* x/cw-hooks: contracts registered for staking or for governance events   *)
(* are called (sudo) by the hooks of x/staking and x/gov.                  *)
(*                                                                         *)
(* A registered contract is modelled by a copy of the delegations, kept    *)
(* the way the module's documentation proposes: it writes down the shares  *)
(* an AfterDelegationModified event carries and forgets a delegator on     *)
(* BeforeDelegationRemoved.  How it answers a call is the environment's    *)
(* choice: it accepts, or it fails, by an error of its own or for want of  *)
(* the gas the module grants.                                              *)
(* x/staking, x/gov and x/wasm are external.                               *)
(***************************************************************************)
EXTENDS Integers, Sequences, FiniteSets

CONSTANTS
  Delegators, \* users: they delegate and sign
  Order,      \* the contracts, in the order of their addresses
  CreatorOf,  \* [Subscribers -> Delegators]
  MaxShares,  \* bound on a delegation
  MaxHeight   \* bound on the height

Kinds == {"staking", "gov"}
Subscribers == {Order[i] : i \in DOMAIN Order}
Answers == {"ok", "err"}
NoCwAdmin == "none"
skipUntilHeight == 2

\* The store's keys are the addresses: a contract has one place in the list.
ASSUME HooksAssumption ==
  /\ DOMAIN Order \subseteq Int
  /\ \A i, j \in DOMAIN Order : Order[i] = Order[j] => i = j

VARIABLES
  registered,  \* [Kinds -> SUBSET Subscribers]
  cwAdmin,     \* [Subscribers -> Delegators \cup {NoCwAdmin}] (wasm)
  height,
  shares,      \* [Delegators -> Nat]: delegations to one validator (staking)
  copy,        \* [Subscribers -> [Delegators -> Nat]]
  exact,       \* contracts registered after the skipped heights of this chain
  event        \* the last event: its kind and the contracts that accepted it

hookVars == <<registered, cwAdmin, height, shares, copy, exact, event>>

Idle == [kind |-> "none", heard |-> {}]

HooksInit ==
  /\ registered = [k \in Kinds |-> {}]
  /\ cwAdmin \in [Subscribers -> Delegators \cup {NoCwAdmin}]
  /\ height = 1
  /\ shares = [u \in Delegators |-> 0]
  /\ copy = [c \in Subscribers |-> [u \in Delegators |-> 0]]
  /\ exact = {}
  /\ event = Idle

-----------------------------------------------------------------------------
\* isContractSenderAuthorized
Authorized(sender, c) ==
  /\ sender = CreatorOf[c]
  /\ cwAdmin[c] # NoCwAdmin => sender = cwAdmin[c]

\* RegisterStaking and RegisterGovernance.  A contract starts with a copy of
\* the delegations it has queried.
handleContractRegister(k, sender, c) ==
  /\ c \notin registered[k]
  /\ Authorized(sender, c)
  /\ registered' = [registered EXCEPT ![k] = @ \cup {c}]
  /\ copy' = IF k = "staking" THEN [copy EXCEPT ![c] = shares] ELSE copy
  /\ exact' = IF k = "staking" /\ height > skipUntilHeight THEN exact \cup {c} ELSE exact
  /\ event' = Idle
  /\ UNCHANGED <<cwAdmin, height, shares>>

\* UnregisterStaking and UnregisterGovernance.
handleContractRemoval(k, sender, c) ==
  /\ c \in registered[k]
  /\ Authorized(sender, c)
  /\ registered' = [registered EXCEPT ![k] = @ \ {c}]
  /\ exact' = IF k = "staking" THEN exact \ {c} ELSE exact
  /\ event' = Idle
  /\ UNCHANGED <<cwAdmin, height, shares, copy>>

\* wasm MsgUpdateAdmin and MsgClearAdmin.
UpdateCwAdmin(c, a) ==
  /\ cwAdmin[c] # NoCwAdmin
  /\ cwAdmin' = [cwAdmin EXCEPT ![c] = a]
  /\ event' = Idle
  /\ UNCHANGED <<registered, height, shares, copy, exact>>

-----------------------------------------------------------------------------
\* GetAllContracts lists the registered contracts by address.  They are called
\* in that order until one does not accept, which is an error; the ones before
\* it have accepted the event.
ExecuteMessageOnContracts(k, ans) ==
  LET listed == {i \in DOMAIN Order : Order[i] \in registered[k]}
      bad == {i \in listed : ans[Order[i]] # "ok"}
  IN  [heard |-> {Order[i] : i \in {j \in listed : \A b \in bad : j < b}},
       err |-> IF bad = {} THEN "ok" ELSE "err"]

Quiet == [heard |-> {}, err |-> "ok"]

\* The first height after the skipped ones is skipped too.
StakingHookLate(present, ans) ==
  IF height <= skipUntilHeight + 1 \/ ~present THEN Quiet
  ELSE ExecuteMessageOnContracts("staking", ans)

\* The body all staking hooks share: nothing at the first heights, nothing
\* if the keeper has no record, else the event; the error is returned.
StakingHook(present, ans) ==
  IF height <= skipUntilHeight \/ ~present THEN Quiet
  ELSE ExecuteMessageOnContracts("staking", ans)

\* The body of the governance hooks: an error is printed and dropped.
GovHook(ans) == ExecuteMessageOnContracts("gov", ans).heard

\* A delegation or undelegation takes the user from shares[u] to
\* new shares.  The first hook, BeforeDelegationCreated or
\* BeforeDelegationSharesModified, comes before the change; the second is
\* AfterDelegationModified, or BeforeDelegationRemoved while the record is
\* still there.  An error of either undoes the operation, the contracts'
\* writes included.
Delegate(u, new, ans) ==
  LET first == StakingHook(shares[u] > 0, ans)
      second == IF first.err = "ok" THEN StakingHook(TRUE, ans) ELSE Quiet
      took == first.err = "ok" /\ second.err = "ok"
  IN  /\ new # shares[u]
      /\ shares' = IF took THEN [shares EXCEPT ![u] = new] ELSE shares
      /\ copy' = [c \in Subscribers |-> IF took /\ c \in second.heard
                                      THEN [copy[c] EXCEPT ![u] = new] ELSE copy[c]]
      /\ event' = [kind |-> "staking", heard |-> second.heard]
      /\ UNCHANGED <<registered, cwAdmin, height, exact>>

\* An operation on the validator, announced by one hook, which tells the
\* contracts nothing about delegations.
ValidatorOp(present, ans) ==
  /\ event' = [kind |-> "staking", heard |-> StakingHook(present, ans).heard]
  /\ UNCHANGED <<registered, cwAdmin, height, shares, copy, exact>>

\* A proposal, a deposit, a vote or the end of a voting period.
GovOp(ans) ==
  /\ event' = [kind |-> "gov", heard |-> GovHook(ans)]
  /\ UNCHANGED <<registered, cwAdmin, height, shares, copy, exact>>

NextBlock ==
  /\ height < MaxHeight
  /\ height' = height + 1
  /\ event' = Idle
  /\ UNCHANGED <<registered, cwAdmin, shares, copy, exact>>

\* ExportGenesis and InitGenesis keep both lists; the new chain starts at the
\* first height.
HooksRestart ==
  /\ height' = 1
  /\ exact' = {}
  /\ event' = Idle
  /\ UNCHANGED <<registered, cwAdmin, shares, copy>>

HooksNext ==
  \/ \E k \in Kinds, s \in Delegators, c \in Subscribers :
       handleContractRegister(k, s, c) \/ handleContractRemoval(k, s, c)
  \/ \E c \in Subscribers, a \in Delegators \cup {NoCwAdmin} : UpdateCwAdmin(c, a)
  \/ \E ans \in [Subscribers -> Answers] :
       \/ \E u \in Delegators, new \in 0 .. MaxShares : Delegate(u, new, ans)
       \/ \E present \in BOOLEAN : ValidatorOp(present, ans)
       \/ GovOp(ans)
  \/ NextBlock
  \/ HooksRestart

HooksSpec == HooksInit /\ [][HooksNext]_hookVars

-----------------------------------------------------------------------------
\* A contract registered after the skipped heights keeps an exact copy of the
\* delegations for as long as it is registered: a contract that fails, before
\* or after it in the list, makes the whole operation fail rather than let
\* some contracts miss it.
CopiesAgree == \A c \in exact : copy[c] = shares

\* Of two contracts registered for a kind of event, the one with the larger
\* address never hears of what the other one missed: ExecuteMessageOnContracts
\* stops at the first that does not accept, for events whose error the hook
\* drops too.
HeardInOrder ==
  event.kind \in Kinds =>
    \A i, j \in DOMAIN Order :
      i < j /\ Order[j] \in event.heard /\ Order[i] \in registered[event.kind]
        => Order[i] \in event.heard

\* The contracts a staking event is for agree with x/staking and with each
\* other: the two above together.
SubscribersAgree == CopiesAgree /\ HeardInOrder
=============================================================================
