---------------------------- MODULE HashMerchant ----------------------------
(***************************************************************************)
(* x/hashmerchant: validators attach the state root their sidecar reports  *)
(* of a foreign chain to their vote, the next block tallies the roots by   *)
(* voting power, stores the ones that reach the quorum and calls the       *)
(* contracts that have paid for them.  Contracts pay by an escrow that     *)
(* buys prune intervals; the end blocker disables the ones whose escrow    *)
(* has run out.                                                            *)
(*                                                                         *)
(* A block is BeginBlock (the PreBlocker's tally), any number of messages, *)
(* EndBlock; Restart exports the state and starts a chain from it.  A      *)
(* message that fails, with an error or a panic, changes nothing and is    *)
(* not a step.  A hash is the sequence it is computed from.                *)
(***************************************************************************)
EXTENDS Integers, FiniteSets, Sequences, FiniteSetsExt, Functions

CONSTANTS
    Validators,   \* in the order of the commit: a sequence of validators
    Power,        \* the voting power of each
    Chains, Algos, Sources, Contracts, EscrowDenoms,
    Answers,      \* what a sidecar may report
    ChainMsgs,    \* the chains governance may register
    ParamSets,    \* the parameters governance may set
    Payments,     \* escrow payments
    PayerFunds,   \* what the payer owns of each denom at the start
    Word,         \* 2^64, the modulus of the heights
    MaxHeight,    \* bound on the height
    None          \* no record under a key

VARIABLES
    height, phase,
    params,       \* 0x05
    chains,       \* 0x01: chain_uid -> RegisteredChain
    contracts,    \* 0x02: contract -> RegisteredContract
    escrow,       \* 0x03: contract -> EscrowRecord
    roots,        \* 0x04: chain_uid, algo -> HashRoot
    pruneEpoch,   \* 0x06
    sources,      \* 0x06 | chain_uid: the oracle sources in force
    wallet, module,  \* coins of the payer and of the module account
    votes,        \* the vote extensions of the last commit
    confirmed,    \* the roots this block's tally confirmed, with their power
    called,       \* the contracts this block's tally called, with the root
    lapsed        \* contracts that met a block past their paid height

store == <<params, chains, contracts, escrow, roots, pruneEpoch, sources>>
bank == <<wallet, module>>
seen == <<confirmed, called, lapsed>>
hashVars == <<height, phase, store, bank, votes, seen>>

V == Range(Validators)
Keys == Chains \X Algos
Total == SumFunctionOnSet(Power, V)
IsRegistered(c) == contracts[c] # None
Enabled(c) == IsRegistered(c) /\ contracts[c].enabled

(***************************************************************************)
(* Params.Validate; a minimum of zero is a legal parameter.                *)
(***************************************************************************)
ValidParams(p) ==
    /\ p.quorum \in 0..1000
    /\ p.interval > 0
    /\ p.min >= 0

HashInit ==
    /\ height = 0 /\ phase = "commit"
    /\ params \in {p \in ParamSets : ValidParams(p)}
    /\ chains = [u \in Chains |-> None]
    /\ contracts = [c \in Contracts |-> None]
    /\ escrow = [c \in Contracts |-> None]
    /\ roots = [k \in Keys |-> None]
    /\ pruneEpoch = 0
    /\ sources = [u \in Chains |-> {}]
    /\ wallet = [d \in EscrowDenoms |-> PayerFunds]
    /\ module = [d \in EscrowDenoms |-> 0]
    /\ votes = [v \in V |-> None]
    /\ confirmed = {} /\ called = {} /\ lapsed = {}

-----------------------------------------------------------------------------
(***************************************************************************)
(* The vote.  aggregateAttestationRoot hashes the attestations in the      *)
(* order they come; fetchSidecar uses it when the sidecar gives no root.   *)
(***************************************************************************)
aggregateAttestationRoot(atts) == atts

ExtendVote(answer) ==
    IF answer = None THEN None
    ELSE [answer EXCEPT !.root = IF @ = None /\ answer.atts # <<>>
                                 THEN aggregateAttestationRoot(answer.atts)
                                 ELSE @]

(***************************************************************************)
(* verifyOracleAttestations: every attestation is signed by a source in    *)
(* force for the chain.                                                    *)
(***************************************************************************)
verifyOracleAttestations(u, atts) ==
    \A i \in DOMAIN atts : atts[i].source \in sources[u] /\ atts[i].signed

VerifyVoteExtension(x) ==
    \/ x = None
    \/ /\ chains[x.chain] # None
       /\ chains[x.chain].enabled
       /\ verifyOracleAttestations(x.chain, x.atts)

(***************************************************************************)
(* The extended commit proposer p holds: the others' votes it has verified *)
(* and its own, which consensus does not verify.                           *)
(***************************************************************************)
LocalLastCommit(p, ans) ==
    [v \in V |-> LET x == ExtendVote(ans[v])
                 IN IF v = p \/ VerifyVoteExtension(x) THEN x ELSE None]

-----------------------------------------------------------------------------
(***************************************************************************)
(* ProcessVoteExtensions.  The power of validators that sent no extension  *)
(* counts in the total.  The quorum is the truncated product.              *)
(***************************************************************************)
TotalOfVoters == SumFunctionOnSet(Power, {v \in V : votes[v] # None})

TotalPower == Total

QuorumThreshold == (params.quorum * TotalPower) \div 1000

PowerOf(S) == SumFunctionOnSet(Power, S)

Key(v) == <<votes[v].chain, votes[v].algo>>

(***************************************************************************)
(* The tally: a ballot is a key with a root reported for it.               *)
(***************************************************************************)
Ballots == {[key |-> Key(v), root |-> votes[v].root] : v \in {w \in V : votes[w] # None}}

Backers(b) == {v \in V : votes[v] # None /\ Key(v) = b.key /\ votes[v].root = b.root}

Confirmed == {b \in Ballots : PowerOf(Backers(b)) >= QuorumThreshold}

(***************************************************************************)
(* The entry written for a ballot: height and attestations are those of    *)
(* the first vote in the commit.                                           *)
(***************************************************************************)
Representative(b) ==
    votes[Validators[Min({i \in DOMAIN Validators : Validators[i] \in Backers(b)})]]

HashRoot(b) ==
    [root |-> b.root, count |-> Cardinality(Backers(b)),
     height |-> Representative(b).height, atts |-> Representative(b).atts]

(***************************************************************************)
(* dispatchSudoCallbacks; a callback that fails stops no other one.        *)
(***************************************************************************)
DispatchBeforeLast(u, h) ==
    {c \in Contracts : Enabled(c) /\ contracts[c].chain = u /\ escrow[c].paidUntil > h}

dispatchSudoCallbacks(u, h) ==
    {c \in Contracts : /\ Enabled(c)
                       /\ contracts[c].chain = u
                       /\ escrow[c] # None
                       /\ escrow[c].paidUntil >= h}

(***************************************************************************)
(* The confirmed roots are written in the order of a Go map's iteration,   *)
(* so of several under one key any may be the one that stays.              *)
(***************************************************************************)
ProcessVoteExtensions(h) ==
    /\ \E last \in SUBSET Confirmed :
         /\ \A b \in Confirmed : Cardinality({w \in last : w.key = b.key}) = 1
         /\ roots' = [k \in Keys |-> IF \E b \in last : b.key = k
                                     THEN HashRoot(CHOOSE b \in last : b.key = k)
                                     ELSE roots[k]]
    /\ confirmed' = {[key |-> b.key, root |-> b.root, power |-> PowerOf(Backers(b))]
                       : b \in Confirmed}
    /\ called' = UNION {{[contract |-> c, root |-> b.root]
                           : c \in dispatchSudoCallbacks(b.key[1], h)} : b \in Confirmed}

(***************************************************************************)
(* PreBlocker: PrepareProposal has injected the last commit when it holds  *)
(* an extension, and the tally of a commit without one changes nothing.    *)
(* The validators then vote on this block, against the committed state.    *)
(***************************************************************************)
BeginBlock(p, ans) ==
    /\ phase = "commit" /\ height < MaxHeight
    /\ phase' = "deliver"
    /\ height' = height + 1
    /\ ProcessVoteExtensions(height')
    /\ votes' = LocalLastCommit(p, ans)
    /\ lapsed' = lapsed \cup {c \in Contracts : escrow[c] # None
                                               /\ escrow[c].paidUntil < height'}
    /\ UNCHANGED <<params, chains, contracts, escrow, pruneEpoch, sources, bank>>

-----------------------------------------------------------------------------
(***************************************************************************)
(* Messages.  RegisterChain is governance's; it stores the chain with its  *)
(* sources but does not put the sources in force.                          *)
(***************************************************************************)
RegisterChain(u, ch) ==
    /\ phase = "deliver"
    /\ chains[u] = None
    /\ chains' = [chains EXCEPT ![u] = ch]
    /\ UNCHANGED <<height, phase, params, contracts, escrow, roots, pruneEpoch,
                   sources, bank, votes, seen>>

(***************************************************************************)
(* Quo panics on a minimum of zero, so the callers require a positive one. *)
(***************************************************************************)
Bought(amount) == (amount \div params.min) * params.interval

Pay(d, amount) ==
    /\ wallet[d] >= amount
    /\ wallet' = [wallet EXCEPT ![d] = @ - amount]
    /\ module' = [module EXCEPT ![d] = @ + amount]

RegisterContract(c, u, amount) ==
    /\ phase = "deliver"
    /\ chains[u] # None /\ chains[u].enabled
    /\ amount >= params.min /\ params.min > 0
    /\ Pay(params.denom, amount)
    /\ contracts' = [contracts EXCEPT ![c] = [chain |-> u, enabled |-> TRUE]]
    /\ escrow' = [escrow EXCEPT ![c] =
                    [denom |-> params.denom, amount |-> amount,
                     paidUntil |-> (height + Bought(amount)) % Word]]
    /\ lapsed' = lapsed \ {c}
    /\ UNCHANGED <<height, phase, params, chains, roots, pruneEpoch, sources, votes,
                   confirmed, called>>

RefillAnyDenom(c, amount) ==
    /\ phase = "deliver"
    /\ escrow[c] # None /\ params.min > 0
    /\ Pay(params.denom, amount)
    /\ escrow' = [escrow EXCEPT ![c].amount = @ + amount]
    /\ UNCHANGED <<height, phase, params, chains, contracts, roots, pruneEpoch, sources,
                   votes, confirmed, called, lapsed>>

(***************************************************************************)
(* RefillEscrow leaves the contract's enabled flag alone.  Coin.Add panics *)
(* when the record is in a denom that is no longer the escrow denom.       *)
(***************************************************************************)
RefillEscrow(c, amount) ==
    /\ phase = "deliver"
    /\ escrow[c] # None /\ params.min > 0
    /\ escrow[c].denom = params.denom
    /\ Pay(params.denom, amount)
    /\ escrow' = [escrow EXCEPT ![c].amount = @ + amount,
                                ![c].paidUntil = (@ + Bought(amount)) % Word]
    /\ UNCHANGED <<height, phase, params, chains, contracts, roots, pruneEpoch, sources,
                   votes, confirmed, called, lapsed>>

UpdateHashParams(p) ==
    /\ phase = "deliver"
    /\ ValidParams(p) /\ p # params
    /\ params' = p
    /\ UNCHANGED <<height, phase, chains, contracts, escrow, roots, pruneEpoch,
                   sources, bank, votes, seen>>

-----------------------------------------------------------------------------
(***************************************************************************)
(* EndBlocker.  The age of the last prune is an unsigned difference, so an *)
(* epoch ahead of the height is due at once.                               *)
(***************************************************************************)
PruneDueLate == (height - pruneEpoch) % Word > params.interval

PruneDue == (height - pruneEpoch) % Word >= params.interval

Expired(c) == escrow[c] # None /\ escrow[c].paidUntil < height

pruneExpiredEscrows ==
    contracts' = [c \in Contracts |-> IF Expired(c) /\ IsRegistered(c)
                                      THEN [contracts[c] EXCEPT !.enabled = FALSE]
                                      ELSE contracts[c]]

EndBlock ==
    /\ phase = "deliver"
    /\ phase' = "commit"
    /\ \/ /\ PruneDue
          /\ pruneExpiredEscrows
          /\ pruneEpoch' = height
       \/ /\ ~PruneDue
          /\ UNCHANGED <<contracts, pruneEpoch>>
    /\ UNCHANGED <<height, params, chains, escrow, roots, sources, bank, votes, seen>>

(***************************************************************************)
(* ExportGenesis and InitGenesis: the chain goes on at its height, or from *)
(* zero; the votes of the old chain are gone; the sources of every         *)
(* exported chain that lists some are put in force.                        *)
(***************************************************************************)
Restart(h) ==
    /\ phase = "commit"
    /\ h \in {0, height}
    /\ height' = h
    /\ sources' = [u \in Chains |-> IF chains[u] # None THEN chains[u].sources ELSE {}]
    /\ votes' = [v \in V |-> None]
    /\ confirmed' = {} /\ called' = {}
    /\ UNCHANGED <<phase, params, chains, contracts, escrow, roots, pruneEpoch, bank,
                   lapsed>>

HashNext ==
    \/ \E p \in V, ans \in [V -> Answers \cup {None}] : BeginBlock(p, ans)
    \/ \E u \in Chains, ch \in ChainMsgs : RegisterChain(u, ch)
    \/ \E c \in Contracts, u \in Chains, a \in Payments : RegisterContract(c, u, a)
    \/ \E c \in Contracts, a \in Payments : RefillEscrow(c, a)
    \/ \E p \in ParamSets : UpdateHashParams(p)
    \/ EndBlock
    \/ \E h \in {0, height} : Restart(h)

HashSpec == HashInit /\ [][HashNext]_hashVars

(***************************************************************************)
(* What the constants are: votes have natural powers, a report names a     *)
(* chain, escrow is paid in known denoms, and None is no record.           *)
(***************************************************************************)
ConstantsOK ==
    /\ IsFiniteSet(V) /\ IsFiniteSet(Contracts)
    /\ Power \in [V -> Nat]
    /\ Payments \subseteq Nat /\ PayerFunds \in Nat
    /\ MaxHeight \in Nat /\ Word \in Nat \ {0}
    /\ \A p \in ParamSets : /\ p.quorum \in Nat /\ p.interval \in Nat /\ p.min \in Nat
                             /\ p.denom \in EscrowDenoms
    /\ \A x \in Answers : /\ x = [f \in {"chain", "algo", "root", "height", "atts"} |-> x[f]]
                           /\ x.chain \in Chains
    /\ None \notin [chain : Chains, enabled : BOOLEAN]
    /\ None \notin [denom : EscrowDenoms, amount : Nat, paidUntil : Nat]

(***************************************************************************)
(* No height a contract can pay for overflows: the longest interval, times *)
(* all the payer owns, from the last height on, fits into 64 bits.         *)
(***************************************************************************)
HeightsFit ==
    \E q \in ParamSets : /\ \A p \in ParamSets : p.interval <= q.interval
                         /\ MaxHeight + (PayerFunds + 1) * q.interval < Word

-----------------------------------------------------------------------------
(***************************************************************************)
(* The module account holds at least what the escrow records say was paid  *)
(* in each denom, across registrations, refills, re-registrations and a    *)
(* change of the escrow denom (RegisterContract, RefillEscrow).            *)
(***************************************************************************)
Paid(c, d) == IF escrow[c] # None /\ escrow[c].denom = d THEN escrow[c].amount ELSE 0

EscrowBacked ==
    \A d \in EscrowDenoms : module[d] >= SumFunction([c \in Contracts |-> Paid(c, d)])

(***************************************************************************)
(* Every stored root is of a chain governance has registered and enabled,  *)
(* though the tally checks neither: VerifyVoteExtension has, except for    *)
(* the proposer's own vote, and one vote is no quorum under any parameters *)
(* governance may set.                                                     *)
(***************************************************************************)
RootsOfEnabledChains ==
    (\A p \in ParamSets, v \in V : Power[v] < (p.quorum * Total) \div 1000) =>
        \A b \in confirmed : chains[b.key[1]] # None /\ chains[b.key[1]].enabled

(***************************************************************************)
(* While the truncated quorum is more than half of all power, a block      *)
(* confirms one root per chain and algorithm, so the order in which        *)
(* ProcessVoteExtensions walks its map cannot make replicas differ.        *)
(***************************************************************************)
OneRootPerKey ==
    (phase = "deliver" /\ \A p \in ParamSets : 2 * ((p.quorum * Total) \div 1000) > Total) =>
        \A a, b \in confirmed : a.key = b.key => a.root = b.root

(***************************************************************************)
(* A block confirms at most one root per key, so the map order of          *)
(* ProcessVoteExtensions does not show while the quorum is above one half, *)
(* and only of chains that governance enabled, although the tally checks   *)
(* neither.                                                                *)
(***************************************************************************)
RootsAgreed == OneRootPerKey /\ RootsOfEnabledChains

(***************************************************************************)
(* A contract stays enabled for less than one prune interval beyond the    *)
(* height it has paid for: the end blocker's prune finds it, whatever      *)
(* governance does to the interval and wherever the chain was restarted.   *)
(***************************************************************************)
DisabledWithinInterval ==
    phase = "commit" => \A c \in Contracts :
        Enabled(c) => height < escrow[c].paidUntil + params.interval

(***************************************************************************)
(* A contract that has met no block past its paid height since it was last *)
(* registered is called with every root confirmed for its chain: neither   *)
(* dispatchSudoCallbacks nor pruneExpiredEscrows cuts its term short.      *)
(***************************************************************************)
ServedWhilePaid ==
    [][ height' = height + 1 =>
          \A c \in Contracts \ lapsed', b \in confirmed' :
             IsRegistered(c) /\ contracts[c].chain = b.key[1] =>
                 [contract |-> c, root |-> b.root] \in called' ]_hashVars
=============================================================================
