------------------------------ MODULE MCTokens ------------------------------
(***************************************************************************)
(* TokenFactory and HashMerchant on small instances, in one specification. *)
(* The two modules share no state, so a behaviour here is one of a single  *)
(* component, which the first state picks; the other one stays as it       *)
(* began.  HashMerchant runs in two environments.  In "escrow" two         *)
(* contracts pay under changing parameters, and the validators agree.  In  *)
(* "votes" no contract pays, and three validators vote as they like on two *)
(* roots of a chain.                                                       *)
(***************************************************************************)
EXTENDS TokenFactory, HashMerchant

CONSTANTS v1, v2, v3

VARIABLE component

Mc_Accounts   == {"alice", "gov"}
Mc_Subdenoms  == {"gold"}
Mc_Validators == <<v1, v2, v3>>
Mc_Power      == [v \in {v1, v2, v3} |-> 1]

\* Registrations governance may pass: with a source, disabled.
Mc_ChainMsgs == {[enabled |-> TRUE, sources |-> {"s1"}], [enabled |-> FALSE, sources |-> {}]}

Report(r, atts) ==
    [chain |-> "eth", algo |-> "keccak256", root |-> r, height |-> 1, atts |-> atts]

\* Two roots of one chain, one of them attested.
Mc_Answers == {Report("r1", <<>>), Report("r2", <<[source |-> "s1", signed |-> TRUE]>>)}

\* Longer intervals, a dearer period, another denom, a minimum of zero.
Params(n, d, m) == [quorum |-> 667, interval |-> n, denom |-> d, min |-> m]
Mc_ParamSets == {Params(1, "uterp", 1), Params(3, "uterp", 2), Params(2, "uthiol", 1), Params(1, "uterp", 0)}

ASSUME HashMerchantAssumption == ConstantsOK /\ HeightsFit

-----------------------------------------------------------------------------
\* The validators agree on a root, or have none.
Unanimous == {[v \in V |-> a] : a \in {Report("r1", <<>>), None}}

EscrowNext ==
    \/ \E ans \in Unanimous : BeginBlock(v1, ans)
    \/ \E u \in Chains, ch \in ChainMsgs : ch.enabled /\ RegisterChain(u, ch)
    \/ \E c \in Contracts, u \in Chains, a \in Payments : RegisterContract(c, u, a)
    \/ \E c \in Contracts, a \in Payments : RefillEscrow(c, a)
    \/ \E p \in ParamSets : UpdateHashParams(p)
    \/ EndBlock
    \/ \E h \in {0, height} : Restart(h)

\* Bound on the heights of "votes".
VotesHeight == 3

VotesNext ==
    \/ height < VotesHeight /\ \E p \in V, ans \in [V -> Answers \cup {None}] : BeginBlock(p, ans)
    \/ \E u \in Chains, ch \in ChainMsgs : RegisterChain(u, ch)
    \/ EndBlock
    \/ \E h \in {0, height} : Restart(h)

TokensInit ==
    /\ component \in {"tokenfactory", "escrow", "votes"}
    /\ Init
    /\ component # "tokenfactory" => Registered = {} /\ fee = 0
    /\ HashInit
    /\ component = "tokenfactory" => params = Params(1, "uterp", 1)
    /\ component = "votes" => params = Params(2, "uthiol", 1)

TokensNext ==
    /\ \/ component = "tokenfactory" /\ Next /\ UNCHANGED hashVars
       \/ component = "escrow" /\ EscrowNext /\ UNCHANGED vars
       \/ component = "votes" /\ VotesNext /\ UNCHANGED vars
    /\ UNCHANGED component

TokensSpec == TokensInit /\ [][TokensNext]_<<vars, hashVars, component>>
=============================================================================
