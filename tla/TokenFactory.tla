----------------------------- MODULE TokenFactory -----------------------------
(***************************************************************************)
(* x/tokenfactory with the part of x/bank it uses: denoms of the form      *)
(* factory/{creator}/{subdenom}, their admins, the index by creator, the   *)
(* bank's metadata, balances and supply, the creation fee, and a chain     *)
(* restarted from its own exported genesis.                                *)
(*                                                                         *)
(* A message runs in a transaction: one that fails changes nothing.        *)
(* Messages reach the server only after their ValidateBasic passed.        *)
(***************************************************************************)
EXTENDS Integers, FiniteSets, Functions

CONSTANTS Accounts,     \* addresses that sign messages, the gov account among them
          Subdenoms,
          Gov,          \* the x/gov module account, not blocked by the bank
          Funds,        \* native coins of each account at genesis
          DefaultFee,   \* DefaultParams().DenomCreationFee
          Amounts,      \* amounts of a message
          MaxSupply     \* bound: no denom is minted beyond it

NoAddr      == ""
ModuleAcc   == "tokenfactory"
Pool        == "distribution"
Blocked     == {ModuleAcc, Pool}
Addrs       == Accounts \cup Blocked
Denoms      == Accounts \X Subdenoms
Creator(d)  == d[1]
MetaKinds   == {"none", "default", "custom"}

ASSUME TokenFactoryAssumption ==
    /\ NoAddr \notin Accounts /\ ModuleAcc \notin Accounts /\ Pool \notin Accounts
    /\ Gov \in Accounts /\ IsFiniteSet(Accounts)
    /\ Amounts \subseteq Nat \ {0}
    /\ Funds \in Nat /\ DefaultFee \in Nat /\ MaxSupply \in Nat

VARIABLES admin,      \* DenomAuthorityMetadata of each denom
          creators,   \* CreatorPrefixStore: denoms listed under each creator
          meta,       \* bank metadata
          bal,        \* bank balances of factory denoms
          supply,     \* bank supply of factory denoms
          coins,      \* bank balances of the fee denom
          fee,        \* Params.DenomCreationFee
          last        \* the sender of the last message

vars == <<admin, creators, meta, bal, supply, coins, fee, last>>

Registered == UNION {creators[c] : c \in Accounts}

From(s) == last' = s

-----------------------------------------------------------------------------
(* Genesis.  gen maps the listed denoms to their admins.                   *)

Geneses == UNION {[D -> Accounts \cup {NoAddr}] : D \in SUBSET Denoms}

(* Mutant: a listed denom is indexed under its admin.                      *)
GenesisCreatorsByAdmin(gen) == [c \in Accounts |-> {d \in DOMAIN gen : gen[d] = c}]

GenesisAdmin(gen)    == [d \in Denoms |-> IF d \in DOMAIN gen THEN gen[d] ELSE NoAddr]
GenesisCreators(gen) == [c \in Accounts |-> {d \in DOMAIN gen : Creator(d) = c}]

(* createDenomAfterValidation writes the plain metadata of a listed denom  *)
(* over what the bank's own genesis brought.                               *)
GenesisMeta(gen, m)  == [d \in Denoms |-> IF d \in DOMAIN gen THEN "default" ELSE m[d]]

Init ==
    /\ \E gen \in Geneses :
          /\ admin = GenesisAdmin(gen)
          /\ creators = GenesisCreators(gen)
          /\ meta = GenesisMeta(gen, [d \in Denoms |-> "none"])
    /\ bal = [a \in Addrs |-> [d \in Denoms |-> 0]]
    /\ supply = [d \in Denoms |-> 0]
    /\ coins = [a \in Addrs |-> IF a \in Accounts THEN Funds ELSE 0]
    /\ fee \in {0, DefaultFee}
    /\ last = NoAddr

ExportGenesis == [d \in Registered |-> admin[d]]

(* ExportAppStateAndValidators sets the default parameters before it       *)
(* exports; the new chain runs bank's and then tokenfactory's InitGenesis. *)
Reimport ==
    /\ admin' = GenesisAdmin(ExportGenesis)
    /\ creators' = GenesisCreators(ExportGenesis)
    /\ meta' = GenesisMeta(ExportGenesis, meta)
    /\ fee' = DefaultFee
    /\ From(NoAddr)
    /\ UNCHANGED <<bal, supply, coins>>

-----------------------------------------------------------------------------
(* The bank.                                                               *)

Credit(b, a, d, n)       == [b EXCEPT ![a][d] = @ + n]
SendCoins(b, f, t, d, n) == Credit(Credit(b, f, d, -n), t, d, n)

BankSend(s, to, d, n) ==
    LET ok == to \notin Blocked /\ bal[s][d] >= n
    IN  /\ bal' = IF ok THEN SendCoins(bal, s, to, d, n) ELSE bal
        /\ From(s)
        /\ UNCHANGED <<admin, creators, meta, supply, coins, fee>>

-----------------------------------------------------------------------------
(* The messages.                                                           *)

CreateDenom(s, sub) ==
    LET d  == <<s, sub>>
        ok == meta[d] = "none" /\ coins[s] >= fee
    IN  /\ IF ok
           THEN /\ coins' = [coins EXCEPT ![s] = @ - fee, ![Pool] = @ + fee]
                /\ meta' = [meta EXCEPT ![d] = "default"]
                /\ admin' = [admin EXCEPT ![d] = s]
                /\ creators' = [creators EXCEPT ![s] = @ \cup {d}]
           ELSE UNCHANGED <<coins, meta, admin, creators>>
        /\ From(s)
        /\ UNCHANGED <<bal, supply, fee>>

(* Mutant: a creator keeps the rights of an admin.                         *)
IsAdminOrCreator(s, d) == s = admin[d] \/ s = Creator(d)

(* GetAuthorityMetadata answers the empty admin for a denom never created. *)
IsAdmin(s, d) == s = admin[d]

(* Coins are minted to the module account and sent on from there.          *)
mintTo(b, d, n, to) == SendCoins(Credit(b, ModuleAcc, d, n), ModuleAcc, to, d, n)

(* Mutant: the mint stays when the transfer to a blocked address fails.    *)
MintUnreverted(s, d, n, to) ==
    LET ok == meta[d] # "none" /\ IsAdmin(s, d)
    IN  /\ supply[d] + n <= MaxSupply
        /\ bal' = IF ~ok THEN bal
                  ELSE IF to \in Blocked THEN Credit(bal, ModuleAcc, d, n)
                  ELSE mintTo(bal, d, n, to)
        /\ supply' = IF ok THEN [supply EXCEPT ![d] = @ + n] ELSE supply
        /\ From(s)
        /\ UNCHANGED <<admin, creators, meta, coins, fee>>

Mint(s, d, n, to) ==
    LET ok == meta[d] # "none" /\ IsAdmin(s, d) /\ to \notin Blocked
    IN  /\ supply[d] + n <= MaxSupply
        /\ bal' = IF ok THEN mintTo(bal, d, n, to) ELSE bal
        /\ supply' = IF ok THEN [supply EXCEPT ![d] = @ + n] ELSE supply
        /\ From(s)
        /\ UNCHANGED <<admin, creators, meta, coins, fee>>

(* Coins are sent to the module account and burnt there.                   *)
burnFrom(b, d, n, from) == Credit(SendCoins(b, from, ModuleAcc, d, n), ModuleAcc, d, -n)

(* EnableBurnFrom and the other capabilities are on: the list is empty.    *)
Burn(s, d, n, from) ==
    LET ok == IsAdmin(s, d) /\ from \notin Blocked /\ bal[from][d] >= n
    IN  /\ bal' = IF ok THEN burnFrom(bal, d, n, from) ELSE bal
        /\ supply' = IF ok THEN [supply EXCEPT ![d] = @ - n] ELSE supply
        /\ From(s)
        /\ UNCHANGED <<admin, creators, meta, coins, fee>>

ForceTransfer(s, d, n, from, to) ==
    LET ok == IsAdmin(s, d) /\ to \notin Blocked /\ bal[from][d] >= n
    IN  /\ bal' = IF ok THEN SendCoins(bal, from, to, d, n) ELSE bal
        /\ From(s)
        /\ UNCHANGED <<admin, creators, meta, supply, coins, fee>>

(* ValidateBasic refuses an empty NewAdmin.                                *)
ChangeAdmin(s, d, new) ==
    LET ok == IsAdmin(s, d) /\ new # NoAddr
    IN  /\ admin' = IF ok THEN [admin EXCEPT ![d] = new] ELSE admin
        /\ From(s)
        /\ UNCHANGED <<creators, meta, bal, supply, coins, fee>>

SetDenomMetadata(s, d) ==
    LET ok == IsAdmin(s, d)
    IN  /\ meta' = IF ok THEN [meta EXCEPT ![d] = "custom"] ELSE meta
        /\ From(s)
        /\ UNCHANGED <<admin, creators, bal, supply, coins, fee>>

(* NewKeeper leaves Keeper.authority empty.                                *)
authority == NoAddr

UpdateParams(s, f) ==
    LET ok == s = authority
    IN  /\ fee' = IF ok THEN f ELSE fee
        /\ From(s)
        /\ UNCHANGED <<admin, creators, meta, bal, supply, coins>>

Next ==
    \/ Reimport
    \/ \E s \in Accounts :
          \/ \E sub \in Subdenoms : CreateDenom(s, sub)
          \/ \E f \in {0, DefaultFee} : UpdateParams(s, f)
          \/ \E d \in Denoms :
                \/ SetDenomMetadata(s, d)
                \/ \E new \in Accounts \cup {NoAddr} : ChangeAdmin(s, d, new)
                \/ \E n \in Amounts, a \in Addrs :
                      \/ Mint(s, d, n, a)
                      \/ Burn(s, d, n, a)
                      \/ BankSend(s, a, d, n)
                      \/ \E to \in Addrs : ForceTransfer(s, d, n, a, to)

Spec == Init /\ [][Next]_vars

-----------------------------------------------------------------------------
(* Properties.                                                             *)

(* keeper.go:96: "This account isn't intended to store any coins, it       *)
(* purely mints and burns them": between messages the module account holds *)
(* no factory coin.                                                        *)
ModuleAccountEmpty == \A d \in Denoms : bal[ModuleAcc][d] = 0

(* Mint and burn pass through the module account, and the bank's supply    *)
(* counts exactly what accounts hold, whichever step of a message fails:   *)
(* nothing stays in the module account and no balance is negative.         *)
SupplyBacked ==
    /\ ModuleAccountEmpty
    /\ \A d \in Denoms :
         /\ \A a \in Addrs : bal[a][d] >= 0
         /\ supply[d] = SumFunction([a \in Addrs |-> bal[a][d]])

(* The three records of a denom agree, across exports: it is listed under  *)
(* the creator in its name exactly when the bank has metadata for it (what *)
(* validateCreateDenom looks at), and only such denoms have an admin.      *)
RegistryAgrees ==
    /\ \A d \in Denoms : meta[d] # "none" <=> d \in creators[Creator(d)]
    /\ \A c \in Accounts : \A d \in creators[c] : Creator(d) = c
    /\ \A d \in Denoms : admin[d] # NoAddr => d \in creators[Creator(d)]

(* README.md:18 of the module: an empty admin means "no account has admin  *)
(* privileges of the asset".  A registered denom without an admin gets     *)
(* none again, not by a second CreateDenom of its creator and not by an    *)
(* export, and its supply stays what it is.                                *)
OrphanFrozen ==
    [][\A d \in Registered : admin[d] = NoAddr =>
          admin'[d] = NoAddr /\ supply'[d] = supply[d]]_vars

(* Whatever the message, an account's coins of a denom shrink only by its  *)
(* own message or by one of the denom's admin of that moment, and supply   *)
(* changes only by the latter.                                             *)
OnlyAdminOrOwner ==
    [][\A d \in Denoms :
          /\ supply'[d] # supply[d] => last' = admin[d]
          /\ \A a \in Addrs :
                bal'[a][d] < bal[a][d] => last' \in {a, admin[d]}]_vars

(* The rights over a denom are its admin's and each owner's, and nobody's  *)
(* once it has no admin: the two above together.                           *)
AdminRights == OnlyAdminOrOwner /\ OrphanFrozen
=============================================================================
