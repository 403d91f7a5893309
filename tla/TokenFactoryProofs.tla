------------------------- MODULE TokenFactoryProofs -------------------------
(***************************************************************************)
(* Proofs about TokenFactory for any number of accounts and subdenoms: the *)
(* records of a denom agree, the module account is empty between messages, *)
(* the supply is the sum of the balances, a denom without an admin stays   *)
(* as it is, and only an owner or an admin moves coins.                    *)
(***************************************************************************)
EXTENDS TokenFactory, SumProofs

\* The types the proofs rest on.  Balances are integers here: that they are
\* not negative is not needed.
Balances == [Addrs -> [Denoms -> Int]]
Shape ==
  /\ admin \in [Denoms -> Accounts \cup {NoAddr}]
  /\ creators \in [Accounts -> SUBSET Denoms]
  /\ meta \in [Denoms -> MetaKinds]
  /\ bal \in Balances
  /\ supply \in [Denoms -> Int]

-----------------------------------------------------------------------------
\* What a credit does to the balances: one entry changes.
LEMMA CreditEffect ==
  ASSUME NEW b \in Balances, NEW a \in Addrs, NEW d \in Denoms, NEW n \in Int
  PROVE  /\ Credit(b, a, d, n) \in Balances
         /\ \A x \in Addrs, e \in Denoms :
              Credit(b, a, d, n)[x][e] = IF x = a /\ e = d THEN b[x][e] + n ELSE b[x][e]
BY DEF Credit, Balances

\* What SendCoins does: the sender's entry shrinks, then the receiver's grows.
LEMMA SendEffect ==
  ASSUME NEW b \in Balances, NEW f \in Addrs, NEW t \in Addrs, NEW d \in Denoms, NEW n \in Int
  PROVE  /\ SendCoins(b, f, t, d, n) \in Balances
         /\ \A x \in Addrs, e \in Denoms :
              SendCoins(b, f, t, d, n)[x][e] =
                b[x][e] - (IF x = f /\ e = d THEN n ELSE 0) + (IF x = t /\ e = d THEN n ELSE 0)
<1> DEFINE c == Credit(b, f, d, -n)
<1>1. c \in Balances /\ \A x \in Addrs, e \in Denoms :
        c[x][e] = IF x = f /\ e = d THEN b[x][e] + (-n) ELSE b[x][e]
  BY CreditEffect
<1>2. SendCoins(b, f, t, d, n) = Credit(c, t, d, n)
  BY DEF SendCoins
<1>3. \A x \in Addrs, e \in Denoms : b[x][e] \in Int
  BY DEF Balances
<1> HIDE DEF c
<1>4. /\ Credit(c, t, d, n) \in Balances
      /\ \A x \in Addrs, e \in Denoms :
           Credit(c, t, d, n)[x][e] = IF x = t /\ e = d THEN c[x][e] + n ELSE c[x][e]
  BY <1>1, CreditEffect
<1> QED BY <1>1, <1>2, <1>3, <1>4

\* Minting adds to the receiver alone: the module account gives on what it got.
LEMMA MintEffect ==
  ASSUME NEW b \in Balances, NEW d \in Denoms, NEW n \in Int, NEW t \in Addrs
  PROVE  /\ mintTo(b, d, n, t) \in Balances
         /\ \A x \in Addrs, e \in Denoms :
              mintTo(b, d, n, t)[x][e] = b[x][e] + (IF x = t /\ e = d THEN n ELSE 0)
<1> DEFINE c == Credit(b, ModuleAcc, d, n)
<1>0. ModuleAcc \in Addrs
  BY DEF Addrs, Blocked
<1>1. c \in Balances /\ \A x \in Addrs, e \in Denoms :
        c[x][e] = IF x = ModuleAcc /\ e = d THEN b[x][e] + n ELSE b[x][e]
  BY <1>0, CreditEffect
<1>2. mintTo(b, d, n, t) = SendCoins(c, ModuleAcc, t, d, n)
  BY DEF mintTo
<1>3. \A x \in Addrs, e \in Denoms : b[x][e] \in Int
  BY DEF Balances
<1> HIDE DEF c
<1>4. /\ SendCoins(c, ModuleAcc, t, d, n) \in Balances
      /\ \A x \in Addrs, e \in Denoms :
           SendCoins(c, ModuleAcc, t, d, n)[x][e] =
             c[x][e] - (IF x = ModuleAcc /\ e = d THEN n ELSE 0) + (IF x = t /\ e = d THEN n ELSE 0)
  BY <1>0, <1>1, SendEffect
<1> QED BY <1>1, <1>2, <1>3, <1>4

\* Burning takes from the holder alone.
LEMMA BurnEffect ==
  ASSUME NEW b \in Balances, NEW d \in Denoms, NEW n \in Int, NEW f \in Addrs
  PROVE  /\ burnFrom(b, d, n, f) \in Balances
         /\ \A x \in Addrs, e \in Denoms :
              burnFrom(b, d, n, f)[x][e] = b[x][e] - (IF x = f /\ e = d THEN n ELSE 0)
<1> DEFINE c == SendCoins(b, f, ModuleAcc, d, n)
<1>0. ModuleAcc \in Addrs
  BY DEF Addrs, Blocked
<1>1. /\ c \in Balances
      /\ \A x \in Addrs, e \in Denoms :
           c[x][e] = b[x][e] - (IF x = f /\ e = d THEN n ELSE 0)
                             + (IF x = ModuleAcc /\ e = d THEN n ELSE 0)
  BY <1>0, SendEffect
<1>2. burnFrom(b, d, n, f) = Credit(c, ModuleAcc, d, -n)
  BY DEF burnFrom
<1>3. \A x \in Addrs, e \in Denoms : b[x][e] \in Int
  BY DEF Balances
<1> HIDE DEF c
<1>4. /\ Credit(c, ModuleAcc, d, -n) \in Balances
      /\ \A x \in Addrs, e \in Denoms :
           Credit(c, ModuleAcc, d, -n)[x][e] = IF x = ModuleAcc /\ e = d THEN c[x][e] + (-n) ELSE c[x][e]
  <2> DEFINE m == -n
  <2>1. m \in Int
    OBVIOUS
  <2> HIDE DEF m
  <2>2. /\ Credit(c, ModuleAcc, d, m) \in Balances
        /\ \A x \in Addrs, e \in Denoms :
             Credit(c, ModuleAcc, d, m)[x][e] = IF x = ModuleAcc /\ e = d THEN c[x][e] + m ELSE c[x][e]
    BY <2>1, <1>0, <1>1, CreditEffect
  <2> QED BY <2>2 DEF m
<1> QED BY <1>1, <1>2, <1>3, <1>4

-----------------------------------------------------------------------------
\* The messages that write balances or supply.
Moves(s, d, n, a) ==
  \/ Mint(s, d, n, a)
  \/ Burn(s, d, n, a)
  \/ BankSend(s, a, d, n)
  \/ \E to \in Addrs : ForceTransfer(s, d, n, a, to)

\* The steps that write neither.
Administers ==
  \/ Reimport
  \/ \E s \in Accounts, sub \in Subdenoms : CreateDenom(s, sub)
  \/ \E s \in Accounts, f \in {0, DefaultFee} : UpdateParams(s, f)
  \/ \E s \in Accounts, d \in Denoms : SetDenomMetadata(s, d)
  \/ \E s \in Accounts, d \in Denoms, new \in Accounts \cup {NoAddr} : ChangeAdmin(s, d, new)

\* A step is one or the other.
LEMMA TwoKinds ==
  Next => Administers \/ \E s \in Accounts, d \in Denoms, n \in Amounts, a \in Addrs : Moves(s, d, n, a)
BY DEF Next, Administers, Moves

\* A step that administers leaves the balances and the supply alone.
LEMMA AdministersMovesNothing == Administers => UNCHANGED <<bal, supply>>
BY Zenon DEF Administers, Reimport, CreateDenom, UpdateParams, SetDenomMetadata, ChangeAdmin

\* A step that moves coins leaves the registry alone.
LEMMA MovesKeepRegistry ==
  ASSUME NEW s, NEW d, NEW n, NEW a, Moves(s, d, n, a)
  PROVE  UNCHANGED <<admin, creators, meta>>
BY Zenon DEF Moves, Mint, Burn, BankSend, ForceTransfer

\* What a move does to balances and supply, with what its handler has checked:
\* nothing; or, in the denom alone, a mint or a burn for the admin, a payment
\* of the sender, or a transfer for the admin.
LEMMA MovesEffect ==
  ASSUME Shape, NEW s \in Accounts, NEW d \in Denoms, NEW n \in Amounts, NEW a \in Addrs,
         Moves(s, d, n, a)
  PROVE  /\ last' = s /\ n \in Int /\ n > 0
         /\ \/ UNCHANGED <<bal, supply>>
            \/ /\ s = admin[d] /\ a \notin Blocked
               /\ bal' = mintTo(bal, d, n, a) /\ supply' = [supply EXCEPT ![d] = @ + n]
            \/ /\ s = admin[d] /\ a \notin Blocked /\ bal[a][d] >= n
               /\ bal' = burnFrom(bal, d, n, a) /\ supply' = [supply EXCEPT ![d] = @ - n]
            \/ /\ a \notin Blocked /\ bal[s][d] >= n
               /\ bal' = SendCoins(bal, s, a, d, n) /\ supply' = supply
            \/ \E to \in Addrs :
                 /\ s = admin[d] /\ to \notin Blocked /\ bal[a][d] >= n
                 /\ bal' = SendCoins(bal, a, to, d, n) /\ supply' = supply
<1>1. n \in Int /\ n > 0
  BY TokenFactoryAssumption
<1>2. CASE Mint(s, d, n, a)
  BY <1>1, <1>2 DEF Mint, IsAdmin, From
<1>3. CASE Burn(s, d, n, a)
  BY <1>1, <1>3 DEF Burn, IsAdmin, From
<1>4. CASE BankSend(s, a, d, n)
  BY <1>1, <1>4 DEF BankSend, From
<1>5. ASSUME NEW to \in Addrs, ForceTransfer(s, d, n, a, to)
      PROVE  /\ last' = s
             /\ \/ UNCHANGED <<bal, supply>>
                \/ /\ s = admin[d] /\ to \notin Blocked /\ bal[a][d] >= n
                   /\ bal' = SendCoins(bal, a, to, d, n) /\ supply' = supply
  BY <1>5 DEF ForceTransfer, IsAdmin, From
<1> QED BY <1>1, <1>2, <1>3, <1>4, <1>5 DEF Moves

\* The accounts are addresses, and no account is blocked.
LEMMA AccountsUnblocked ==
  /\ Accounts \subseteq Addrs /\ Accounts \cap Blocked = {} /\ ModuleAcc \in Addrs
  /\ ModuleAcc \in Blocked
BY TokenFactoryAssumption DEF Addrs, Blocked

\* The types hold in every step.
LEMMA ShapeStep == Shape /\ [Next]_vars => Shape'
<1> SUFFICES ASSUME Shape, [Next]_vars PROVE Shape'
  OBVIOUS
<1>1. ASSUME NEW s \in Accounts, NEW d \in Denoms, NEW n \in Amounts, NEW a \in Addrs,
             Moves(s, d, n, a)
      PROVE  Shape'
  <2>1. UNCHANGED <<admin, creators, meta>>
    BY <1>1, MovesKeepRegistry
  <2>2. bal' \in Balances /\ supply' \in [Denoms -> Int]
    <3>1. s \in Addrs /\ n \in Int /\ bal \in Balances /\ supply \in [Denoms -> Int]
      BY AccountsUnblocked, TokenFactoryAssumption DEF Shape
    <3>2. /\ mintTo(bal, d, n, a) \in Balances /\ burnFrom(bal, d, n, a) \in Balances
          /\ \A f \in Addrs, t \in Addrs : SendCoins(bal, f, t, d, n) \in Balances
      BY Zenon, <3>1, MintEffect, BurnEffect, SendEffect
    <3>3. [supply EXCEPT ![d] = @ + n] \in [Denoms -> Int] /\ [supply EXCEPT ![d] = @ - n] \in [Denoms -> Int]
      BY <3>1
    <3>4. /\ bal' \in {bal, mintTo(bal, d, n, a), burnFrom(bal, d, n, a), SendCoins(bal, s, a, d, n)}
                       \cup {SendCoins(bal, a, to, d, n) : to \in Addrs}
          /\ supply' \in {supply, [supply EXCEPT ![d] = @ + n], [supply EXCEPT ![d] = @ - n]}
      BY <1>1, MovesEffect
    <3> QED BY <3>1, <3>2, <3>3, <3>4
  <2> QED BY <2>1, <2>2 DEF Shape
<1>2. CASE Administers
  <2>1. UNCHANGED <<bal, supply>>
    BY <1>2, AdministersMovesNothing
  <2>2. CASE Reimport
    <3>1. Registered \subseteq Denoms
      BY DEF Registered, Shape
    <3>2. DOMAIN ExportGenesis = Registered /\ \A d \in Registered : ExportGenesis[d] = admin[d]
      BY DEF ExportGenesis
    <3> QED BY <2>1, <2>2, <3>1, <3>2
            DEF Reimport, Shape, GenesisAdmin, GenesisCreators, GenesisMeta, MetaKinds
  <2>3. ASSUME NEW s \in Accounts, NEW sub \in Subdenoms, CreateDenom(s, sub) PROVE Shape'
    <3>1. <<s, sub>> \in Denoms
      BY DEF Denoms
    <3> QED BY <2>1, <2>3, <3>1 DEF CreateDenom, Shape, MetaKinds
  <2>4. ASSUME NEW s, NEW f, UpdateParams(s, f) PROVE Shape'
    BY <2>4 DEF UpdateParams, Shape
  <2>5. ASSUME NEW s, NEW d \in Denoms, SetDenomMetadata(s, d) PROVE Shape'
    BY <2>5 DEF SetDenomMetadata, Shape, MetaKinds
  <2>6. ASSUME NEW s, NEW d \in Denoms, NEW new \in Accounts \cup {NoAddr}, ChangeAdmin(s, d, new) PROVE Shape'
    BY <2>6 DEF ChangeAdmin, Shape
  <2> QED BY <1>2, <2>2, <2>3, <2>4, <2>5, <2>6 DEF Administers
<1>3. CASE UNCHANGED vars
  BY <1>3 DEF vars, Shape
<1> QED BY <1>1, <1>2, <1>3, TwoKinds

\* The types hold at genesis.
LEMMA ShapeInit == Init => Shape
<1> SUFFICES ASSUME Init PROVE Shape
  OBVIOUS
<1>1. PICK gen \in Geneses : /\ admin = GenesisAdmin(gen)
                             /\ creators = GenesisCreators(gen)
                             /\ meta = GenesisMeta(gen, [d \in Denoms |-> "none"])
  BY DEF Init
<1>2. DOMAIN gen \subseteq Denoms /\ \A d \in DOMAIN gen : gen[d] \in Accounts \cup {NoAddr}
  BY DEF Geneses
<1>3. bal \in Balances /\ supply \in [Denoms -> Int]
  BY DEF Init, Balances
<1>4. admin \in [Denoms -> Accounts \cup {NoAddr}]
  BY <1>1, <1>2 DEF GenesisAdmin
<1>5. creators \in [Accounts -> SUBSET Denoms]
  BY <1>1, <1>2 DEF GenesisCreators
<1>6. meta \in [Denoms -> MetaKinds]
  BY <1>1 DEF GenesisMeta, MetaKinds
<1> QED BY <1>3, <1>4, <1>5, <1>6 DEF Shape

\* The types hold always.
LEMMA ShapeHolds == Spec => []Shape
BY ShapeInit, ShapeStep, PTL DEF Spec

-----------------------------------------------------------------------------
\* A denom is registered exactly when it is listed under the creator in its
\* name, once RegistryAgrees holds.
LEMMA RegisteredUnderCreator ==
  ASSUME Shape, RegistryAgrees, NEW d \in Denoms
  PROVE  d \in Registered <=> d \in creators[Creator(d)]
<1>1. Creator(d) \in Accounts
  BY DEF Denoms, Creator
<1> QED BY <1>1 DEF Registered, RegistryAgrees, Shape

\* RegistryAgrees is kept by every step; it is inductive with the types.
LEMMA RegistryStep == Shape /\ RegistryAgrees /\ [Next]_vars => RegistryAgrees'
<1> SUFFICES ASSUME Shape, RegistryAgrees, [Next]_vars PROVE RegistryAgrees'
  OBVIOUS
<1>1. ASSUME NEW s \in Accounts, NEW d \in Denoms, NEW n \in Amounts, NEW a \in Addrs,
             Moves(s, d, n, a)
      PROVE  RegistryAgrees'
  BY <1>1, MovesKeepRegistry DEF RegistryAgrees
<1>2. CASE Administers
  <2>1. CASE Reimport
    <3>1. Registered \subseteq Denoms /\ \A d \in Denoms : Creator(d) \in Accounts
      BY DEF Registered, Shape, Denoms, Creator
    <3>2. DOMAIN ExportGenesis = Registered /\ \A d \in Registered : ExportGenesis[d] = admin[d]
      BY DEF ExportGenesis
    <3>3. \A d \in Denoms : d \in Registered <=> meta[d] # "none"
      BY RegisteredUnderCreator DEF RegistryAgrees
    <3>4. \A d \in Denoms : /\ meta'[d] = IF d \in Registered THEN "default" ELSE meta[d]
                            /\ admin'[d] = IF d \in Registered THEN admin[d] ELSE NoAddr
      BY <2>1, <3>2 DEF Reimport, GenesisAdmin, GenesisMeta
    <3>5. \A c \in Accounts : creators'[c] = {d \in Registered : Creator(d) = c}
      BY <2>1, <3>2 DEF Reimport, GenesisCreators
    <3>6. \A d \in Denoms : d \in creators'[Creator(d)] <=> d \in Registered
      BY <3>1, <3>5
    <3> QED BY <3>1, <3>3, <3>4, <3>5, <3>6 DEF RegistryAgrees
  <2>2. ASSUME NEW s \in Accounts, NEW sub \in Subdenoms, CreateDenom(s, sub) PROVE RegistryAgrees'
    <3> DEFINE d0 == <<s, sub>>
    <3>1. d0 \in Denoms /\ Creator(d0) = s
      BY DEF Denoms, Creator
    <3>2. CASE UNCHANGED <<meta, admin, creators>>
      BY <3>2 DEF RegistryAgrees
    <3>3. CASE /\ meta' = [meta EXCEPT ![d0] = "default"]
               /\ admin' = [admin EXCEPT ![d0] = s]
               /\ creators' = [creators EXCEPT ![s] = @ \cup {d0}]
      <4> HIDE DEF d0
      <4>1. \A d \in Denoms : Creator(d) \in Accounts
        BY DEF Denoms, Creator
      <4>2. \A d \in Denoms : /\ meta'[d] = IF d = d0 THEN "default" ELSE meta[d]
                              /\ admin'[d] = IF d = d0 THEN s ELSE admin[d]
        BY <3>1, <3>3 DEF Shape
      <4>3. \A c \in Accounts : creators'[c] = IF c = s THEN creators[c] \cup {d0} ELSE creators[c]
        BY Zenon, <3>3 DEF Shape
      <4>4. \A d \in Denoms : d \in creators'[Creator(d)] <=> d = d0 \/ d \in creators[Creator(d)]
        BY Zenon, <3>1, <4>1, <4>3
      <4>5. \A d \in Denoms : meta'[d] # "none" <=> d \in creators'[Creator(d)]
        BY <4>2, <4>4 DEF RegistryAgrees
      <4>6. \A c \in Accounts : \A d \in creators'[c] : Creator(d) = c
        <5> SUFFICES ASSUME NEW c \in Accounts, NEW d \in creators'[c] PROVE Creator(d) = c
          OBVIOUS
        <5>1. d \in creators[c] => Creator(d) = c
          BY DEF RegistryAgrees
        <5>2. d \in creators[c] \/ (c = s /\ d = d0)
          BY Zenon, <4>3
        <5> QED BY <3>1, <5>1, <5>2
      <4>7. \A d \in Denoms : admin'[d] # NoAddr => d \in creators'[Creator(d)]
        BY <4>2, <4>4 DEF RegistryAgrees
      <4> QED BY <4>5, <4>6, <4>7 DEF RegistryAgrees
    <3> QED BY <2>2, <3>2, <3>3 DEF CreateDenom
  <2>3. ASSUME NEW s, NEW f, UpdateParams(s, f) PROVE RegistryAgrees'
    BY <2>3 DEF UpdateParams, RegistryAgrees
  <2>4. ASSUME NEW s \in Accounts, NEW d \in Denoms, SetDenomMetadata(s, d) PROVE RegistryAgrees'
    <3>1. s # NoAddr
      BY TokenFactoryAssumption
    <3> QED BY <2>4, <3>1 DEF SetDenomMetadata, IsAdmin, RegistryAgrees, Shape
  <2>5. ASSUME NEW s \in Accounts, NEW d \in Denoms, NEW new \in Accounts \cup {NoAddr},
               ChangeAdmin(s, d, new)
        PROVE  RegistryAgrees'
    <3>1. s # NoAddr
      BY Zenon, TokenFactoryAssumption
    <3> QED BY <2>5, <3>1 DEF ChangeAdmin, IsAdmin, RegistryAgrees, Shape
  <2> QED BY Zenon, <1>2, <2>1, <2>2, <2>3, <2>4, <2>5 DEF Administers
<1>3. CASE UNCHANGED vars
  BY Zenon, <1>3 DEF vars, RegistryAgrees
<1> QED BY <1>1, <1>2, <1>3, TwoKinds

\* RegistryAgrees holds of every genesis InitGenesis accepts.
LEMMA RegistryInit == Init => RegistryAgrees
<1> SUFFICES ASSUME Init PROVE RegistryAgrees
  OBVIOUS
<1>1. PICK gen \in Geneses : /\ admin = GenesisAdmin(gen)
                             /\ creators = GenesisCreators(gen)
                             /\ meta = GenesisMeta(gen, [d \in Denoms |-> "none"])
  BY DEF Init
<1>2. DOMAIN gen \subseteq Denoms
  BY DEF Geneses
<1>3. \A d \in Denoms : Creator(d) \in Accounts
  BY DEF Denoms, Creator
<1>4. \A d \in Denoms : /\ meta[d] = IF d \in DOMAIN gen THEN "default" ELSE "none"
                        /\ admin[d] = IF d \in DOMAIN gen THEN gen[d] ELSE NoAddr
  BY <1>1 DEF GenesisMeta, GenesisAdmin
<1>5. \A c \in Accounts : creators[c] = {d \in DOMAIN gen : Creator(d) = c}
  BY <1>1 DEF GenesisCreators
<1> QED BY <1>2, <1>3, <1>4, <1>5 DEF RegistryAgrees

\* RegistryAgrees for any accounts and subdenoms: the admin records, the index
\* by creator and the bank's metadata agree, across exports.
THEOREM RegistryAgreesHolds == Spec => []RegistryAgrees
BY RegistryInit, RegistryStep, ShapeHolds, PTL DEF Spec

\* ModuleAccountEmpty for any accounts, amounts and sequence of messages: what
\* Mint puts into the module account, and what Burn sends there, leaves it in
\* the same message, and nobody sends to it.
THEOREM ModuleAccountEmptyHolds == Spec => []ModuleAccountEmpty
<1>1. Init => ModuleAccountEmpty
  BY Zenon, AccountsUnblocked DEF Init, ModuleAccountEmpty
<1>2. Shape /\ ModuleAccountEmpty /\ [Next]_vars => ModuleAccountEmpty'
  <2> SUFFICES ASSUME Shape, ModuleAccountEmpty, [Next]_vars PROVE ModuleAccountEmpty'
    OBVIOUS
  <2>1. ASSUME NEW s \in Accounts, NEW d \in Denoms, NEW n \in Amounts, NEW a \in Addrs,
               Moves(s, d, n, a)
        PROVE  ModuleAccountEmpty'
    <3>1. /\ s \in Addrs /\ s # ModuleAcc /\ ModuleAcc \in Addrs /\ ModuleAcc \in Blocked
          /\ n \in Int /\ n > 0 /\ bal \in Balances
      BY AccountsUnblocked, TokenFactoryAssumption DEF Shape
    <3>2. \A e \in Denoms : bal[ModuleAcc][e] = 0
      BY DEF ModuleAccountEmpty
    <3>3. a \notin Blocked => \A e \in Denoms : mintTo(bal, d, n, a)[ModuleAcc][e] = 0
      BY <3>1, <3>2, MintEffect
    <3>4. a \notin Blocked => \A e \in Denoms : burnFrom(bal, d, n, a)[ModuleAcc][e] = 0
      BY <3>1, <3>2, BurnEffect
    <3>5. a \notin Blocked => \A e \in Denoms : SendCoins(bal, s, a, d, n)[ModuleAcc][e] = 0
      <4>1. \A x \in Addrs, e \in Denoms :
              SendCoins(bal, s, a, d, n)[x][e] =
                bal[x][e] - (IF x = s /\ e = d THEN n ELSE 0) + (IF x = a /\ e = d THEN n ELSE 0)
        BY <3>1, SendEffect
      <4> QED BY <3>1, <3>2, <4>1
    <3>6. ASSUME NEW to \in Addrs, to \notin Blocked, bal[a][d] >= n
          PROVE  \A e \in Denoms : SendCoins(bal, a, to, d, n)[ModuleAcc][e] = 0
      <4>1. a # ModuleAcc
        BY <3>1, <3>2, <3>6
      <4>2. \A x \in Addrs, e \in Denoms :
              SendCoins(bal, a, to, d, n)[x][e] =
                bal[x][e] - (IF x = a /\ e = d THEN n ELSE 0) + (IF x = to /\ e = d THEN n ELSE 0)
        BY <3>1, <3>6, SendEffect
      <4> QED BY <3>1, <3>2, <3>6, <4>1, <4>2
    <3> QED BY <2>1, <3>2, <3>3, <3>4, <3>5, <3>6, MovesEffect DEF ModuleAccountEmpty
  <2>2. CASE Administers
    BY <2>2, AdministersMovesNothing DEF ModuleAccountEmpty
  <2>3. CASE UNCHANGED vars
    BY <2>3 DEF vars, ModuleAccountEmpty
  <2> QED BY <2>1, <2>2, <2>3, TwoKinds
<1> QED BY <1>1, <1>2, ShapeHolds, PTL DEF Spec

\* What all addresses hold of a denom.
Held(b, d) == SumFunction([a \in Addrs |-> b[a][d]])

\* There are finitely many addresses.
LEMMA AddrsFinite == IsFiniteSet(Addrs)
<1>1. IsFiniteSet(Accounts)
  BY TokenFactoryAssumption
<1>2. IsFiniteSet(Blocked)
  <2>1. IsFiniteSet({ModuleAcc}) /\ IsFiniteSet({Pool})
    BY Zenon, FS_Singleton
  <2>2. Blocked = {ModuleAcc} \cup {Pool}
    BY DEF Blocked
  <2> QED BY Zenon, <2>1, <2>2, FS_Union
<1> QED BY Zenon, <1>1, <1>2, FS_Union DEF Addrs

\* A credit adds to what is held of its denom, and of no other.
LEMMA CreditHeld ==
  ASSUME NEW b \in Balances, NEW a \in Addrs, NEW d \in Denoms, NEW n \in Int, NEW e \in Denoms
  PROVE  /\ Held(b, e) \in Int
         /\ Held(Credit(b, a, d, n), e) = Held(b, e) + (IF e = d THEN n ELSE 0)
<1> DEFINE f == [x \in Addrs |-> b[x][e]]
           g == [x \in Addrs |-> Credit(b, a, d, n)[x][e]]
<1>1. Held(b, e) = SumFunctionOnSet(f, Addrs) /\ Held(Credit(b, a, d, n), e) = SumFunctionOnSet(g, Addrs)
  BY DEF Held, SumFunction
<1>2. \A x \in Addrs : f[x] \in Int /\ g[x] = IF x = a /\ e = d THEN f[x] + n ELSE f[x]
  <2>1. \A x \in Addrs : b[x][e] \in Int
    BY DEF Balances
  <2>2. \A x \in Addrs : Credit(b, a, d, n)[x][e] = IF x = a /\ e = d THEN b[x][e] + n ELSE b[x][e]
    BY CreditEffect
  <2> QED BY <2>1, <2>2
<1> HIDE DEF f, g
<1>3. SumFunctionOnSet(f, Addrs) \in Int
  BY Zenon, <1>2, AddrsFinite, SumAny
<1>4. CASE e = d
  <2>1. f[a] \in Int /\ g[a] = f[a] + n /\ g[a] \in Int /\ \A x \in Addrs \ {a} : g[x] = f[x]
    BY <1>2, <1>4
  <2>2. SumFunctionOnSet(g, Addrs) = SumFunctionOnSet(f, Addrs) - f[a] + g[a]
    BY <1>2, <2>1, AddrsFinite, SumChange
  <2> QED BY <1>1, <1>3, <1>4, <2>1, <2>2
<1>5. CASE e # d
  <2>1. SumFunctionOnSet(f, Addrs) = SumFunctionOnSet(g, Addrs)
    <3>1. \A x \in Addrs : f[x] = g[x]
      BY Zenon, <1>2, <1>5
    <3> QED BY <3>1, AddrsFinite, SumSame
  <2> QED BY <1>1, <1>3, <1>5, <2>1
<1> QED BY Zenon, <1>4, <1>5

\* A transfer leaves what is held as it is; a mint adds to it and a burn takes
\* from it, in their own denom.
LEMMA MovesHeld ==
  ASSUME NEW b \in Balances, NEW x \in Addrs, NEW y \in Addrs, NEW d \in Denoms, NEW n \in Int,
         NEW e \in Denoms
  PROVE  /\ Held(b, e) \in Int
         /\ Held(SendCoins(b, x, y, d, n), e) = Held(b, e)
         /\ Held(mintTo(b, d, n, x), e) = Held(b, e) + (IF e = d THEN n ELSE 0)
         /\ Held(burnFrom(b, d, n, x), e) = Held(b, e) - (IF e = d THEN n ELSE 0)
<1>0. ModuleAcc \in Addrs /\ -n \in Int
  BY AccountsUnblocked
<1>1. ASSUME NEW c \in Balances, NEW f \in Addrs, NEW t \in Addrs
      PROVE  /\ SendCoins(c, f, t, d, n) \in Balances /\ Held(c, e) \in Int
             /\ Held(SendCoins(c, f, t, d, n), e) = Held(c, e)
  <2> DEFINE m == -n
             c1 == Credit(c, f, d, m)
  <2>1. m \in Int /\ m = -n
    OBVIOUS
  <2> HIDE DEF m
  <2>2. c1 \in Balances /\ Held(c, e) \in Int /\ Held(c1, e) = Held(c, e) + (IF e = d THEN m ELSE 0)
    <3>1. c1 \in Balances
      BY Zenon, <1>1, <2>1, CreditEffect
    <3>2. Held(c, e) \in Int /\ Held(c1, e) = Held(c, e) + (IF e = d THEN m ELSE 0)
      BY <1>1, <2>1, CreditHeld
    <3> QED BY <3>1, <3>2
  <2>3. SendCoins(c, f, t, d, n) = Credit(c1, t, d, n)
    BY DEF SendCoins, m
  <2> HIDE DEF c1
  <2>4. /\ Credit(c1, t, d, n) \in Balances
        /\ Held(Credit(c1, t, d, n), e) = Held(c1, e) + (IF e = d THEN n ELSE 0)
    BY SMTT(30), <1>1, <2>2, CreditEffect, CreditHeld
  <2> QED BY <2>1, <2>2, <2>3, <2>4
<1>2. Held(mintTo(b, d, n, x), e) = Held(b, e) + (IF e = d THEN n ELSE 0)
  <2> DEFINE c1 == Credit(b, ModuleAcc, d, n)
  <2>1. c1 \in Balances /\ Held(c1, e) = Held(b, e) + (IF e = d THEN n ELSE 0)
    BY <1>0, CreditEffect, CreditHeld
  <2>2. mintTo(b, d, n, x) = SendCoins(c1, ModuleAcc, x, d, n)
    BY DEF mintTo
  <2> HIDE DEF c1
  <2> QED BY <1>0, <1>1, <2>1, <2>2
<1>3. Held(burnFrom(b, d, n, x), e) = Held(b, e) - (IF e = d THEN n ELSE 0)
  <2> DEFINE c1 == SendCoins(b, x, ModuleAcc, d, n)
             m == -n
  <2>1. c1 \in Balances /\ Held(c1, e) = Held(b, e) /\ Held(b, e) \in Int
    BY <1>0, <1>1
  <2>2. burnFrom(b, d, n, x) = Credit(c1, ModuleAcc, d, m)
    BY DEF burnFrom
  <2>3. m \in Int /\ m = -n
    OBVIOUS
  <2> HIDE DEF c1, m
  <2>4. Held(Credit(c1, ModuleAcc, d, m), e) = Held(c1, e) + (IF e = d THEN m ELSE 0)
    BY <1>0, <2>1, <2>3, CreditHeld
  <2> QED BY <2>1, <2>2, <2>3, <2>4
<1> QED BY <1>1, <1>2, <1>3

\* No balance is negative, and the supply is what the addresses hold.
Backed ==
  \A d \in Denoms : (\A a \in Addrs : bal[a][d] >= 0) /\ supply[d] = Held(bal, d)

\* A message keeps the supply backed, whether it succeeds or fails.
LEMMA BackedStep == Shape /\ Backed /\ [Next]_vars => Backed'
<1> SUFFICES ASSUME Shape, Backed, [Next]_vars PROVE Backed'
  BY Zenon
<1>1. ASSUME NEW s \in Accounts, NEW d \in Denoms, NEW n \in Amounts, NEW a \in Addrs,
             Moves(s, d, n, a)
      PROVE  Backed'
  <2>1. /\ s \in Addrs /\ n \in Int /\ n > 0 /\ bal \in Balances /\ supply \in [Denoms -> Int]
        /\ \A x \in Addrs, e \in Denoms : bal[x][e] \in Int /\ bal[x][e] >= 0
        /\ \A e \in Denoms : supply[e] = Held(bal, e)
    BY AccountsUnblocked, TokenFactoryAssumption DEF Shape, Balances, Backed
  <2>2. CASE UNCHANGED <<bal, supply>>
    BY Zenon, <2>2 DEF Backed
  <2>3. CASE bal' = mintTo(bal, d, n, a) /\ supply' = [supply EXCEPT ![d] = @ + n]
    <3>1. \A x \in Addrs, e \in Denoms : bal'[x][e] = bal[x][e] + (IF x = a /\ e = d THEN n ELSE 0)
      BY <2>1, <2>3, MintEffect
    <3>2. \A e \in Denoms : Held(bal', e) = Held(bal, e) + (IF e = d THEN n ELSE 0)
      BY <2>1, <2>3, MovesHeld
    <3>3. \A e \in Denoms : supply'[e] = supply[e] + (IF e = d THEN n ELSE 0)
      BY <2>1, <2>3
    <3> QED BY <2>1, <3>1, <3>2, <3>3 DEF Backed
  <2>4. CASE bal[a][d] >= n /\ bal' = burnFrom(bal, d, n, a) /\ supply' = [supply EXCEPT ![d] = @ - n]
    <3>1. \A x \in Addrs, e \in Denoms : bal'[x][e] = bal[x][e] - (IF x = a /\ e = d THEN n ELSE 0)
      <4>1. n \in Int /\ bal \in Balances
        BY Zenon, <2>1
      <4>2. \A x \in Addrs, e \in Denoms :
              burnFrom(bal, d, n, a)[x][e] = bal[x][e] - (IF x = a /\ e = d THEN n ELSE 0)
        BY <4>1, BurnEffect
      <4> QED BY Zenon, <2>4, <4>2
    <3>2. \A e \in Denoms : Held(bal', e) = Held(bal, e) - (IF e = d THEN n ELSE 0)
      BY <2>1, <2>4, MovesHeld
    <3>3. \A e \in Denoms : supply'[e] = supply[e] - (IF e = d THEN n ELSE 0)
      BY <2>1, <2>4
    <3> QED BY <2>1, <2>4, <3>1, <3>2, <3>3 DEF Backed
  <2>5. ASSUME NEW f \in Addrs, NEW t \in Addrs, bal[f][d] >= n,
               bal' = SendCoins(bal, f, t, d, n), supply' = supply
        PROVE  Backed'
    <3>1. \A x \in Addrs, e \in Denoms :
            bal'[x][e] = bal[x][e] - (IF x = f /\ e = d THEN n ELSE 0) + (IF x = t /\ e = d THEN n ELSE 0)
      <4>1. \A x \in Addrs, e \in Denoms :
              SendCoins(bal, f, t, d, n)[x][e] =
                bal[x][e] - (IF x = f /\ e = d THEN n ELSE 0) + (IF x = t /\ e = d THEN n ELSE 0)
        BY <2>1, SendEffect
      <4> QED BY Zenon, <2>5, <4>1
    <3>2. \A e \in Denoms : Held(bal', e) = Held(bal, e)
      BY <2>1, <2>5, MovesHeld
    <3> QED BY <2>1, <2>5, <3>1, <3>2 DEF Backed
  <2> QED BY <1>1, <2>1, <2>2, <2>3, <2>4, <2>5, MovesEffect
<1>2. CASE Administers
  BY Zenon, <1>2, AdministersMovesNothing DEF Backed
<1>3. CASE UNCHANGED vars
  BY <1>3 DEF vars, Backed
<1> QED BY <1>1, <1>2, <1>3, TwoKinds

\* SupplyBacked for any accounts, amounts and sequence of messages: the bank's
\* supply of a factory denom is the sum of what all addresses hold, none of it
\* negative and none of it left in the module account.
THEOREM SupplyBackedHolds == Spec => []SupplyBacked
<1>1. Init => Backed
  <2> SUFFICES ASSUME Init, NEW d \in Denoms
               PROVE  (\A a \in Addrs : bal[a][d] >= 0) /\ supply[d] = Held(bal, d)
    BY DEF Backed
  <2> DEFINE f == [a \in Addrs |-> bal[a][d]]
  <2>1. \A a \in Addrs : bal[a][d] = 0 /\ f[a] = 0
    BY DEF Init
  <2>2. SumFunctionOnSet(f, Addrs) = 0
    <3> HIDE DEF f
    <3> QED BY <2>1, AddrsFinite, SumZero
  <2>3. Held(bal, d) = 0
    BY <2>2 DEF Held, SumFunction
  <2> QED BY <2>1, <2>3 DEF Init
<1>2. Backed /\ ModuleAccountEmpty => SupplyBacked
  BY DEF Backed, SupplyBacked, Held
<1> QED BY <1>1, <1>2, BackedStep, ShapeHolds, ModuleAccountEmptyHolds, PTL DEF Spec

\* OnlyAdminOrOwner for any accounts and sequence of messages: coins leave an
\* account only by its own message or by one of the denom's admin of that
\* moment, and only that admin changes the supply.
THEOREM OnlyAdminOrOwnerHolds == Spec => OnlyAdminOrOwner
<1> DEFINE Rights == \A d \in Denoms :
                       /\ supply'[d] # supply[d] => last' = admin[d]
                       /\ \A a \in Addrs : bal'[a][d] < bal[a][d] => last' \in {a, admin[d]}
<1>1. Shape /\ [Next]_vars => [Rights]_vars
  <2> SUFFICES ASSUME Shape, Next PROVE Rights
    BY Zenon
  <2>1. ASSUME NEW s \in Accounts, NEW d \in Denoms, NEW n \in Amounts, NEW a \in Addrs,
               Moves(s, d, n, a)
        PROVE  Rights
    <3>1. /\ s \in Addrs /\ n \in Int /\ n > 0 /\ bal \in Balances /\ supply \in [Denoms -> Int]
          /\ \A x \in Addrs, e \in Denoms : bal[x][e] \in Int
      BY AccountsUnblocked, TokenFactoryAssumption DEF Shape, Balances
    <3>2. last' = s
      BY Zenon, <2>1, MovesEffect
    <3>3. CASE UNCHANGED <<bal, supply>>
      BY <3>1, <3>3
    <3>4. CASE s = admin[d] /\ bal' = mintTo(bal, d, n, a) /\ supply' = [supply EXCEPT ![d] = @ + n]
      BY <3>1, <3>2, <3>4, MintEffect
    <3>5. CASE s = admin[d] /\ bal' = burnFrom(bal, d, n, a) /\ supply' = [supply EXCEPT ![d] = @ - n]
      BY <3>1, <3>2, <3>5, BurnEffect
    <3>6. CASE bal' = SendCoins(bal, s, a, d, n) /\ supply' = supply
      <4>1. \A x \in Addrs, e \in Denoms :
              SendCoins(bal, s, a, d, n)[x][e] =
                bal[x][e] - (IF x = s /\ e = d THEN n ELSE 0) + (IF x = a /\ e = d THEN n ELSE 0)
        BY <3>1, SendEffect
      <4> QED BY <3>1, <3>2, <3>6, <4>1
    <3>7. ASSUME NEW to \in Addrs, s = admin[d], bal' = SendCoins(bal, a, to, d, n), supply' = supply
          PROVE  Rights
      <4>1. \A x \in Addrs, e \in Denoms :
              SendCoins(bal, a, to, d, n)[x][e] =
                bal[x][e] - (IF x = a /\ e = d THEN n ELSE 0) + (IF x = to /\ e = d THEN n ELSE 0)
        BY <3>1, SendEffect
      <4> QED BY <3>1, <3>2, <3>7, <4>1
    <3> QED BY <2>1, <3>3, <3>4, <3>5, <3>6, <3>7, MovesEffect
  <2>2. CASE Administers
    <3>1. bal' = bal /\ supply' = supply /\ \A x \in Addrs, e \in Denoms : bal[x][e] \in Int
      BY <2>2, AdministersMovesNothing DEF Shape, Balances
    <3> QED BY <3>1
  <2> QED BY Zenon, <2>1, <2>2, TwoKinds
<1> QED BY <1>1, ShapeHolds, PTL DEF Spec, OnlyAdminOrOwner

\* OrphanFrozen for any accounts: a registered denom without an admin never
\* gets one again and its supply stays, because CreateDenom looks at metadata
\* the registry cannot lose and NoAddr signs no message.
THEOREM OrphanFrozenHolds == Spec => OrphanFrozen
<1> DEFINE Frozen == \A d \in Registered : admin[d] = NoAddr =>
                       admin'[d] = NoAddr /\ supply'[d] = supply[d]
<1>1. Shape /\ RegistryAgrees /\ [Next]_vars => [Frozen]_vars
  <2> SUFFICES ASSUME Shape, RegistryAgrees, Next, NEW d \in Registered, admin[d] = NoAddr
               PROVE  admin'[d] = NoAddr /\ supply'[d] = supply[d]
    OBVIOUS
  <2>0. d \in Denoms /\ meta[d] # "none"
    <3>1. d \in Denoms
      BY DEF Registered, Shape
    <3> QED BY <3>1, RegisteredUnderCreator DEF RegistryAgrees
  <2>1. ASSUME NEW s \in Accounts, NEW e \in Denoms, NEW n \in Amounts, NEW a \in Addrs,
               Moves(s, e, n, a)
        PROVE  admin'[d] = NoAddr /\ supply'[d] = supply[d]
    <3>1. admin' = admin /\ s # NoAddr /\ supply \in [Denoms -> Int] /\ n \in Int
      BY <2>1, MovesKeepRegistry, TokenFactoryAssumption DEF Shape
    <3>2. \/ supply' = supply
          \/ s = admin[e] /\ supply' = [supply EXCEPT ![e] = @ + n]
          \/ s = admin[e] /\ supply' = [supply EXCEPT ![e] = @ - n]
      BY Zenon, <2>1, MovesEffect
    <3> QED BY Zenon, <2>0, <3>1, <3>2
  <2>2. CASE Administers
    <3>1. supply' = supply
      BY Zenon, <2>2, AdministersMovesNothing
    <3>2. CASE Reimport
      <4>1. DOMAIN ExportGenesis = Registered /\ ExportGenesis[d] = admin[d]
        BY DEF ExportGenesis
      <4> QED BY Zenon, <2>0, <3>1, <3>2, <4>1 DEF Reimport, GenesisAdmin
    <3>3. ASSUME NEW s \in Accounts, NEW sub \in Subdenoms, CreateDenom(s, sub) PROVE admin'[d] = NoAddr
      <4>1. <<s, sub>> \in Denoms
        BY DEF Denoms
      <4> QED BY <2>0, <3>3, <4>1 DEF CreateDenom, Shape
    <3>4. ASSUME NEW s, NEW f, UpdateParams(s, f) PROVE admin'[d] = NoAddr
      BY <3>4 DEF UpdateParams
    <3>5. ASSUME NEW s, NEW e, SetDenomMetadata(s, e) PROVE admin'[d] = NoAddr
      BY Zenon, <3>5 DEF SetDenomMetadata
    <3>6. ASSUME NEW s \in Accounts, NEW e \in Denoms, NEW new \in Accounts \cup {NoAddr},
                 ChangeAdmin(s, e, new)
          PROVE  admin'[d] = NoAddr
      <4>1. s # NoAddr
        BY TokenFactoryAssumption
      <4> QED BY Zenon, <2>0, <3>6, <4>1 DEF ChangeAdmin, IsAdmin, Shape
    <3> QED BY Zenon, <2>2, <3>1, <3>2, <3>3, <3>4, <3>5, <3>6 DEF Administers
  <2> QED BY Zenon, <2>1, <2>2, TwoKinds
<1> QED BY <1>1, ShapeHolds, RegistryAgreesHolds, PTL DEF Spec, OrphanFrozen

\* The rights over a denom, for any accounts and sequence of messages: its
\* admin's and each owner's, and nobody's once it has no admin.
THEOREM AdminRightsHolds == Spec => AdminRights
BY OnlyAdminOrOwnerHolds, OrphanFrozenHolds DEF AdminRights
=============================================================================
