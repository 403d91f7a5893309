------------------------- MODULE HashMerchantProofs -------------------------
(***************************************************************************)
(* x/hashmerchant for any validators, contracts and parameters: the module *)
(* account covers the escrow records, a contract is served for the whole   *)
(* term it paid for and disabled soon after it, and a block confirms one   *)
(* root per key, of a chain that governance enabled.                       *)
(***************************************************************************)
EXTENDS HashMerchant, SumProofs

Contract == [chain : Chains, enabled : BOOLEAN]
Record == [denom : EscrowDenoms, amount : Nat, paidUntil : Nat]

(***************************************************************************)
(* The types of the state, and that the payer and the module account hold  *)
(* all the coins of a denom between them.                                  *)
(***************************************************************************)
Types ==
    /\ height \in 0..MaxHeight /\ pruneEpoch \in 0..MaxHeight
    /\ phase \in {"commit", "deliver"}
    /\ params \in ParamSets /\ ValidParams(params)
    /\ contracts \in [Contracts -> Contract \cup {None}]
    /\ escrow \in [Contracts -> Record \cup {None}]
    /\ wallet \in [EscrowDenoms -> Nat] /\ module \in [EscrowDenoms -> Nat]
    /\ \A d \in EscrowDenoms : wallet[d] + module[d] = PayerFunds

(* A payment buys a natural number of blocks, and never more than the      *)
(* amount times the interval.                                              *)
LEMMA Quotient ==
    ASSUME NEW a \in Nat, NEW m \in Nat \ {0}
    PROVE  a \div m \in Nat /\ a \div m <= a
OBVIOUS

LEMMA Product ==
    ASSUME NEW a \in Nat, NEW b \in Nat, a <= b, NEW i \in Nat, NEW j \in Nat, i <= j
    PROVE  a * i \in Nat /\ a * i <= b * j
<1>1. PICK x \in Nat : b = a + x
  <2>1. b - a \in Nat /\ b = a + (b - a)
    OBVIOUS
  <2> QED BY <2>1
<1>2. PICK y \in Nat : j = i + y
  <2>1. j - i \in Nat /\ j = i + (j - i)
    OBVIOUS
  <2> QED BY <2>1
<1>3. (a + x) * (i + y) = a * i + a * y + x * i + x * y
  OBVIOUS
<1>4. a * i \in Nat /\ a * y \in Nat /\ x * i \in Nat /\ x * y \in Nat
  OBVIOUS
<1> QED BY <1>1, <1>2, <1>3, <1>4

LEMMA BoughtBound ==
    ASSUME ConstantsOK, Types, NEW a \in Nat, params.min > 0
    PROVE  /\ Bought(a) \in Nat
           /\ \A i \in Nat : params.interval <= i => Bought(a) <= a * i
<1>1. params.min \in Nat \ {0} /\ params.interval \in Nat
  BY DEF ConstantsOK, Types
<1>2. a \div params.min \in Nat /\ a \div params.min <= a
  BY <1>1, Quotient
<1> DEFINE n == a \div params.min
<1>3. n \in Nat /\ n <= a /\ Bought(a) = n * params.interval
  BY <1>2 DEF Bought
<1> HIDE DEF n
<1>4. Bought(a) \in Nat
  BY <1>1, <1>3
<1>5. ASSUME NEW i \in Nat, params.interval <= i PROVE Bought(a) <= a * i
  BY <1>1, <1>3, <1>5, Product
<1> QED BY <1>4, <1>5

(* Every step keeps the types (the handlers of msg_server.go and abci.go). *)
LEMMA TypesInit == ASSUME ConstantsOK, HashInit PROVE Types
BY DEF ConstantsOK, HashInit, Types

LEMMA PayTypes ==
    ASSUME ConstantsOK, Types, NEW d \in EscrowDenoms, NEW a \in Nat, Pay(d, a)
    PROVE  /\ wallet' \in [EscrowDenoms -> Nat] /\ module' \in [EscrowDenoms -> Nat]
           /\ \A e \in EscrowDenoms : module'[e] = module[e] + (IF e = d THEN a ELSE 0)
           /\ \A e \in EscrowDenoms : wallet'[e] + module'[e] = PayerFunds
BY DEF ConstantsOK, Types, Pay

LEMMA TypesStep == ASSUME ConstantsOK, Types, [HashNext]_hashVars PROVE Types'
<1> USE DEF ConstantsOK
<1>1. ASSUME NEW p \in V, NEW ans \in [V -> Answers \cup {None}], BeginBlock(p, ans) PROVE Types'
  BY SMTT(30), <1>1 DEF Types, BeginBlock, bank, ValidParams
<1>2. ASSUME NEW u \in Chains, NEW ch \in ChainMsgs, RegisterChain(u, ch) PROVE Types'
  BY SMTT(30), <1>2 DEF Types, RegisterChain, bank, ValidParams
<1>3. ASSUME NEW c \in Contracts, NEW u \in Chains, NEW a \in Payments, RegisterContract(c, u, a)
      PROVE  Types'
  <2>1. a \in Nat /\ params.denom \in EscrowDenoms /\ params.min > 0 /\ Pay(params.denom, a)
    BY <1>3 DEF RegisterContract, Types
  <2>2. Bought(a) \in Nat
    BY <2>1, BoughtBound
  <2>3. (height + Bought(a)) % Word \in Nat
    BY <2>2 DEF Types
  <2>4. escrow' \in [Contracts -> Record \cup {None}]
    BY <1>3, <2>1, <2>3 DEF RegisterContract, Types, Record
  <2>5. contracts' \in [Contracts -> Contract \cup {None}]
    BY <1>3 DEF RegisterContract, Types, Contract
  <2>6. /\ wallet' \in [EscrowDenoms -> Nat] /\ module' \in [EscrowDenoms -> Nat]
        /\ \A d \in EscrowDenoms : wallet'[d] + module'[d] = PayerFunds
    BY ZenonT(30), <2>1, PayTypes
  <2> QED BY <1>3, <2>4, <2>5, <2>6 DEF RegisterContract, Types, ValidParams
<1>4. ASSUME NEW c \in Contracts, NEW a \in Payments, RefillEscrow(c, a) PROVE Types'
  <2>1. a \in Nat /\ params.denom \in EscrowDenoms /\ params.min > 0 /\ Pay(params.denom, a)
    BY <1>4 DEF RefillEscrow, Types
  <2>2. Bought(a) \in Nat
    BY <2>1, BoughtBound
  <2>3. escrow[c] \in Record
    BY <1>4 DEF RefillEscrow, Types
  <2>4. (escrow[c].paidUntil + Bought(a)) % Word \in Nat /\ escrow[c].amount + a \in Nat
    BY <2>1, <2>2, <2>3 DEF Record
  <2>5. escrow' \in [Contracts -> Record \cup {None}]
    BY Zenon, <1>4, <2>3, <2>4 DEF RefillEscrow, Types, Record
  <2>6. /\ wallet' \in [EscrowDenoms -> Nat] /\ module' \in [EscrowDenoms -> Nat]
        /\ \A d \in EscrowDenoms : wallet'[d] + module'[d] = PayerFunds
    BY ZenonT(30), <2>1, PayTypes
  <2> QED BY <1>4, <2>5, <2>6 DEF RefillEscrow, Types, ValidParams
<1>5. ASSUME NEW p \in ParamSets, UpdateHashParams(p) PROVE Types'
  BY <1>5 DEF Types, UpdateHashParams, bank, ValidParams
<1>6. ASSUME EndBlock PROVE Types'
  <2>1. CASE PruneDue /\ pruneExpiredEscrows /\ pruneEpoch' = height
    <3>1. contracts' \in [Contracts -> Contract \cup {None}]
      BY ZenonT(30), <2>1 DEF pruneExpiredEscrows, Types, Contract, IsRegistered
    <3> QED BY <1>6, <2>1, <3>1 DEF EndBlock, Types, bank, ValidParams
  <2>2. CASE UNCHANGED <<contracts, pruneEpoch>>
    BY <1>6, <2>2 DEF EndBlock, Types, bank, ValidParams
  <2> QED BY Zenon, <1>6, <2>1, <2>2 DEF EndBlock
<1>7. ASSUME NEW h \in {0, height}, Restart(h) PROVE Types'
  BY SMTT(30), <1>7 DEF Types, Restart, bank, ValidParams
<1>8. ASSUME UNCHANGED hashVars PROVE Types'
  BY <1>8 DEF Types, hashVars, store, bank, ValidParams
<1> QED BY Zenon, <1>1, <1>2, <1>3, <1>4, <1>5, <1>6, <1>7, <1>8 DEF HashNext

-----------------------------------------------------------------------------
(* Where one contract's record changes by no more than the module account  *)
(* gains, the account still covers the records.                            *)
LEMMA CoveredAfter ==
    ASSUME ConstantsOK, Types, Types', EscrowBacked, NEW c \in Contracts,
           \A b \in Contracts \ {c} : escrow'[b] = escrow[b],
           \A d \in EscrowDenoms : Paid(c, d)' <= Paid(c, d) + module'[d] - module[d]
    PROVE  EscrowBacked'
<1> SUFFICES ASSUME NEW d \in EscrowDenoms
             PROVE  module'[d] >= SumFunction([b \in Contracts |-> Paid(b, d)'])
  BY DEF EscrowBacked
<1> DEFINE f == [b \in Contracts |-> Paid(b, d)]
           g == [b \in Contracts |-> Paid(b, d)']
<1>1. \A b \in Contracts : f[b] \in Int /\ g[b] \in Int
  BY DEF Types, Record, Paid
<1>2. \A b \in Contracts \ {c} : g[b] = f[b]
  BY DEF Paid
<1>3. g[c] <= f[c] + module'[d] - module[d]
  OBVIOUS
<1>4. SumFunction(f) = SumFunctionOnSet(f, Contracts) /\ SumFunction(g) = SumFunctionOnSet(g, Contracts)
  BY DEF SumFunction
<1>5. module[d] >= SumFunction(f)
  BY DEF EscrowBacked
<1>6. module[d] \in Int /\ module'[d] \in Int
  BY DEF Types
<1> HIDE DEF f, g
<1>7. SumFunctionOnSet(g, Contracts) = SumFunctionOnSet(f, Contracts) - f[c] + g[c]
  BY <1>1, <1>2, SumChange DEF ConstantsOK
<1>8. SumFunctionOnSet(f, Contracts) \in Int
  BY <1>1, SumAny DEF ConstantsOK
<1>9. module'[d] >= SumFunction(g)
  BY <1>1, <1>3, <1>4, <1>5, <1>6, <1>7, <1>8
<1> QED BY <1>9 DEF g

LEMMA CoveredStep ==
    ASSUME ConstantsOK, Types, Types', EscrowBacked, [HashNext]_hashVars
    PROVE  EscrowBacked'
<1>1. ASSUME NEW c \in Contracts, NEW u \in Chains, NEW a \in Payments, RegisterContract(c, u, a)
      PROVE  EscrowBacked'
  <2>1. /\ a \in Nat /\ params.denom \in EscrowDenoms /\ Pay(params.denom, a)
        /\ \A b \in Contracts \ {c} : escrow'[b] = escrow[b]
        /\ escrow'[c].denom = params.denom /\ escrow'[c].amount = a
    BY <1>1 DEF ConstantsOK, RegisterContract, Types
  <2>2. \A d \in EscrowDenoms : module'[d] = module[d] + (IF d = params.denom THEN a ELSE 0)
    BY <2>1, PayTypes
  <2>3. \A d \in EscrowDenoms : Paid(c, d) \in Nat /\ module[d] \in Nat
    BY DEF Types, Record, Paid
  <2>4. \A d \in EscrowDenoms : Paid(c, d)' <= Paid(c, d) + module'[d] - module[d]
    BY <2>1, <2>2, <2>3 DEF Paid
  <2> QED BY Zenon, <2>1, <2>4, CoveredAfter
<1>2. ASSUME NEW c \in Contracts, NEW a \in Payments, RefillEscrow(c, a) PROVE EscrowBacked'
  <2>0. escrow[c] \in Record
    BY <1>2 DEF RefillEscrow, Types
  <2>1. /\ a \in Nat /\ params.denom \in EscrowDenoms /\ Pay(params.denom, a)
        /\ \A b \in Contracts \ {c} : escrow'[b] = escrow[b]
        /\ escrow[c].denom = params.denom /\ escrow'[c].denom = params.denom
        /\ escrow[c] # None /\ escrow'[c].amount = escrow[c].amount + a
    BY <1>2, <2>0 DEF ConstantsOK, RefillEscrow, Types, Record
  <2>2. \A d \in EscrowDenoms : module'[d] = module[d] + (IF d = params.denom THEN a ELSE 0)
    BY <2>1, PayTypes
  <2>3. escrow[c].amount \in Nat /\ \A d \in EscrowDenoms : module[d] \in Nat
    BY <2>0 DEF Types, Record
  <2>4. \A d \in EscrowDenoms : Paid(c, d)' <= Paid(c, d) + module'[d] - module[d]
    BY <2>1, <2>2, <2>3 DEF Paid
  <2> QED BY <2>1, <2>4, CoveredAfter
<1>3. ASSUME UNCHANGED <<escrow, module>> PROVE EscrowBacked'
  BY <1>3 DEF EscrowBacked, Paid
<1> QED BY <1>1, <1>2, <1>3
        DEF HashNext, BeginBlock, RegisterChain, UpdateHashParams, EndBlock, Restart, hashVars, store, bank

(***************************************************************************)
(* The module account of x/hashmerchant holds at least what the escrow     *)
(* records of each denom say was paid, for any contracts and parameters:   *)
(* registration, refill and re-registration (msg_server.go) pay before     *)
(* they write a record, and a refill in another denom is no step.          *)
(***************************************************************************)
THEOREM EscrowBackedHolds == ASSUME ConstantsOK PROVE HashSpec => []EscrowBacked
<1>1. HashInit => Types /\ EscrowBacked
  <2> SUFFICES ASSUME HashInit, NEW d \in EscrowDenoms
               PROVE  module[d] >= SumFunction([c \in Contracts |-> Paid(c, d)])
    BY TypesInit DEF EscrowBacked
  <2> DEFINE f == [c \in Contracts |-> Paid(c, d)]
  <2>1. \A c \in Contracts : f[c] = 0
    BY DEF HashInit, Paid
  <2>2. SumFunction(f) = SumFunctionOnSet(f, Contracts)
    BY DEF SumFunction
  <2> HIDE DEF f
  <2>3. SumFunctionOnSet(f, Contracts) = 0
    BY <2>1, SumZero DEF ConstantsOK
  <2>4. module[d] >= SumFunction(f)
    BY <2>2, <2>3 DEF HashInit
  <2> QED BY <2>4 DEF f
<1>2. Types /\ EscrowBacked /\ [HashNext]_hashVars => Types' /\ EscrowBacked'
  BY TypesStep, CoveredStep
<1> QED BY <1>1, <1>2, PTL DEF HashSpec

(* A record is within what the module account holds in its denom.          *)
LEMMA AmountBound ==
    ASSUME ConstantsOK, Types, EscrowBacked, NEW c \in Contracts, escrow[c] # None
    PROVE  escrow[c] \in Record /\ escrow[c].amount <= module[escrow[c].denom]
<1> DEFINE d == escrow[c].denom
           f == [b \in Contracts |-> Paid(b, d)]
           rest == Contracts \ {c}
<1>1. escrow[c] \in Record
  BY DEF Types
<1>2. d \in EscrowDenoms /\ \A b \in Contracts : f[b] \in Nat
  BY <1>1 DEF Types, Record, Paid
<1>3. f[c] = escrow[c].amount
  BY DEF Paid
<1>4. SumFunction(f) = SumFunctionOnSet(f, Contracts)
  BY DEF SumFunction
<1>5. module[d] >= SumFunction(f)
  BY <1>2 DEF EscrowBacked
<1>6. module[d] \in Nat
  BY <1>2 DEF Types
<1> HIDE DEF f
<1>7. IsFiniteSet(rest)
  BY FS_Subset DEF ConstantsOK
<1>8. SumFunctionOnSet(f, rest) \in Nat
  BY <1>2, <1>7, SumNat
<1>9. SumFunctionOnSet(f, Contracts) = f[c] + SumFunctionOnSet(f, rest)
  BY <1>2, SumAny DEF ConstantsOK
<1>10. escrow[c].amount \in Nat
  BY <1>1 DEF Record
<1> QED BY <1>1, <1>3, <1>4, <1>5, <1>6, <1>8, <1>9, <1>10

-----------------------------------------------------------------------------
(***************************************************************************)
(* The longest interval, and that no term runs past what its record paid.  *)
(* Without it a paid height could wrap around the 64 bits and end a term   *)
(* before it began.                                                        *)
(***************************************************************************)
Fits(i) == /\ \A p \in ParamSets : p.interval <= i
           /\ MaxHeight + (PayerFunds + 1) * i < Word

Longest == CHOOSE i \in Nat : Fits(i)

Terms ==
    \A c \in Contracts :
        escrow[c] # None => escrow[c].paidUntil <= MaxHeight + escrow[c].amount * Longest

LEMMA LongestFits == ASSUME ConstantsOK, HeightsFit PROVE Longest \in Nat /\ Fits(Longest)
<1>1. \E i \in Nat : Fits(i)
  <2>1. PICK q \in ParamSets : /\ \A p \in ParamSets : p.interval <= q.interval
                               /\ MaxHeight + (PayerFunds + 1) * q.interval < Word
    BY DEF HeightsFit
  <2>2. q.interval \in Nat
    BY DEF ConstantsOK
  <2> QED BY <2>1, <2>2 DEF Fits
<1> QED BY <1>1 DEF Longest

(* A height within the bound of some amount the payer owns does not wrap.  *)
LEMMA NoWrap ==
    ASSUME ConstantsOK, HeightsFit, NEW a \in Nat, a <= PayerFunds,
           NEW n \in Nat, n <= MaxHeight + a * Longest
    PROVE  n % Word = n
<1> DEFINE i == Longest
<1>1. i \in Nat /\ MaxHeight + (PayerFunds + 1) * i < Word
  BY LongestFits DEF Fits
<1> HIDE DEF i
<1>2. PayerFunds \in Nat /\ MaxHeight \in Nat /\ Word \in Nat \ {0}
  BY DEF ConstantsOK
<1>3. (PayerFunds + 1) * i = PayerFunds * i + i
  BY <1>1, <1>2
<1>4. a * i \in Nat /\ a * i <= PayerFunds * i
  BY <1>1, <1>2, Product
<1>5. PayerFunds * i \in Nat
  BY <1>1, <1>2
<1>6. n <= MaxHeight + a * i
  BY DEF i
<1>7. n < Word
  BY <1>1, <1>2, <1>3, <1>4, <1>5, <1>6
<1> QED BY <1>2, <1>7

(* What a registration and a refill write (RegisterContract, RefillEscrow) *)
(* is the height they buy, unreduced.                                      *)
LEMMA RegisteredTerm ==
    ASSUME ConstantsOK, HeightsFit, Types, NEW c \in Contracts, NEW u \in Chains,
           NEW a \in Payments, RegisterContract(c, u, a)
    PROVE  /\ escrow'[c].paidUntil = height + Bought(a) /\ escrow'[c].amount = a
           /\ Bought(a) \in Nat /\ Bought(a) <= a * Longest /\ a * Longest \in Nat
<1>1. a \in Nat /\ params.min > 0 /\ params.denom \in EscrowDenoms /\ a <= wallet[params.denom]
  BY DEF ConstantsOK, RegisterContract, Pay, Types
<1>2. a <= PayerFunds
  BY <1>1 DEF Types, ConstantsOK
<1>3. Longest \in Nat /\ params.interval <= Longest
  BY LongestFits DEF Fits, Types
<1>4. Bought(a) \in Nat /\ Bought(a) <= a * Longest
  BY <1>1, <1>3, BoughtBound
<1>5. a * Longest \in Nat
  BY <1>1, <1>3
<1>6. height + Bought(a) \in Nat /\ height + Bought(a) <= MaxHeight + a * Longest
  BY <1>4, <1>5 DEF Types, ConstantsOK
<1>7. (height + Bought(a)) % Word = height + Bought(a)
  BY Zenon, <1>1, <1>2, <1>6, NoWrap
<1>8. /\ escrow'[c].paidUntil = (height + Bought(a)) % Word
      /\ escrow'[c].amount = a
  BY Zenon DEF RegisterContract, Types
<1> QED BY Zenon, <1>4, <1>5, <1>7, <1>8

LEMMA RefilledTerm ==
    ASSUME ConstantsOK, HeightsFit, Types, EscrowBacked, Terms,
           NEW c \in Contracts, NEW a \in Payments, RefillEscrow(c, a)
    PROVE  /\ escrow[c] \in Record /\ Bought(a) \in Nat
           /\ escrow'[c].paidUntil = escrow[c].paidUntil + Bought(a)
           /\ escrow'[c].paidUntil <= MaxHeight + escrow'[c].amount * Longest
<1>1. a \in Nat /\ params.min > 0 /\ escrow[c] \in Record
  BY DEF ConstantsOK, RefillEscrow, Types
<1>2. Longest \in Nat /\ params.interval <= Longest
  BY LongestFits DEF Fits, Types
<1>3. Bought(a) \in Nat /\ Bought(a) <= a * Longest
  BY <1>1, <1>2, BoughtBound
<1> DEFINE m == escrow[c].amount
           n == escrow[c].paidUntil
<1>4. /\ escrow'[c] # None /\ escrow'[c].amount = m + a
      /\ escrow'[c].paidUntil = (n + Bought(a)) % Word
  <2>1. escrow' = [escrow EXCEPT ![c].amount = @ + a, ![c].paidUntil = (@ + Bought(a)) % Word]
    BY DEF RefillEscrow
  <2>2. /\ escrow'[c].amount = m + a /\ escrow'[c].paidUntil = (n + Bought(a)) % Word
        /\ escrow'[c].denom = escrow[c].denom
    BY <1>1, <2>1 DEF Types, Record
  <2>3. escrow'[c] = [denom |-> escrow[c].denom, amount |-> m + a,
                      paidUntil |-> (n + Bought(a)) % Word]
    BY Zenon, <1>1, <2>1 DEF Types, Record
  <2>4. (n + Bought(a)) % Word \in Nat /\ m + a \in Nat /\ escrow[c].denom \in EscrowDenoms
    BY <1>1, <1>3 DEF Record, ConstantsOK
  <2>5. escrow'[c] \in Record
    BY <2>3, <2>4 DEF Record
  <2> QED BY <2>2, <2>5 DEF ConstantsOK, Record
<1>5. m \in Nat /\ n \in Nat /\ n <= MaxHeight + m * Longest
  <2>1. escrow[c] # None
    BY DEF RefillEscrow
  <2> QED BY <1>1, <2>1 DEF Record, Terms
<1>6. m + a <= PayerFunds
  <2>1. m <= module[escrow[c].denom]
    BY AmountBound DEF RefillEscrow
  <2>2. escrow[c].denom = params.denom /\ wallet[params.denom] >= a /\ params.denom \in EscrowDenoms
    BY DEF RefillEscrow, Pay, Types, ConstantsOK
  <2> QED BY <1>1, <1>5, <2>1, <2>2 DEF Types, ConstantsOK
<1> HIDE DEF m, n
<1>7. (m + a) * Longest = m * Longest + a * Longest /\ m * Longest \in Nat /\ a * Longest \in Nat
  BY <1>1, <1>2, <1>5
<1>8. n + Bought(a) \in Nat /\ n + Bought(a) <= MaxHeight + (m + a) * Longest
  BY <1>3, <1>5, <1>7 DEF ConstantsOK
<1>9. (n + Bought(a)) % Word = n + Bought(a)
  BY <1>1, <1>5, <1>6, <1>8, NoWrap
<1> QED BY <1>1, <1>3, <1>4, <1>8, <1>9 DEF m, n

(***************************************************************************)
(* What the terms rest on.  A contract that did not lapse is enabled,      *)
(* since within a block only a lapsed one is expired.  An enabled contract *)
(* has paid up to the last prune, or up to this very block when the chain  *)
(* was restarted at zero and the epoch is ahead of the height; and after a *)
(* block the last prune is less than an interval ago.                      *)
(***************************************************************************)
Service ==
    /\ \A c \in Contracts : IsRegistered(c) => escrow[c] # None
    /\ \A c \in Contracts \ lapsed : IsRegistered(c) => contracts[c].enabled
    /\ phase = "deliver" => \A c \in Contracts : Expired(c) => c \in lapsed

Pruned ==
    /\ \A c \in Contracts : Enabled(c) => \/ escrow[c].paidUntil >= pruneEpoch
                                          \/ phase = "deliver" /\ escrow[c].paidUntil >= height
    /\ phase = "commit" => height < pruneEpoch + params.interval

EInv == Types /\ EscrowBacked /\ Terms /\ Service /\ Pruned

LEMMA TermsStep ==
    ASSUME ConstantsOK, HeightsFit, EInv, [HashNext]_hashVars PROVE Terms'
<1>1. ASSUME NEW c \in Contracts, NEW u \in Chains, NEW a \in Payments, RegisterContract(c, u, a)
      PROVE  Terms'
  <2>1. escrow'[c].paidUntil <= MaxHeight + escrow'[c].amount * Longest
    <3>1. /\ escrow'[c].paidUntil = height + Bought(a) /\ escrow'[c].amount = a
          /\ Bought(a) \in Nat /\ Bought(a) <= a * Longest /\ a * Longest \in Nat
      BY Zenon, <1>1, RegisteredTerm DEF EInv
    <3> QED BY <3>1 DEF EInv, Types, ConstantsOK
  <2>2. \A b \in Contracts \ {c} : escrow'[b] = escrow[b]
    BY Zenon, <1>1 DEF RegisterContract, EInv, Types
  <2> QED BY Zenon, <2>1, <2>2 DEF EInv, Terms
<1>2. ASSUME NEW c \in Contracts, NEW a \in Payments, RefillEscrow(c, a) PROVE Terms'
  <2>1. escrow'[c].paidUntil <= MaxHeight + escrow'[c].amount * Longest
    BY <1>2, RefilledTerm DEF EInv
  <2>2. \A b \in Contracts \ {c} : escrow'[b] = escrow[b]
    BY <1>2 DEF RefillEscrow, EInv, Types
  <2> QED BY <2>1, <2>2 DEF EInv, Terms
<1>3. ASSUME UNCHANGED escrow PROVE Terms'
  BY <1>3 DEF EInv, Terms
<1> QED BY Zenon, <1>1, <1>2, <1>3
        DEF HashNext, BeginBlock, RegisterChain, UpdateHashParams, EndBlock, Restart, hashVars, store

(* When the epoch is ahead of the height a prune is due at once: the       *)
(* unsigned difference is larger than any interval.                        *)
LEMMA AheadIsDue ==
    ASSUME ConstantsOK, HeightsFit, Types, ~PruneDue
    PROVE  pruneEpoch <= height /\ height < pruneEpoch + params.interval
<1> DEFINE i == Longest
<1>1. i \in Nat /\ params.interval <= i /\ MaxHeight + (PayerFunds + 1) * i < Word
  BY LongestFits DEF Fits, Types
<1> HIDE DEF i
<1>2. PayerFunds \in Nat /\ MaxHeight \in Nat /\ Word \in Nat \ {0} /\ params.interval \in Nat
  BY DEF ConstantsOK, Types
<1>3. (PayerFunds + 1) * i = PayerFunds * i + i /\ PayerFunds * i \in Nat
  BY <1>1, <1>2
<1>4. MaxHeight + params.interval < Word
  BY <1>1, <1>2, <1>3
<1>5. height \in 0..MaxHeight /\ pruneEpoch \in 0..MaxHeight
  BY DEF Types
<1>6. ~((height - pruneEpoch) % Word >= params.interval)
  BY DEF PruneDue
<1>7. CASE pruneEpoch <= height
  <2>1. (height - pruneEpoch) % Word = height - pruneEpoch
    BY <1>2, <1>4, <1>5, <1>7
  <2> QED BY <1>2, <1>5, <1>6, <1>7, <2>1
<1>8. CASE pruneEpoch > height
  <2>1. (height - pruneEpoch) % Word = height - pruneEpoch + Word
    BY <1>2, <1>4, <1>5, <1>8
  <2> QED BY <1>2, <1>4, <1>5, <1>6, <1>8, <2>1
<1> QED BY <1>2, <1>5, <1>7, <1>8

LEMMA ServiceStep ==
    ASSUME ConstantsOK, HeightsFit, EInv, [HashNext]_hashVars PROVE Service'
<1> USE DEF EInv
<1>1. ASSUME NEW p \in V, NEW ans \in [V -> Answers \cup {None}], BeginBlock(p, ans) PROVE Service'
  BY Zenon, <1>1 DEF Service, BeginBlock, IsRegistered, Expired
<1>2. ASSUME NEW c \in Contracts, NEW u \in Chains, NEW a \in Payments, RegisterContract(c, u, a)
      PROVE  Service'
  <2>1. escrow'[c].paidUntil = height + Bought(a) /\ Bought(a) \in Nat
    BY Zenon, <1>2, RegisteredTerm
  <2>2. escrow'[c].paidUntil >= height'
    BY <1>2, <2>1 DEF RegisterContract, Types
  <2>3. \A b \in Contracts \ {c} : escrow'[b] = escrow[b] /\ contracts'[b] = contracts[b]
    BY <1>2 DEF RegisterContract, Types
  <2>4. contracts'[c].enabled /\ escrow'[c] # None
    <3>1. contracts'[c].enabled
      BY Zenon, <1>2 DEF RegisterContract, Types
    <3>2. escrow'[c] \in [denom : EscrowDenoms, amount : Nat, paidUntil : Nat]
      <4>1. escrow'[c] = [denom |-> params.denom, amount |-> a,
                          paidUntil |-> (height + Bought(a)) % Word]
        BY Zenon, <1>2 DEF RegisterContract, Types
      <4>2. params.denom \in EscrowDenoms /\ a \in Nat /\ height + Bought(a) \in Nat
        BY <2>1 DEF Types, ConstantsOK
      <4>3. (height + Bought(a)) % Word \in Nat
        BY <4>2 DEF ConstantsOK
      <4> QED BY <4>1, <4>2, <4>3
    <3> QED BY Zenon, <3>1, <3>2 DEF ConstantsOK
  <2>5. phase' = phase /\ height' = height /\ lapsed' = lapsed \ {c} /\ phase = "deliver"
    BY Zenon, <1>2 DEF RegisterContract
  <2>6. ~Expired(c)'
    BY <2>1, <2>2, <2>5 DEF Expired, Types
  <2> QED BY Zenon, <2>3, <2>4, <2>5, <2>6 DEF Service, IsRegistered, Expired
<1>3. ASSUME NEW c \in Contracts, NEW a \in Payments, RefillEscrow(c, a) PROVE Service'
  <2>1. /\ escrow[c] \in Record /\ Bought(a) \in Nat
        /\ escrow'[c].paidUntil = escrow[c].paidUntil + Bought(a)
    BY <1>3, RefilledTerm
  <2>2. escrow'[c].paidUntil >= escrow[c].paidUntil /\ escrow[c].paidUntil \in Nat
    BY <2>1 DEF Record
  <2>3. \A b \in Contracts \ {c} : escrow'[b] = escrow[b]
    BY <1>3 DEF RefillEscrow, Types
  <2>4. escrow'[c] # None
    <3>1. escrow'[c] = [denom |-> escrow[c].denom, amount |-> escrow[c].amount + a,
                        paidUntil |-> (escrow[c].paidUntil + Bought(a)) % Word]
      BY Zenon, <1>3, <2>1 DEF RefillEscrow, Types, Record
    <3>2. escrow[c].denom \in EscrowDenoms /\ escrow[c].amount + a \in Nat
      BY <2>1 DEF Record, ConstantsOK
    <3>3. (escrow[c].paidUntil + Bought(a)) % Word \in Nat
      BY <2>1, <2>2 DEF ConstantsOK
    <3> QED BY <3>1, <3>2, <3>3 DEF ConstantsOK
  <2>5. UNCHANGED <<phase, height, lapsed, contracts>> /\ escrow[c] # None /\ height \in Int
    BY <1>3 DEF RefillEscrow, Types
  <2>6. Expired(c)' => Expired(c)
    BY <2>1, <2>2, <2>5 DEF Expired
  <2> QED BY Zenon, <2>3, <2>4, <2>5, <2>6 DEF Service, IsRegistered, Expired
<1>4. ASSUME EndBlock PROVE Service'
  <2>1. phase' = "commit" /\ phase = "deliver" /\ UNCHANGED <<escrow, lapsed>>
    BY <1>4 DEF EndBlock, seen
  <2>2. CASE PruneDue /\ pruneExpiredEscrows
    <3>1. \A c \in Contracts : IsRegistered(c)' => IsRegistered(c)
      BY <2>2 DEF pruneExpiredEscrows, IsRegistered
    <3>2. \A c \in Contracts : ~Expired(c) => contracts'[c] = contracts[c]
      BY <2>2 DEF pruneExpiredEscrows
    <3> QED BY <2>1, <3>1, <3>2 DEF Service, IsRegistered
  <2>3. CASE UNCHANGED contracts
    BY <2>1, <2>3 DEF Service, IsRegistered
  <2> QED BY <1>4, <2>2, <2>3 DEF EndBlock
<1>5. ASSUME UNCHANGED <<escrow, contracts, lapsed, phase>>, height' = height \/ phase = "commit"
      PROVE  Service'
  BY Zenon, <1>5 DEF Service, IsRegistered, Expired
<1> QED BY Zenon, <1>1, <1>2, <1>3, <1>4, <1>5
        DEF HashNext, RegisterChain, UpdateHashParams, Restart, hashVars, store, seen

LEMMA PrunedStep ==
    ASSUME ConstantsOK, HeightsFit, EInv, [HashNext]_hashVars PROVE Pruned'
<1> USE DEF EInv
<1>0. /\ height \in Nat /\ pruneEpoch \in Nat /\ params.interval \in Nat /\ params.interval > 0
      /\ phase \in {"commit", "deliver"}
      /\ \A c \in Contracts : IsRegistered(c) => escrow[c] # None /\ escrow[c].paidUntil \in Nat
  BY DEF Types, ConstantsOK, ValidParams, Service, IsRegistered, Record
<1>1. ASSUME NEW p \in V, NEW ans \in [V -> Answers \cup {None}], BeginBlock(p, ans) PROVE Pruned'
  BY <1>1 DEF Pruned, BeginBlock, Enabled, IsRegistered
<1>2. ASSUME NEW c \in Contracts, NEW u \in Chains, NEW a \in Payments, RegisterContract(c, u, a)
      PROVE  Pruned'
  <2>1. escrow'[c].paidUntil = height + Bought(a) /\ Bought(a) \in Nat
    BY <1>2, RegisteredTerm
  <2>2. escrow'[c].paidUntil >= height
    BY <1>0, <2>1
  <2>3. \A b \in Contracts \ {c} : escrow'[b] = escrow[b] /\ contracts'[b] = contracts[b]
    BY <1>2 DEF RegisterContract, Types
  <2>4. UNCHANGED <<phase, height, pruneEpoch, params>> /\ phase = "deliver"
    BY Zenon, <1>2 DEF RegisterContract
  <2> QED BY Zenon, <2>2, <2>3, <2>4 DEF Pruned, Enabled, IsRegistered
<1>3. ASSUME NEW c \in Contracts, NEW a \in Payments, RefillEscrow(c, a) PROVE Pruned'
  <2>1. /\ escrow[c] \in Record /\ Bought(a) \in Nat
        /\ escrow'[c].paidUntil = escrow[c].paidUntil + Bought(a)
    BY <1>3, RefilledTerm
  <2>2. escrow'[c].paidUntil >= escrow[c].paidUntil /\ escrow[c].paidUntil \in Nat
        /\ escrow'[c].paidUntil \in Nat
    BY <2>1 DEF Record
  <2>3. \A b \in Contracts \ {c} : escrow'[b] = escrow[b]
    BY <1>3 DEF RefillEscrow, Types
  <2>4. UNCHANGED <<phase, height, pruneEpoch, params, contracts>> /\ phase = "deliver"
    BY <1>3 DEF RefillEscrow
  <2> QED BY <1>0, <2>2, <2>3, <2>4 DEF Pruned, Enabled, IsRegistered
<1>4. ASSUME NEW p \in ParamSets, UpdateHashParams(p) PROVE Pruned'
  BY <1>4 DEF Pruned, UpdateHashParams, Enabled, IsRegistered
<1>5. ASSUME EndBlock PROVE Pruned'
  <2>1. phase = "deliver" /\ phase' = "commit" /\ UNCHANGED <<height, params, escrow>>
    BY <1>5 DEF EndBlock
  <2>2. CASE PruneDue /\ pruneExpiredEscrows /\ pruneEpoch' = height
    <3>1. ASSUME NEW c \in Contracts, Enabled(c)' PROVE escrow[c].paidUntil >= height
      <4>1. IsRegistered(c)
        BY <2>2, <3>1 DEF pruneExpiredEscrows, Enabled, IsRegistered
      <4>2. contracts[c] \in Contract
        BY <4>1 DEF Types, IsRegistered
      <4>3. ~Expired(c)
        BY Zenon, <2>2, <3>1, <4>1, <4>2 DEF pruneExpiredEscrows, Enabled, Contract
      <4> QED BY <1>0, <4>1, <4>3 DEF Expired
    <3> QED BY <1>0, <2>1, <2>2, <3>1 DEF Pruned
  <2>3. CASE ~PruneDue /\ UNCHANGED <<contracts, pruneEpoch>>
    <3>1. pruneEpoch <= height /\ height < pruneEpoch + params.interval
      BY <2>3, AheadIsDue
    <3> QED BY <1>0, <2>1, <2>3, <3>1 DEF Pruned, Enabled, IsRegistered
  <2> QED BY <1>5, <2>2, <2>3 DEF EndBlock
<1>6. ASSUME NEW h \in {0, height}, Restart(h) PROVE Pruned'
  <2>1. /\ phase = "commit" /\ UNCHANGED <<phase, params, contracts, escrow, pruneEpoch>>
        /\ height' \in {0, height}
    BY <1>6 DEF Restart
  <2> QED BY <1>0, <2>1 DEF Pruned, Enabled, IsRegistered
<1>7. ASSUME UNCHANGED <<phase, height, pruneEpoch, params, contracts, escrow>> PROVE Pruned'
  BY <1>7 DEF Pruned, Enabled, IsRegistered
<1> QED BY Zenon, <1>1, <1>2, <1>3, <1>4, <1>5, <1>6, <1>7 DEF HashNext, RegisterChain, hashVars, store

(* The invariant of the escrow holds at first and is kept by every step.   *)
LEMMA EInvHolds == ASSUME ConstantsOK, HeightsFit PROVE HashSpec => []EInv
<1>1. HashSpec => []EscrowBacked
  BY EscrowBackedHolds
<1>2. HashInit => Types /\ Terms /\ Service /\ Pruned
  <2> SUFFICES ASSUME HashInit PROVE Types /\ Terms /\ Service /\ Pruned
    OBVIOUS
  <2>1. Types
    BY TypesInit
  <2>2. Terms /\ Service
    BY Zenon DEF HashInit, Terms, Service, IsRegistered
  <2>3. params.interval \in Nat /\ params.interval > 0
    BY <2>1 DEF Types, ValidParams, ConstantsOK
  <2>4. Pruned
    BY <2>3 DEF HashInit, Pruned, Enabled, IsRegistered
  <2> QED BY <2>1, <2>2, <2>4
<1>3. EscrowBacked /\ Types /\ Terms /\ Service /\ Pruned /\ [HashNext]_hashVars
        => (Types /\ Terms /\ Service /\ Pruned)'
  <2> SUFFICES ASSUME EInv, [HashNext]_hashVars PROVE (Types /\ Terms /\ Service /\ Pruned)'
    BY DEF EInv
  <2>1. Types'
    BY TypesStep DEF EInv
  <2>2. Terms'
    BY TermsStep
  <2>3. Service'
    BY ServiceStep
  <2>4. Pruned'
    BY PrunedStep
  <2> QED BY <2>1, <2>2, <2>3, <2>4
<1> QED BY <1>1, <1>2, <1>3, PTL DEF HashSpec, EInv

(***************************************************************************)
(* After every block an enabled contract is less than one prune interval   *)
(* past the height it paid for (EndBlocker, pruneExpiredEscrows), however  *)
(* governance changed the interval and wherever the chain was restarted,   *)
(* provided that no paid height overflows 64 bits.                         *)
(***************************************************************************)
THEOREM DisabledWithinIntervalHolds ==
    ASSUME ConstantsOK, HeightsFit PROVE HashSpec => []DisabledWithinInterval
<1>1. EInv => DisabledWithinInterval
  <2> SUFFICES ASSUME EInv, phase = "commit", NEW c \in Contracts, Enabled(c)
               PROVE  height < escrow[c].paidUntil + params.interval
    BY DEF DisabledWithinInterval
  <2>1. escrow[c].paidUntil >= pruneEpoch /\ height < pruneEpoch + params.interval
    BY DEF EInv, Pruned
  <2>2. /\ escrow[c].paidUntil \in Nat /\ pruneEpoch \in Nat /\ height \in Nat
        /\ params.interval \in Nat
    BY DEF EInv, Types, Service, Enabled, Record, ConstantsOK
  <2> QED BY <2>1, <2>2
<1> QED BY <1>1, EInvHolds, PTL

(***************************************************************************)
(* A contract that met no block past its paid height since it was last     *)
(* registered is called with every root confirmed for its chain            *)
(* (dispatchSudoCallbacks): no prune and no restart cuts its term short.   *)
(***************************************************************************)
THEOREM ServedWhilePaidHolds ==
    ASSUME ConstantsOK, HeightsFit PROVE HashSpec => ServedWhilePaid
<1> DEFINE Served == height' = height + 1 =>
                       \A c \in Contracts \ lapsed', b \in confirmed' :
                          IsRegistered(c) /\ contracts[c].chain = b.key[1] =>
                              [contract |-> c, root |-> b.root] \in called'
<1>1. EInv /\ [HashNext]_hashVars => [Served]_hashVars
  <2> SUFFICES ASSUME EInv, HashNext, height' = height + 1,
                      NEW c \in Contracts \ lapsed', NEW b \in confirmed',
                      IsRegistered(c), contracts[c].chain = b.key[1]
               PROVE  [contract |-> c, root |-> b.root] \in called'
    OBVIOUS
  <2>1. height \in Nat
    BY DEF EInv, Types
  <2>2. PICK p \in V, ans \in [V -> Answers \cup {None}] : BeginBlock(p, ans)
    <3>1. ASSUME NEW u \in Chains, NEW ch \in ChainMsgs PROVE RegisterChain(u, ch) => height' = height
      BY Zenon DEF RegisterChain
    <3>2. ASSUME NEW e \in Contracts, NEW u \in Chains, NEW a \in Payments
          PROVE  RegisterContract(e, u, a) => height' = height
      BY DEF RegisterContract
    <3>3. ASSUME NEW e \in Contracts, NEW a \in Payments PROVE RefillEscrow(e, a) => height' = height
      BY DEF RefillEscrow
    <3>4. ASSUME NEW q \in ParamSets PROVE UpdateHashParams(q) => height' = height
      BY DEF UpdateHashParams
    <3>5. EndBlock => height' = height
      BY SMTT(30) DEF EndBlock
    <3>6. ASSUME NEW h \in {0, height} PROVE Restart(h) => height' \in {0, height}
      BY SMTT(30) DEF Restart
    <3>7. height' \notin {0, height}
      BY <2>1
    <3> QED BY Zenon, <3>1, <3>2, <3>3, <3>4, <3>5, <3>6, <3>7 DEF HashNext
  <2>3. c \notin lapsed /\ ~(escrow[c] # None /\ escrow[c].paidUntil < height')
    BY Zenon, <2>2 DEF BeginBlock
  <2>4. escrow[c] # None /\ contracts[c].enabled
    BY Zenon, <2>3 DEF EInv, Service
  <2>5. escrow[c].paidUntil \in Nat
    BY Zenon, <2>4 DEF EInv, Types, Record
  <2>6. c \in dispatchSudoCallbacks(b.key[1], height')
    BY <2>1, <2>3, <2>4, <2>5 DEF dispatchSudoCallbacks, Enabled
  <2>7. PICK x \in Confirmed : b = [key |-> x.key, root |-> x.root, power |-> PowerOf(Backers(x))]
    BY Zenon, <2>2 DEF BeginBlock, ProcessVoteExtensions
  <2>8. b.key = x.key /\ b.root = x.root
    BY Zenon, <2>7
  <2> DEFINE calls(y) == {[contract |-> e, root |-> y.root]
                            : e \in dispatchSudoCallbacks(y.key[1], height')}
  <2>9. [contract |-> c, root |-> b.root] \in calls(x)
    BY ZenonT(30), <2>6, <2>8
  <2>10. called' = UNION {calls(y) : y \in Confirmed}
    BY <2>2 DEF BeginBlock, ProcessVoteExtensions
  <2> HIDE DEF calls
  <2>11. calls(x) \in {calls(y) : y \in Confirmed}
    BY <2>7
  <2> QED BY Zenon, <2>9, <2>10, <2>11
<1>2. HashSpec => [][Served]_hashVars
  BY <1>1, EInvHolds, PTL DEF HashSpec
<1> QED BY <1>2 DEF ServedWhilePaid

-----------------------------------------------------------------------------
(***************************************************************************)
(* The tally.  Quorum(p) is the threshold under the parameters p.          *)
(***************************************************************************)
Quorum(p) == (p.quorum * Total) \div 1000

(* Powers add up over disjoint sets of validators.                         *)
LEMMA PowerAdds ==
    ASSUME ConstantsOK, NEW A \in SUBSET V, NEW B \in SUBSET V, A \cap B = {}
    PROVE  /\ PowerOf(A) \in Nat /\ PowerOf(B) \in Nat /\ Total \in Nat
           /\ PowerOf(A) + PowerOf(B) <= Total
<1> DEFINE C == V \ (A \cup B)
           D == A \cup B
<1>1. /\ IsFiniteSet(A) /\ IsFiniteSet(B) /\ IsFiniteSet(C) /\ IsFiniteSet(D) /\ IsFiniteSet(V)
      /\ \A v \in V : Power[v] \in Nat
  BY FS_Subset DEF ConstantsOK
<1>2. D \cap C = {} /\ D \cup C = V
  OBVIOUS
<1>3. /\ SumFunctionOnSet(Power, A) \in Nat /\ SumFunctionOnSet(Power, B) \in Nat
      /\ SumFunctionOnSet(Power, C) \in Nat /\ SumFunctionOnSet(Power, V) \in Nat
  BY <1>1, SumNat
<1>4. SumFunctionOnSet(Power, D) = SumFunctionOnSet(Power, A) + SumFunctionOnSet(Power, B)
  BY <1>1, SumUnion
<1> HIDE DEF C, D
<1>5. \A v \in D \cup C : Power[v] \in Int
  BY <1>1, <1>2
<1>6. SumFunctionOnSet(Power, D \cup C) = SumFunctionOnSet(Power, D) + SumFunctionOnSet(Power, C)
  BY <1>1, <1>2, <1>5, SumUnion
<1>7. SumFunctionOnSet(Power, V) = SumFunctionOnSet(Power, D) + SumFunctionOnSet(Power, C)
  BY Zenon, <1>2, <1>6
<1> QED BY <1>3, <1>4, <1>7 DEF PowerOf, Total

LEMMA PowerOfOne == ASSUME ConstantsOK, NEW v \in V PROVE PowerOf({v}) = Power[v]
<1>1. IsFiniteSet({v}) /\ IsFiniteSet({}) /\ Power[v] \in Int
  <2>1. IsFiniteSet({v}) /\ IsFiniteSet({})
    BY FS_Subset DEF ConstantsOK
  <2>2. Power[v] \in Int
    BY DEF ConstantsOK
  <2> QED BY Zenon, <2>1, <2>2
<1>2. SumFunctionOnSet(Power, {v}) = Power[v] + SumFunctionOnSet(Power, {v} \ {v})
  BY Zenon, <1>1, SumAny
<1>3. SumFunctionOnSet(Power, {}) = 0
  BY <1>1, SumZero
<1>4. {v} \ {v} = {}
  OBVIOUS
<1> QED BY <1>1, <1>2, <1>3, <1>4 DEF PowerOf

(* A validator backs one root, so two roots of a key share out the power.  *)
LEMMA OneConfirmed ==
    ASSUME ConstantsOK, params \in ParamSets, 2 * Quorum(params) > Total,
           NEW a \in Confirmed, NEW b \in Confirmed, a.key = b.key
    PROVE  a.root = b.root
<1> SUFFICES ASSUME a.root # b.root PROVE FALSE
  BY Zenon
<1>1. Backers(a) \in SUBSET V /\ Backers(b) \in SUBSET V /\ Backers(a) \cap Backers(b) = {}
  BY DEF Backers
<1>2. /\ PowerOf(Backers(a)) \in Nat /\ PowerOf(Backers(b)) \in Nat /\ Total \in Nat
      /\ PowerOf(Backers(a)) + PowerOf(Backers(b)) <= Total
  BY Zenon, <1>1, PowerAdds
<1>3. PowerOf(Backers(a)) >= Quorum(params) /\ PowerOf(Backers(b)) >= Quorum(params)
  BY DEF Confirmed, QuorumThreshold, TotalPower, Quorum
<1>4. params.quorum * Total \in Nat
  BY <1>2 DEF ConstantsOK
<1>5. Quorum(params) \in Int
  BY <1>4 DEF Quorum
<1> QED BY <1>2, <1>3, <1>5

(***************************************************************************)
(* A vote is of an enabled chain, and of the votes of two validators at    *)
(* least one is: only the proposer's own was not verified.                 *)
(***************************************************************************)
ChainOn(u) == u \in Chains /\ chains[u] # None /\ chains[u].enabled

VoteOn(v) == votes[v] = None \/ ChainOn(votes[v].chain)

NoVoteIsQuorum == \A p \in ParamSets, v \in V : Power[v] < Quorum(p)

LEMMA ConfirmedOn ==
    ASSUME ConstantsOK, params \in ParamSets, NoVoteIsQuorum,
           \A v, w \in V : v # w => VoteOn(v) \/ VoteOn(w), NEW b \in Confirmed
    PROVE  ChainOn(b.key[1])
<1>1. PICK v \in V : votes[v] # None /\ b = [key |-> Key(v), root |-> votes[v].root]
  BY DEF Confirmed, Ballots
<1>2. v \in Backers(b)
  BY <1>1 DEF Backers
<1>3. PowerOf(Backers(b)) >= Quorum(params)
  BY DEF Confirmed, QuorumThreshold, TotalPower, Quorum
<1>4. PICK w \in Backers(b) : VoteOn(w)
  <2> SUFFICES ASSUME \A w \in Backers(b) : ~VoteOn(w) PROVE FALSE
    BY Zenon
  <2>1. Backers(b) = {v}
    BY <1>2 DEF Backers
  <2>2. PowerOf(Backers(b)) = Power[v]
    BY <2>1, PowerOfOne
  <2>3. Power[v] < Quorum(params)
    BY Zenon DEF NoVoteIsQuorum
  <2>4. Power[v] \in Nat /\ Total \in Nat /\ params.quorum \in Nat
    <3>1. {} \in SUBSET V /\ {} \cap {} = {}
      OBVIOUS
    <3>2. Total \in Nat
      BY Zenon, <3>1, PowerAdds
    <3> QED BY <3>2 DEF ConstantsOK
  <2>5. params.quorum * Total \in Nat
    BY <2>4
  <2>6. Quorum(params) \in Int
    BY <2>5 DEF Quorum
  <2> QED BY <1>3, <2>2, <2>3, <2>4, <2>6
<1>5. votes[w] # None /\ Key(w) = b.key
  BY DEF Backers
<1>6. b.key[1] = votes[w].chain
  BY <1>5 DEF Key
<1> QED BY Zenon, <1>4, <1>5, <1>6 DEF VoteOn

VInv ==
    /\ Types
    /\ chains = [u \in Chains |-> chains[u]]
    /\ \A v, w \in V : v # w => VoteOn(v) \/ VoteOn(w)
    /\ (\A p \in ParamSets : 2 * Quorum(p) > Total) =>
          \A a, b \in confirmed : a.key = b.key => a.root = b.root
    /\ NoVoteIsQuorum => \A b \in confirmed : ChainOn(b.key[1])

(* A report keeps its chain through ExtendVote.                            *)
LEMMA ExtendKeepsChain ==
    ASSUME ConstantsOK, NEW x \in Answers \cup {None}
    PROVE  ExtendVote(x) = None \/ (ExtendVote(x).chain \in Chains)
<1>1. CASE x = None
  BY <1>1 DEF ExtendVote
<1>2. CASE x # None
  <2> DEFINE F == {"chain", "algo", "root", "height", "atts"}
             r == IF x.root = None /\ x.atts # <<>> THEN aggregateAttestationRoot(x.atts) ELSE x.root
  <2>1. x = [f \in F |-> x[f]] /\ x.chain \in Chains
    BY <1>2 DEF ConstantsOK
  <2>2. ExtendVote(x) = [x EXCEPT !.root = r]
    BY <1>2 DEF ExtendVote
  <2> HIDE DEF r
  <2>3. DOMAIN x = F
    BY <2>1
  <2>4. ExtendVote(x).chain = x.chain
    BY <2>2, <2>3
  <2> QED BY Zenon, <2>1, <2>4
<1> QED BY <1>1, <1>2

LEMMA VInvStep == ASSUME ConstantsOK, VInv, [HashNext]_hashVars PROVE VInv'
<1>0. Types'
  BY Zenon, TypesStep DEF VInv
<1>1. ASSUME NEW p \in V, NEW ans \in [V -> Answers \cup {None}], BeginBlock(p, ans) PROVE VInv'
  <2>1. UNCHANGED chains /\ params \in ParamSets /\ votes' = LocalLastCommit(p, ans)
    BY Zenon, <1>1 DEF BeginBlock, VInv, Types
  <2>2. confirmed' = {[key |-> b.key, root |-> b.root, power |-> PowerOf(Backers(b))] : b \in Confirmed}
    BY Zenon, <1>1 DEF BeginBlock, ProcessVoteExtensions
  <2>3. ASSUME NEW v \in V, v # p PROVE VoteOn(v)'
    <3>1. ans[v] \in Answers \cup {None}
      OBVIOUS
    <3>2. ExtendVote(ans[v]) = None \/ ExtendVote(ans[v]).chain \in Chains
      BY Zenon, <3>1, ExtendKeepsChain
    <3>3. votes'[v] = IF VerifyVoteExtension(ExtendVote(ans[v])) THEN ExtendVote(ans[v]) ELSE None
      BY Zenon, <2>1, <2>3 DEF LocalLastCommit
    <3> HIDE DEF ExtendVote
    <3> QED BY <2>1, <3>2, <3>3 DEF VoteOn, ChainOn, VerifyVoteExtension
  <2>4. ASSUME \A q \in ParamSets : 2 * Quorum(q) > Total, NEW a \in confirmed', NEW b \in confirmed',
               a.key = b.key
        PROVE  a.root = b.root
    <3>1. PICK x \in Confirmed : a = [key |-> x.key, root |-> x.root, power |-> PowerOf(Backers(x))]
      BY Zenon, <2>2
    <3>2. PICK y \in Confirmed : b = [key |-> y.key, root |-> y.root, power |-> PowerOf(Backers(y))]
      BY Zenon, <2>2
    <3>3. x.key = y.key /\ a.root = x.root /\ b.root = y.root
      BY Zenon, <2>4, <3>1, <3>2
    <3>4. x.root = y.root
      BY Zenon, <2>1, <2>4, <3>3, OneConfirmed
    <3> QED BY Zenon, <3>3, <3>4
  <2>5. ASSUME NoVoteIsQuorum, NEW b \in confirmed' PROVE ChainOn(b.key[1])'
    <3>1. PICK x \in Confirmed : b = [key |-> x.key, root |-> x.root, power |-> PowerOf(Backers(x))]
      BY Zenon, <2>2
    <3>2. ChainOn(x.key[1])
      BY Zenon, <2>1, <2>5, ConfirmedOn DEF VInv
    <3>3. b.key = x.key
      BY <3>1
    <3> QED BY Zenon, <2>1, <3>2, <3>3 DEF ChainOn
  <2>6. \A v, w \in V : v # w => VoteOn(v)' \/ VoteOn(w)'
    BY Zenon, <2>3
  <2>7. (chains = [u \in Chains |-> chains[u]])'
    BY Zenon, <2>1 DEF VInv
  <2> QED BY Zenon, <1>0, <2>4, <2>5, <2>6, <2>7 DEF VInv, Quorum, NoVoteIsQuorum
<1>2. ASSUME NEW u \in Chains, NEW ch \in ChainMsgs, RegisterChain(u, ch) PROVE VInv'
  <2>1. \A y : ChainOn(y) => ChainOn(y)'
    BY <1>2 DEF RegisterChain, ChainOn, VInv
  <2>2. UNCHANGED <<votes, confirmed>>
    BY Zenon, <1>2 DEF RegisterChain, seen
  <2>3. (chains = [y \in Chains |-> chains[y]])'
    BY <1>2 DEF RegisterChain, VInv
  <2>4. \A v \in V : VoteOn(v) => VoteOn(v)'
    BY Zenon, <2>1, <2>2 DEF VoteOn
  <2> QED BY <1>0, <2>1, <2>2, <2>3, <2>4 DEF VInv, NoVoteIsQuorum, Quorum
<1>3. ASSUME UNCHANGED <<chains, votes, confirmed>> PROVE VInv'
  BY <1>0, <1>3 DEF VInv, ChainOn, VoteOn, NoVoteIsQuorum, Quorum
<1>4. ASSUME NEW h \in {0, height}, Restart(h) PROVE VInv'
  <2>1. UNCHANGED chains /\ votes' = [v \in V |-> None] /\ confirmed' = {}
    BY Zenon, <1>4 DEF Restart
  <2> QED BY <1>0, <2>1 DEF VInv, VoteOn
<1> QED BY Zenon, <1>1, <1>2, <1>3, <1>4
        DEF HashNext, RegisterContract, RefillEscrow, UpdateHashParams, EndBlock, hashVars, store, seen

LEMMA VInvHolds == ASSUME ConstantsOK PROVE HashSpec => []VInv
<1>1. HashInit => VInv
  <2> SUFFICES ASSUME HashInit PROVE VInv
    OBVIOUS
  <2>1. Types
    BY Zenon, TypesInit
  <2>2. \A v \in V : VoteOn(v)
    BY DEF HashInit, VoteOn
  <2>3. chains = [u \in Chains |-> chains[u]] /\ confirmed = {}
    BY DEF HashInit
  <2> QED BY <2>1, <2>2, <2>3 DEF VInv
<1>2. VInv /\ [HashNext]_hashVars => VInv'
  BY VInvStep
<1> QED BY <1>1, <1>2, PTL DEF HashSpec

(***************************************************************************)
(* While every quorum that governance may set is more than half of the     *)
(* power, a block confirms one root per chain and algorithm                *)
(* (ProcessVoteExtensions), for any validators, powers and votes.          *)
(***************************************************************************)
LEMMA OneRootPerKeyHolds == ASSUME ConstantsOK PROVE HashSpec => []OneRootPerKey
<1>1. VInv => OneRootPerKey
  BY Zenon DEF VInv, OneRootPerKey, Quorum
<1> QED BY <1>1, VInvHolds, PTL

(***************************************************************************)
(* While no single vote is a quorum, every root a block confirms is of a   *)
(* chain that governance registered and enabled: the tally does not look,  *)
(* but VerifyVoteExtension did for all votes except the proposer's own.    *)
(***************************************************************************)
LEMMA RootsOfEnabledChainsHolds == ASSUME ConstantsOK PROVE HashSpec => []RootsOfEnabledChains
<1>1. VInv => RootsOfEnabledChains
  BY DEF VInv, RootsOfEnabledChains, NoVoteIsQuorum, Quorum, ChainOn
<1> QED BY <1>1, VInvHolds, PTL

(***************************************************************************)
(* A block confirms one root per chain and algorithm, and only of chains   *)
(* that governance enabled (ProcessVoteExtensions, VerifyVoteExtension).   *)
(***************************************************************************)
THEOREM RootsAgreedHolds == ASSUME ConstantsOK PROVE HashSpec => []RootsAgreed
<1>1. OneRootPerKey /\ RootsOfEnabledChains => RootsAgreed
  BY Zenon DEF RootsAgreed
<1> QED BY <1>1, OneRootPerKeyHolds, RootsOfEnabledChainsHolds, PTL
=============================================================================
