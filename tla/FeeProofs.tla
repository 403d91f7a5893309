----------------------------- MODULE FeeProofs ------------------------------
(***************************************************************************)
(* x/feeshare and the drip: the indexes list exactly the records, a new    *)
(* one names the contract's controller or the contract itself, with a share*)
(* of at most a half a transaction pays out no more than its fee, and the  *)
(* coins dripped into the fee collector reach the stakers, whatever the    *)
(* feeshare decorator pays out between two sweeps.                         *)
(*                                                                         *)
(* CwHooks: a registered contract keeps an exact copy of the delegations,  *)
(* and no contract hears of an event that one before it in the order of    *)
(* addresses missed.                                                       *)
(*                                                                         *)
(* GlobalFee: the binary search finds the price of a denom, and the        *)
(* decorator admits what pays the higher of the two prices and nothing     *)
(* else.                                                                   *)
(***************************************************************************)
EXTENDS Drip, CwHooks, GlobalFee, SumProofs

\* The division of the integers, as RoundInt uses it.
LEMMA DivMod ==
  ASSUME NEW a \in Nat, NEW b \in Nat \ {0}
  PROVE  /\ a \div b \in Nat /\ a % b \in Nat
         /\ a = b * (a \div b) + (a % b) /\ a % b < b
BY SMT

\* A product of naturals is a natural, and is positive when both factors are.
LEMMA Products ==
  ASSUME NEW a \in Nat, NEW b \in Nat
  PROVE  a * b \in Nat /\ (a > 0 /\ b > 0 => a * b > 0)
BY SMT

\* Products associate.
LEMMA Associate ==
  ASSUME NEW a \in Nat, NEW b \in Nat, NEW c \in Nat
  PROVE  (a * b) * c = a * (b * c)
BY SMT

\* A positive factor cancels in a comparison.
LEMMA Cancel ==
  ASSUME NEW a \in Nat, NEW b \in Nat, NEW k \in Nat \ {0}, k * a <= k * b
  PROVE  a <= b
<1>1. CASE a > b
  <2>1. PICK x \in Nat : a = b + x /\ x > 0
    <3>1. a - b \in Nat /\ a = b + (a - b) /\ a - b > 0
      BY <1>1
    <3> QED BY <3>1
  <2>2. k * a = k * b + k * x
    BY <2>1
  <2>3. k * x > 0
    BY <2>1, Products
  <2>4. k * a \in Nat /\ k * b \in Nat /\ k * x \in Nat
    BY Zenon, <2>1, Products
  <2> QED BY <2>2, <2>3, <2>4
<1> QED BY <1>1

\* FeePayLogic pays n withdrawers at most the amount it splits, if the share
\* num/den is at most a half: a part is rounded up only from a half, and then
\* what is split is at least as much as the parts together.
LEMMA RoundedParts ==
  ASSUME NEW num \in Nat, NEW den \in Nat \ {0}, 2 * num <= den,
         NEW f \in Nat, NEW n \in Nat \ {0}
  PROVE  /\ RoundInt(num * f, den * n) \in Nat
         /\ n * RoundInt(num * f, den * n) <= f
<1> DEFINE N == num * f
           D == den * n
           q == N \div D
           r == N % D
<1>1. N \in Nat /\ D \in Nat \ {0}
  BY Products
<1>2. q \in Nat /\ r \in Nat /\ N = D * q + r /\ r < D
  <2> HIDE DEF N, D
  <2> QED BY Zenon, <1>1, DivMod
<1>3. 2 * N <= den * f
  <2>1. PICK x \in Nat : den = 2 * num + x
    <3>1. den - 2 * num \in Nat /\ den = 2 * num + (den - 2 * num)
      OBVIOUS
    <3> QED BY Zenon, <3>1
  <2>2. den * f = 2 * (num * f) + x * f
    BY <2>1
  <2>3. x * f \in Nat /\ num * f \in Nat
    BY <2>1, Products
  <2> QED BY <2>2, <2>3
<1>4. D * q = den * (n * q)
  <2> HIDE DEF q
  <2> QED BY <1>2, Associate
<1>5. n * q \in Nat /\ n * (q + 1) \in Nat /\ den * f \in Nat /\ D * q \in Nat
  BY <1>1, <1>2, Products
<1>6. CASE RoundInt(N, D) = q
  <2>1. den * (n * q) <= den * f
    <3> HIDE DEF N, D, q, r
    <3> QED BY <1>1, <1>2, <1>3, <1>4, <1>5
  <2>2. n * q <= f
    <3> HIDE DEF q
    <3> QED BY <2>1, <1>5, Cancel
  <2> QED BY <1>6, <2>2, <1>2
<1>7. CASE 2 * r >= D /\ RoundInt(N, D) = q + 1
  <2>1. den * (n * (q + 1)) = D * q + D
    <3>1. den * (n * (q + 1)) = den * (n * q) + den * n
      <4> HIDE DEF q, N
      <4> QED BY <1>2
    <3> QED BY <3>1, <1>4
  <2>2. den * (n * (q + 1)) <= den * f
    <3> HIDE DEF N, D, q, r
    <3>1. 2 * N = 2 * (D * q) + 2 * r
      BY <1>1, <1>2, <1>5
    <3>2. 2 * (D * q) + D <= den * f
      BY <3>1, <1>1, <1>2, <1>3, <1>5, <1>7
    <3> QED BY <3>2, <2>1, <1>1, <1>5
  <2>3. n * (q + 1) <= f
    <3> HIDE DEF q
    <3> QED BY <2>2, <1>5, Cancel
  <2> QED BY <1>7, <2>3, <1>2
<1>8. RoundInt(N, D) = q \/ (2 * r >= D /\ RoundInt(N, D) = q + 1)
  BY <1>1, <1>2 DEF RoundInt
<1> QED BY Zenon, <1>6, <1>7, <1>8

-----------------------------------------------------------------------------
\* At most one entry of a list without repetitions is d.
LEMMA ListedOnce ==
  ASSUME NEW s, IsInjective(s), NEW d
  PROVE  Cardinality({i \in DOMAIN s : s[i] = d}) \in {0, 1}
<1> DEFINE I == {i \in DOMAIN s : s[i] = d}
<1>1. CASE I = {}
  BY <1>1, FS_EmptySet
<1>2. CASE I # {}
  <2>1. PICK i \in I : TRUE
    BY <1>2
  <2>2. I = {i}
    BY <2>1 DEF IsInjective
  <2> QED BY Zenon, <2>2, FS_Singleton
<1> QED BY <1>1, <1>2

\* With a share of at most a half and no denom listed twice, FeeSharePayout
\* takes from the collector a natural number of coins per denom, and no more
\* than the fee.
LEMMA PayoutNat ==
  ASSUME params \in ParamSets, NEW fee \in [Denoms -> Nat], NEW execs \in Seq(Contracts),
         2 * params.num <= params.den, IsInjective(params.allowed)
  PROVE  /\ FeeSharePayout(fee, execs) \in [Denoms -> Nat]
         /\ \A d \in Denoms : FeeSharePayout(fee, execs)[d] <= fee[d]
<1> DEFINE n == Cardinality(ToPay(execs))
           A == AllowedFees(fee)
<1>1. n \in Nat
  <2>1. DOMAIN execs = 1 .. Len(execs) /\ Len(execs) \in Nat
    OBVIOUS
  <2>2. IsFiniteSet(1 .. Len(execs))
    BY <2>1, FS_Interval
  <2>3. IsFiniteSet(ToPay(execs))
    BY Zenon, <2>1, <2>2, FS_Subset DEF ToPay
  <2> QED BY <2>3, FS_CardinalityType
<1>2. CASE ~params.enabled \/ n = 0
  BY <1>2 DEF FeeSharePayout, NoCoins
<1>3. CASE ~(~params.enabled \/ n = 0)
  <2>1. \A d \in Denoms : A[d] \in Nat /\ A[d] <= fee[d]
    <3> SUFFICES ASSUME NEW d \in Denoms PROVE A[d] \in Nat /\ A[d] <= fee[d]
      BY Zenon
    <3>1. CASE params.allowed = <<>>
      BY <3>1 DEF AllowedFees
    <3>2. CASE params.allowed # <<>>
      <4> DEFINE k == Cardinality({i \in DOMAIN params.allowed : params.allowed[i] = d})
      <4>1. k \in {0, 1}
        BY Zenon, ListedOnce
      <4>2. A[d] = fee[d] * k
        BY <3>2 DEF AllowedFees
      <4> HIDE DEF k, A
      <4> QED BY <4>1, <4>2
    <3> QED BY <3>1, <3>2
  <2>2. \A d \in Denoms : n * FeePayLogic(A, n)[d] \in Nat /\ n * FeePayLogic(A, n)[d] <= fee[d]
    <3> SUFFICES ASSUME NEW d \in Denoms
                 PROVE  n * FeePayLogic(A, n)[d] \in Nat /\ n * FeePayLogic(A, n)[d] <= fee[d]
      BY Zenon
    <3> DEFINE x == RoundInt(params.num * A[d], params.den * n)
    <3>1. FeePayLogic(A, n)[d] = x
      BY Zenon DEF FeePayLogic
    <3>2. params.num \in Nat /\ params.den \in Nat \ {0}
      BY FeeShareAssumption DEF ValidParams
    <3>3. x \in Nat /\ n * x <= A[d]
      <4> HIDE DEF A, n
      <4> QED BY Zenon, <1>1, <1>3, <2>1, <3>2, RoundedParts
    <3>4. n * x \in Nat
      <4> HIDE DEF x, n
      <4> QED BY <1>1, <3>3, Products
    <3> HIDE DEF x, A, n
    <3> QED BY <3>1, <3>3, <3>4, <2>1
  <2>3. FeeSharePayout(fee, execs) = [d \in Denoms |-> n * FeePayLogic(A, n)[d]]
    BY <1>3 DEF FeeSharePayout
  <2> HIDE DEF n, A
  <2> QED BY <2>2, <2>3
<1> QED BY <1>2, <1>3

\* The part of the type invariant the proofs rest on.
Shape ==
  /\ params \in ParamSets
  /\ feeshare = [c \in DOMAIN feeshare |-> feeshare[c]]

\* The parameters stay in the set governance chooses from, and the records a
\* function on the registered contracts.
LEMMA ShapeHolds == Spec => []Shape
<1>1. Init => Shape
  BY DEF Init, Shape
<1>2. Shape /\ [Next]_vars => Shape'
  <2> SUFFICES ASSUME Shape, [Next]_vars PROVE Shape'
    BY Zenon
  <2> USE DEF Shape, Registered, Put
  <2>1. ASSUME NEW c, NEW s, NEW w, RegisterFeeShare(c, s, w) PROVE Shape'
    BY Zenon, <2>1 DEF RegisterFeeShare
  <2>2. ASSUME NEW c, NEW s, NEW w, UpdateFeeShare(c, s, w) PROVE Shape'
    BY <2>2 DEF UpdateFeeShare
  <2>3. ASSUME NEW c, NEW s, CancelFeeShare(c, s) PROVE Shape'
    BY <2>3 DEF CancelFeeShare
  <2>4. ASSUME NEW p \in ParamSets, UpdateParams(p) PROVE Shape'
    BY <2>4 DEF UpdateParams, registry
  <2>5. ASSUME NEW c, NEW a, UpdateAdmin(c, a) PROVE Shape'
    BY <2>5 DEF UpdateAdmin, registry
  <2>6. ASSUME NEW f, NEW e, Transact(f, e) PROVE Shape'
    BY <2>6 DEF Transact, registry
  <2>7. CASE Sweep
    BY <2>7 DEF Sweep, registry
  <2>8. CASE Restart
    BY <2>8 DEF Restart
  <2>9. CASE UNCHANGED vars
    BY Zenon, <2>9 DEF vars
  <2> QED BY <2>1, <2>2, <2>3, <2>4, <2>5, <2>6, <2>7, <2>8, <2>9 DEF Next, Step
<1> QED BY <1>1, <1>2, PTL DEF Spec

-----------------------------------------------------------------------------
\* IndexesAgree for every set of users, contracts and admins: whoever cancels
\* or updates a record, and however the admins change in between, the indexes
\* by deployer and by withdrawer list exactly the records.
THEOREM IndexesAgreeHolds == Spec => []IndexesAgree
<1>1. Init => IndexesAgree
  BY DEF Init, IndexesAgree, Registered
<1>2. Shape /\ IndexesAgree /\ [Next]_vars => IndexesAgree'
  <2> SUFFICES ASSUME Shape, IndexesAgree, [Next]_vars PROVE IndexesAgree'
    BY Zenon
  <2> USE DEF IndexesAgree, Registered, Put
  <2>1. ASSUME NEW c, NEW s, NEW w, RegisterFeeShare(c, s, w) PROVE IndexesAgree'
    BY Zenon, <2>1 DEF RegisterFeeShare
  <2>2. ASSUME NEW c, NEW s, NEW w, UpdateFeeShare(c, s, w) PROVE IndexesAgree'
    BY <2>2 DEF UpdateFeeShare
  <2>3. ASSUME NEW c, NEW s, CancelFeeShare(c, s) PROVE IndexesAgree'
    BY <2>3 DEF CancelFeeShare
  <2>4. ASSUME NEW p, UpdateParams(p) PROVE IndexesAgree'
    BY Zenon, <2>4 DEF UpdateParams, registry
  <2>5. ASSUME NEW c, NEW a, UpdateAdmin(c, a) PROVE IndexesAgree'
    BY <2>5 DEF UpdateAdmin, registry
  <2>6. ASSUME NEW f, NEW e, Transact(f, e) PROVE IndexesAgree'
    BY <2>6 DEF Transact, registry
  <2>7. CASE Sweep
    BY <2>7 DEF Sweep, registry
  <2>8. CASE Restart
    BY <2>8 DEF Restart
  <2>9. CASE UNCHANGED vars
    BY <2>9 DEF vars
  <2> QED BY <2>1, <2>2, <2>3, <2>4, <2>5, <2>6, <2>7, <2>8, <2>9 DEF Next, Step
<1> QED BY <1>1, <1>2, ShapeHolds, PTL DEF Spec

\* PaidWithinFee for every fee, every list of executed contracts and every
\* share of at most a half: FeeSharePayout never takes from the collector more
\* than the transaction brought.
THEOREM PaidWithinFeeHolds == Spec => []PaidWithinFee
<1>1. \A d \in Denoms : Nothing.out[d] <= Nothing.fee[d]
  BY DEF Nothing, NoCoins
<1>2. Init => PaidWithinFee
  BY Zenon, <1>1 DEF Init, PaidWithinFee
<1>3. Shape /\ PaidWithinFee /\ [Next]_vars => PaidWithinFee'
  <2> SUFFICES ASSUME Shape, PaidWithinFee, [Next]_vars PROVE PaidWithinFee'
    BY Zenon
  <2>1. CASE last' = Nothing
    BY <1>1, <2>1 DEF PaidWithinFee
  <2>2. ASSUME NEW f \in Fees, NEW e \in Executions, Transact(f, e) PROVE PaidWithinFee'
    <3> SUFFICES ASSUME 2 * params.num <= params.den, IsInjective(params.allowed)
                 PROVE  \A d \in Denoms : last'.out[d] <= last'.fee[d]
      BY <2>2 DEF PaidWithinFee, Transact
    <3>1. f \in [Denoms -> Nat] /\ e \in Seq(Contracts)
      BY FeeShareAssumption
    <3>2. \A d \in Denoms : FeeSharePayout(f, e)[d] <= f[d]
      BY <3>1, PayoutNat DEF Shape
    <3>3. last'.fee = f /\ (last'.out = FeeSharePayout(f, e) \/ last'.out = NoCoins)
      BY <2>2 DEF Transact
    <3>4. \A d \in Denoms : NoCoins[d] <= f[d]
      BY <3>1 DEF NoCoins
    <3> QED BY <3>2, <3>3, <3>4
  <2>3. CASE UNCHANGED vars
    BY Zenon, <2>3 DEF vars, PaidWithinFee
  <2>4. \/ last' = Nothing
        \/ \E f \in Fees, e \in Executions : Transact(f, e)
        \/ UNCHANGED vars
    BY Zenon DEF Next, Step, RegisterFeeShare, UpdateFeeShare, CancelFeeShare, UpdateParams,
           UpdateAdmin, Sweep, Restart
  <2> QED BY <2>1, <2>2, <2>3, <2>4
<1> QED BY <1>2, <1>3, ShapeHolds, PTL DEF Spec

\* SelfOrController for every set of users, contracts and admins: a step that
\* brings a record into the store is a registration, and it names the
\* controller of that moment, or the contract itself (RegisterFeeShare).
THEOREM SelfOrControllerHolds == Spec => SelfOrController
<1>1. ASSUME [Next]_vars, NEW c \in Contracts, c \notin Registered, c \in DOMAIN feeshare'
      PROVE  \/ feeshare'[c].deployer = Controller(c)
             \/ feeshare'[c] = [deployer |-> c, withdrawer |-> c]
  <2>1. PICK x \in Contracts, s \in Addresses, w \in Addresses : RegisterFeeShare(x, s, w)
    <3>1. ASSUME NEW x \in Contracts, NEW s \in Addresses, NEW w \in Addresses,
                 UpdateFeeShare(x, s, w)
          PROVE  FALSE
      <4>1. x \in Registered /\ DOMAIN feeshare' = Registered \cup {x}
        BY Zenon, <3>1 DEF UpdateFeeShare, Put
      <4> QED BY <1>1, <4>1
    <3>2. ASSUME NEW x \in Contracts, NEW s \in Addresses, CancelFeeShare(x, s)
          PROVE  FALSE
      <4>1. DOMAIN feeshare' = Registered \ {x}
        BY Zenon, <3>2 DEF CancelFeeShare
      <4> QED BY <1>1, <4>1
    <3>3. feeshare' # feeshare
      BY Zenon, <1>1 DEF Registered
    <3> QED
      BY <1>1, <3>1, <3>2, <3>3
      DEF Next, Step, UpdateParams, UpdateAdmin, Transact, Restart, Sweep, registry, vars
  <2>2. /\ feeshare' = Put(x, IF FromFactory(x) THEN x ELSE s, w)
        /\ IF FromFactory(x) THEN w = x ELSE s = Controller(x)
    BY <2>1 DEF RegisterFeeShare
  <2>3. x = c
    BY <1>1, <2>2 DEF Put
  <2>4. feeshare'[c] = [deployer |-> IF FromFactory(c) THEN c ELSE s, withdrawer |-> w]
    BY <2>2, <2>3 DEF Put
  <2> QED BY <2>2, <2>3, <2>4
<1>2. [Next]_vars =>
        [\A c \in Contracts :
           c \notin Registered /\ c \in DOMAIN feeshare' =>
             \/ feeshare'[c].deployer = Controller(c)
             \/ feeshare'[c] = [deployer |-> c, withdrawer |-> c]]_vars
  BY Zenon, <1>1
<1> QED BY <1>2, PTL DEF Spec, SelfOrController

-----------------------------------------------------------------------------
\* DripsReachStakers is not inductive: it holds because both balances are
\* naturals and because modest speaks of the parameters in force.
DripInv ==
  /\ params \in ParamSets
  /\ collector \in [Denoms -> Nat]
  /\ dripped \in [Denoms -> Nat]
  /\ modest => Modest(params)
  /\ modest => \A d \in Denoms : dripped[d] <= collector[d]

\* Whatever the share, FeeSharePayout takes a natural number of coins of each
\* denom from the collector.
LEMMA PayoutType ==
  ASSUME params \in ParamSets, NEW fee \in [Denoms -> Nat], NEW execs \in Seq(Contracts)
  PROVE  FeeSharePayout(fee, execs) \in [Denoms -> Nat]
<1> DEFINE n == Cardinality(ToPay(execs))
           A == AllowedFees(fee)
<1>1. n \in Nat
  <2>1. IsFiniteSet(DOMAIN execs)
    <3>1. DOMAIN execs = 1 .. Len(execs) /\ Len(execs) \in Nat
      OBVIOUS
    <3> QED BY <3>1, FS_Interval
  <2>2. IsFiniteSet(ToPay(execs))
    BY Zenon, <2>1, FS_Subset DEF ToPay
  <2> QED BY <2>2, FS_CardinalityType
<1>2. CASE ~params.enabled \/ n = 0
  BY Zenon, <1>2 DEF FeeSharePayout, NoCoins
<1>3. CASE ~(~params.enabled \/ n = 0)
  <2>1. \A d \in Denoms : A[d] \in Nat
    <3> SUFFICES ASSUME NEW d \in Denoms PROVE A[d] \in Nat
      BY Zenon
    <3> DEFINE I == {i \in DOMAIN params.allowed : params.allowed[i] = d}
    <3>1. Cardinality(I) \in Nat
      <4>1. params.allowed \in Seq(Denoms)
        BY Zenon, FeeShareAssumption DEF ValidParams
      <4> DEFINE m == Len(params.allowed)
      <4>2. DOMAIN params.allowed = 1 .. m /\ m \in Int /\ 1 \in Int
        BY <4>1
      <4>3. IsFiniteSet(1 .. m)
        <5> HIDE DEF m
        <5> QED BY <4>2, FS_Interval
      <4>4. IsFiniteSet(I)
        BY <4>2, <4>3, FS_Subset
      <4> QED BY <4>4, FS_CardinalityType
    <3> DEFINE k == Cardinality(I)
    <3>2. A[d] = fee[d] \/ A[d] = fee[d] * k
      BY Zenon DEF AllowedFees
    <3>3. fee[d] \in Nat /\ k \in Nat
      BY <3>1
    <3> HIDE DEF A, k
    <3>4. fee[d] * k \in Nat
      BY <3>3, Products
    <3> QED BY <3>2, <3>3, <3>4
  <2>2. \A d \in Denoms : n * FeePayLogic(A, n)[d] \in Nat
    <3> SUFFICES ASSUME NEW d \in Denoms PROVE n * FeePayLogic(A, n)[d] \in Nat
      BY Zenon
    <3> DEFINE N == params.num * A[d]
               D == params.den * n
    <3>1. FeePayLogic(A, n)[d] = RoundInt(N, D)
      BY Zenon DEF FeePayLogic
    <3>2. params.num \in Nat /\ params.den \in Nat \ {0}
      BY FeeShareAssumption DEF ValidParams
    <3>3. N \in Nat /\ D \in Nat \ {0}
      <4> HIDE DEF A, n
      <4> QED BY <1>1, <1>3, <2>1, <3>2, Products
    <3>4. RoundInt(N, D) \in Nat
      <4> HIDE DEF N, D
      <4> QED BY <3>3, DivMod DEF RoundInt
    <3> HIDE DEF N, D, A, n
    <3> QED BY <1>1, <3>1, <3>4, Products
  <2>3. FeeSharePayout(fee, execs) = [d \in Denoms |-> n * FeePayLogic(A, n)[d]]
    BY Zenon, <1>3 DEF FeeSharePayout
  <2> HIDE DEF n, A
  <2> QED BY Zenon, <2>2, <2>3
<1> QED BY <1>2, <1>3

\* A transaction leaves the dripped coins in the collector: the decorator
\* takes no more than the fee the transaction has just paid in.
LEMMA TransactKeepsDrips ==
  ASSUME DripInv, NEW f \in Fees, NEW e \in Executions, Transact(f, e),
         modest' = (modest /\ Modest(params')), UNCHANGED dripped
  PROVE  DripInv'
<1> DEFINE out == FeeSharePayout(f, e)
           have == [d \in Denoms |-> collector[d] + f[d]]
<1>1. f \in [Denoms -> Nat] /\ e \in Seq(Contracts)
  BY Zenon, FeeShareAssumption
<1>2. /\ params' = params
      /\ collector' = [d \in Denoms |-> have[d] - out[d]]
      /\ \A d \in Denoms : out[d] <= have[d]
  BY Zenon DEF Transact
<1>3. out \in [Denoms -> Nat]
  BY Zenon, <1>1, PayoutType DEF DripInv
<1>4. collector' \in [Denoms -> Nat]
  <2> HIDE DEF out
  <2> QED BY <1>1, <1>2, <1>3 DEF DripInv
<1>5. ASSUME modest' PROVE \A d \in Denoms : dripped'[d] <= collector'[d]
  <2>1. Modest(params) /\ modest
    BY Zenon, <1>5, <1>2 DEF Modest
  <2>2. \A d \in Denoms : out[d] <= f[d]
    BY Zenon, <1>1, <2>1, PayoutNat DEF DripInv, Modest
  <2> HIDE DEF out
  <2> QED BY <1>1, <1>2, <1>3, <2>1, <2>2 DEF DripInv
<1>6. modest' => Modest(params')
  BY Zenon
<1> QED BY Zenon, <1>2, <1>4, <1>5, <1>6 DEF DripInv

\* DripsReachStakers for every set of parameters, fees and drips: no sequence
\* of feeshare payouts between two sweeps of x/distribution takes dripped
\* coins, while the developers' share is at most a half.
THEOREM DripsReachStakersHolds == DripSpec => []DripsReachStakers
<1>1. DripInit => DripInv
  <2> SUFFICES ASSUME DripInit PROVE DripInv
    BY Zenon
  <2>1. params \in ParamSets /\ collector = NoCoins /\ dripped = NoCoins
    BY Zenon DEF DripInit, Init
  <2>2. modest => Modest(params)
    BY Zenon DEF DripInit
  <2>3. NoCoins \in [Denoms -> Nat] /\ \A d \in Denoms : NoCoins[d] <= NoCoins[d]
    BY DEF NoCoins
  <2> QED BY <2>1, <2>2, <2>3 DEF DripInv
<1>2. DripInv /\ [DripNext]_<<vars, dripVars>> => DripInv'
  <2> SUFFICES ASSUME DripInv, [DripNext]_<<vars, dripVars>> PROVE DripInv'
    BY Zenon
  <2>1. CASE FeeShareStep
    <3>1. ASSUME NEW f \in Fees, NEW e \in Executions, Transact(f, e) PROVE DripInv'
      BY <2>1, <3>1, TransactKeepsDrips DEF FeeShareStep
    <3>2. ASSUME params' \in ParamSets, UNCHANGED collector PROVE DripInv'
      BY Zenon, <2>1, <3>2 DEF FeeShareStep, DripInv, Modest
    <3>3. \/ params' \in ParamSets /\ UNCHANGED collector
          \/ \E f \in Fees, e \in Executions : Transact(f, e)
      BY Zenon, <2>1 DEF FeeShareStep, DripInv, Step, RegisterFeeShare, UpdateFeeShare,
                  CancelFeeShare, UpdateParams, UpdateAdmin, Restart
    <3> QED BY <3>1, <3>2, <3>3
  <2>2. ASSUME NEW u \in Users, NEW amt \in Drips, DistributeTokens(u, amt) PROVE DripInv'
    <3>1. amt \in [Denoms -> Nat]
      BY DripAssumption
    <3>2. /\ collector' = [d \in Denoms |-> collector[d] + amt[d]]
          /\ dripped' = [d \in Denoms |-> dripped[d] + amt[d]]
          /\ params' = params /\ modest' = modest
      BY <2>2 DEF DistributeTokens
    <3> QED BY <3>1, <3>2 DEF DripInv, Modest
  <2>3. ASSUME NEW p \in DripSets, UpdateDripParams(p) PROVE DripInv'
    BY <2>3 DEF UpdateDripParams, DripInv, Modest
  <2>4. CASE SweepDrips
    <3>1. params' = params /\ collector' = NoCoins /\ dripped' = NoCoins
      BY Zenon, <2>4 DEF SweepDrips, Sweep
    <3>2. modest' => Modest(params')
      BY Zenon, <2>4, <3>1 DEF SweepDrips, Modest
    <3>3. NoCoins \in [Denoms -> Nat] /\ \A d \in Denoms : NoCoins[d] <= NoCoins[d]
      BY DEF NoCoins
    <3> QED BY <3>1, <3>2, <3>3 DEF DripInv
  <2>5. CASE UNCHANGED <<vars, dripVars>>
    BY Zenon, <2>5 DEF vars, dripVars, DripInv, Modest
  <2> QED BY <2>1, <2>2, <2>3, <2>4, <2>5 DEF DripNext
<1>3. DripInv => DripsReachStakers
  BY Zenon DEF DripInv, DripsReachStakers
<1> QED BY <1>1, <1>2, <1>3, PTL DEF DripSpec
-----------------------------------------------------------------------------
\* CopiesAgree is not inductive: a delegation at a skipped height tells nobody
\* anything, so it needs that no contract counts as exact at such a height,
\* and that the ones that do are registered, by an address of the list.
HooksInv ==
  /\ registered["staking"] \subseteq Subscribers
  /\ registered = [k \in Kinds |-> registered[k]]
  /\ copy = [c \in Subscribers |-> copy[c]]
  /\ height \in Int
  /\ exact \subseteq registered["staking"]
  /\ exact # {} => height > skipUntilHeight
  /\ CopiesAgree

\* If ExecuteMessageOnContracts returns no error, every registered contract
\* has accepted the event.
LEMMA AllHear ==
  ASSUME NEW k, NEW ans, registered[k] \subseteq Subscribers,
         ExecuteMessageOnContracts(k, ans).err = "ok"
  PROVE  registered[k] \subseteq ExecuteMessageOnContracts(k, ans).heard
<1> DEFINE listed == {i \in DOMAIN Order : Order[i] \in registered[k]}
           bad == {i \in listed : ans[Order[i]] # "ok"}
<1>1. bad = {}
  BY Zenon DEF ExecuteMessageOnContracts
<1>2. ExecuteMessageOnContracts(k, ans).heard = {Order[i] : i \in {j \in listed : \A b \in bad : j < b}}
  BY Zenon DEF ExecuteMessageOnContracts
<1>3. \A c \in registered[k] : \E i \in listed : Order[i] = c
  BY Zenon DEF Subscribers
<1> HIDE DEF bad
<1> QED BY <1>1, <1>2, <1>3

\* A delegation keeps HooksInv: past the skipped heights it takes effect only
\* if every registered contract has accepted the second event.
LEMMA DelegateKeeps ==
  ASSUME HooksInv, NEW u, NEW new, NEW ans, Delegate(u, new, ans)
  PROVE  HooksInv'
<1> DEFINE first == StakingHook(shares[u] > 0, ans)
           second == IF first.err = "ok" THEN StakingHook(TRUE, ans) ELSE Quiet
           took == first.err = "ok" /\ second.err = "ok"
<1>1. /\ shares' = IF took THEN [shares EXCEPT ![u] = new] ELSE shares
      /\ copy' = [c \in Subscribers |-> IF took /\ c \in second.heard
                                      THEN [copy[c] EXCEPT ![u] = new] ELSE copy[c]]
      /\ UNCHANGED <<registered, height, exact>>
  BY Zenon DEF Delegate
<1>2. ASSUME took, NEW c \in exact PROVE c \in second.heard
  <2>1. height > skipUntilHeight /\ c \in registered["staking"]
    BY <1>2 DEF HooksInv
  <2>2. second = ExecuteMessageOnContracts("staking", ans)
    BY <1>2, <2>1 DEF StakingHook, HooksInv, skipUntilHeight
  <2>3. ExecuteMessageOnContracts("staking", ans).err = "ok"
    BY Zenon, <1>2, <2>2
  <2> HIDE DEF second
  <2> QED BY <2>1, <2>2, <2>3, AllHear DEF HooksInv
<1>3. exact \subseteq Subscribers /\ \A c \in exact : copy[c] = shares
  BY Zenon DEF HooksInv, CopiesAgree
<1>4. \A c \in exact : copy'[c] = shares'
  <2> HIDE DEF took, second
  <2>1. CASE took
    BY Zenon, <1>1, <1>2, <1>3, <2>1
  <2>2. CASE ~took
    BY <1>1, <1>3, <2>2
  <2> QED BY <2>1, <2>2
<1>5. copy' = [c \in Subscribers |-> copy'[c]]
  <2> HIDE DEF took, second
  <2> QED BY <1>1
<1> QED BY Zenon, <1>1, <1>4, <1>5 DEF HooksInv, CopiesAgree

\* CopiesAgree for any number of contracts, however they answer: a contract
\* registered after the skipped heights has the delegations exactly as
\* x/staking has them.
LEMMA CopiesAgreeHolds == HooksSpec => []CopiesAgree
<1>1. HooksInit => HooksInv
  BY DEF HooksInit, HooksInv, CopiesAgree, Kinds
<1>2. HooksInv /\ [HooksNext]_hookVars => HooksInv'
  <2> SUFFICES ASSUME HooksInv, [HooksNext]_hookVars PROVE HooksInv'
    BY Zenon
  <2>1. ASSUME NEW k \in Kinds, NEW s, NEW c \in Subscribers, handleContractRegister(k, s, c)
        PROVE  HooksInv'
    BY Zenon, <2>1 DEF handleContractRegister, HooksInv, CopiesAgree, Kinds
  <2>2. ASSUME NEW k \in Kinds, NEW s, NEW c \in Subscribers, handleContractRemoval(k, s, c)
        PROVE  HooksInv'
    BY Zenon, <2>2 DEF handleContractRemoval, HooksInv, CopiesAgree, Kinds
  <2>3. ASSUME NEW c, NEW a, UpdateCwAdmin(c, a) PROVE HooksInv'
    BY <2>3 DEF UpdateCwAdmin, HooksInv, CopiesAgree
  <2>4. ASSUME NEW ans, NEW u, NEW new, Delegate(u, new, ans) PROVE HooksInv'
    BY <2>4, DelegateKeeps
  <2>5. ASSUME NEW ans, NEW p, ValidatorOp(p, ans) PROVE HooksInv'
    BY <2>5 DEF ValidatorOp, HooksInv, CopiesAgree
  <2>6. ASSUME NEW ans, GovOp(ans) PROVE HooksInv'
    BY <2>6 DEF GovOp, HooksInv, CopiesAgree
  <2>7. CASE NextBlock
    BY <2>7 DEF NextBlock, HooksInv, CopiesAgree, skipUntilHeight
  <2>8. CASE HooksRestart
    BY <2>8 DEF HooksRestart, HooksInv, CopiesAgree
  <2>9. CASE UNCHANGED hookVars
    BY <2>9 DEF hookVars, HooksInv, CopiesAgree
  <2> QED BY Zenon, <2>1, <2>2, <2>3, <2>4, <2>5, <2>6, <2>7, <2>8, <2>9 DEF HooksNext
<1>3. HooksInv => CopiesAgree
  BY Zenon DEF HooksInv
<1> QED BY <1>1, <1>2, <1>3, PTL DEF HooksSpec

\* ExecuteMessageOnContracts is heard by a registered contract if any with a
\* larger address hears it: those before the first refusal are a prefix.
LEMMA PrefixHears ==
  ASSUME NEW k, NEW ans, NEW i \in DOMAIN Order, NEW j \in DOMAIN Order, i < j,
         Order[i] \in registered[k], Order[j] \in ExecuteMessageOnContracts(k, ans).heard
  PROVE  Order[i] \in ExecuteMessageOnContracts(k, ans).heard
<1> DEFINE listed == {n \in DOMAIN Order : Order[n] \in registered[k]}
           bad == {n \in listed : ans[Order[n]] # "ok"}
<1>1. ExecuteMessageOnContracts(k, ans).heard = {Order[n] : n \in {m \in listed : \A b \in bad : m < b}}
  BY Zenon DEF ExecuteMessageOnContracts
<1>2. j \in listed /\ \A b \in bad : j < b
  <2>1. PICK m \in listed : Order[m] = Order[j] /\ \A b \in bad : m < b
    BY <1>1
  <2>2. m = j
    BY <2>1, HooksAssumption
  <2> QED BY <2>1, <2>2
<1>3. DOMAIN Order \subseteq Int
  BY HooksAssumption
<1>4. i \in listed /\ \A b \in bad : i < b
  BY <1>2, <1>3
<1> QED BY <1>1, <1>4

\* HeardInOrder for any number of contracts, however they answer: an event,
\* whether or not its error is returned, reaches the registered contracts up
\* to the first that refuses it and none after.
LEMMA HeardInOrderHolds == HooksSpec => []HeardInOrder
<1>1. HooksInit => HeardInOrder
  BY Zenon DEF HooksInit, HeardInOrder, Idle, Kinds
<1>2. HeardInOrder /\ [HooksNext]_hookVars => HeardInOrder'
  <2> SUFFICES ASSUME HeardInOrder, [HooksNext]_hookVars PROVE HeardInOrder'
    BY Zenon
  <2>1. CASE event' = Idle
    BY <2>1 DEF HeardInOrder, Idle, Kinds
  <2>2. ASSUME NEW k \in Kinds, NEW ans, registered' = registered, event'.kind = k,
               event'.heard \in {{}, ExecuteMessageOnContracts(k, ans).heard}
        PROVE  HeardInOrder'
    BY <2>2, PrefixHears DEF HeardInOrder
  <2>3. ASSUME NEW ans, NEW u, NEW new, Delegate(u, new, ans) PROVE HeardInOrder'
    <3>1. registered' = registered /\ event'.kind = "staking"
      BY <2>3 DEF Delegate
    <3>2. event'.heard \in {{}, ExecuteMessageOnContracts("staking", ans).heard}
      BY <2>3 DEF Delegate, StakingHook, Quiet
    <3> QED BY <2>2, <3>1, <3>2 DEF Kinds
  <2>4. ASSUME NEW ans, NEW p, ValidatorOp(p, ans) PROVE HeardInOrder'
    <3>1. /\ registered' = registered /\ event'.kind = "staking"
          /\ event'.heard \in {{}, ExecuteMessageOnContracts("staking", ans).heard}
      BY <2>4 DEF ValidatorOp, StakingHook, Quiet
    <3> QED BY <2>2, <3>1 DEF Kinds
  <2>5. ASSUME NEW ans, GovOp(ans) PROVE HeardInOrder'
    <3>1. /\ registered' = registered /\ event'.kind = "gov"
          /\ event'.heard = ExecuteMessageOnContracts("gov", ans).heard
      BY <2>5 DEF GovOp, GovHook
    <3> QED BY <2>2, <3>1 DEF Kinds
  <2>6. CASE UNCHANGED hookVars
    BY <2>6 DEF hookVars, HeardInOrder
  <2> QED
    BY <2>1, <2>3, <2>4, <2>5, <2>6
    DEF HooksNext, handleContractRegister, handleContractRemoval, UpdateCwAdmin, NextBlock, HooksRestart
<1> QED BY <1>1, <1>2, PTL DEF HooksSpec

\* SubscribersAgree for any number of contracts and delegators, whatever
\* contract fails at whatever event: ExecuteMessageOnContracts stops at the
\* first failure, and a delegation it reports none for has reached them all.
THEOREM SubscribersAgreeHolds == HooksSpec => []SubscribersAgree
BY CopiesAgreeHolds, HeardInOrderHolds, PTL DEF SubscribersAgree

-----------------------------------------------------------------------------
\* A coin of a list.
LEMMA CoinOfList ==
  ASSUME NEW l \in CoinList
  PROVE  /\ Len(l) \in Nat /\ DOMAIN l = 1 .. Len(l)
         /\ \A i \in DOMAIN l : /\ l[i] \in [denom : Int, amount : Nat]
                                /\ l[i].denom \in Int /\ l[i].amount \in Nat
<1>1. Len(l) \in Nat /\ DOMAIN l = 1 .. Len(l)
  BY DEF CoinList
<1>2. ASSUME NEW i \in DOMAIN l PROVE l[i] \in [denom : Int, amount : Nat]
  <2> DEFINE C == [denom : Int, amount : Nat]
  <2>1. l \in Seq(C)
    BY Zenon DEF CoinList
  <2> HIDE DEF C
  <2>2. l[i] \in C
    BY <1>1, <2>1
  <2> QED
    BY Zenon, <2>2 DEF C
<1>3. \A c \in [denom : Int, amount : Nat] : c.denom \in Int /\ c.amount \in Nat
  BY Zenon
<1> QED
  BY Zenon, <1>1, <1>2, <1>3

\* What Valid says of neighbours holds of any two coins.
LEMMA Increasing ==
  ASSUME NEW l \in CoinList, Valid(l)
  PROVE  \A i, j \in DOMAIN l : i < j => l[i].denom < l[j].denom
<1> DEFINE n == Len(l)
           T == {k \in Nat : \A i \in 1 .. n : i + k + 1 \in 1 .. n => l[i].denom < l[i + k + 1].denom}
<1>1. n \in Nat /\ DOMAIN l = 1 .. n /\ \A i \in 1 .. n : l[i].denom \in Int
  BY CoinOfList
<1>2. \A i \in 1 .. n - 1 : l[i].denom < l[i + 1].denom
  BY Zenon DEF Valid
<1> HIDE DEF n
<1>3. 0 \in T
  BY <1>1, <1>2
<1>4. ASSUME NEW k \in T PROVE k + 1 \in T
  <2> SUFFICES ASSUME NEW i \in 1 .. n, i + (k + 1) + 1 \in 1 .. n
               PROVE  l[i].denom < l[i + (k + 1) + 1].denom
    OBVIOUS
  <2>1. i + k + 1 \in 1 .. n - 1 /\ i + k + 1 \in 1 .. n /\ i + (k + 1) + 1 = (i + k + 1) + 1
    BY <1>1
  <2>2. l[i].denom < l[i + k + 1].denom
    BY <2>1
  <2> HIDE DEF T
  <2>3. l[i + k + 1].denom < l[(i + k + 1) + 1].denom
    BY <1>2, <2>1
  <2> QED
    BY <1>1, <2>1, <2>2, <2>3
<1>5. T = Nat
  <2>1. T \in SUBSET Nat
    BY Zenon
  <2> HIDE DEF T
  <2> QED
    BY Zenon, <1>3, <1>4, <2>1, Induct
<1>6. ASSUME NEW i \in 1 .. n, NEW j \in 1 .. n, i < j PROVE l[i].denom < l[j].denom
  <2>1. j - i - 1 \in Nat /\ i + (j - i - 1) + 1 = j
    BY <1>6
  <2>2. j - i - 1 \in T
    BY Zenon, <1>5, <2>1
  <2> QED
    BY <2>1, <2>2
<1> QED
  BY Zenon, <1>1, <1>6

\* Valid lists have one coin of a denom.
LEMMA OneCoin ==
  ASSUME NEW l \in CoinList, Valid(l), NEW i \in DOMAIN l, NEW j \in DOMAIN l, l[i].denom = l[j].denom
  PROVE  i = j
<1>1. i \in Int /\ j \in Int /\ l[i].denom \in Int /\ l[j].denom \in Int
  BY CoinOfList
<1>2. ~(i < j) /\ ~(j < i)
  BY <1>1, Increasing
<1> QED
  BY <1>1, <1>2

\* AmountOf of a set in which d has the one coin c, and of one without d.
LEMMA AmountOfOne ==
  ASSUME NEW S, NEW c \in S, \A e \in S : e.denom = c.denom => e = c
  PROVE  AmountOf(S, c.denom) = c.amount
<1>1. {e \in S : e.denom = c.denom} = {c}
  BY Zenon
<1> QED
  BY Zenon, <1>1 DEF AmountOf

\* A set of coins without d has none of it.
LEMMA AmountOfNone ==
  ASSUME NEW S, NEW d, \A e \in S : e.denom # d
  PROVE  AmountOf(S, d) = 0
<1>1. {e \in S : e.denom = d} = {}
  BY Zenon
<1> QED
  BY Zenon, <1>1 DEF AmountOf

\* The amount of d in a valid list.
IsAmount(l, d, a) ==
  /\ \A i \in DOMAIN l : l[i].denom = d => a = l[i].amount
  /\ (\A i \in DOMAIN l : l[i].denom # d) => a = 0

\* It is what AmountOf returns.
LEMMA AmountOfList ==
  ASSUME NEW l \in CoinList, Valid(l), NEW d
  PROVE  IsAmount(l, d, AmountOf(ToSet(l), d)) /\ AmountOf(ToSet(l), d) \in Nat
<1>1. ASSUME NEW i \in DOMAIN l, l[i].denom = d PROVE AmountOf(ToSet(l), d) = l[i].amount
  <2>1. l[i] \in ToSet(l)
    BY Zenon DEF ToSet
  <2>2. \A e \in ToSet(l) : e.denom = l[i].denom => e = l[i]
    BY OneCoin DEF ToSet
  <2> QED
    BY Zenon, <1>1, <2>1, <2>2, AmountOfOne
<1>2. ASSUME \A i \in DOMAIN l : l[i].denom # d PROVE AmountOf(ToSet(l), d) = 0
  <2>1. \A e \in ToSet(l) : e.denom # d
    BY <1>2 DEF ToSet
  <2> QED
    BY Zenon, <2>1, AmountOfNone
<1>3. IsAmount(l, d, AmountOf(ToSet(l), d))
  BY Zenon, <1>1, <1>2 DEF IsAmount
<1>4. AmountOf(ToSet(l), d) \in Nat
  <2>1. CASE \E i \in DOMAIN l : l[i].denom = d
    BY <1>1, <2>1, CoinOfList
  <2>2. CASE \A i \in DOMAIN l : l[i].denom # d
    BY <1>2, <2>2
  <2> QED
    BY <2>1, <2>2
<1> QED
  BY <1>3, <1>4

\* The body of the binary search, f being the search of a shorter slice.
Search(l, d, s, f) ==
  LET lo == s[1]
      hi == s[2]
      mid == lo + (hi - lo + 1) \div 2
  IN  IF lo > hi THEN 0
      ELSE IF lo = hi THEN Found(l[lo], d)
      ELSE IF d < l[mid].denom THEN f[<<lo, mid - 1>>]
      ELSE IF d = l[mid].denom THEN l[mid].amount
      ELSE f[<<mid + 1, hi>>]

\* Find is the value of a function that satisfies the recursion.
LEMMA FindDef ==
  ASSUME NEW l, NEW d
  PROVE  Find(l, d) = (CHOOSE f : f = [s \in Slices(l) |-> Search(l, d, s, f)])[<<1, Len(l)>>]
BY Zenon DEF Find, Search

\* The slices a search looks at next are shorter.
LEMMA Halves ==
  ASSUME NEW l \in CoinList, NEW s \in Slices(l), s[1] < s[2]
  PROVE  LET mid == s[1] + (s[2] - s[1] + 1) \div 2
         IN  /\ mid \in s[1] + 1 .. s[2] /\ mid \in DOMAIN l
             /\ <<s[1], mid - 1>> \in Slices(l) /\ <<mid + 1, s[2]>> \in Slices(l)
<1> DEFINE n == Len(l)
           half == (s[2] - s[1] + 1) \div 2
<1>1. n \in Nat /\ DOMAIN l = 1 .. n
  BY CoinOfList
<1>2. s[1] \in 1 .. n + 1 /\ s[2] \in 0 .. n
  BY Zenon DEF Slices
<1>3. half \in Int /\ half >= 1 /\ half <= s[2] - s[1]
  BY <1>1, <1>2
<1> HIDE DEF half, n
<1>4. s[1] + half \in s[1] + 1 .. s[2] /\ s[1] + half \in DOMAIN l
  BY <1>1, <1>2, <1>3
<1>5. /\ s[1] \in 1 .. n + 1 /\ (s[1] + half) - 1 \in 0 .. n
      /\ (s[1] + half) + 1 \in 1 .. n + 1 /\ s[2] \in 0 .. n
  BY <1>1, <1>2, <1>3
<1>6. <<s[1], (s[1] + half) - 1>> \in Slices(l) /\ <<(s[1] + half) + 1, s[2]>> \in Slices(l)
  BY <1>5 DEF Slices, n
<1> QED
  BY <1>4, <1>6 DEF half

\* The length of a slice.
Span(l) == [s \in Slices(l) |-> IF s[1] > s[2] THEN 0 ELSE s[2] - s[1] + 1]

\* The halves of a slice are shorter.
LEMMA SpanShrinks ==
  ASSUME NEW l \in CoinList, NEW s \in Slices(l), NEW mid \in Int, s[1] < mid, mid <= s[2],
         <<s[1], mid - 1>> \in Slices(l), <<mid + 1, s[2]>> \in Slices(l)
  PROVE  Span(l)[<<s[1], mid - 1>>] < Span(l)[s] /\ Span(l)[<<mid + 1, s[2]>>] < Span(l)[s]
<1>1. s[1] \in Int /\ s[2] \in Int
  BY CoinOfList DEF Slices
<1>2. \A a, b : <<a, b>> \in Slices(l) => Span(l)[<<a, b>>] = IF a > b THEN 0 ELSE b - a + 1
  BY Zenon DEF Span
<1>3. Span(l)[s] = IF s[1] > s[2] THEN 0 ELSE s[2] - s[1] + 1
  BY Zenon DEF Span
<1>4. /\ Span(l)[<<s[1], mid - 1>>] = IF s[1] > mid - 1 THEN 0 ELSE (mid - 1) - s[1] + 1
      /\ Span(l)[<<mid + 1, s[2]>>] = IF mid + 1 > s[2] THEN 0 ELSE s[2] - (mid + 1) + 1
  BY Zenon, <1>2
<1>5. Span(l)[s] = s[2] - s[1] + 1
  BY <1>1, <1>3
<1>6. Span(l)[<<s[1], mid - 1>>] < s[2] - s[1] + 1
  BY <1>1, <1>4
<1>7. Span(l)[<<mid + 1, s[2]>>] < s[2] - s[1] + 1
  BY <1>1, <1>4
<1> QED
  BY <1>5, <1>6, <1>7

\* A function that satisfies the recursion exists.
LEMMA SearchExists ==
  ASSUME NEW l \in CoinList, NEW d \in Int
  PROVE  \E f \in [Slices(l) -> Int] : f = [s \in Slices(l) |-> Search(l, d, s, f)]
<1> DEFINE D == Slices(l)
           step == [p \in D \X [D -> Int] |-> Search(l, d, p[1], p[2])]
<1>1. Span(l) \in [D -> Nat]
  BY CoinOfList DEF Slices, Span
<1>2. \A s \in D : \A f \in [D -> Int] : <<s, f>> \in D \X [D -> Int] /\ step[<<s, f>>] = Search(l, d, s, f)
  BY Zenon
<1>3. ASSUME NEW s \in D, NEW f \in [D -> Int] PROVE Search(l, d, s, f) \in Int
  <2>1. s[1] \in Int /\ s[2] \in Int /\ s[1] >= 1 /\ s[2] <= Len(l) /\ Len(l) \in Nat
    BY CoinOfList DEF Slices
  <2>2. CASE s[1] > s[2]
    BY <2>1, <2>2 DEF Search
  <2>3. CASE s[1] = s[2]
    <3>1. s[1] \in DOMAIN l
      BY <2>1, <2>3, CoinOfList
    <3> QED
      BY <2>1, <2>3, <3>1, CoinOfList DEF Search, Found
  <2>4. CASE s[1] < s[2]
    <3> DEFINE mid == s[1] + (s[2] - s[1] + 1) \div 2
    <3>1. mid \in DOMAIN l /\ <<s[1], mid - 1>> \in D /\ <<mid + 1, s[2]>> \in D
      BY Zenon, <2>4, Halves
    <3>2. l[mid].amount \in Int /\ f[<<s[1], mid - 1>>] \in Int /\ f[<<mid + 1, s[2]>>] \in Int
      BY <3>1, CoinOfList
    <3>3. Search(l, d, s, f) \in {f[<<s[1], mid - 1>>], l[mid].amount, f[<<mid + 1, s[2]>>]}
      BY <2>1, <2>4 DEF Search
    <3> QED
      BY Zenon, <3>2, <3>3
  <2> QED
    BY <2>1, <2>2, <2>3, <2>4
<1>4. step \in [D \X [D -> Int] -> Int]
  BY Zenon, <1>3
<1>5. ASSUME NEW s \in D, NEW f \in [D -> Int], NEW g \in [D -> Int],
             \A e \in D : Span(l)[e] < Span(l)[s] => f[e] = g[e]
      PROVE  Search(l, d, s, f) = Search(l, d, s, g)
  <2>1. s[1] \in Int /\ s[2] \in Int /\ Len(l) \in Nat
    BY CoinOfList DEF Slices
  <2>2. CASE s[1] >= s[2]
    BY <2>1, <2>2 DEF Search
  <2>3. CASE s[1] < s[2]
    <3> DEFINE mid == s[1] + (s[2] - s[1] + 1) \div 2
    <3>1. mid \in s[1] + 1 .. s[2] /\ <<s[1], mid - 1>> \in D /\ <<mid + 1, s[2]>> \in D
      BY Zenon, <2>3, Halves
    <3> HIDE DEF mid
    <3>2. mid \in Int /\ s[1] < mid /\ mid <= s[2]
      BY <2>1, <3>1
    <3>3. f[<<s[1], mid - 1>>] = g[<<s[1], mid - 1>>] /\ f[<<mid + 1, s[2]>>] = g[<<mid + 1, s[2]>>]
      <4>1. Span(l)[<<s[1], mid - 1>>] < Span(l)[s] /\ Span(l)[<<mid + 1, s[2]>>] < Span(l)[s]
        BY <3>1, <3>2, SpanShrinks
      <4> QED
        BY Zenon, <1>5, <3>1, <4>1
    <3> QED
      BY Zenon, <3>3 DEF Search, mid
  <2> QED
    BY <2>1, <2>2, <2>3
<1>6. Depends(step, Span(l), D, Int)
  BY Zenon, <1>2, <1>5 DEF Depends
<1>7. HasSolution(step, D, Int)
  <2>1. Int # {}
    BY Zenon
  <2> DEFINE rank == Span(l)
  <2> HIDE DEF step, D, rank
  <2> QED
    BY Zenon, <1>1, <1>4, <1>6, <2>1, Recursion DEF rank
<1>8. PICK f \in [D -> Int] : \A s \in D : f[s] = step[<<s, f>>]
  BY Zenon, <1>7 DEF HasSolution
<1>9. f = [s \in D |-> Search(l, d, s, f)]
  <2>1. \A s \in D : f[s] = Search(l, d, s, f)
    BY Zenon, <1>2, <1>8
  <2> HIDE DEF D
  <2> QED
    BY <2>1
<1> QED
  BY Zenon, <1>9

\* What the search of a slice finds: the amount of the denom's coin in it.
InSlice(l, d, s, a) ==
  /\ \A i \in DOMAIN l : s[1] <= i /\ i <= s[2] /\ l[i].denom = d => a = l[i].amount
  /\ (\A i \in DOMAIN l : s[1] <= i /\ i <= s[2] => l[i].denom # d) => a = 0

\* One step of the search is right if the searches of shorter slices are.
LEMMA SearchStep ==
  ASSUME NEW l \in CoinList, Valid(l), NEW d \in Int, NEW s \in Slices(l), NEW f,
         \A e \in Slices(l) : Span(l)[e] < Span(l)[s] => InSlice(l, d, e, f[e])
  PROVE  InSlice(l, d, s, Search(l, d, s, f))
<1>1. s[1] \in Int /\ s[2] \in Int /\ s[1] >= 1 /\ s[2] <= Len(l) /\ Len(l) \in Nat
  BY CoinOfList DEF Slices
<1>2. DOMAIN l \subseteq Int /\ \A i \in DOMAIN l : l[i].denom \in Int
  BY CoinOfList
<1>3. CASE s[1] > s[2]
  <2>1. Search(l, d, s, f) = 0
    BY Zenon, <1>3 DEF Search
  <2> QED
    BY <1>1, <1>2, <1>3, <2>1 DEF InSlice
<1>4. CASE s[1] = s[2]
  <2>1. Search(l, d, s, f) = Found(l[s[1]], d)
    BY <1>1, <1>4 DEF Search
  <2>2. \A i \in DOMAIN l : s[1] <= i /\ i <= s[2] => i = s[1]
    BY <1>1, <1>2, <1>4
  <2>3. s[1] \in DOMAIN l
    BY <1>1, <1>4, CoinOfList
  <2> QED
    BY <1>1, <1>4, <2>1, <2>2, <2>3 DEF Found, InSlice
<1>5. CASE s[1] < s[2]
  <2> DEFINE mid == s[1] + (s[2] - s[1] + 1) \div 2
             left == <<s[1], mid - 1>>
             right == <<mid + 1, s[2]>>
  <2>1. mid \in s[1] + 1 .. s[2] /\ mid \in DOMAIN l /\ left \in Slices(l) /\ right \in Slices(l)
    BY <1>5, Halves
  <2>2. Search(l, d, s, f) = IF d < l[mid].denom THEN f[left]
                             ELSE IF d = l[mid].denom THEN l[mid].amount ELSE f[right]
    BY <1>1, <1>5 DEF Search
  <2> HIDE DEF mid
  <2>3. mid \in Int /\ s[1] < mid /\ mid <= s[2]
    BY <1>1, <2>1
  <2>4. InSlice(l, d, left, f[left]) /\ InSlice(l, d, right, f[right])
    BY <1>1, <1>5, <2>1, <2>3, SpanShrinks
  <2>5. /\ left[1] = s[1] /\ left[2] = mid - 1 /\ right[1] = mid + 1 /\ right[2] = s[2]
    BY Zenon
  <2>6. CASE d < l[mid].denom
    <3>1. \A i \in DOMAIN l : l[i].denom = d => i < mid
      BY <1>2, <2>1, <2>3, <2>6, Increasing
    <3>2. \A i \in DOMAIN l : l[i].denom = d /\ s[1] <= i /\ i <= s[2] => left[1] <= i /\ i <= left[2]
      BY <1>1, <1>2, <2>3, <2>5, <3>1
    <3>3. \A i \in DOMAIN l : left[1] <= i /\ i <= left[2] => s[1] <= i /\ i <= s[2]
      BY <1>1, <1>2, <2>3, <2>5
    <3> HIDE DEF left, right
    <3>4. Search(l, d, s, f) = f[left]
      BY <2>2, <2>6
    <3> QED
      BY Zenon, <2>4, <3>2, <3>3, <3>4 DEF InSlice
  <2>7. CASE d = l[mid].denom
    <3>1. \A i \in DOMAIN l : l[i].denom = d => i = mid
      BY <2>1, <2>7, OneCoin
    <3>2. Search(l, d, s, f) = l[mid].amount
      BY <1>2, <2>1, <2>2, <2>7
    <3>3. s[1] <= mid
      BY <1>1, <2>3
    <3> QED
      BY Zenon, <2>1, <2>3, <2>7, <3>1, <3>2, <3>3 DEF InSlice
  <2>8. CASE l[mid].denom < d
    <3>1. \A i \in DOMAIN l : l[i].denom = d => mid < i
      BY <1>2, <2>1, <2>3, <2>8, Increasing
    <3>2. \A i \in DOMAIN l : l[i].denom = d /\ s[1] <= i /\ i <= s[2] => right[1] <= i /\ i <= right[2]
      BY <1>1, <1>2, <2>3, <2>5, <3>1
    <3>3. \A i \in DOMAIN l : right[1] <= i /\ i <= right[2] => s[1] <= i /\ i <= s[2]
      BY <1>1, <1>2, <2>3, <2>5
    <3> HIDE DEF left, right
    <3>4. Search(l, d, s, f) = f[right]
      BY <1>2, <2>1, <2>2, <2>8
    <3> QED
      BY Zenon, <2>4, <3>2, <3>3, <3>4 DEF InSlice
  <2> QED
    BY <1>2, <2>1, <2>6, <2>7, <2>8
<1> QED
  BY <1>1, <1>3, <1>4, <1>5

\* The binary search of a valid list finds the amount of the denom.
LEMMA FindFinds ==
  ASSUME NEW l \in CoinList, Valid(l), NEW d \in Int
  PROVE  IsAmount(l, d, Find(l, d))
<1> DEFINE f == CHOOSE g : g = [s \in Slices(l) |-> Search(l, d, s, g)]
           T == {s \in Slices(l) : InSlice(l, d, s, f[s])}
<1>1. f = [s \in Slices(l) |-> Search(l, d, s, f)]
  BY Zenon, SearchExists
<1>2. Find(l, d) = f[<<1, Len(l)>>]
  BY Zenon, FindDef
<1> HIDE DEF f
<1>3. \A s \in Slices(l) : f[s] = Search(l, d, s, f)
  BY Zenon, <1>1
<1>4. ASSUME NEW s \in Slices(l), \A e \in Slices(l) : Span(l)[e] < Span(l)[s] => e \in T
      PROVE  s \in T
  <2>1. InSlice(l, d, s, Search(l, d, s, f))
    BY Zenon, <1>4, SearchStep
  <2> QED
    BY Zenon, <1>3, <2>1
<1>5. T = Slices(l)
  <2>1. Span(l) \in [Slices(l) -> Nat]
    BY CoinOfList DEF Slices, Span
  <2>2. T \in SUBSET Slices(l)
    BY Zenon
  <2>3. Inductive(T, Span(l), Slices(l))
    BY Zenon, <1>4 DEF Inductive
  <2> HIDE DEF T
  <2> QED
    BY Zenon, <2>1, <2>2, <2>3, RankInduct
<1>6. <<1, Len(l)>> \in Slices(l) /\ \A i \in DOMAIN l : 1 <= i /\ i <= Len(l)
  BY CoinOfList DEF Slices
<1>7. InSlice(l, d, <<1, Len(l)>>, f[<<1, Len(l)>>])
  BY Zenon, <1>5, <1>6
<1> QED
  BY <1>2, <1>6, <1>7 DEF InSlice, IsAmount

\* A larger factor gives a larger product.
LEMMA Grows ==
  ASSUME NEW a \in Nat, NEW b \in Nat, NEW k \in Nat, a <= b
  PROVE  k * a <= k * b
<1>1. PICK x \in Nat : b = a + x
  <2>1. b - a \in Nat /\ b = a + (b - a)
    OBVIOUS
  <2> QED BY Zenon, <2>1
<1>2. k * b = k * a + k * x
  BY <1>1
<1>3. k * a \in Nat /\ k * x \in Nat
  BY <1>1, Products
<1> QED BY <1>2, <1>3

\* FeeOf rounds up: a fee reaches it exactly when it pays the price.
LEMMA FeeCovers ==
  ASSUME NEW p \in Nat, NEW gas \in Nat
  PROVE  /\ FeeOf(p, gas) \in Nat
         /\ \A a \in Nat : a >= FeeOf(p, gas) <=> a * Unit >= p * gas
<1> DEFINE x == p * gas
           q == (x + Unit - 1) \div Unit
           r == (x + Unit - 1) % Unit
<1>1. x \in Nat /\ Unit \in Nat \ {0}
  BY Products, MinAssumption
<1> HIDE DEF x
<1>2. x + Unit - 1 \in Nat
  BY <1>1
<1>3. q \in Nat /\ r \in Nat /\ x + Unit - 1 = Unit * q + r /\ r < Unit
  BY <1>1, <1>2, DivMod
<1> HIDE DEF q, r
<1>4. Unit * q \in Nat /\ Unit * q >= x
  BY <1>1, <1>3, Products
<1>5. ASSUME NEW a \in Nat PROVE a >= q <=> a * Unit >= x
  <2>1. Unit * a \in Nat /\ a * Unit = Unit * a /\ Unit * (a + 1) = Unit * a + Unit
    BY <1>1, Products
  <2>2. CASE a >= q
    <3>1. Unit * q <= Unit * a
      BY <1>1, <1>3, <2>2, Grows
    <3> QED
      BY <1>1, <1>4, <2>1, <2>2, <3>1
  <2>3. CASE a < q
    <3>1. a + 1 \in Nat /\ a + 1 <= q
      BY <1>3, <2>3
    <3>2. Unit * (a + 1) <= Unit * q
      BY <1>1, <1>3, <3>1, Grows
    <3> QED
      BY <1>1, <1>3, <1>4, <2>1, <2>3, <3>2
  <2> QED
    BY <1>3, <2>2, <2>3
<1>6. FeeOf(p, gas) = q
  BY Zenon DEF FeeOf, q, x
<1>7. \A a \in Nat : a >= q <=> a * Unit >= p * gas
  BY Zenon, <1>5 DEF x
<1> QED
  BY Zenon, <1>3, <1>6, <1>7

\* FeeOf grows with the price, and is zero exactly when nothing is to pay.
LEMMA FeeGrows ==
  ASSUME NEW p \in Nat, NEW q \in Nat, NEW gas \in Nat
  PROVE  /\ p <= q => FeeOf(p, gas) <= FeeOf(q, gas)
         /\ FeeOf(p, gas) = 0 <=> p * gas = 0
<1>1. /\ FeeOf(p, gas) \in Nat /\ FeeOf(q, gas) \in Nat
      /\ p * gas \in Nat /\ q * gas \in Nat /\ Unit \in Nat
  BY FeeCovers, Products, MinAssumption
<1>2. ASSUME p <= q PROVE FeeOf(p, gas) <= FeeOf(q, gas)
  <2>1. gas * p <= gas * q /\ p * gas = gas * p /\ q * gas = gas * q
    BY <1>2, Grows
  <2>2. FeeOf(q, gas) * Unit >= q * gas /\ FeeOf(q, gas) * Unit \in Nat
    <3>1. FeeOf(q, gas) >= FeeOf(q, gas)
      BY <1>1
    <3>2. FeeOf(q, gas) * Unit >= q * gas
      BY Zenon, <1>1, <3>1, FeeCovers
    <3> QED
      BY <1>1, <3>2, Products
  <2>3. FeeOf(q, gas) * Unit >= p * gas
    BY <1>1, <2>1, <2>2
  <2> QED
    BY <1>1, <2>3, FeeCovers
<1>3. FeeOf(p, gas) = 0 <=> p * gas = 0
  <2>1. 0 >= FeeOf(p, gas) <=> 0 * Unit >= p * gas
    BY FeeCovers
  <2>2. 0 * Unit = 0
    BY <1>1
  <2> QED
    BY <1>1, <2>1, <2>2
<1> QED
  BY <1>2, <1>3

\* What the lists of the two prices are.
PricesOK == prices \in CoinList /\ Valid(prices) /\ local \in CoinList /\ Valid(local)

\* The coins a list of prices asks for.
LEMMA RequiredList ==
  ASSUME NEW l \in CoinList, Valid(l), NEW gas \in Nat
  PROVE  /\ RequiredFees(l, gas) \in CoinList /\ Valid(RequiredFees(l, gas))
         /\ DOMAIN RequiredFees(l, gas) = DOMAIN l
         /\ \A i \in DOMAIN l : RequiredFees(l, gas)[i] = [denom |-> l[i].denom, amount |-> FeeOf(l[i].amount, gas)]
<1> DEFINE r == RequiredFees(l, gas)
           n == Len(l)
           C == [denom : Int, amount : Nat]
<1>1. n \in Nat /\ DOMAIN l = 1 .. n /\ \A i \in DOMAIN l : l[i].denom \in Int /\ l[i].amount \in Nat
  BY CoinOfList
<1>2. DOMAIN r = DOMAIN l /\ \A i \in DOMAIN l : r[i] = [denom |-> l[i].denom, amount |-> FeeOf(l[i].amount, gas)]
  BY Zenon DEF RequiredFees
<1>3. ASSUME NEW i \in 1 .. n PROVE r[i] \in C
  <2>1. l[i].denom \in Int /\ FeeOf(l[i].amount, gas) \in Nat
    BY Zenon, <1>1, FeeCovers
  <2> HIDE DEF r, n
  <2> QED
    BY <1>1, <1>2, <2>1
<1>4. r = [i \in 1 .. n |-> r[i]]
  BY Zenon, <1>1 DEF RequiredFees
<1> HIDE DEF r, n, C
<1>5. r \in Seq(C) /\ Len(r) = n
  BY <1>1, <1>3, <1>4
<1>6. Valid(r)
  <2>1. \A i \in 1 .. n : r[i].denom = l[i].denom
    BY <1>1, <1>2
  <2>2. \A i \in 1 .. n - 1 : i \in 1 .. n /\ i + 1 \in 1 .. n /\ l[i].denom < l[i + 1].denom
    BY <1>1 DEF Valid, n
  <2>3. \A i \in 1 .. n - 1 : r[i].denom < r[i + 1].denom
    BY <2>1, <2>2
  <2> QED
    BY Zenon, <1>5, <2>3 DEF Valid
<1> QED
  BY Zenon, <1>2, <1>5, <1>6 DEF r, C, CoinList

\* The operator's price of a denom: what Find finds in the local fees.
LEMMA LocalFee ==
  ASSUME PricesOK, NEW gas \in Nat, NEW d \in Int
  PROVE  Find(GetMinGasPrice(gas), d) = FeeOf(PriceOf(local, d), gas)
<1> DEFINE l == GetMinGasPrice(gas)
           a == PriceOf(local, d)
<1>0. IsAmount(local, d, a) /\ a \in Nat
  BY AmountOfList DEF PricesOK, PriceOf
<1>1. CASE \A i \in DOMAIN local : local[i].amount = 0
  <2>1. l = <<>>
    BY <1>1 DEF GetMinGasPrice
  <2>2. <<>> \in CoinList /\ Valid(<<>>) /\ DOMAIN <<>> = {}
    BY DEF CoinList, Valid
  <2>3. IsAmount(<<>>, d, Find(<<>>, d))
    BY <2>2, FindFinds
  <2>4. Find(l, d) = 0
    BY <2>1, <2>2, <2>3 DEF IsAmount
  <2>5. a = 0
    BY Zenon, <1>0, <1>1 DEF IsAmount
  <2>6. FeeOf(0, gas) = 0
    BY FeeGrows
  <2> QED
    BY <2>4, <2>5, <2>6
<1>2. CASE ~(\A i \in DOMAIN local : local[i].amount = 0)
  <2>1. l = RequiredFees(local, gas)
    BY Zenon, <1>2 DEF GetMinGasPrice
  <2>2. /\ l \in CoinList /\ Valid(l) /\ DOMAIN l = DOMAIN local
        /\ \A i \in DOMAIN local : l[i] = [denom |-> local[i].denom, amount |-> FeeOf(local[i].amount, gas)]
    BY <2>1, RequiredList DEF PricesOK
  <2> HIDE DEF l, a
  <2>3. IsAmount(l, d, Find(l, d))
    BY <2>2, FindFinds
  <2>4. CASE \E i \in DOMAIN local : local[i].denom = d
    <3>1. PICK i \in DOMAIN local : local[i].denom = d
      BY <2>4
    <3>2. a = local[i].amount
      BY Zenon, <1>0, <3>1 DEF IsAmount
    <3>3. l[i].denom = d /\ l[i].amount = FeeOf(local[i].amount, gas)
      BY <2>2, <3>1
    <3>4. Find(l, d) = l[i].amount
      BY Zenon, <2>2, <2>3, <3>1, <3>3 DEF IsAmount
    <3> QED
      BY <3>2, <3>3, <3>4 DEF l, a
  <2>5. CASE \A i \in DOMAIN local : local[i].denom # d
    <3>1. a = 0
      BY Zenon, <1>0, <2>5 DEF IsAmount
    <3>2. \A i \in DOMAIN l : l[i].denom # d
      BY <2>2, <2>5
    <3>3. Find(l, d) = 0
      BY Zenon, <2>3, <3>2 DEF IsAmount
    <3>4. FeeOf(0, gas) = 0
      BY FeeGrows
    <3> QED
      BY <3>1, <3>3, <3>4 DEF l, a
  <2> QED
    BY <2>4, <2>5
<1> QED
  BY <1>1, <1>2

\* The fee of a denom: the higher price for the whole gas limit.
Need(d, gas) == FeeOf(Required(d), gas)

\* The price of a denom is a number, and its fee the higher of the two fees.
LEMMA NeedIsHigher ==
  ASSUME PricesOK, NEW gas \in Nat, NEW d \in Int
  PROVE  /\ PriceOf(prices, d) \in Nat /\ PriceOf(local, d) \in Nat /\ Required(d) \in Nat
         /\ Need(d, gas) \in Nat
         /\ LET g == FeeOf(PriceOf(prices, d), gas)
                c == FeeOf(PriceOf(local, d), gas)
            IN  Need(d, gas) = IF c > g THEN c ELSE g
<1> DEFINE x == PriceOf(prices, d)
           y == PriceOf(local, d)
<1>1. x \in Nat /\ y \in Nat
  BY AmountOfList DEF PricesOK, PriceOf
<1>2. Required(d) = IF x < y THEN y ELSE x
  BY Zenon DEF Required
<1> HIDE DEF x, y
<1>3. Required(d) \in Nat
  BY <1>1, <1>2
<1>4. FeeOf(x, gas) \in Nat /\ FeeOf(y, gas) \in Nat /\ Need(d, gas) \in Nat
  BY <1>1, <1>3, FeeCovers DEF Need
<1>5. CASE x < y
  <2>1. FeeOf(x, gas) <= FeeOf(y, gas)
    BY <1>1, <1>5, FeeGrows
  <2>2. Need(d, gas) = FeeOf(y, gas)
    BY <1>2, <1>5 DEF Need
  <2> QED
    BY <1>1, <1>3, <1>4, <2>1, <2>2 DEF x, y
<1>6. CASE y <= x
  <2>1. FeeOf(y, gas) <= FeeOf(x, gas)
    BY <1>1, <1>6, FeeGrows
  <2>2. Need(d, gas) = FeeOf(x, gas)
    BY <1>1, <1>2, <1>6 DEF Need
  <2> QED
    BY <1>1, <1>3, <1>4, <2>1, <2>2 DEF x, y
<1> QED
  BY <1>1, <1>5, <1>6

\* The list GetGlobalFee reads: its denoms are the global ones, each with its
\* price of the module's parameters.
LEMMA GlobalList ==
  ASSUME PricesOK
  PROVE  LET g == IF prices = <<>> THEN DefaultZeroGlobalFee ELSE prices
         IN  /\ g \in CoinList /\ Valid(g) /\ g # <<>>
             /\ Global = {g[i].denom : i \in DOMAIN g}
             /\ \A i \in DOMAIN g : PriceOf(prices, g[i].denom) = g[i].amount
<1>1. CASE prices = <<>>
  <2> DEFINE c == [denom |-> BondDenom, amount |-> 0]
  <2>1. c \in [denom : Int, amount : Nat] /\ c.denom = BondDenom /\ c.amount = 0
    BY MinAssumption
  <2>2. DefaultZeroGlobalFee = <<c>> /\ Global = {c.denom}
    BY <1>1 DEF DefaultZeroGlobalFee, Global
  <2>3. ToSet(prices) = {}
    BY <1>1 DEF ToSet
  <2>4. \A d : PriceOf(prices, d) = 0
    BY <2>3, AmountOfNone DEF PriceOf
  <2> HIDE DEF c
  <2>5. <<c>> \in CoinList /\ Len(<<c>>) = 1 /\ DOMAIN <<c>> = {1} /\ <<c>>[1] = c /\ <<c>> # <<>>
    BY <2>1 DEF CoinList
  <2>6. Valid(<<c>>)
    BY <2>5 DEF Valid
  <2>7. Global = {<<c>>[i].denom : i \in DOMAIN <<c>>}
    BY <2>2, <2>5
  <2>8. \A i \in DOMAIN <<c>> : PriceOf(prices, <<c>>[i].denom) = <<c>>[i].amount
    BY <2>1, <2>4, <2>5
  <2> QED
    BY <1>1, <2>2, <2>5, <2>6, <2>7, <2>8
<1>2. CASE prices # <<>>
  <2>1. Global = {prices[i].denom : i \in DOMAIN prices}
    BY <1>2 DEF Global
  <2>2. \A i \in DOMAIN prices : PriceOf(prices, prices[i].denom) = prices[i].amount
    BY Zenon, AmountOfList DEF PricesOK, PriceOf, IsAmount
  <2> QED
    BY <1>2, <2>1, <2>2 DEF PricesOK
<1> QED
  BY <1>1, <1>2

\* CombinedFeeRequirement asks for the fee of each denom of the global list.
LEMMA Combined ==
  ASSUME PricesOK, NEW gas \in Nat
  PROVE  ToSet(CombinedFeeRequirement(GetGlobalFee(gas), GetMinGasPrice(gas)))
           = {[denom |-> d, amount |-> Need(d, gas)] : d \in Global}
<1> DEFINE g == IF prices = <<>> THEN DefaultZeroGlobalFee ELSE prices
           gf == GetGlobalFee(gas)
           all == CombinedFeeRequirement(gf, GetMinGasPrice(gas))
           Coin(d) == [denom |-> d, amount |-> Need(d, gas)]
<1>1. /\ g \in CoinList /\ Valid(g) /\ Global = {g[i].denom : i \in DOMAIN g}
      /\ \A i \in DOMAIN g : PriceOf(prices, g[i].denom) = g[i].amount
  BY Zenon, GlobalList
<1>2. gf = RequiredFees(g, gas)
  BY Zenon DEF GetGlobalFee
<1> HIDE DEF g
<1>3. /\ DOMAIN gf = DOMAIN g
      /\ \A i \in DOMAIN g : gf[i] = [denom |-> g[i].denom, amount |-> FeeOf(g[i].amount, gas)]
  BY Zenon, <1>1, <1>2, RequiredList
<1> HIDE DEF gf
<1>4. ASSUME NEW i \in DOMAIN g PROVE all[i] = Coin(g[i].denom)
  <2> DEFINE d == g[i].denom
             c == Find(GetMinGasPrice(gas), gf[i].denom)
  <2>1. d \in Int /\ gf[i].denom = d /\ gf[i].amount = FeeOf(PriceOf(prices, d), gas)
    BY <1>1, <1>3, CoinOfList
  <2>2. c = FeeOf(PriceOf(local, d), gas)
    BY Zenon, <2>1, LocalFee
  <2>3. all[i] = IF c > gf[i].amount THEN [gf[i] EXCEPT !.amount = c] ELSE gf[i]
    BY <1>3 DEF CombinedFeeRequirement
  <2>4. gf[i] = [denom |-> d, amount |-> gf[i].amount]
    BY <1>3, <2>1
  <2>5. [gf[i] EXCEPT !.amount = c] = [denom |-> d, amount |-> c]
    <3> HIDE DEF c, d
    <3> QED BY <2>4
  <2>6. Need(d, gas) = IF c > gf[i].amount THEN c ELSE gf[i].amount
    <3> HIDE DEF c, d
    <3> QED BY Zenon, <2>1, <2>2, NeedIsHigher
  <2> HIDE DEF c, d
  <2> QED
    BY Zenon, <2>3, <2>4, <2>5, <2>6 DEF d
<1>5. DOMAIN all = DOMAIN g
  BY <1>3 DEF CombinedFeeRequirement
<1>6. ToSet(all) = {all[i] : i \in DOMAIN all}
  BY Zenon DEF ToSet
<1> HIDE DEF all, Coin
<1>7. ToSet(all) = {Coin(d) : d \in Global}
  BY <1>1, <1>4, <1>5, <1>6
<1> QED
  BY <1>7 DEF all, Coin, gf

\* The denoms of the global list are numbers, finitely many and at least one.
LEMMA GlobalType ==
  ASSUME PricesOK
  PROVE  Global \subseteq Int /\ Global # {} /\ IsFiniteSet(Global)
<1> DEFINE g == IF prices = <<>> THEN DefaultZeroGlobalFee ELSE prices
<1>1. g \in CoinList /\ g # <<>> /\ Global = {g[i].denom : i \in DOMAIN g}
  BY Zenon, GlobalList
<1> HIDE DEF g
<1>2. Len(g) \in Nat /\ DOMAIN g = 1 .. Len(g) /\ \A i \in DOMAIN g : g[i].denom \in Int
  BY <1>1, CoinOfList
<1>3. DOMAIN g # {}
  BY <1>1, <1>2 DEF CoinList
<1>4. IsFiniteSet(DOMAIN g)
  BY <1>2, FS_Interval
<1>5. [i \in DOMAIN g |-> g[i].denom] \in Surjection(DOMAIN g, Global)
  BY Zenon, <1>1 DEF Surjection
<1>6. IsFiniteSet(Global)
  BY Zenon, <1>4, <1>5, FS_Surjection
<1> QED
  BY Zenon, <1>1, <1>2, <1>3, <1>6

\* AnteHandle admits a transaction exactly when it pays: DenomsSubsetOf, with
\* its comparison of lengths, says that the denoms are on the global list.
LEMMA AdmitsIffPays ==
  ASSUME PricesOK, NEW tx, tx.fee \in CoinList, Valid(tx.fee), tx.gas \in Nat
  PROVE  AnteHandle(tx) <=> PaysPrice(tx)
<1> DEFINE gas == tx.gas
           Coin(d) == [denom |-> d, amount |-> Need(d, gas)]
           combined == {Coin(d) : d \in Global}
           nonZero == {c \in combined : c.amount # 0}
           zeroDenoms == {c.denom : c \in combined \ nonZero}
           fee == ToSet(tx.fee)
           feeNonZero == {c \in fee : c.denom \notin zeroDenoms}
           mayBypass == tx.bypass /\ gas <= MaxBypassGas
           accepted == \A c \in fee : c.denom \in Global
<1>1. AnteHandle(tx) <=> /\ combined # {}
                         /\ DenomsSubsetOf(feeNonZero, nonZero)
                         /\ \/ mayBypass
                            \/ feeNonZero # fee
                            \/ fee = {} /\ zeroDenoms # {}
                            \/ IsAnyGTE(feeNonZero, nonZero)
  <2>1. ToSet(CombinedFeeRequirement(GetGlobalFee(gas), GetMinGasPrice(gas))) = combined
    BY Zenon, Combined
  <2> HIDE DEF combined
  <2> QED
    BY Zenon, <2>1 DEF AnteHandle, Admits
<1>2. \A d \in Global : /\ Need(d, gas) \in Nat /\ Required(d) \in Nat /\ Required(d) * gas \in Nat
                        /\ Need(d, gas) = 0 <=> Required(d) * gas = 0
                        /\ \A a \in Nat : a >= Need(d, gas) <=> a * Unit >= Required(d) * gas
  <2> SUFFICES ASSUME NEW d \in Global
               PROVE  /\ Need(d, gas) \in Nat /\ Required(d) \in Nat /\ Required(d) * gas \in Nat
                      /\ Need(d, gas) = 0 <=> Required(d) * gas = 0
                      /\ \A a \in Nat : a >= Need(d, gas) <=> a * Unit >= Required(d) * gas
    BY Zenon
  <2>1. d \in Int
    BY GlobalType
  <2>2. Need(d, gas) \in Nat /\ Required(d) \in Nat
    BY Zenon, <2>1, NeedIsHigher
  <2> QED
    BY Zenon, <2>2, FeeCovers, FeeGrows, Products DEF Need
<1>3. \A c \in fee : c.amount \in Nat
  BY CoinOfList DEF ToSet
<1>4. \A d : Coin(d).denom = d /\ Coin(d).amount = Need(d, gas)
  BY Zenon
<1>5. combined # {}
  BY GlobalType
<1>6. zeroDenoms = {d \in Global : Need(d, gas) = 0}
  <2> HIDE DEF Coin
  <2> QED BY <1>4
<1>7. nonZero = {Coin(d) : d \in {e \in Global : Need(e, gas) # 0}}
  <2> HIDE DEF Coin
  <2> QED BY Zenon, <1>4
<1> HIDE DEF Coin, combined, nonZero, zeroDenoms
<1>8. ASSUME NEW d PROVE AmountOf(nonZero, d) = IF d \in Global THEN Need(d, gas) ELSE 0
  <2>1. CASE d \in Global /\ Need(d, gas) # 0
    <3>1. Coin(d) \in nonZero /\ \A e \in nonZero : e.denom = Coin(d).denom => e = Coin(d)
      BY <1>4, <1>7, <2>1
    <3>2. AmountOf(nonZero, Coin(d).denom) = Coin(d).amount
      BY Zenon, <3>1, AmountOfOne
    <3> QED
      BY Zenon, <1>4, <2>1, <3>2
  <2>2. CASE ~(d \in Global /\ Need(d, gas) # 0)
    <3>1. \A e \in nonZero : e.denom # d
      BY <1>4, <1>7, <2>2
    <3>2. AmountOf(nonZero, d) = 0
      BY Zenon, <3>1, AmountOfNone
    <3> QED
      BY <2>2, <3>2
  <2> QED
    BY Zenon, <2>1, <2>2
<1>9. DenomsSubsetOf(feeNonZero, nonZero) <=> accepted
  <2>1. ASSUME DenomsSubsetOf(feeNonZero, nonZero), NEW c \in fee PROVE c.denom \in Global
    <3>1. CASE c.denom \in zeroDenoms
      BY <1>6, <3>1
    <3>2. CASE c.denom \notin zeroDenoms
      <4>1. AmountOf(nonZero, c.denom) # 0
        BY Zenon, <2>1, <3>2 DEF DenomsSubsetOf
      <4> QED
        BY <1>8, <4>1
    <3> QED
      BY <3>1, <3>2
  <2>2. ASSUME accepted PROVE DenomsSubsetOf(feeNonZero, nonZero)
    <3>1. ASSUME NEW c \in feeNonZero PROVE c.denom \in Global /\ Need(c.denom, gas) # 0
      BY <1>6, <2>2
    <3>2. ASSUME NEW c \in feeNonZero PROVE AmountOf(nonZero, c.denom) # 0
      BY <1>8, <3>1
    <3> DEFINE f == [c \in feeNonZero |-> Coin(c.denom)]
    <3>3. \A b, c \in feeNonZero : b.denom = c.denom => b = c
      BY OneCoin DEF ToSet
    <3>4. f \in [feeNonZero -> nonZero]
      BY <1>7, <3>1
    <3>5. \A b, c \in feeNonZero : f[b] = f[c] => b = c
      BY <1>4, <3>3
    <3>6. f \in Injection(feeNonZero, nonZero)
      <4> HIDE DEF f, feeNonZero
      <4> QED BY Zenon, <3>4, <3>5 DEF Injection, IsInjective
    <3>7. IsFiniteSet(nonZero)
      <4> DEFINE S == {e \in Global : Need(e, gas) # 0}
      <4>1. IsFiniteSet(S)
        BY GlobalType, FS_Subset
      <4> HIDE DEF S
      <4>2. [e \in S |-> Coin(e)] \in Surjection(S, nonZero)
        BY <1>7 DEF Surjection, S
      <4> QED
        BY Zenon, <4>1, <4>2, FS_Surjection
    <3>8. Cardinality(feeNonZero) <= Cardinality(nonZero)
      <4> HIDE DEF f, feeNonZero
      <4> QED BY Zenon, <3>6, <3>7, FS_Injection
    <3> QED
      BY Zenon, <3>2, <3>8 DEF DenomsSubsetOf
  <2> QED
    BY Zenon, <2>1, <2>2
<1>10. accepted <=> \A i \in DOMAIN tx.fee : tx.fee[i].denom \in Global
  BY Zenon DEF ToSet
<1>11. ASSUME accepted
       PROVE  (feeNonZero # fee \/ IsAnyGTE(feeNonZero, nonZero))
                <=> \E c \in fee : c.amount * Unit >= Required(c.denom) * gas
  <2>1. ASSUME NEW c \in fee
        PROVE  /\ c.denom \in Global /\ c.amount \in Nat
               /\ c.amount >= Need(c.denom, gas) <=> c.amount * Unit >= Required(c.denom) * gas
    BY Zenon, <1>2, <1>3, <1>11
  <2>2. ASSUME feeNonZero # fee PROVE \E c \in fee : c.amount >= Need(c.denom, gas)
    <3>1. PICK c \in fee : c.denom \in zeroDenoms
      BY <2>2
    <3>2. Need(c.denom, gas) = 0
      BY <1>6, <3>1
    <3> QED
      BY <2>1, <3>2
  <2>3. ASSUME IsAnyGTE(feeNonZero, nonZero) PROVE \E c \in fee : c.amount >= Need(c.denom, gas)
    <3>1. PICK c \in feeNonZero : c.amount >= AmountOf(nonZero, c.denom)
      BY Zenon, <2>3 DEF IsAnyGTE
    <3> QED
      BY <1>8, <2>1, <3>1
  <2>4. ASSUME NEW c \in fee, c.amount >= Need(c.denom, gas), feeNonZero = fee
        PROVE  IsAnyGTE(feeNonZero, nonZero)
    <3>1. c.denom \in Global /\ Need(c.denom, gas) # 0
      BY <1>6, <2>1, <2>4
    <3>2. AmountOf(nonZero, c.denom) = Need(c.denom, gas)
      BY <1>8, <3>1
    <3> HIDE DEF fee, feeNonZero
    <3> QED
      BY Zenon, <2>4, <3>1, <3>2 DEF IsAnyGTE
  <2> HIDE DEF fee, feeNonZero
  <2> QED
    BY Zenon, <2>1, <2>2, <2>3, <2>4
<1>12. (\E c \in fee : c.amount * Unit >= Required(c.denom) * gas)
         <=> \E i \in DOMAIN tx.fee : tx.fee[i].amount * Unit >= Required(tx.fee[i].denom) * gas
  BY Zenon DEF ToSet
<1>13. fee = {} <=> tx.fee = <<>>
  <2>1. fee = {} <=> DOMAIN tx.fee = {}
    BY Zenon DEF ToSet
  <2>2. DOMAIN tx.fee = {} <=> tx.fee = <<>>
    <3> DEFINE l == tx.fee
               C == [denom : Int, amount : Nat]
    <3>1. l \in Seq(C)
      BY Zenon DEF CoinList
    <3> HIDE DEF l, C
    <3>2. DOMAIN l = {} <=> l = <<>>
      BY <3>1
    <3> QED
      BY Zenon, <3>2 DEF l
  <2> QED BY <2>1, <2>2
<1>14. zeroDenoms # {} <=> \E d \in Global : Required(d) * gas = 0
  BY <1>2, <1>6
<1> HIDE DEF fee, feeNonZero, mayBypass, accepted
<1>15. AnteHandle(tx) <=> accepted /\ \/ mayBypass
                                      \/ \E c \in fee : c.amount * Unit >= Required(c.denom) * gas
                                      \/ tx.fee = <<>> /\ \E d \in Global : Required(d) * gas = 0
  BY Zenon, <1>1, <1>5, <1>9, <1>11, <1>13, <1>14
<1> QED
  BY Zenon, <1>10, <1>12, <1>15 DEF PaysPrice, mayBypass

\* PoolPaysPrice for any price lists and transactions: the mempool holds what
\* AnteHandle admits under the prices of now, and that is what pays them.
THEOREM PoolPaysPriceHolds == MinSpec => []PoolPaysPrice
<1> DEFINE Inv == /\ prices \in PriceLists /\ Valid(prices) /\ local \in LocalLists
                  /\ pool \subseteq TxSet /\ \A tx \in pool : AnteHandle(tx)
<1>1. MinInit => Inv
  BY Zenon DEF MinInit
<1>2. Inv /\ [MinNext]_minVars => Inv'
  <2> SUFFICES ASSUME Inv, [MinNext]_minVars PROVE Inv'
    BY Zenon
  <2>1. ASSUME NEW tx \in TxSet, CheckTx(tx) PROVE Inv'
    <3>1. /\ prices' = prices /\ local' = local /\ pool' = pool \cup {tx} /\ AnteHandle(tx)
      BY <2>1 DEF CheckTx
    <3>2. \A t \in pool' : AnteHandle(t)
      BY <3>1
    <3>3. \A t : AnteHandle(t)' <=> AnteHandle(t)
      BY Zenon, <3>1 DEF AnteHandle, GetGlobalFee, GetMinGasPrice
    <3> QED
      BY <3>1, <3>2, <3>3
  <2>2. ASSUME NEW p \in PriceLists, NEW taken \in SUBSET pool, Commit(p, taken) PROVE Inv'
    <3>1. Valid(p) /\ prices' = p /\ local' = local /\ pool' = {tx \in pool \ taken : AnteHandle(tx)'}
      BY <2>2 DEF Commit
    <3> QED
      BY <3>1
  <2>3. CASE UNCHANGED minVars
    <3>1. prices' = prices /\ local' = local /\ pool' = pool
      BY <2>3 DEF minVars
    <3>2. \A t : AnteHandle(t)' <=> AnteHandle(t)
      BY Zenon, <3>1 DEF AnteHandle, GetGlobalFee, GetMinGasPrice
    <3> QED
      BY <3>1, <3>2
  <2> QED
    BY <2>1, <2>2, <2>3 DEF MinNext
<1>3. Inv => PoolPaysPrice
  <2> SUFFICES ASSUME Inv PROVE PoolPaysPrice
    BY Zenon
  <2>1. PricesOK
    BY MinAssumption DEF PricesOK
  <2>2. \A tx \in TxSet : AnteHandle(tx) <=> PaysPrice(tx)
    BY Zenon, <2>1, MinAssumption, AdmitsIffPays
  <2> QED
    BY Zenon, <2>2 DEF PoolPaysPrice
<1> QED BY <1>1, <1>2, <1>3, PTL DEF MinSpec
=============================================================================
