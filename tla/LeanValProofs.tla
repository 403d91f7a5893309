---------------------------- MODULE LeanValProofs ----------------------------
(***************************************************************************)
(* LeanVal for every genesis, every set of clients' transactions and every *)
(* deployment: types, deposit slots, balances, object roots and Comet      *)
(* powers; what is decided applies, each JOIN to the slot its proof names; *)
(* what a replica builds is accepted; and membership is that of LeanRoster.*)
(***************************************************************************)
EXTENDS LeanVal, LeanStoreProofs

BlobOK(blob) ==
    /\ blob.period \in Nat
    /\ Subs(blob) \subseteq Subjects \cup {Placeholder}
    /\ \A s \in Subs(blob) : blob.rows[s].weight \in Nat

(* A non-empty set of numbers has a least element (First).                 *)
LEMMA FirstIn ==
    ASSUME NEW S \in SUBSET Nat, S # {}
    PROVE  First(S) \in S /\ \A y \in S : First(S) <= y
BY Least, Zenon DEF First

(* The roster's weights are numbers.                                       *)
LEMMA RosterType ==
    ASSUME NEW st, StoreOK(st), NEW p \in Nat
    PROVE  Roster(st, p) \in [knownSubjectSet(st, p) -> Nat]
           /\ knownSubjectSet(st, p) \subseteq Subjects
<1>1. CASE DebugSubjectsFromBits(st) # {}
  <2>1. \A s \in DebugSubjectsFromBits(st) : s \in Subjects /\ st.index[s] \in Indexes
    BY Zenon, IndexBound DEF DebugSubjectsFromBits, IsMember, StoreOK
  <2>2. \A s \in DebugSubjectsFromBits(st) : BitWeight(st, s) \in Nat
    BY <2>1 DEF BitWeight, EBOf, depositIndexOf, StoreOK, Sound, Store, NoEB
  <2> QED
    BY Zenon, <1>1, <2>1, <2>2 DEF Roster, knownSubjectSet
<1>2. CASE DebugSubjectsFromBits(st) = {}
  <2> DEFINE rows == BondedSet(BondedSetOrCarry(st, p), p)
             R == [s \in {r.subject : r \in rows} |-> RowWeight(CHOOSE r \in rows : r.subject = s)]
  <2>1. rows \subseteq BondedRow
    BY CarryOK DEF StoreOK, Sound, Store, BondedSet
  <2>2. \A r \in rows : r.subject \in Subjects /\ RowWeight(r) \in Nat
    BY Zenon, <2>1 DEF BondedRow, RowWeight
  <2>3. Roster(st, p) = R
    BY Zenon, <1>2 DEF Roster
  <2> HIDE DEF rows
  <2>4. \A s \in {r.subject : r \in rows} : (CHOOSE r \in rows : r.subject = s) \in rows
    BY Zenon
  <2> QED
    BY <2>2, <2>3, <2>4 DEF knownSubjectSet
<1> QED
  BY Zenon, <1>1, <1>2

(* Reading the roster leaves a sound store (AfterRosterRead).              *)
LEMMA RosterReadOK ==
    ASSUME NEW st, StoreOK(st), NEW p \in Nat
    PROVE  StoreOK(AfterRosterRead(st, p))
BY Zenon, CarryOK DEF AfterRosterRead

(* What the end of a block commits (EndBlocker).                           *)
LEMMA CommitKeeps ==
    ASSUME NEW st, StoreOK(st)
    PROVE  /\ StoreOK(syncObjectRoots(st)) /\ syncObjectRoots(st).power = st.power
           /\ StoreOK(ValidatorUpdates(syncObjectRoots(st)))
<1>1. st \in Store
  BY Zenon DEF StoreOK, Sound
<1>2. RowsIndexed(syncObjectRoots(st))
  BY Zenon, <1>1, SyncFields DEF StoreOK, RowsIndexed, HasIndex, depositIndexOf
<1>3. StoreOK(syncObjectRoots(st))
  BY Zenon, <1>1, <1>2, SyncOK, SyncCurrent DEF StoreOK
<1> QED
  BY Zenon, <1>1, <1>3, SyncFields, UpdatesOK

(* Every row a proposer writes has a subject and a weight that is a number *)
(* (buildLNPR).                                                            *)
LEMMA BuildOK ==
    ASSUME NEW st, StoreOK(st), NEW p \in Nat, NEW q \in SUBSET Txs
    PROVE  BlobOK(buildLNPR(st, p, q)) /\ buildLNPR(st, p, q).period = p
<1> DEFINE synced == syncObjectRoots(st)
           ctx == AfterRosterRead(synced, p)
           weight == applyQueuedMembership(ctx, p, Roster(synced, p), q)
           joins == QueuedJoins(ctx, p, Roster(synced, p), q)
           blob == buildLNPR(st, p, q)
<1>1. \A j \in joins : j.subject \in Subjects /\ j.weight \in Nat
  BY Zenon, LeanValAssumption DEF QueuedJoins
<1>2. Roster(synced, p) \in [knownSubjectSet(synced, p) -> Nat] /\ knownSubjectSet(synced, p) \subseteq Subjects
  BY Zenon, CommitKeeps, RosterType
<1>3. \A s \in DOMAIN weight : s \in Subjects /\ weight[s] \in Nat
  <2> DEFINE R == Roster(synced, p)
  <2>1. weight = [s \in DOMAIN R \cup {j.subject : j \in joins} |->
                    IF s \in Leaving(ctx, p, q) THEN 0
                    ELSE IF s \in DOMAIN R THEN R[s]
                    ELSE (CHOOSE j \in joins : j.subject = s).weight]
    BY Zenon DEF applyQueuedMembership
  <2> HIDE DEF R, joins, weight
  <2>2. \A s \in {j.subject : j \in joins} : (CHOOSE j \in joins : j.subject = s) \in joins
    BY Zenon
  <2>3. \A s \in DOMAIN R : s \in Subjects /\ R[s] \in Nat
    BY Zenon, <1>2 DEF R
  <2> QED
    BY <1>1, <2>1, <2>2, <2>3
<1>4. /\ blob.period = p
      /\ \/ /\ Subs(blob) = {Placeholder} /\ \A s \in Subs(blob) : blob.rows[s].weight = 0
         \/ /\ Subs(blob) = DOMAIN weight
            /\ \A s \in Subs(blob) : blob.rows[s].weight = weight[s]
  BY Zenon DEF buildLNPR, Subs
<1> HIDE DEF weight, blob
<1> QED
  BY <1>3, <1>4 DEF BlobOK, blob

(* Genesis subjects have the slots of their places in the file.            *)
LEMMA GenesisSlots ==
    LET n == Len(Genesis)
    IN  /\ n \in Nat /\ Genesis \in [1 .. n -> Subjects] /\ DOMAIN Genesis = 1 .. n
        /\ GenesisSubjects \subseteq Subjects
        /\ \A s \in GenesisSubjects : /\ GenesisIndex(s) \in 0 .. (n - 1)
                                      /\ Genesis[GenesisIndex(s) + 1] = s
        /\ Cardinality(GenesisSubjects) = n
        /\ \A s \in GenesisSubjects : GenesisIndex(s) \in Indexes /\ GenesisIndex(s) < n
<1> DEFINE n == Len(Genesis)
<1>1. /\ n \in Nat /\ Genesis \in [1 .. n -> Subjects] /\ DOMAIN Genesis = 1 .. n
      /\ GenesisSubjects \subseteq Subjects
  BY LeanValAssumption DEF GenesisSubjects
<1>2. \A s \in GenesisSubjects : /\ GenesisIndex(s) \in 0 .. (n - 1)
                                 /\ Genesis[GenesisIndex(s) + 1] = s
  <2> SUFFICES ASSUME NEW s \in GenesisSubjects
               PROVE  GenesisIndex(s) \in 0 .. (n - 1) /\ Genesis[GenesisIndex(s) + 1] = s
    BY Zenon
  <2> DEFINE k == CHOOSE i \in DOMAIN Genesis : Genesis[i] = s
  <2>1. k \in 1 .. n /\ Genesis[k] = s
    BY Zenon, <1>1 DEF GenesisSubjects
  <2>2. GenesisIndex(s) = k - 1
    BY Zenon DEF GenesisIndex
  <2> HIDE DEF k
  <2> QED
    BY <1>1, <2>1, <2>2
<1>3. Cardinality(GenesisSubjects) = n
  <2>1. Genesis \in Bijection(1 .. n, GenesisSubjects)
    BY <1>1, LeanValAssumption DEF Bijection, Injection, Surjection, IsInjective, GenesisSubjects
  <2>2. ExistsBijection(1 .. n, GenesisSubjects)
    BY Zenon, <2>1 DEF ExistsBijection
  <2> QED
    BY Zenon, <1>1, <2>2, FS_CountingElements
<1>4. n <= Cardinality(Subjects)
  BY Zenon, <1>1, <1>3, SubjectsFinite, FS_Subset
<1>5. \A s \in GenesisSubjects : GenesisIndex(s) \in Indexes /\ GenesisIndex(s) < n
  BY <1>1, <1>2, <1>4, SubjectsFinite DEF Indexes
<1> QED
  BY Zenon, <1>1, <1>2, <1>3, <1>5

(* The store that genesis seeds is sound (InitGenesis).                    *)
LEMMA GenesisStoreOK == GenesisStore \in Store /\ StoreOK(syncObjectRoots(GenesisStore))
<1> USE DEF GenesisStore
<1> DEFINE n == Len(Genesis)
<1>1. /\ n \in Nat /\ Genesis \in [1 .. n -> Subjects] /\ DOMAIN Genesis = 1 .. n
      /\ GenesisSubjects \subseteq Subjects
  BY Zenon, GenesisSlots
<1>2. \A s \in GenesisSubjects : /\ GenesisIndex(s) \in 0 .. (n - 1)
                                 /\ Genesis[GenesisIndex(s) + 1] = s
  BY Zenon, GenesisSlots
<1>3. Cardinality(GenesisSubjects) = n
  BY Zenon, GenesisSlots
<1>5. \A s \in GenesisSubjects : GenesisIndex(s) \in Indexes /\ GenesisIndex(s) < n
  BY Zenon, GenesisSlots
<1>6. GenesisStore \in Store
  <2>1. GenesisStore.index \in [Subjects -> Indexes \cup {NoIndex}]
    BY Zenon, <1>5
  <2>2. GenesisStore.bits \in SUBSET Indexes
    BY Zenon, <1>5
  <2>3. GenesisStore.eb \in [Indexes -> (0 .. 255) \cup {NoEB}]
    <3>1. \A i \in Indexes : i < n => GenesisWeight[Genesis[i + 1]] \in Int
      BY <1>1, LeanValAssumption, SubjectsFinite DEF Indexes
    <3> QED
      BY Zenon, <3>1, EBType
  <2>4. GenesisStore.bonded \in SUBSET BondedRow
    <3>1. \A s \in GenesisSubjects : s \in Subjects /\ GenesisWeight[s] \in Nat
      BY Zenon, <1>1, LeanValAssumption
    <3>2. Watched \subseteq Subjects
      BY Zenon, LeanValAssumption
    <3>3. \A s \in Subjects : \A b \in BOOLEAN : \A w \in Nat :
             [period |-> 0, subject |-> s, accepted |-> b, weight |-> w] \in BondedRow
      BY Zenon DEF BondedRow
    <3>4. TRUE \in BOOLEAN /\ FALSE \in BOOLEAN /\ 0 \in Nat
      BY Zenon
    <3>5. {[period |-> 0, subject |-> s, accepted |-> TRUE, weight |-> GenesisWeight[s]]
             : s \in GenesisSubjects} \subseteq BondedRow
      BY <3>1, <3>3, <3>4, Zenon
    <3>6. {[period |-> 0, subject |-> s, accepted |-> FALSE, weight |-> 0]
             : s \in Watched} \subseteq BondedRow
      BY <3>2, <3>3, <3>4, Zenon
    <3> QED
      BY Zenon, <3>5, <3>6
  <2>5. NoRoots \in Roots
    BY DEF NoRoots, Roots
  <2> QED
    BY Zenon, <1>1, <2>1, <2>2, <2>3, <2>4, <2>5 DEF Store
<1>7. SlotsOK(GenesisStore)
  <2>1. \A s \in Subjects : HasIndex(GenesisStore, s) <=> s \in GenesisSubjects
    BY Zenon, <1>1, <1>5, SubjectsFinite DEF HasIndex, depositIndexOf
  <2>2. \A s \in GenesisSubjects : GenesisStore.index[s] = GenesisIndex(s)
    BY Zenon, <1>1
  <2>3. \A s, t \in Subjects : HasIndex(GenesisStore, s) /\ GenesisStore.index[s] = GenesisStore.index[t] => s = t
    <3> SUFFICES ASSUME NEW s \in Subjects, NEW t \in Subjects, HasIndex(GenesisStore, s),
                        GenesisStore.index[s] = GenesisStore.index[t]
                 PROVE  s = t
      BY Zenon
    <3>1. s \in GenesisSubjects /\ t \in GenesisSubjects
      BY Zenon, <2>1 DEF HasIndex, depositIndexOf
    <3> QED
      BY Zenon, <1>2, <2>2, <3>1
  <2>4. \A s \in Subjects : HasIndex(GenesisStore, s) => GenesisStore.index[s] < GenesisStore.next
    BY Zenon, <1>5, <2>1, <2>2
  <2>5. {s \in Subjects : HasIndex(GenesisStore, s)} = GenesisSubjects
    BY Zenon, <1>1, <2>1
  <2>6. \A i \in Indexes : i \in GenesisStore.bits \/ GenesisStore.eb[i] # NoEB => i < GenesisStore.next
    BY Zenon, <1>5
  <2> QED
    BY Zenon, <1>3, <2>3, <2>4, <2>5, <2>6 DEF SlotsOK
<1>8. RowsIndexed(GenesisStore)
  <2>1. \A r \in GenesisStore.bonded : r.accepted => r.subject \in GenesisSubjects
    <3> DEFINE A == {[period |-> 0, subject |-> s, accepted |-> TRUE, weight |-> GenesisWeight[s]]
                        : s \in GenesisSubjects}
               B == {[period |-> 0, subject |-> s, accepted |-> FALSE, weight |-> 0]
                        : s \in Watched}
    <3>1. GenesisStore.bonded = A \cup B
      BY Zenon
    <3>2. \A r \in A : r.subject \in GenesisSubjects
      OBVIOUS
    <3>3. \A r \in B : ~r.accepted
      OBVIOUS
    <3> HIDE DEF A, B, GenesisStore
    <3> QED
      BY Zenon, <3>1, <3>2, <3>3
  <2>2. \A s \in GenesisSubjects : HasIndex(GenesisStore, s)
    BY Zenon, <1>1, <1>5, SubjectsFinite DEF HasIndex, depositIndexOf
  <2> QED
    BY Zenon, <2>1, <2>2 DEF RowsIndexed
<1> HIDE DEF GenesisStore
<1>10. RowsIndexed(syncObjectRoots(GenesisStore))
  BY Zenon, <1>6, <1>8, SyncFields DEF RowsIndexed, HasIndex, depositIndexOf
<1>11. StoreOK(syncObjectRoots(GenesisStore))
  BY Zenon, <1>6, <1>7, <1>10, SyncOK, SyncCurrent DEF StoreOK, Sound
<1> QED
  BY Zenon, <1>6, <1>11

(* So is what InitGenesis makes of it.                                     *)
LEMMA GenesisOK == StoreOK(InitGenesis)
BY Zenon, GenesisStoreOK, UpdatesOK DEF InitGenesis

(* Its members are the genesis subjects, with a balance each, and on a     *)
(* chain that owns its validator set they have power (InitGenesis).        *)
LEMMA GenesisRoster ==
    /\ RosterOK(InitGenesis, 0)
    /\ \A s \in Subjects : /\ IsMember(InitGenesis, s) <=> s \in GenesisSubjects
                           /\ HasIndex(InitGenesis, s) <=> s \in GenesisSubjects
    /\ OwnsValset => \A s \in Pubkeys : InitGenesis.power[s] > 0 <=> IsMember(InitGenesis, s)
<1> DEFINE g == GenesisStore
           n == Len(Genesis)
           A == {[period |-> 0, subject |-> s, accepted |-> TRUE, weight |-> GenesisWeight[s]]
                   : s \in GenesisSubjects}
           B == {[period |-> 0, subject |-> s, accepted |-> FALSE, weight |-> 0] : s \in Watched}
<1>1. /\ n \in Nat /\ Genesis \in [1 .. n -> Subjects] /\ GenesisSubjects \subseteq Subjects
      /\ \A s \in GenesisSubjects : GenesisIndex(s) \in Indexes /\ GenesisIndex(s) < n
      /\ \A s \in GenesisSubjects : Genesis[GenesisIndex(s) + 1] = s
  BY Zenon, GenesisSlots
<1>2. /\ g.index = [s \in Subjects |-> IF s \in GenesisSubjects THEN GenesisIndex(s) ELSE NoIndex]
      /\ g.bits = {GenesisIndex(s) : s \in GenesisSubjects}
      /\ g.eb = [i \in Indexes |-> IF i < n THEN ebFromWeight(GenesisWeight[Genesis[i + 1]]) ELSE NoEB]
      /\ g.bonded = A \cup B /\ g.leave = {}
  BY Zenon DEF GenesisStore
<1> HIDE DEF g, n
<1>3. \A s \in Subjects : HasIndex(g, s) <=> s \in GenesisSubjects
  BY <1>1, <1>2, SubjectsFinite DEF HasIndex, depositIndexOf
<1>4. \A s \in Subjects : IsMember(g, s) <=> s \in GenesisSubjects
  BY <1>1, <1>2, <1>3 DEF IsMember, BitIsSet, depositIndexOf
<1>5. Balanced(g)
  <2> SUFFICES ASSUME NEW s \in GenesisSubjects PROVE EBOf(g, GenesisIndex(s)) > 0
    BY Zenon, <1>2 DEF Balanced
  <2>1. g.eb[GenesisIndex(s)] = ebFromWeight(GenesisWeight[s])
    BY Zenon, <1>1, <1>2
  <2>2. GenesisWeight[s] \in Nat \ {0}
    BY Zenon, <1>1, LeanValAssumption
  <2> QED
    BY <2>1, <2>2 DEF EBOf, ebFromWeight, NoEB
<1>6. RowsOfMembers(g, 0)
  <2>1. \A r \in A : r.period = 0 /\ r.subject \in GenesisSubjects
    OBVIOUS
  <2>2. \A r \in B : r.period = 0 /\ ~r.accepted
    OBVIOUS
  <2> HIDE DEF A, B
  <2>3. \A r \in A : r.period <= 0 /\ IsMember(g, r.subject)
    BY <1>1, <1>4, <2>1
  <2>4. \A r \in B : r.period <= 0 /\ ~r.accepted
    BY <2>2
  <2> QED
    BY <1>2, <2>3, <2>4, Zenon DEF RowsOfMembers
<1>7. RosterOK(g, 0)
  BY Zenon, <1>2, <1>5, <1>6 DEF RosterOK, LeftForGood
<1> DEFINE y == syncObjectRoots(g)
<1>8. g \in Store /\ SameRoster(g, y) /\ StoreOK(y)
  <2>1. g \in Store /\ StoreOK(y)
    BY Zenon, GenesisStoreOK DEF g
  <2> QED
    BY Zenon, <2>1, SyncFields DEF SameRoster
<1>9. InitGenesis = IF OwnsValset THEN ValidatorUpdates(y) ELSE y
  BY Zenon DEF InitGenesis, g
<1> HIDE DEF y
<1>10. RosterOK(y, 0)
  BY Zenon, <1>7, <1>8, SameRosterOK
<1>11. SameRoster(y, InitGenesis) /\ (OwnsValset => \A s \in Pubkeys : InitGenesis.power[s] > 0 <=> IsMember(InitGenesis, s))
  BY Zenon, <1>8, <1>9, <1>10, UpdatesFollow DEF RosterOK, SameRoster
<1>12. /\ InitGenesis.index = g.index /\ InitGenesis.bits = g.bits
       /\ RosterOK(InitGenesis, 0)
  BY Zenon, <1>8, <1>10, <1>11, SameRosterOK DEF SameRoster
<1> QED
  BY Zenon, <1>3, <1>4, <1>11, <1>12 DEF IsMember, HasIndex, BitIsSet, depositIndexOf

(* A store of the right type has powers (Store).                           *)
LEMMA HasPowers ==
    ASSUME NEW st, StoreOK(st)
    PROVE  Power(st, st.power)
BY Zenon DEF Power, StoreOK, Sound, Store

(* Reading the roster leaves the powers alone (AfterRosterRead).           *)
LEMMA VerifyKeeps ==
    ASSUME NEW st, StoreOK(st), NEW blob, BlobOK(blob)
    PROVE  StoreOK(AfterVerify(st, blob)) /\ AfterVerify(st, blob).power = st.power
<1>1. Power(AfterRosterRead(st, blob.period), st.power)
  BY Zenon, HasPowers, CarryPower DEF AfterRosterRead
<1> QED
  BY Zenon, <1>1, RosterReadOK DEF AfterVerify, BlobOK, Power

(* Applying a row keeps the store sound and the powers as they are.        *)
LEMMA RowKeeps ==
    ASSUME NEW st, StoreOK(st), NEW p \in Nat, NEW s, NEW w \in Nat
    PROVE  StoreOK(RowApplied(st, p, s, w)) /\ RowApplied(st, p, s, w).power = st.power
<1>1. CASE s \notin Subjects
  BY Zenon, <1>1 DEF RowApplied
<1>2. CASE s \in Subjects
  <2>1. w \in Int
    OBVIOUS
  <2>2. /\ StoreOK(ApplyLeave(st, p, s)) /\ StoreOK(admitMember(st, s, w))
        /\ StoreOK(AcceptProof(st, p, s, w))
    BY Zenon, <1>2, <2>1, LeaveOK, AdmitStoreOK, AcceptOK
  <2>3. /\ Power(ApplyLeave(st, p, s), st.power) /\ Power(admitMember(st, s, w), st.power)
        /\ Power(AcceptProof(st, p, s, w), st.power)
    BY Zenon, HasPowers, RowPower, AdmitPower
  <2> QED
    BY Zenon, <1>2, <2>2, <2>3 DEF RowApplied, Power
<1> QED
  BY Zenon, <1>1, <1>2

-----------------------------------------------------------------------------
(* What a verified LNPR says of the store it was verified at.              *)

(* Committing roots that are current changes nothing (syncObjectRoots).    *)
LEMMA SyncNothing ==
    ASSUME NEW st, StoreOK(st)
    PROVE  syncObjectRoots(st) = st
BY Zenon DEF StoreOK, Sound, Current, syncObjectRoots, Store

(* The parts of the LNPR that buildLNPR puts together: the weight of each  *)
(* row, the rows that the roster does not know, their proofs, the row of   *)
(* the fold and the roots.                                                 *)
BuiltWeight(st, p, q) == applyQueuedMembership(AfterRosterRead(st, p), p, Roster(st, p), q)
BuiltSubs(st, p, q)   == DOMAIN BuiltWeight(st, p, q)
BuiltExtras(st, p, q) ==
    {s \in BuiltSubs(st, p, q) \ knownSubjectSet(st, p) : BuiltWeight(st, p, q)[s] > 0}
BuiltProof(st, p, q, s) ==
    IF s \in BuiltExtras(st, p, q)
    THEN ExtraProof(p, q, s, AfterRosterRead(st, p).next + Rank(BuiltExtras(st, p, q), s),
                    BuiltWeight(st, p, q)[s])
    ELSE NoProof
BuiltBare(st, p, q)   == {s \in BuiltSubs(st, p, q) : BuiltProof(st, p, q, s) = NoProof}
BuiltSlot(st, p, q)   ==
    First(IF knownSubjectSet(st, p) # {} THEN knownSubjectSet(st, p) ELSE BuiltSubs(st, p, q))
Carries(st, p, q, s)  ==
    IF FoldAvailable
    THEN IF s = BuiltSlot(st, p, q) THEN Fold(RosterRoots(st, p)) ELSE BuiltProof(st, p, q, s)
    ELSE IF /\ AllowDummy /\ s \in BuiltBare(st, p, q)
            /\ Rank(BuiltBare(st, p, q), s) < MaxRawStarksPerLNPR
         THEN Dummy(p, s, BuiltWeight(st, p, q)[s], RosterRoots(st, p))
         ELSE BuiltProof(st, p, q, s)

(* The LNPR consists of those (buildLNPR).                                 *)
LEMMA BuildIs ==
    ASSUME NEW st, StoreOK(st), NEW p, NEW q
    PROVE  LET blob == buildLNPR(st, p, q)
           IN  /\ blob.period = p
               /\ FoldAvailable /\ BuiltSubs(st, p, q) = {} =>
                     /\ Subs(blob) = {Placeholder} /\ blob.rows[Placeholder].weight = 0
                     /\ blob.rows[Placeholder].proof = Fold(RosterRoots(st, p))
               /\ ~FoldAvailable \/ BuiltSubs(st, p, q) # {} =>
                     /\ Subs(blob) = BuiltSubs(st, p, q)
                     /\ \A s \in BuiltSubs(st, p, q) :
                           /\ blob.rows[s].weight = BuiltWeight(st, p, q)[s]
                           /\ blob.rows[s].proof = Carries(st, p, q, s)
<1> DEFINE roots == RosterRoots(st, p)
           proof(x) == [s \in BuiltSubs(x, p, q) |-> BuiltProof(x, p, q, s)]
           bare(x) == {s \in BuiltSubs(x, p, q) : proof(x)[s] = NoProof}
           folded(x) == [proof(x) EXCEPT ![BuiltSlot(x, p, q)] = Fold(roots)]
           dummied(x) == [s \in BuiltSubs(x, p, q) |->
                            IF s \in bare(x) /\ Rank(bare(x), s) < MaxRawStarksPerLNPR
                            THEN Dummy(p, s, BuiltWeight(x, p, q)[s], roots) ELSE proof(x)[s]]
           proofs(x) == IF FoldAvailable THEN folded(x)
                        ELSE IF AllowDummy THEN dummied(x) ELSE proof(x)
           built(x) ==
             [period |-> p,
              rows   |-> IF FoldAvailable /\ BuiltSubs(x, p, q) = {}
                         THEN [s \in {Placeholder} |-> [weight |-> 0, proof |-> Fold(roots)]]
                         ELSE [s \in BuiltSubs(x, p, q) |->
                                 [weight |-> BuiltWeight(x, p, q)[s], proof |-> proofs(x)[s]]]]
<1>1. buildLNPR(st, p, q) = built(st)
  <2>1. buildLNPR(st, p, q) = built(syncObjectRoots(st))
    BY Zenon DEF buildLNPR, BuiltWeight, BuiltSubs, BuiltExtras, BuiltProof, BuiltSlot
  <2> HIDE DEF built
  <2> QED
    BY Zenon, <2>1, SyncNothing
<1>2. bare(st) = BuiltBare(st, p, q)
  BY Zenon DEF BuiltBare
<1> HIDE DEF bare, roots
<1>3. \A s \in BuiltSubs(st, p, q) : proofs(st)[s] = Carries(st, p, q, s)
  <2>1. \A s \in BuiltSubs(st, p, q) :
           folded(st)[s] = IF s = BuiltSlot(st, p, q) THEN Fold(roots) ELSE BuiltProof(st, p, q, s)
    BY Zenon
  <2> HIDE DEF folded
  <2>2. \A s \in BuiltSubs(st, p, q) : proof(st)[s] = BuiltProof(st, p, q, s)
    BY Zenon
  <2> QED
    BY Zenon, <1>2, <2>1, <2>2 DEF Carries, roots
<1> HIDE DEF proofs
<1> QED
  BY <1>1, <1>3 DEF Subs, roots

(* Reading the roster without anybody coming back onto it (knownSubjectSet *)
(* and AfterRosterRead): the store differs in rows without weight at most, *)
(* a second read changes nothing, and only members are on the roster with  *)
(* weight.                                                                 *)
Quiet(st, p) == AfterRosterRead(st, p).bits = st.bits

LEMMA ReadQuiet ==
    ASSUME NEW st, StoreOK(st), NEW p \in Nat, RosterOK(st, p), Quiet(st, p)
    PROVE  LET c == AfterRosterRead(st, p)
           IN  /\ c.index = st.index /\ c.next = st.next /\ c.bits = st.bits /\ c.eb = st.eb
               /\ c.leave = st.leave /\ c.roots = st.roots
               /\ RosterOK(c, p)
               /\ AfterRosterRead(c, p) = c
               /\ knownSubjectSet(c, p) = knownSubjectSet(st, p)
               /\ \A s \in knownSubjectSet(st, p) : Roster(st, p)[s] > 0 => IsMember(st, s)
<1>1. CASE DebugSubjectsFromBits(st) # {}
  <2>1. AfterRosterRead(st, p) = st
    BY Zenon, <1>1 DEF AfterRosterRead
  <2>2. \A s \in knownSubjectSet(st, p) : IsMember(st, s)
    BY Zenon, <1>1 DEF knownSubjectSet, Roster, DebugSubjectsFromBits
  <2> QED
    BY Zenon, <2>1, <2>2
<1>2. CASE DebugSubjectsFromBits(st) = {}
  <2> DEFINE c == BondedSetOrCarry(st, p)
  <2>1. AfterRosterRead(st, p) = c
    BY Zenon, <1>2 DEF AfterRosterRead
  <2>2. /\ c.index = st.index /\ c.next = st.next /\ c.bits = st.bits /\ c.eb = st.eb
        /\ c.leave = st.leave /\ c.roots = st.roots
        /\ RosterOK(c, p)
        /\ BondedSetOrCarry(c, p) = c
        /\ \A r \in BondedSet(c, p) : RowWeight(r) = 0
    BY Zenon, <1>2, <2>1, CarryQuiet DEF Quiet
  <2> HIDE DEF c
  <2>3. DebugSubjectsFromBits(c) = {}
    BY Zenon, <1>2, <2>2 DEF DebugSubjectsFromBits, IsMember, HasIndex, BitIsSet, depositIndexOf
  <2>4. AfterRosterRead(c, p) = c
    BY Zenon, <2>2, <2>3 DEF AfterRosterRead
  <2>5. Roster(c, p) = Roster(st, p)
    BY Zenon, <1>2, <2>2, <2>3 DEF Roster, c
  <2>6. \A s \in knownSubjectSet(st, p) : Roster(st, p)[s] = 0
    <3> DEFINE rows == BondedSet(c, p)
    <3>1. Roster(st, p) = [s \in {r.subject : r \in rows} |-> RowWeight(CHOOSE r \in rows : r.subject = s)]
      BY Zenon, <1>2 DEF Roster, c
    <3>2. \A r \in rows : RowWeight(r) = 0
      BY Zenon, <2>2
    <3> HIDE DEF rows
    <3>3. \A s \in {r.subject : r \in rows} : (CHOOSE r \in rows : r.subject = s) \in rows
      BY Zenon
    <3> QED
      BY Zenon, <3>1, <3>2, <3>3 DEF knownSubjectSet
  <2> QED
    BY <2>1, <2>2, <2>4, <2>5, <2>6 DEF knownSubjectSet
<1> QED
  BY Zenon, <1>1, <1>2

(* The weights a proposer writes: roster rows are all there, with the      *)
(* roster's weight unless they leave; the others are admissible JOINs      *)
(* (applyQueuedMembership).                                                *)
LEMMA BuiltRows ==
    ASSUME NEW st, StoreOK(st), NEW p \in Nat, NEW q \in SUBSET Txs
    PROVE  LET ctx == AfterRosterRead(st, p)
               known == knownSubjectSet(st, p)
               leaving == Leaving(ctx, p, q)
               weight == BuiltWeight(st, p, q)
           IN  /\ known \subseteq BuiltSubs(st, p, q) /\ BuiltSubs(st, p, q) \subseteq Subjects
               /\ \A s \in BuiltSubs(st, p, q) : weight[s] \in Nat
               /\ \A s \in known : weight[s] = IF s \in leaving THEN 0 ELSE Roster(st, p)[s]
               /\ \A s \in BuiltSubs(st, p, q) \ known :
                     \E j \in q \cap JoinTxs : j.subject = s /\ ~HasIndex(ctx, s)
<1> DEFINE ctx == AfterRosterRead(st, p)
           R == Roster(st, p)
           joins == QueuedJoins(ctx, p, R, q)
           leaving == Leaving(ctx, p, q)
           weight == BuiltWeight(st, p, q)
<1>1. \A j \in joins : /\ j \in q \cap JoinTxs /\ j.subject \in Subjects /\ j.weight \in Nat
                       /\ ~HasIndex(ctx, j.subject)
  BY Zenon, LeanValAssumption DEF QueuedJoins
<1>2. DOMAIN R = knownSubjectSet(st, p) /\ DOMAIN R \subseteq Subjects /\ \A s \in DOMAIN R : R[s] \in Nat
  BY Zenon, RosterType DEF knownSubjectSet
<1>3. weight = [s \in DOMAIN R \cup {j.subject : j \in joins} |->
                  IF s \in leaving THEN 0
                  ELSE IF s \in DOMAIN R THEN R[s]
                  ELSE (CHOOSE j \in joins : j.subject = s).weight]
  BY Zenon DEF BuiltWeight, applyQueuedMembership
<1> HIDE DEF ctx, R, joins, leaving, weight
<1>4. \A s \in {j.subject : j \in joins} : /\ (CHOOSE j \in joins : j.subject = s) \in joins
                                           /\ (CHOOSE j \in joins : j.subject = s).subject = s
  BY Zenon
<1>5. DOMAIN weight = DOMAIN R \cup {j.subject : j \in joins}
  BY Zenon, <1>3
<1>6. \A s \in DOMAIN weight : s \in Subjects /\ weight[s] \in Nat
  BY <1>1, <1>2, <1>3, <1>4
<1>7. \A s \in DOMAIN R : weight[s] = IF s \in leaving THEN 0 ELSE R[s]
  BY Zenon, <1>3
<1>8. \A s \in DOMAIN weight \ DOMAIN R : \E j \in q \cap JoinTxs : j.subject = s /\ ~HasIndex(ctx, s)
  BY Zenon, <1>1, <1>4, <1>5
<1> QED
  BY Zenon, <1>2, <1>5, <1>6, <1>7, <1>8 DEF BuiltSubs, weight, R, ctx, leaving

(* The tags of the proofs.                                                 *)
LEMMA Kinds ==
    /\ NoProof.kind = "none"
    /\ \A r : Fold(r).kind = "fold" /\ Fold(r).roots = r
    /\ \A p, i, b : /\ Stwo(p, i, b).kind = "stwo" /\ Stwo(p, i, b).index = i
                    /\ Stwo(p, i, b).eb = b
    /\ \A p, s, w, r : Dummy(p, s, w, r).kind = "dummy" /\ Dummy(p, s, w, r).roots = r
BY Zenon DEF NoProof, Fold, Stwo, Dummy

(* The rows of positive weight that verifyLNPR takes for extras are those  *)
(* that buildLNPR proved as such, unless there is no roster.               *)
LEMMA SameExtras ==
    ASSUME NEW st, StoreOK(st), NEW p \in Nat, NEW q \in SUBSET Txs, knownSubjectSet(st, p) # {}
    PROVE  /\ Extras(st, buildLNPR(st, p, q)) = BuiltExtras(st, p, q)
           /\ Subs(buildLNPR(st, p, q)) = BuiltSubs(st, p, q)
           /\ BuiltSubs(st, p, q) # {}
<1> DEFINE blob == buildLNPR(st, p, q)
<1>1. BuiltSubs(st, p, q) # {}
  BY Zenon, BuiltRows
<1>2. /\ blob.period = p /\ Subs(blob) = BuiltSubs(st, p, q)
      /\ \A s \in Subs(blob) : blob.rows[s].weight = BuiltWeight(st, p, q)[s]
  BY <1>1, BuildIs
<1> HIDE DEF blob
<1> QED
  BY Zenon, <1>1, <1>2 DEF Extras, BuiltExtras, blob

(* A proposer whose read of the roster brought somebody back onto it binds *)
(* roots that are not those of the committed store, so that its LNPR is    *)
(* rejected: an LNPR that passes the check was built from a quiet read     *)
(* (buildLNPR, verifyLNPR).                                                *)
LEMMA VerifiedQuiet ==
    ASSUME NEW st, StoreOK(st), NEW p \in Nat, NEW q \in SUBSET Txs,
           VerifyLNPR(st, buildLNPR(st, p, q))
    PROVE  Quiet(st, p)
<1> SUFFICES ASSUME ~Quiet(st, p) PROVE FALSE
  BY Zenon
<1> DEFINE blob == buildLNPR(st, p, q)
           c == AfterRosterRead(st, p)
           known == knownSubjectSet(st, p)
           extras == BuiltExtras(st, p, q)
           roots == RosterRoots(st, p)
<1>1. /\ DebugSubjectsFromBits(st) = {} /\ c = BondedSetOrCarry(st, p)
      /\ ~(BondedSet(st, p) # {} \/ PriorPeriods(st, p) = {})
  BY Zenon DEF Quiet, AfterRosterRead, BondedSetOrCarry
<1>2. known # {}
  <2>1. BondedSet(c, p) # {}
    BY Zenon, <1>1, CarryFills
  <2>2. known = {r.subject : r \in BondedSet(c, p)}
    BY Zenon, <1>1 DEF knownSubjectSet, Roster
  <2> HIDE DEF known, c
  <2> QED
    BY Zenon, <2>1, <2>2
<1>3. roots # st.roots
  <2>1. StoreOK(c)
    BY Zenon, RosterReadOK
  <2>2. roots = c.roots
    BY Zenon, SyncNothing DEF RosterRoots
  <2> HIDE DEF c, roots
  <2>3. c.roots.bitfield = c.bits /\ st.roots.bitfield = st.bits
    BY SMTT(30), <2>1 DEF StoreOK, Current, ObjectRoots
  <2> QED
    BY Zenon, <2>2, <2>3 DEF Quiet, c
<1>4. /\ blob.period = p /\ Extras(st, blob) = extras
      /\ Subs(blob) = BuiltSubs(st, p, q) /\ Subs(blob) # {}
      /\ \A s \in Subs(blob) : /\ blob.rows[s].weight = BuiltWeight(st, p, q)[s]
                               /\ blob.rows[s].proof = Carries(st, p, q, s)
  BY <1>2, SameExtras, BuildIs
<1>5. known \subseteq Subs(blob) /\ known \cap extras = {} /\ Subs(blob) \in SUBSET Nat
  <2>1. known \subseteq BuiltSubs(st, p, q) /\ BuiltSubs(st, p, q) \subseteq Subjects
    BY Zenon, BuiltRows
  <2> QED
    BY Zenon, <1>4, <2>1, SubjectsAssumption DEF BuiltExtras
<1>6. \A s \in extras : blob.rows[s].proof.kind = "stwo"
  BY Zenon, <1>4 DEF VerifyLNPR
<1>7. /\ Folds(blob) # {} => VerifySameStatementFold(foldProofFromLNPR(blob), st.roots)
      /\ Folds(blob) = {} => \A s \in Subs(blob) \ extras :
                                verifySubjectProof(st, blob, s, Rank(Subs(blob), s))
  BY Zenon, <1>4 DEF VerifyLNPR
<1> HIDE DEF blob, known, extras, roots
<1>8. \A s \in Subs(blob) \ extras : BuiltProof(st, p, q, s) = NoProof
  BY Zenon DEF BuiltProof, extras
<1>9. CASE FoldAvailable
  <2> DEFINE slot == BuiltSlot(st, p, q)
             f == First(Folds(blob))
  <2>1. slot \in known
    BY Zenon, <1>2, <1>5, FirstIn DEF BuiltSlot, known
  <2>2. blob.rows[slot].proof = Fold(roots)
    BY Zenon, <1>4, <1>5, <1>9, <2>1 DEF Carries, roots
  <2>3. slot \in Folds(blob)
    BY <1>5, <2>1, <2>2 DEF Folds, isFoldProof, Fold
  <2>4. f \in Folds(blob)
    BY Zenon, <1>5, <2>3, FirstIn DEF Folds
  <2> HIDE DEF slot, f
  <2>5. f \notin extras
    BY Zenon, <1>6, <2>4 DEF Folds, isFoldProof
  <2>6. f = slot
    <3> SUFFICES ASSUME f # slot PROVE FALSE
      BY Zenon
    <3>1. blob.rows[f].proof = NoProof
      BY Zenon, <1>4, <1>8, <1>9, <2>4, <2>5 DEF Carries, Folds, slot
    <3> QED
      BY <2>4, <3>1 DEF Folds, isFoldProof, NoProof
  <2>7. foldProofFromLNPR(blob) = Fold(roots)
    BY Zenon, <2>2, <2>6 DEF foldProofFromLNPR, f
  <2> QED
    BY <1>3, <1>7, <2>3, <2>7 DEF VerifySameStatementFold, Fold
<1>10. CASE ~FoldAvailable
  <2>1. \A s \in Subs(blob) \ extras :
           \/ blob.rows[s].proof = NoProof
           \/ blob.rows[s].proof = Dummy(p, s, blob.rows[s].weight, roots)
    BY Zenon, <1>4, <1>8, <1>10 DEF Carries, roots
  <2>2. Folds(blob) = {}
    <3>1. \A s \in Subs(blob) \ extras : blob.rows[s].proof.kind # "fold"
      BY <2>1, Kinds
    <3> QED
      BY Zenon, <1>6, <3>1 DEF Folds, isFoldProof
  <2>3. PICK s \in known : TRUE
    BY Zenon, <1>2
  <2>4. s \in Subs(blob) \ extras
    BY Zenon, <1>5
  <2>5. verifySubjectProof(st, blob, s, Rank(Subs(blob), s))
    BY Zenon, <1>7, <2>2, <2>4
  <2>6. CASE blob.rows[s].proof = NoProof
    BY <2>5, <2>6 DEF verifySubjectProof, NoProof
  <2>7. CASE blob.rows[s].proof = Dummy(p, s, blob.rows[s].weight, roots)
    <3>1. blob.rows[s].proof.kind = "dummy" /\ blob.rows[s].proof.roots = roots
      BY <2>7 DEF Dummy
    <3>2. blob.rows[s].proof = Dummy(blob.period, s, blob.rows[s].weight, st.roots)
      BY Zenon, <2>5, <3>1 DEF verifySubjectProof, VerifyDummy
    <3>3. blob.rows[s].proof.roots = st.roots
      BY <3>2 DEF Dummy
    <3> QED
      BY Zenon, <1>3, <3>1, <3>3
  <2> QED
    BY Zenon, <2>1, <2>4, <2>6, <2>7
<1> QED
  BY Zenon, <1>9, <1>10

(* Whose rows an LNPR may hold: with weight, members and subjects without  *)
(* an index that asked to join and are not on the roster; without weight,  *)
(* of the members only those that asked to leave.                          *)
Joiners == {j.subject : j \in JoinTxs}
Leavers == {l.subject : l \in LeaveTxs}

RowsFit(st, blob) ==
    /\ \A s \in Subs(blob) :
          blob.rows[s].weight > 0 =>
              /\ s \in Subjects
              /\ \/ IsMember(st, s)
                 \/ /\ ~HasIndex(st, s) /\ s \in Joiners
                    /\ s \notin knownSubjectSet(st, blob.period)
    /\ \A s \in Subs(blob) \cap Subjects :
          blob.rows[s].weight = 0 /\ IsMember(st, s) => s \in Leavers

(* An LNPR that passes the check has no other rows (applyQueuedMembership, *)
(* verifyLNPR).                                                            *)
LEMMA VerifiedFits ==
    ASSUME NEW st, StoreOK(st), NEW p \in Nat, RosterOK(st, p), NEW q \in SUBSET Txs,
           VerifyLNPR(st, buildLNPR(st, p, q))
    PROVE  RowsFit(st, buildLNPR(st, p, q))
<1> DEFINE blob == buildLNPR(st, p, q)
           c == AfterRosterRead(st, p)
           known == knownSubjectSet(st, p)
           subs == BuiltSubs(st, p, q)
           weight == BuiltWeight(st, p, q)
           leaving == Leaving(c, p, q)
<1>1. Quiet(st, p)
  BY Zenon, VerifiedQuiet
<1>2. /\ c.index = st.index /\ c.leave = st.leave
      /\ \A s \in known : Roster(st, p)[s] > 0 => IsMember(st, s)
  BY Zenon, <1>1, ReadQuiet
<1>3. blob.period = p
  BY BuildIs
<1>4. CASE FoldAvailable /\ subs = {}
  <2>1. Subs(blob) = {Placeholder} /\ blob.rows[Placeholder].weight = 0
    BY <1>4, BuildIs
  <2>2. Placeholder \notin Subjects
    BY Zenon, SubjectsAssumption DEF Placeholder
  <2> HIDE DEF blob
  <2> QED
    BY <2>1, <2>2 DEF RowsFit, blob
<1>5. CASE ~FoldAvailable \/ subs # {}
  <2>1. Subs(blob) = subs /\ \A s \in subs : blob.rows[s].weight = weight[s]
    BY <1>5, BuildIs
  <2>2. /\ known \subseteq subs /\ subs \subseteq Subjects
        /\ \A s \in subs : weight[s] \in Nat
        /\ \A s \in known : weight[s] = IF s \in leaving THEN 0 ELSE Roster(st, p)[s]
        /\ \A s \in subs \ known : \E j \in q \cap JoinTxs : j.subject = s /\ ~HasIndex(c, s)
    BY Zenon, BuiltRows
  <2> HIDE DEF blob, c, known, subs, weight
  <2>3. ASSUME NEW s \in subs, weight[s] > 0
        PROVE  IsMember(st, s) \/ (~HasIndex(st, s) /\ s \in Joiners /\ s \notin known)
    <3>1. CASE s \in known
      BY SMTT(30), <1>2, <2>2, <2>3, <3>1
    <3>2. CASE s \notin known
      BY Zenon, <1>2, <2>2, <3>2 DEF Joiners, HasIndex, depositIndexOf
    <3> QED
      BY Zenon, <3>1, <3>2
  <2>4. ASSUME NEW s \in subs, weight[s] = 0, IsMember(st, s)
        PROVE  s \in Leavers
    <3>1. s \in DebugSubjectsFromBits(st)
      BY Zenon, <2>2, <2>4 DEF DebugSubjectsFromBits
    <3>2. s \in known /\ Roster(st, p)[s] = BitWeight(st, s)
      BY Zenon, <3>1 DEF known, knownSubjectSet, Roster
    <3>3. BitWeight(st, s) > 0
      BY Zenon, <2>4 DEF RosterOK, Balanced, IsMember, BitIsSet, BitWeight
    <3>4. s \in leaving
      BY <2>2, <2>4, <3>2, <3>3
    <3>5. <<p, s>> \notin st.leave
      <4>1. <<p, s>>[2] = s
        BY Zenon
      <4> QED
        BY Zenon, <2>4, <4>1 DEF RosterOK, LeftForGood
    <3>6. PICK t \in q \ JoinTxs : t.subject = s
      BY Zenon, <1>2, <3>4, <3>5 DEF Leaving
    <3>7. t \in LeaveTxs
      BY Zenon, <3>6 DEF Txs
    <3> QED
      BY Zenon, <3>6, <3>7 DEF Leavers
  <2> QED
    BY Zenon, <1>3, <2>1, <2>2, <2>3, <2>4 DEF RowsFit, blob, known
<1> QED
  BY Zenon, <1>4, <1>5

(* The check passes again on the store that it left (verifyLNPR in         *)
(* PreBlocker and in EndBlocker).                                          *)
LEMMA VerifyTwice ==
    ASSUME NEW st, StoreOK(st), NEW blob, blob.period \in Nat, RosterOK(st, blob.period),
           Quiet(st, blob.period), VerifyLNPR(st, blob)
    PROVE  /\ VerifyLNPR(AfterVerify(st, blob), blob)
           /\ AfterVerify(AfterVerify(st, blob), blob) = AfterVerify(st, blob)
<1> DEFINE c == AfterRosterRead(st, blob.period)
<1>1. CASE Subs(blob) = {}
  BY Zenon, <1>1 DEF AfterVerify
<1>2. CASE Subs(blob) # {}
  <2>1. /\ c.next = st.next /\ c.roots = st.roots /\ AfterRosterRead(c, blob.period) = c
        /\ knownSubjectSet(c, blob.period) = knownSubjectSet(st, blob.period)
    BY Zenon, ReadQuiet
  <2>2. AfterVerify(st, blob) = c
    BY Zenon, <1>2 DEF AfterVerify
  <2> HIDE DEF c
  <2>3. AfterVerify(c, blob) = c
    BY Zenon, <1>2, <2>1 DEF AfterVerify
  <2>4. Extras(c, blob) = Extras(st, blob)
    BY Zenon, <2>1 DEF Extras
  <2>5. \A s : ExtraIndex(c, blob, s) = ExtraIndex(st, blob, s)
    BY Zenon, <2>1, <2>4 DEF ExtraIndex
  <2>6. \A s, i : verifySubjectProof(c, blob, s, i) <=> verifySubjectProof(st, blob, s, i)
    BY Zenon, <2>1 DEF verifySubjectProof
  <2>7. VerifyLNPR(c, blob)
    BY Zenon, <1>2, <2>1, <2>4, <2>5, <2>6 DEF VerifyLNPR, CheckLNPRUniqueness
  <2> QED
    BY Zenon, <2>2, <2>3, <2>7
<1> QED
  BY Zenon, <1>1, <1>2

-----------------------------------------------------------------------------
(* How far the finalize store is when the rows of done were applied: they  *)
(* decide on membership, the others are as in the committed store, and the *)
(* new subjects among them have the next slots in the order of the rows.   *)
Joining(st, blob) == {s \in Subs(blob) : blob.rows[s].weight > 0 /\ ~HasIndex(st, s)}

Slotted(st, wk, blob, s) ==
    /\ wk.index[s] = st.next + Rank(Joining(st, blob), s)
    /\ wk.eb[wk.index[s]] = ebFromWeight(blob.rows[s].weight)

Applied(st, wk, blob, done) ==
    /\ \A s \in Subjects :
          IsMember(wk, s) <=> IF s \in done THEN blob.rows[s].weight > 0 ELSE IsMember(st, s)
    /\ \A s \in Subjects :
          IF s \in done /\ s \in Joining(st, blob)
          THEN Slotted(st, wk, blob, s) ELSE wk.index[s] = st.index[s]
    /\ wk.next = st.next + Cardinality(done \cap Joining(st, blob))

(* A row that does not touch the index, and not the balance of anybody     *)
(* else, leaves the slots as they are.                                     *)
LEMMA SlotsStay ==
    ASSUME NEW st, NEW wk, NEW w2, NEW blob, NEW done, NEW s,
           Applied(st, wk, blob, done), s \notin Joining(st, blob), s \notin done,
           w2.index = wk.index, w2.next = wk.next,
           \A t \in Subjects : t # s /\ HasIndex(wk, t) => w2.eb[wk.index[t]] = wk.eb[wk.index[t]],
           StoreOK(st), StoreOK(wk), BlobOK(blob),
           \A t \in Subjects :
              IsMember(w2, t) <=> IF t = s THEN blob.rows[s].weight > 0 ELSE IsMember(wk, t)
    PROVE  Applied(st, w2, blob, done \cup {s})
<1> DEFINE J == Joining(st, blob)
<1>1. (done \cup {s}) \cap J = done \cap J
  BY Zenon
<1>2. \A t \in Subjects : t \in done /\ t \in J => t # s /\ HasIndex(wk, t)
  <2> SUFFICES ASSUME NEW t \in Subjects, t \in done, t \in J
               PROVE  HasIndex(wk, t)
    BY Zenon
  <2>1. IsMember(wk, t)
    BY Zenon DEF Applied, Joining
  <2> QED
    BY Zenon, <2>1 DEF IsMember
<1>3. \A t \in Subjects :
         IF t \in done \cup {s} /\ t \in J
         THEN Slotted(st, w2, blob, t) ELSE w2.index[t] = st.index[t]
  BY Zenon, <1>1, <1>2 DEF Applied, Slotted
<1> QED
  BY Zenon, <1>1, <1>3 DEF Applied

(* Applying the next row (ApplyLNPR).                                      *)
LEMMA RowStep ==
    ASSUME NEW st, NEW wk, NEW blob, NEW done, NEW s,
           StoreOK(st), StoreOK(wk), BlobOK(blob), RosterOK(wk, blob.period), RowsFit(st, blob),
           Applied(st, wk, blob, done), done \subseteq Subs(blob), s \in Subs(blob) \ done,
           \A d \in done : d < s, \A t \in Subs(blob) \ done : s <= t
    PROVE  LET w2 == RowApplied(wk, blob.period, s, blob.rows[s].weight)
           IN  /\ RosterOK(w2, blob.period)
               /\ Applied(st, w2, blob, done \cup {s})
<1> DEFINE p == blob.period
           w == blob.rows[s].weight
           w2 == RowApplied(wk, p, s, w)
           J == Joining(st, blob)
<1>1. p \in Nat /\ w \in Nat
  BY Zenon DEF BlobOK
<1>2. s \in Subjects => wk.index[s] = st.index[s]
  BY Zenon DEF Applied
<1>3. s \in Subjects => (HasIndex(wk, s) <=> HasIndex(st, s))
  BY Zenon, <1>2 DEF HasIndex, depositIndexOf
<1>4. w > 0 => s \in Subjects
  BY Zenon DEF RowsFit
<1>5. CASE ~(s \in Subjects) \/ (w = 0 /\ ~HasIndex(wk, s))
  <2>1. w2 = wk /\ w = 0
    BY SMTT(30), <1>1, <1>4, <1>5 DEF RowApplied
  <2>2. s \notin J
    BY <2>1 DEF Joining
  <2>3. \A t \in Subjects : IsMember(wk, t) <=> IF t = s THEN w > 0 ELSE IsMember(wk, t)
    BY <1>5, <2>1 DEF IsMember
  <2> HIDE DEF w2
  <2>4. Applied(st, wk, blob, done \cup {s})
    BY Zenon, <2>2, <2>3, SlotsStay
  <2> QED
    BY Zenon, <2>1, <2>4 DEF w2
<1>6. CASE s \in Subjects /\ w = 0 /\ HasIndex(wk, s)
  <2>1. w2 = ApplyLeave(wk, p, s) /\ s \notin J
    BY SMTT(30), <1>6 DEF RowApplied, Joining
  <2>2. /\ wk.index[s] \in Indexes /\ w2.index = wk.index /\ w2.next = wk.next
        /\ w2.eb = [wk.eb EXCEPT ![wk.index[s]] = 0]
    BY SMTT(30), <1>1, <1>6, <2>1, LeaveFields
  <2>3. RosterOK(w2, p) /\ \A t \in Subjects : IsMember(w2, t) <=> t # s /\ IsMember(wk, t)
    BY SMTT(30), <1>1, <1>6, <2>1, LeaveRoster
  <2> HIDE DEF w2, J
  <2>4. \A t \in Subjects : t # s /\ HasIndex(wk, t) => w2.eb[wk.index[t]] = wk.eb[wk.index[t]]
    <3> SUFFICES ASSUME NEW t \in Subjects, t # s, HasIndex(wk, t)
                 PROVE  w2.eb[wk.index[t]] = wk.eb[wk.index[t]]
      BY Zenon
    <3>1. wk.index[t] # wk.index[s]
      BY Zenon, <1>6 DEF StoreOK, Sound, SlotsOK
    <3>2. wk.index[t] \in Indexes /\ DOMAIN wk.eb = Indexes
      BY IndexBound DEF StoreOK, Sound, Store
    <3> QED
      BY Zenon, <2>2, <3>1, <3>2
  <2>5. \A t \in Subjects : IsMember(w2, t) <=> IF t = s THEN w > 0 ELSE IsMember(wk, t)
    BY <1>6, <2>3
  <2>6. Applied(st, w2, blob, done \cup {s})
    BY ZenonT(30), <2>1, <2>2, <2>4, <2>5, SlotsStay DEF J
  <2> QED
    BY Zenon, <2>3, <2>6 DEF w2
<1>7. CASE s \in Subjects /\ w > 0 /\ HasIndex(wk, s)
  <2>1. w2 = admitMember(wk, s, w) /\ s \notin J
    BY <1>1, <1>3, <1>7 DEF RowApplied, Joining
  <2>2. IsMember(st, s)
    BY Zenon, <1>3, <1>7 DEF RowsFit
  <2>3. IsMember(wk, s)
    BY Zenon, <1>7, <2>2 DEF Applied
  <2>4. SameRoster(w2, wk)
    BY SMTT(30), <1>1, <1>7, <2>1, <2>3, AdmitAgain DEF StoreOK, RosterOK
  <2> HIDE DEF w2, J
  <2>5. SameRoster(wk, w2)
    BY Zenon, <2>4 DEF SameRoster
  <2>6. RosterOK(w2, p) /\ \A t \in Subjects : IsMember(w2, t) <=> IsMember(wk, t)
    BY Zenon, <2>5, SameRosterOK
  <2>7. \A t \in Subjects : IsMember(w2, t) <=> IF t = s THEN w > 0 ELSE IsMember(wk, t)
    BY Zenon, <1>7, <2>3, <2>6
  <2>8. Applied(st, w2, blob, done \cup {s})
    BY Zenon, <2>1, <2>5, <2>7, SlotsStay DEF SameRoster, J
  <2> QED
    BY Zenon, <2>6, <2>8 DEF w2
<1>8. CASE s \in Subjects /\ w > 0 /\ ~HasIndex(wk, s)
  <2> DEFINE n == wk.next
  <2>1. w2 = AcceptProof(wk, p, s, w) /\ s \in J
    BY SMTT(30), <1>1, <1>3, <1>8 DEF RowApplied, Joining
  <2>2. /\ n \in Indexes /\ w2.index = [wk.index EXCEPT ![s] = n] /\ w2.next = n + 1
        /\ w2.eb = [wk.eb EXCEPT ![n] = ebFromWeight(w)]
    BY SMTT(30), <1>1, <1>8, <2>1, AcceptFields
  <2>3. RosterOK(w2, p) /\ \A t \in Subjects : IsMember(w2, t) <=> t = s \/ IsMember(wk, t)
    BY <1>1, <1>8, <2>1, AcceptRoster
  <2>4. IsFiniteSet(done \cap J) /\ s \notin done
    <3>1. done \cap J \subseteq Subjects \cup {Placeholder}
      BY Zenon DEF BlobOK
    <3>2. IsFiniteSet(Subjects \cup {Placeholder})
      BY Zenon, SubjectsFinite, FS_AddElement
    <3> QED
      BY Zenon, <3>1, <3>2, FS_Subset
  <2>5. {t \in J : t < s} = done \cap J
    <3>1. J \subseteq Subs(blob) /\ Subs(blob) \subseteq Subjects \cup {Placeholder}
      BY Zenon DEF Joining, BlobOK
    <3>2. Subjects \cup {Placeholder} \subseteq Nat
      BY SubjectsAssumption DEF Placeholder
    <3> HIDE DEF J
    <3>3. \A t \in J : t \in Subs(blob) /\ t \in Nat
      BY Zenon, <3>1, <3>2
    <3>4. \A t \in J : t < s <=> t \in done
      BY SMTT(30), <3>2, <3>3, <1>8
    <3> QED
      BY Zenon, <3>4
  <2>6. n = st.next + Rank(J, s) /\ n \in Nat /\ st.next \in Nat
    BY Zenon, <2>5 DEF Rank, Applied, StoreOK, Sound, Store
  <2>7. w2.next = st.next + Cardinality((done \cup {s}) \cap J)
    <3>1. (done \cup {s}) \cap J = (done \cap J) \cup {s}
      BY Zenon, <2>1
    <3>2. Cardinality((done \cap J) \cup {s}) = Cardinality(done \cap J) + 1
      BY Zenon, <2>4, FS_AddElement
    <3>3. Cardinality(done \cap J) \in Nat
      BY Zenon, <2>4, FS_CardinalityType
    <3>4. n = st.next + Cardinality(done \cap J)
      BY Zenon DEF Applied
    <3> HIDE DEF J, n, w2
    <3>5. Cardinality((done \cup {s}) \cap J) = Cardinality(done \cap J) + 1
      BY Zenon, <3>1, <3>2
    <3>6. w2.next = n + 1 /\ st.next \in Nat
      BY Zenon, <2>2, <2>6
    <3> QED
      BY SMTT(30), <3>3, <3>4, <3>5, <3>6
  <2> HIDE DEF w2, J, n
  <2>8. Slotted(st, w2, blob, s)
    <3>1. w2.index[s] = n /\ w2.eb[n] = ebFromWeight(w)
      BY ZenonT(30), <1>8, <2>2 DEF StoreOK, Sound, Store
    <3> QED
      BY Zenon, <2>6, <3>1 DEF Slotted, J
  <2>9. ASSUME NEW t \in Subjects, t # s
        PROVE  w2.index[t] = wk.index[t] /\ (HasIndex(wk, t) => w2.eb[wk.index[t]] = wk.eb[wk.index[t]])
    <3>1. HasIndex(wk, t) => wk.index[t] \in Indexes /\ wk.index[t] # n
      BY <2>6, IndexBound, SubjectsFinite DEF StoreOK, n, Indexes
    <3> QED
      BY ZenonT(30), <2>2, <2>9, <3>1 DEF StoreOK, Sound, Store
  <2>10. ASSUME NEW t \in Subjects, t # s, t \in done, t \in J
         PROVE  Slotted(st, w2, blob, t)
    <3>1. HasIndex(wk, t) /\ Slotted(st, wk, blob, t)
      BY Zenon, <2>10 DEF Applied, Joining, IsMember, J
    <3> QED
      BY Zenon, <2>9, <2>10, <3>1 DEF Slotted
  <2>11. \A t \in Subjects :
           IF t \in done \cup {s} /\ t \in J
           THEN Slotted(st, w2, blob, t) ELSE w2.index[t] = st.index[t]
    BY Zenon, <2>1, <2>8, <2>9, <2>10 DEF Applied, J
  <2>12. \A t \in Subjects :
           IsMember(w2, t) <=> IF t \in done \cup {s} THEN blob.rows[t].weight > 0 ELSE IsMember(st, t)
    BY Zenon, <1>8, <2>3 DEF Applied
  <2>13. Applied(st, w2, blob, done \cup {s})
    BY Zenon, <2>7, <2>11, <2>12 DEF Applied, J
  <2> QED
    BY Zenon, <2>3, <2>13 DEF w2
<1> QED
  BY SMTT(30), <1>1, <1>5, <1>6, <1>7, <1>8

-----------------------------------------------------------------------------
(* The inductive invariant.  Committed and finalize store are sound, and   *)
(* so are their rosters.  A decided LNPR was verified at the committed     *)
(* store by a quiet read and holds the rows it may hold.  The finalize     *)
(* store is as far as the rows of it that were applied, in their order.    *)
Verified ==
    /\ BlobOK(block) /\ block.period = period
    /\ VerifyLNPR(store, block) /\ Quiet(store, period) /\ RowsFit(store, block)

Done == Subs(block) \ todo

IInv ==
    /\ TypeOK
    /\ StoreOK(store) /\ RosterOK(store, period) /\ PowerFollowsRoster
    /\ StoreOK(work) /\ RosterOK(work, period) /\ work.power = store.power
    /\ phase # "idle" => Verified
    /\ phase # "apply" => work = store
    /\ phase = "apply" => /\ Applied(store, work, block, Done)
                          /\ \A d \in Done, t \in todo : d < t

(* Genesis establishes it.                                                 *)
LEMMA InitOK == Init => IInv
<1> SUFFICES ASSUME Init PROVE IInv
  BY Zenon
<1>1. /\ StoreOK(store) /\ RosterOK(store, period) /\ PowerFollowsRoster /\ work = store
  BY Zenon, GenesisOK, GenesisRoster DEF Init, PowerFollowsRoster
<1>2. TypeOK
  BY Zenon, <1>1 DEF Init, TypeOK, StoreOK, Sound
<1> QED
  BY Zenon, <1>1, <1>2 DEF IInv, Init

(* What the check in PreBlocker leaves is the committed store as far as    *)
(* the rows to apply are concerned (ProcessInjectedLNPR).                  *)
LEMMA ProcessStep ==
    ASSUME IInv, ProcessInjectedLNPR
    PROVE  /\ StoreOK(work') /\ RosterOK(work', period) /\ work'.power = store.power
           /\ Applied(store, work', block, {})
<1> DEFINE c == AfterVerify(store, block)
<1>1. Verified /\ block.period \in Nat /\ period \in Nat
  BY Zenon DEF IInv, ProcessInjectedLNPR, Verified, TypeOK
<1>2. work' = c
  BY Zenon, <1>1, VerifyTwice DEF IInv, ProcessInjectedLNPR, Verified
<1>3. StoreOK(c) /\ c.power = store.power
  BY Zenon, <1>1, VerifyKeeps DEF IInv, Verified
<1>4. /\ c.index = store.index /\ c.next = store.next /\ c.bits = store.bits
      /\ RosterOK(c, period)
  BY Zenon, <1>1, ReadQuiet DEF IInv, Verified, AfterVerify
<1> HIDE DEF c
<1>5. \A s \in Subjects : IsMember(c, s) <=> IsMember(store, s)
  BY Zenon, <1>4 DEF IsMember, HasIndex, BitIsSet, depositIndexOf
<1>6. c.next = store.next + Cardinality({} \cap Joining(store, block))
  <2>1. {} \cap Joining(store, block) = {} /\ store.next \in Nat
    BY Zenon DEF IInv, StoreOK, Sound, Store
  <2> QED
    BY SMTT(30), <1>4, <2>1, FS_EmptySet
<1>7. Applied(store, c, block, {})
  BY Zenon, <1>4, <1>5, <1>6 DEF Applied
<1> QED
  BY Zenon, <1>2, <1>3, <1>4, <1>7

(* What a row leaves (ApplyLNPRRow).                                       *)
LEMMA ApplyStep ==
    ASSUME IInv, ApplyLNPRRow
    PROVE  /\ StoreOK(work') /\ RosterOK(work', period) /\ work'.power = store.power
           /\ todo' \subseteq todo
           /\ Applied(store, work', block, Subs(block) \ todo')
           /\ \A d \in Subs(block) \ todo', t \in todo' : d < t
<1> DEFINE s == NextRow(todo)
           w == block.rows[s].weight
<1>1. /\ Verified /\ todo \subseteq Subs(block) /\ todo # {} /\ Applied(store, work, block, Done)
      /\ \A d \in Done, t \in todo : d < t
  BY Zenon DEF IInv, ApplyLNPRRow, TypeOK
<1>2. Subs(block) \in SUBSET Nat
  <2>1. Subs(block) \subseteq Subjects \cup {Placeholder}
    BY Zenon, <1>1 DEF Verified, BlobOK
  <2>2. Subjects \cup {Placeholder} \subseteq Nat
    BY SubjectsAssumption DEF Placeholder
  <2> QED
    BY Zenon, <2>1, <2>2
<1>3. s \in todo /\ \A t \in todo : s <= t
  BY Zenon, <1>1, <1>2, FirstIn DEF NextRow
<1>4. w \in Nat /\ block.period = period /\ period \in Nat
  BY Zenon, <1>1, <1>3 DEF Verified, BlobOK
<1>5. work' = RowApplied(work, period, s, w) /\ todo' = todo \ {s}
  BY Zenon, <1>4 DEF ApplyLNPRRow
<1>6. StoreOK(work') /\ work'.power = store.power
  BY <1>4, <1>5, RowKeeps DEF IInv
<1>7. Subs(block) \ todo' = Done \cup {s}
  BY Zenon, <1>1, <1>3, <1>5 DEF Done
<1>8. RosterOK(work', period) /\ Applied(store, work', block, Done \cup {s})
  <2>1. /\ Done \subseteq Subs(block) /\ s \in Subs(block) \ Done
        /\ \A d \in Done : d < s
        /\ \A t \in Subs(block) \ Done : s <= t
    BY Zenon, <1>1, <1>3 DEF Done
  <2>2. StoreOK(store) /\ StoreOK(work) /\ RosterOK(work, block.period) /\ BlobOK(block) /\ RowsFit(store, block)
    BY Zenon, <1>1, <1>4 DEF IInv, Verified
  <2> HIDE DEF s
  <2> QED
    BY Zenon, <1>1, <1>4, <1>5, <2>1, <2>2, RowStep
<1>9. \A d \in Done \cup {s}, t \in todo' : d < t
  BY <1>1, <1>2, <1>3, <1>5
<1> QED
  BY Zenon, <1>5, <1>6, <1>7, <1>8, <1>9

(* What the end of a block commits (EndBlocker).                           *)
LEMMA EndStep ==
    ASSUME IInv, EndBlocker
    PROVE  /\ StoreOK(store') /\ RosterOK(store', period') /\ work' = store' /\ PowerFollowsRoster'
           /\ SameRoster(work, store')
           /\ period' \in Nat
<1> DEFINE y == syncObjectRoots(work)
<1>1. work \in Store /\ StoreOK(work) /\ StoreOK(y) /\ RosterOK(work, period) /\ period \in Nat
  BY Zenon, CommitKeeps DEF IInv, StoreOK, Sound, TypeOK
<1>2. SameRoster(work, y)
  BY Zenon, <1>1, SyncFields DEF SameRoster
<1>3. store' = IF OwnsValset THEN ValidatorUpdates(y) ELSE y
  BY Zenon DEF EndBlocker
<1> HIDE DEF y
<1>4. RosterOK(y, period)
  BY Zenon, <1>1, <1>2, SameRosterOK
<1>5. /\ StoreOK(store') /\ SameRoster(y, store')
      /\ OwnsValset => \A s \in Pubkeys : store'.power[s] > 0 <=> IsMember(store', s)
  BY Zenon, <1>1, <1>3, <1>4, UpdatesOK, UpdatesFollow DEF RosterOK, SameRoster
<1>6. RosterOK(store', period)
  BY Zenon, <1>4, <1>5, SameRosterOK
<1>7. period' \in {period, period + 1} /\ work' = store'
  BY Zenon DEF EndBlocker
<1>8. RosterOK(store', period')
  BY Zenon, <1>1, <1>5, <1>6, <1>7, RosterLater
<1>9. SameRoster(work, store')
  BY Zenon, <1>2, <1>5 DEF SameRoster
<1> QED
  BY SMTT(30), <1>1, <1>5, <1>7, <1>8, <1>9 DEF PowerFollowsRoster

(* Every step of the replica, a restart included, keeps it.                *)
LEMMA NextOK == IInv /\ [Next]_vars => IInv'
<1> SUFFICES ASSUME IInv, [Next]_vars PROVE IInv'
  BY Zenon
<1>1. ASSUME NEW t \in Txs, NoteMembershipTx(t) PROVE IInv'
  BY Zenon, <1>1 DEF NoteMembershipTx, IInv, TypeOK, PowerFollowsRoster, Verified, Done
<1>2. ASSUME NEW t \in Txs, NoteMembershipBytes(t) PROVE IInv'
  BY Zenon, <1>2 DEF NoteMembershipBytes, persistMembershipFile, IInv, TypeOK, PowerFollowsRoster,
              Verified, Done
<1>3. ASSUME NEW q \in SUBSET Txs, Decide(q), bound' = TRUE PROVE IInv'
  <2>1. period \in Nat /\ StoreOK(store) /\ RosterOK(store, period)
    BY Zenon DEF IInv, TypeOK
  <2>2. BlobOK(block') /\ block'.period = period
    BY Zenon, <1>3, <2>1, BuildOK DEF Decide
  <2>3. Quiet(store, period) /\ RowsFit(store, block') /\ VerifyLNPR(store, block')
    BY Zenon, <1>3, <2>1, VerifiedQuiet, VerifiedFits DEF Decide
  <2>4. block' # NoBlock
    BY <2>1, <2>2 DEF NoBlock
  <2>5. TypeOK'
    BY Zenon, <1>3, <2>4 DEF Decide, IInv, TypeOK
  <2>6. Verified'
    BY Zenon, <1>3, <2>2, <2>3 DEF Decide, Verified
  <2> QED
    BY Zenon, <1>3, <2>5, <2>6 DEF Decide, IInv, PowerFollowsRoster
<1>4. CASE DecideOwn
  <2>1. \A q \in FirstJoins(PendingMembershipTxs) : q \in SUBSET Txs
    BY Zenon DEF FirstJoins, PendingMembershipTxs, loadMembershipFiles, IInv, TypeOK
  <2> QED
    BY Zenon, <1>3, <1>4, <2>1 DEF DecideOwn
<1>5. CASE DecideRemote
  BY Zenon, <1>3, <1>5 DEF DecideRemote
<1>6. CASE ProcessInjectedLNPR
  <2>1. /\ StoreOK(work') /\ RosterOK(work', period) /\ work'.power = store.power
        /\ Applied(store, work', block, {})
    BY Zenon, <1>6, ProcessStep
  <2>2. TypeOK'
    BY Zenon, <1>6, <2>1 DEF ProcessInjectedLNPR, IInv, TypeOK, StoreOK, Sound
  <2>3. Done' = {}
    BY Zenon, <1>6 DEF ProcessInjectedLNPR, Done
  <2> QED
    BY Zenon, <1>6, <2>1, <2>2, <2>3 DEF ProcessInjectedLNPR, IInv, PowerFollowsRoster, Verified
<1>7. CASE ApplyLNPRRow
  <2>1. /\ StoreOK(work') /\ RosterOK(work', period) /\ work'.power = store.power
        /\ todo' \subseteq todo
        /\ Applied(store, work', block, Subs(block) \ todo')
        /\ \A d \in Subs(block) \ todo', t \in todo' : d < t
    BY Zenon, <1>7, ApplyStep
  <2>2. mem' \subseteq mem /\ files' \subseteq files
    BY Zenon, <1>7 DEF ApplyLNPRRow, forgetMembership
  <2>3. TypeOK'
    BY Zenon, <1>7, <2>1, <2>2 DEF ApplyLNPRRow, IInv, TypeOK, StoreOK, Sound
  <2> QED
    BY Zenon, <1>7, <2>1, <2>3 DEF ApplyLNPRRow, IInv, PowerFollowsRoster, Verified, Done
<1>8. CASE EndBlocker
  <2>1. /\ StoreOK(store') /\ RosterOK(store', period') /\ work' = store' /\ PowerFollowsRoster'
        /\ period' \in Nat
    BY Zenon, <1>8, EndStep
  <2>2. TypeOK'
    BY Zenon, <1>8, <2>1 DEF EndBlocker, IInv, TypeOK, StoreOK, Sound
  <2> QED
    BY Zenon, <1>8, <2>1, <2>2 DEF EndBlocker, IInv
<1>9. CASE Restart
  BY Zenon, <1>9 DEF Restart, IInv, TypeOK, PowerFollowsRoster, Verified
<1>10. CASE UNCHANGED vars
  BY Zenon, <1>10 DEF vars, IInv, TypeOK, PowerFollowsRoster, Verified, Done
<1> QED
  BY SMTT(30), <1>1, <1>2, <1>4, <1>5, <1>6, <1>7, <1>8, <1>9, <1>10 DEF Next

(* The inductive invariant holds in every reachable state.                 *)
LEMMA Inductive == Spec => []IInv
BY InitOK, NextOK, PTL DEF Spec

(* Type correctness: no sequence of transactions, blocks and crashes takes *)
(* a deposit index, a balance byte or a power out of its range, and the    *)
(* rows still to apply are rows of the decided LNPR (AllocateIndex,        *)
(* ebFromWeight, ApplyLNPR).                                               *)
THEOREM TypeCorrect == Spec => []TypeOK
<1>1. IInv => TypeOK
  BY Zenon DEF IInv
<1> QED
  BY <1>1, Inductive, PTL

(* Deposit slots are sound for any number of subjects, JOINs and LEAVs, in *)
(* the committed store and in the middle of ApplyLNPR (AllocateIndex).     *)
THEOREM SlotsSound == Spec => []DepositSlots
<1>1. IInv => DepositSlots
  BY Zenon DEF IInv, DepositSlots, StoreOK, Sound
<1> QED
  BY <1>1, Inductive, PTL

(* The committed roots are always those of the bits, indices and balances  *)
(* (syncObjectRoots).                                                      *)
THEOREM RootsSound == Spec => []RootsCurrent
<1>1. IInv => RootsCurrent
  BY Zenon DEF IInv, RootsCurrent, StoreOK, Current
<1> QED
  BY <1>1, Inductive, PTL

(* No block raises a Comet power that is there (ValidatorUpdates).         *)
THEOREM NeverRaised == Spec => PowerNeverRaised
<1> DEFINE Lower == \A s \in Subjects :
                      store.power[s] > 0 => store'.power[s] <= store.power[s]
<1>1. IInv /\ [Next]_vars => [Lower]_vars
  <2> SUFFICES ASSUME IInv, [Next]_vars, NEW s \in Subjects, store.power[s] > 0
               PROVE  store'.power[s] <= store.power[s]
    BY Zenon
  <2>1. store.power[s] \in Nat
    BY Zenon DEF IInv, StoreOK, Sound, Store
  <2>2. CASE EndBlocker
    <3> DEFINE synced == syncObjectRoots(work)
    <3>1. StoreOK(synced) /\ synced.power = store.power
      BY Zenon, CommitKeeps DEF IInv
    <3>2. store' = IF OwnsValset THEN ValidatorUpdates(synced) ELSE synced
      BY Zenon, <2>2 DEF EndBlocker
    <3> HIDE DEF synced
    <3> QED
      BY SMTT(30), <2>1, <3>1, <3>2, UpdatesLower
  <2>3. CASE ~EndBlocker
    <3>1. store' = store
      BY Zenon, <2>3 DEF Next, vars, NoteMembershipTx, NoteMembershipBytes, DecideOwn, DecideRemote,
                  Decide, ProcessInjectedLNPR, ApplyLNPRRow, Restart
    <3> QED
      BY <2>1, <3>1
  <2> QED
    BY Zenon, <2>2, <2>3
<1> QED
  BY <1>1, Inductive, PTL DEF Spec, PowerNeverRaised

(* No member is without a balance, in between rows either: the balance of  *)
(* whoever left stays 0, and no LNPR that passes the check brings them     *)
(* back onto the roster (admitMember, ApplyLeave, BondedSetOrCarry).       *)
THEOREM BalanceHolds == Spec => []MembersHaveBalance
<1>1. IInv => MembersHaveBalance
  BY Zenon DEF IInv, MembersHaveBalance, RosterOK, Balanced
<1> QED
  BY <1>1, Inductive, PTL

(* The Comet validator set is the roster after every block                 *)
(* (ValidatorUpdates).                                                     *)
THEOREM PowerFollows == Spec => []PowerFollowsRoster
<1>1. IInv => PowerFollowsRoster
  BY Zenon DEF IInv
<1> QED
  BY <1>1, Inductive, PTL

(* Whatever was decided passes both checks of FinalizeBlock, after a crash *)
(* as well (ProcessInjectedLNPR, ApplyLNPR).                               *)
THEOREM DecidedApplies == Spec => []DecidedIsApplicable
<1>1. IInv => DecidedIsApplicable
  <2> SUFFICES ASSUME IInv, phase = "decided" PROVE Applicable(store, block)
    BY Zenon DEF DecidedIsApplicable
  <2>1. Verified /\ block.period \in Nat
    BY Zenon DEF IInv, Verified, BlobOK
  <2> QED
    BY Zenon, <2>1, VerifyTwice DEF IInv, Verified, Applicable
<1> QED
  BY <1>1, Inductive, PTL

(* A byte is never taken for a missing balance (EBOf).                     *)
LEMMA ByteIsThere == \A b \in 0 .. 255 : b # NoEB
BY DEF NoEB

(* A JOIN gets the slot and the balance that its proof was verified for    *)
(* (verifyLNPR, ApplyLNPR, AllocateIndex).                                 *)
THEOREM ProvenSlots == Spec => []ProvenSlotIsAllocated
<1>1. IInv => ProvenSlotIsAllocated
  <2> SUFFICES ASSUME IInv, phase = "apply", NEW s \in Extras(store, block) \ todo
               PROVE  /\ work.index[s] = block.rows[s].proof.index
                      /\ BitWeight(work, s) = block.rows[s].proof.eb
    BY Zenon DEF ProvenSlotIsAllocated
  <2> DEFINE J == Joining(store, block)
             w == block.rows[s].weight
             i == store.next + Rank(J, s)
             b == ebFromWeight(w)
  <2>1. Verified /\ Applied(store, work, block, Done)
    BY Zenon DEF IInv
  <2>2. /\ s \in Subs(block) /\ w > 0 /\ s \notin knownSubjectSet(store, block.period)
        /\ Extras(store, block) = {t \in Subs(block) \ knownSubjectSet(store, block.period) :
                                      block.rows[t].weight > 0}
    BY Zenon DEF Extras
  <2>3. \A t \in Subs(block) \ knownSubjectSet(store, block.period) :
           block.rows[t].weight > 0 => t \in Subjects /\ ~HasIndex(store, t)
    <3> SUFFICES ASSUME NEW t \in Subs(block) \ knownSubjectSet(store, block.period),
                        block.rows[t].weight > 0
                 PROVE  t \in Subjects /\ ~HasIndex(store, t)
      BY Zenon
    <3>1. t \in Subjects /\ (IsMember(store, t) \/ ~HasIndex(store, t))
      BY Zenon, <2>1 DEF Verified, RowsFit
    <3>2. IsMember(store, t) => t \in knownSubjectSet(store, block.period)
      BY Zenon, <3>1 DEF knownSubjectSet, Roster, DebugSubjectsFromBits
    <3> QED
      BY Zenon, <3>1, <3>2
  <2>4. \A t \in J : t \in Subs(block) /\ t \notin knownSubjectSet(store, block.period)
    <3>1. \A t \in J : t \in Subs(block) /\ block.rows[t].weight > 0 /\ ~HasIndex(store, t)
      BY Zenon DEF Joining
    <3> QED
      BY Zenon, <2>1, <3>1 DEF Verified, RowsFit, IsMember
  <2>5. Extras(store, block) = J
    BY Zenon, <2>2, <2>3, <2>4 DEF Joining
  <2>6. Slotted(store, work, block, s) /\ s \in Subjects
    BY Zenon, <2>1, <2>2, <2>3, <2>5 DEF Applied, Done
  <2>7. work.index[s] = i /\ work.eb[i] = b /\ b \in 0 .. 255
    <3>1. w \in Int
      BY <2>1, <2>2 DEF Verified, BlobOK
    <3> QED
      BY Zenon, <2>6, <3>1, EBType DEF Slotted
  <2>8. block.rows[s].proof = Stwo(block.period, i, b)
    <3>1. Subs(block) # {}
      BY Zenon, <2>2
    <3>2. /\ block.rows[s].proof.kind = "stwo"
          /\ verifySubjectProof(store, block, s, ExtraIndex(store, block, s))
      BY Zenon, <2>1, <3>1 DEF Verified, VerifyLNPR
    <3>3. ExtraIndex(store, block, s) = i
      BY Zenon, <2>5 DEF ExtraIndex
    <3> QED
      BY Zenon, <3>2, <3>3 DEF verifySubjectProof, verifyValsetStwo
  <2>9. block.rows[s].proof.index = i /\ block.rows[s].proof.eb = b
    BY SMTT(30), <2>8, Kinds
  <2>10. BitWeight(work, s) = b
    BY Zenon, <2>7, ByteIsThere DEF BitWeight, EBOf, depositIndexOf
  <2> QED
    BY Zenon, <2>7, <2>9, <2>10
<1> QED
  BY <1>1, Inductive, PTL

(* A block admits exactly the joining subjects and drops exactly the       *)
(* members whose row has weight 0 (ApplyLNPR, EndBlocker).                 *)
LEMMA BlockStep ==
    ASSUME IInv, EndBlocker
    PROVE  Roster_!Next
<1> DEFINE J == Joining(store, block)
           L == {s \in Subs(block) \cap Subjects : block.rows[s].weight = 0 /\ IsMember(store, s)}
           left == {s \in Subjects : HasIndex(store, s)} \ Members
           left2 == {s \in Subjects : HasIndex(store', s)} \ Members'
<1>1. Verified /\ Applied(store, work, block, Done) /\ Done = Subs(block)
  BY Zenon DEF IInv, EndBlocker, Done
<1>2. SameRoster(work, store')
  BY Zenon, EndStep
<1>3. \A s \in Subjects : /\ IsMember(store', s) <=> IsMember(work, s)
                          /\ HasIndex(store', s) <=> HasIndex(work, s)
  BY Zenon, <1>2 DEF SameRoster, IsMember, HasIndex, BitIsSet, depositIndexOf
<1>4. \A s \in J : s \in Subjects /\ s \in Joiners /\ ~HasIndex(store, s) /\ block.rows[s].weight > 0
  BY Zenon, <1>1 DEF Joining, Verified, RowsFit, IsMember
<1>5. \A s \in L : s \in Leavers /\ s \in Subjects /\ IsMember(store, s)
  BY Zenon, <1>1 DEF Verified, RowsFit
<1>6. \A s \in Subjects : IsMember(work, s) <=> (IsMember(store, s) \/ s \in J) /\ s \notin L
  <2> SUFFICES ASSUME NEW s \in Subjects
               PROVE  IsMember(work, s) <=> (IsMember(store, s) \/ s \in J) /\ s \notin L
    BY Zenon
  <2>1. CASE s \notin Subs(block)
    BY Zenon, <1>1, <2>1 DEF Applied, Joining
  <2>2. CASE s \in Subs(block)
    <3>1. IsMember(work, s) <=> block.rows[s].weight > 0
      BY Zenon, <1>1, <2>2 DEF Applied
    <3>2. block.rows[s].weight \in Nat
      BY Zenon, <1>1, <2>2 DEF Verified, BlobOK
    <3>3. block.rows[s].weight > 0 => IsMember(store, s) \/ s \in J
      BY Zenon, <1>1, <2>2 DEF Verified, RowsFit, Joining
    <3> QED
      BY SMTT(30), <1>4, <2>2, <3>1, <3>2, <3>3
  <2> QED
    BY Zenon, <2>1, <2>2
<1>7. \A s \in Subjects : HasIndex(work, s) <=> HasIndex(store, s) \/ s \in J
  <2> SUFFICES ASSUME NEW s \in Subjects
               PROVE  HasIndex(work, s) <=> HasIndex(store, s) \/ s \in J
    BY Zenon
  <2>1. CASE s \in J
    <3>1. s \notin L
      BY <1>4, <2>1
    <3> QED
      BY Zenon, <1>6, <2>1, <3>1 DEF IsMember
  <2>2. CASE s \notin J
    BY Zenon, <1>1, <2>2 DEF Applied, HasIndex, depositIndexOf
  <2> QED
    BY Zenon, <2>1, <2>2
<1> HIDE DEF J, L
<1>8. J \in SUBSET Joiners /\ L \in SUBSET Leavers
  BY Zenon, <1>4, <1>5
<1>9. J \subseteq Joiners \ (Members \cup left) /\ L \subseteq Leavers \cap Members
  BY Zenon, <1>4, <1>5 DEF Members, DebugSubjectsFromBits, IsMember
<1>10. Members' = (Members \cup J) \ L
  BY Zenon, <1>3, <1>4, <1>6 DEF Members, DebugSubjectsFromBits
<1>11. left2 = left \cup L
  <2>1. \A s \in Subjects : s \in left2 <=> s \in left \/ s \in L
    BY Zenon, <1>3, <1>4, <1>5, <1>6, <1>7 DEF Members, DebugSubjectsFromBits, IsMember
  <2> QED
    BY Zenon, <1>5, <2>1
<1> QED
  BY Zenon, <1>8, <1>9, <1>10, <1>11 DEF Roster_!Next, Roster_!Block, Joiners, Leavers

(* Committed membership behaves as LeanRoster says: blocks admit only      *)
(* subjects that asked and were never members, drop only subjects that     *)
(* asked, and nobody who left comes back, for any number of subjects,      *)
(* periods, crashes and stale transactions.                                *)
THEOREM RosterImplemented == Spec => ImplementsRoster
<1>1. Init => Roster_!Init
  <2> SUFFICES ASSUME Init PROVE Roster_!Init
    BY Zenon
  <2>1. GenesisSubjects \subseteq Subjects
    BY Zenon, GenesisSlots
  <2> QED
    BY Zenon, <2>1, GenesisRoster DEF Init, Roster_!Init, Members, DebugSubjectsFromBits
<1>2. IInv /\ [Next]_vars =>
        [Roster_!Next]_<<Members, {s \in Subjects : HasIndex(store, s)} \ Members>>
  <2> SUFFICES ASSUME IInv, [Next]_vars
               PROVE  [Roster_!Next]_<<Members, {s \in Subjects : HasIndex(store, s)} \ Members>>
    BY Zenon
  <2>1. CASE EndBlocker
    BY Zenon, <2>1, BlockStep
  <2>2. CASE ~EndBlocker
    <3>1. store' = store
      BY Zenon, <2>2 DEF Next, vars, NoteMembershipTx, NoteMembershipBytes, DecideOwn, DecideRemote,
                  Decide, ProcessInjectedLNPR, ApplyLNPRRow, Restart
    <3> QED
      BY Zenon, <3>1 DEF Members
  <2> QED
    BY Zenon, <2>1, <2>2
<1> QED
  BY <1>1, <1>2, Inductive, PTL DEF Spec, ImplementsRoster, Roster_!Spec

(* The proof that buildLNPR makes for an extra row of a JOIN without one   *)
(* is the one that verifyLNPR expects (proveValsetStwo, verifyValsetStwo). *)
LEMMA ExtraProven ==
    ASSUME NEW st, StoreOK(st), NEW p \in Nat, NEW q \in SUBSET Txs, ProverAvailable,
           \A j \in q \cap JoinTxs : j.proof = NoProof,
           NEW s \in BuiltExtras(st, p, q)
    PROVE  BuiltProof(st, p, q, s)
             = Stwo(p, AfterRosterRead(st, p).next + Rank(BuiltExtras(st, p, q), s),
                    ebFromWeight(BuiltWeight(st, p, q)[s]))
<1>1. \E j \in q \cap JoinTxs : j.subject = s
  BY BuiltRows DEF BuiltExtras
<1>2. (CHOOSE j \in q \cap JoinTxs : j.subject = s).proof = NoProof
  BY Zenon, <1>1
<1> QED
  BY Zenon, <1>2, Kinds DEF BuiltProof, ExtraProof

(* With the provers running, somebody on the roster and room for the       *)
(* proofs, what a proposer builds from JOINs without proofs is accepted    *)
(* (buildLNPR, verifyLNPR).                                                *)
LEMMA BuiltAccepted ==
    ASSUME NEW st, StoreOK(st), NEW p \in Nat, NEW q \in SUBSET Txs,
           DebugSubjectsFromBits(st) # {}, FoldAvailable \/ AllowDummy, ProverAvailable,
           \A j \in q \cap JoinTxs : j.proof = NoProof,
           ProofsNeeded(st, buildLNPR(st, p, q)) <= MaxRawStarksPerLNPR
    PROVE  VerifyLNPR(st, buildLNPR(st, p, q))
<1> DEFINE blob == buildLNPR(st, p, q)
           known == knownSubjectSet(st, p)
           X == BuiltExtras(st, p, q)
           weight == BuiltWeight(st, p, q)
           raw == {s \in Subs(blob) : blob.rows[s].proof.kind \in {"stwo", "dummy"}}
           slot == BuiltSlot(st, p, q)
<1>1. /\ AfterRosterRead(st, p) = st /\ RosterRoots(st, p) = st.roots /\ known # {}
  BY ZenonT(30), SyncNothing DEF AfterRosterRead, RosterRoots, knownSubjectSet, Roster
<1>2. /\ blob.period = p /\ Extras(st, blob) = X
      /\ Subs(blob) = BuiltSubs(st, p, q) /\ Subs(blob) # {}
      /\ \A s \in Subs(blob) : /\ blob.rows[s].weight = weight[s]
                               /\ blob.rows[s].proof = Carries(st, p, q, s)
  BY SMTT(30), <1>1, SameExtras, BuildIs
<1>3. /\ known \subseteq Subs(blob) /\ X \subseteq Subs(blob) \ known /\ Subs(blob) \subseteq Subjects
      /\ Subs(blob) \in SUBSET Nat
  <2>1. known \subseteq BuiltSubs(st, p, q) /\ BuiltSubs(st, p, q) \subseteq Subjects
    BY Zenon, BuiltRows
  <2> QED
    BY Zenon, <1>2, <2>1, SubjectsAssumption DEF BuiltExtras
<1>4. \A s \in X : BuiltProof(st, p, q, s) = Stwo(p, st.next + Rank(X, s), ebFromWeight(weight[s]))
  BY Zenon, <1>1, ExtraProven
<1>5. \A s \in Subs(blob) \ X : BuiltProof(st, p, q, s) = NoProof
  BY Zenon DEF BuiltProof
<1>6. IsFiniteSet(Subs(blob)) /\ Cardinality(Subs(blob)) \in Nat
  BY Zenon, <1>3, SubjectsFinite, FS_Subset, FS_CardinalityType
<1> HIDE DEF blob, known, X, weight
<1>7. ASSUME \A s \in X : blob.rows[s].proof = BuiltProof(st, p, q, s)
      PROVE  \A s \in X : /\ blob.rows[s].proof.kind = "stwo"
                          /\ verifySubjectProof(st, blob, s, ExtraIndex(st, blob, s))
  <2> SUFFICES ASSUME NEW s \in X
               PROVE  /\ blob.rows[s].proof.kind = "stwo"
                      /\ verifySubjectProof(st, blob, s, ExtraIndex(st, blob, s))
    BY Zenon
  <2>1. blob.rows[s].proof = Stwo(blob.period, ExtraIndex(st, blob, s), ebFromWeight(blob.rows[s].weight))
    BY Zenon, <1>2, <1>3, <1>4, <1>7 DEF ExtraIndex
  <2> QED
    BY <2>1, Kinds DEF verifySubjectProof, verifyValsetStwo
<1>8. CASE FoldAvailable
  <2>1. slot \in known
    <3>1. known \in SUBSET Nat
      BY Zenon, <1>3
    <3> QED
      BY Zenon, <1>1, <3>1, FirstIn DEF BuiltSlot, known
  <2>2. /\ \A s \in X : blob.rows[s].proof = BuiltProof(st, p, q, s)
        /\ \A s \in Subs(blob) \ X : blob.rows[s].proof = IF s = slot THEN Fold(st.roots) ELSE NoProof
    BY Zenon, <1>1, <1>2, <1>3, <1>5, <1>8, <2>1 DEF Carries
  <2> HIDE DEF slot
  <2>3. \A s \in X : blob.rows[s].proof.kind = "stwo"
    BY Zenon, <1>7, <2>2
  <2>4. \A s \in Subs(blob) \ X : blob.rows[s].proof.kind = IF s = slot THEN "fold" ELSE "none"
    BY ZenonT(30), <2>2, Kinds
  <2>5. raw = X /\ Folds(blob) = {slot}
    BY Zenon, <1>3, <2>1, <2>3, <2>4 DEF Folds, isFoldProof
  <2>6. foldProofFromLNPR(blob).roots = st.roots
    <3>1. First({slot}) = slot
      <4>1. {slot} \in SUBSET Nat /\ {slot} # {}
        BY Zenon, <1>3, <2>1
      <4> QED
        BY Zenon, <4>1, FirstIn
    <3> QED
      BY SMTT(30), <1>3, <2>1, <2>2, <2>5, <3>1, Kinds DEF foldProofFromLNPR
  <2>7. Cardinality(raw) + 1 <= MaxRawStarksPerLNPR
    BY Zenon, <1>2, <1>8, <2>5 DEF ProofsNeeded, blob
  <2> QED
    BY Zenon, <1>2, <1>7, <2>2, <2>3, <2>5, <2>6, <2>7
       DEF VerifyLNPR, CheckLNPRUniqueness, VerifySameStatementFold, blob
<1>9. CASE ~FoldAvailable
  <2> DEFINE bare == BuiltBare(st, p, q)
  <2>1. bare = Subs(blob) \ X
    <3>1. \A s \in X : BuiltProof(st, p, q, s).kind = "stwo"
      BY <1>4, Kinds
    <3>2. \A s \in X : BuiltProof(st, p, q, s) # NoProof
      BY Zenon, <3>1, Kinds
    <3> QED
      BY ZenonT(30), <1>2, <1>5, <3>2 DEF BuiltBare
  <2>2. Cardinality(Subs(blob)) <= MaxRawStarksPerLNPR
    BY Zenon, <1>9 DEF ProofsNeeded, blob
  <2> HIDE DEF bare
  <2>3. \A s \in bare : Rank(bare, s) < MaxRawStarksPerLNPR
    <3> SUFFICES ASSUME NEW s \in bare PROVE Rank(bare, s) < MaxRawStarksPerLNPR
      BY Zenon
    <3> DEFINE below == {t \in bare : t < s}
    <3>1. below \subseteq Subs(blob) /\ s \in Subs(blob) /\ s \notin below
      BY <1>3, <2>1
    <3>2. Cardinality(below) \in Nat /\ Cardinality(below) < Cardinality(Subs(blob))
      <4>1. /\ IsFiniteSet(below) /\ Cardinality(below) <= Cardinality(Subs(blob))
            /\ Cardinality(below) = Cardinality(Subs(blob)) => Subs(blob) = below
        BY Zenon, <1>6, <3>1, FS_Subset
      <4>2. Cardinality(below) \in Nat
        BY Zenon, <4>1, FS_CardinalityType
      <4> HIDE DEF below
      <4> QED
        BY SMTT(30), <1>6, <3>1, <4>1, <4>2
    <3> HIDE DEF below
    <3> QED
      BY SMTT(30), <1>6, <2>2, <3>2, LeanValAssumption DEF Rank, below
  <2>4. /\ \A s \in X : blob.rows[s].proof = BuiltProof(st, p, q, s)
        /\ \A s \in Subs(blob) \ X :
              blob.rows[s].proof = Dummy(blob.period, s, blob.rows[s].weight, st.roots)
    BY Zenon, <1>1, <1>2, <1>3, <1>9, <2>1, <2>3 DEF Carries, bare, weight
  <2>5. \A s \in X : blob.rows[s].proof.kind = "stwo"
    BY Zenon, <1>7, <2>4
  <2>6. \A s \in Subs(blob) \ X : blob.rows[s].proof.kind = "dummy"
    BY <2>4, Kinds
  <2>7. raw = Subs(blob) /\ Folds(blob) = {}
    BY Zenon, <1>3, <2>5, <2>6 DEF Folds, isFoldProof
  <2>8. \A s \in Subs(blob) \ X : verifySubjectProof(st, blob, s, Rank(Subs(blob), s))
    BY Zenon, <1>9, <2>4, <2>6 DEF verifySubjectProof, VerifyDummy
  <2>9. Cardinality(raw) + 0 <= MaxRawStarksPerLNPR
    <3> HIDE DEF raw
    <3> QED
      BY SMTT(30), <1>6, <2>2, <2>7
  <2> QED
    BY Zenon, <1>2, <1>7, <1>9, <2>4, <2>5, <2>7, <2>8, <2>9
       DEF VerifyLNPR, CheckLNPRUniqueness, blob
<1> QED
  BY Zenon, <1>8, <1>9

(* A replica's own proposal is accepted whatever its queue and its files   *)
(* went through, as long as the provers run, someone is a member and the   *)
(* proofs fit (PrepareProposal, ProcessProposal).                          *)
THEOREM ProposalsAccepted == Spec => []ProposalAccepted
<1>1. IInv => ProposalAccepted
  <2> SUFFICES ASSUME IInv, DebugSubjectsFromBits(store) # {}, FoldAvailable \/ AllowDummy,
                      ProverAvailable, NEW q \in FirstJoins(PendingMembershipTxs),
                      \A j \in q \cap JoinTxs : j.proof = NoProof,
                      ProofsNeeded(store, buildLNPR(store, period, q)) <= MaxRawStarksPerLNPR
               PROVE  VerifyLNPR(store, buildLNPR(store, period, q))
    BY Zenon DEF ProposalAccepted
  <2>1. q \in SUBSET Txs
    BY Zenon DEF FirstJoins, PendingMembershipTxs, loadMembershipFiles, IInv, TypeOK
  <2>2. StoreOK(store) /\ period \in Nat
    BY Zenon DEF IInv, TypeOK
  <2> QED
    BY Zenon, <2>1, <2>2, BuiltAccepted
<1> QED
  BY <1>1, Inductive, PTL
=============================================================================
