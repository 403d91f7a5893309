--------------------------- MODULE LeanStoreProofs ---------------------------
(***************************************************************************)
(* What the operations of LeanStore keep, for any number of subjects.      *)
(***************************************************************************)
EXTENDS LeanStore, FiniteSetTheorems, TLAPS

Sound(st) == st \in Store /\ SlotsOK(st)

(* Cardinality of the subjects is a number.                                *)
LEMMA SubjectsFinite ==
    /\ IsFiniteSet(Subjects)
    /\ Cardinality(Subjects) \in Nat
    /\ NoIndex \notin Indexes
BY SubjectsAssumption, FS_CardinalityType DEF NoIndex, Indexes

(* The types of the fields, by name, for facts about which field a write   *)
(* touches.                                                                *)
IndexType  == [Subjects -> Indexes \cup {NoIndex}]
BitsType   == SUBSET Indexes
EBMapType  == [Indexes -> (0 .. 255) \cup {NoEB}]
BondedType == SUBSET BondedRow
LeaveType  == SUBSET (Nat \X Subjects)
PowerType  == [Subjects -> Nat]

(* A store is a record of these types.                                     *)
LEMMA StoreIs ==
    Store = [index : IndexType, next : Nat, bits : BitsType, eb : EBMapType,
             bonded : BondedType, leave : LeaveType, roots : Roots, power : PowerType]
BY Zenon DEF Store, IndexType, BitsType, EBMapType, BondedType, LeaveType, PowerType

(* The content of the roots is well typed (ObjectRoots).                   *)
LEMMA ObjectRootsType ==
    ASSUME NEW st, st \in Store
    PROVE  ObjectRoots(st) \in Roots
BY DEF ObjectRoots, Roots, Store, EBOf, NoEB

(* Committing the roots changes nothing else and makes them current        *)
(* (syncObjectRoots).                                                      *)
LEMMA SyncFields ==
    ASSUME NEW st, st \in Store
    PROVE  /\ syncObjectRoots(st) \in Store
           /\ syncObjectRoots(st).index = st.index
           /\ syncObjectRoots(st).next = st.next
           /\ syncObjectRoots(st).bits = st.bits
           /\ syncObjectRoots(st).eb = st.eb
           /\ syncObjectRoots(st).bonded = st.bonded
           /\ syncObjectRoots(st).leave = st.leave
           /\ syncObjectRoots(st).power = st.power
           /\ syncObjectRoots(st).roots = ObjectRoots(st)
BY ObjectRootsType DEF syncObjectRoots, Store

(* Which fields a store needs for Sound: two stores that agree on them   *)
(* are both sound.                                                         *)
LEMMA SameSlots ==
    ASSUME NEW a, NEW b, a \in Store, b \in Store, Sound(a),
           b.index = a.index, b.next = a.next,
           \A i \in Indexes : i \in b.bits \/ b.eb[i] # NoEB => i < b.next
    PROVE  Sound(b)
<1>1. {s \in Subjects : HasIndex(b, s)} = {s \in Subjects : HasIndex(a, s)}
  BY DEF HasIndex, depositIndexOf
<1> QED
  BY <1>1 DEF Sound, SlotsOK, HasIndex, depositIndexOf

(* Committing the roots keeps a store sound.                               *)
LEMMA SyncOK ==
    ASSUME NEW st, Sound(st)
    PROVE  Sound(syncObjectRoots(st))
<1>1. st \in Store
  BY DEF Sound
<1>2. \A i \in Indexes : i \in st.bits \/ st.eb[i] # NoEB => i < st.next
  BY DEF Sound, SlotsOK
<1> QED
  BY <1>1, <1>2, SyncFields, SameSlots

(* A subject with an index has one below next, within Indexes.             *)
LEMMA IndexBound ==
    ASSUME NEW st, Sound(st), NEW s \in Subjects, HasIndex(st, s)
    PROVE  st.index[s] \in Indexes /\ st.index[s] < st.next
BY DEF Sound, SlotsOK, Store, HasIndex, depositIndexOf

(* There is room for one more index as long as some subject has none.      *)
LEMMA RoomForOne ==
    ASSUME NEW st, Sound(st), NEW s \in Subjects, ~HasIndex(st, s)
    PROVE  st.next \in Indexes
<1> DEFINE A == {t \in Subjects : HasIndex(st, t)}
<1>1. A \in SUBSET Subjects /\ s \notin A
  OBVIOUS
<1>2. IsFiniteSet(A) /\ Cardinality(A) <= Cardinality(Subjects) /\ Cardinality(A) # Cardinality(Subjects)
  BY <1>1, SubjectsFinite, FS_Subset
<1>3. st.next = Cardinality(A) /\ st.next \in Nat
  BY DEF Sound, SlotsOK, Store
<1> QED
  BY <1>2, <1>3, SubjectsFinite DEF Indexes

(* What taking the next slot writes, before the roots are committed        *)
(* (AllocateIndex).                                                        *)
LEMMA AllocateFields ==
    ASSUME NEW st \in Store, NEW s \in Subjects, st.next \in Indexes
    PROVE  LET b == [st EXCEPT !.index = [@ EXCEPT ![s] = st.next], !.next = @ + 1]
           IN  /\ b \in Store
               /\ b.index = [st.index EXCEPT ![s] = st.next]
               /\ b.next = st.next + 1
               /\ b.bits = st.bits /\ b.eb = st.eb /\ b.bonded = st.bonded
<1> DEFINE b == [st EXCEPT !.index = [@ EXCEPT ![s] = st.next], !.next = @ + 1]
           I == [st.index EXCEPT ![s] = st.next]
           n == st.next + 1
<1>1. I \in IndexType
  BY DEF IndexType, Store
<1>2. n \in Nat
  BY DEF Store
<1>3. b = [st EXCEPT !.index = I, !.next = n]
  OBVIOUS
<1> HIDE DEF b, I, n
<1>4. /\ b \in Store /\ b.index = I /\ b.next = n
      /\ b.bits = st.bits /\ b.eb = st.eb /\ b.bonded = st.bonded
  BY Zenon, <1>1, <1>2, <1>3, StoreIs
<1> QED
  BY <1>4 DEF b, I, n

(* Allocation keeps the slots sound and gives the subject a slot           *)
(* (AllocateIndex).                                                        *)
LEMMA AllocateOK ==
    ASSUME NEW st, Sound(st), NEW s \in Subjects
    PROVE  /\ Sound(AllocateIndex(st, s))
           /\ HasIndex(AllocateIndex(st, s), s)
           /\ \A t \in Subjects : HasIndex(st, t) => HasIndex(AllocateIndex(st, s), t)
           /\ AllocateIndex(st, s).bonded = st.bonded
<1>1. CASE HasIndex(st, s)
  BY <1>1 DEF AllocateIndex
<1>2. CASE ~HasIndex(st, s)
  <2> DEFINE b == [st EXCEPT !.index = [@ EXCEPT ![s] = st.next], !.next = @ + 1]
             A == {t \in Subjects : HasIndex(st, t)}
  <2>1. st.next \in Indexes /\ st \in Store /\ st.next \in Nat
    BY <1>2, RoomForOne DEF Sound, Store
  <2>2. /\ b \in Store
        /\ b.index = [st.index EXCEPT ![s] = st.next]
        /\ b.next = st.next + 1
        /\ b.bits = st.bits /\ b.eb = st.eb /\ b.bonded = st.bonded
    BY Zenon, <2>1, AllocateFields
  <2>3. st.next # NoIndex
    BY <2>1, SubjectsFinite
  <2> HIDE DEF b
  <2>4. \A t \in Subjects : HasIndex(b, t) <=> t = s \/ HasIndex(st, t)
    BY <2>1, <2>2, <2>3 DEF HasIndex, depositIndexOf, Store
  <2>5. {t \in Subjects : HasIndex(b, t)} = A \cup {s}
    BY <2>4
  <2>6. b.next = Cardinality(A \cup {s})
    <3>1. IsFiniteSet(A) /\ s \notin A
      BY <1>2, SubjectsFinite, FS_Subset
    <3>2. Cardinality(A \cup {s}) = Cardinality(A) + 1
      BY Zenon, <3>1, FS_AddElement
    <3> QED
      BY <3>2, <2>2 DEF Sound, SlotsOK
  <2>7. \A t \in Subjects : HasIndex(b, t) => b.index[t] < b.next
    <3>1. \A t \in Subjects : HasIndex(st, t) => st.index[t] \in Indexes /\ st.index[t] < st.next
      BY IndexBound
    <3>2. \A t \in Subjects : b.index[t] = IF t = s THEN st.next ELSE st.index[t]
      BY <2>1, <2>2 DEF Store
    <3> QED
      BY <3>1, <3>2, <2>1, <2>2, <2>4, SubjectsFinite DEF Indexes
  <2>8. \A t, u \in Subjects : HasIndex(b, t) /\ b.index[t] = b.index[u] => t = u
    <3> SUFFICES ASSUME NEW t \in Subjects, NEW u \in Subjects,
                        HasIndex(b, t), b.index[t] = b.index[u]
                 PROVE  t = u
      OBVIOUS
    <3>1. HasIndex(b, u)
      BY DEF HasIndex, depositIndexOf
    <3>2. \A v \in Subjects : v # s => b.index[v] = st.index[v]
      BY <2>1, <2>2 DEF Store
    <3>3. \A v \in Subjects : HasIndex(st, v) => st.index[v] # st.next
      BY <2>1 DEF Sound, SlotsOK, Store, Indexes, NoIndex
    <3>4. b.index[s] = st.next
      BY <2>1, <2>2 DEF Store
    <3> QED
      BY <3>1, <3>2, <3>3, <3>4, <2>4 DEF Sound, SlotsOK
  <2>9. \A i \in Indexes : i \in b.bits \/ b.eb[i] # NoEB => i < b.next
    <3> SUFFICES ASSUME NEW i \in Indexes, i \in b.bits \/ b.eb[i] # NoEB
                 PROVE  i < b.next
      OBVIOUS
    <3>1. i < st.next
      BY <2>2 DEF Sound, SlotsOK
    <3> QED
      BY <3>1, <2>1, <2>2, SubjectsFinite DEF Indexes
  <2>10. Sound(b)
    BY Zenon, <2>2, <2>5, <2>6, <2>7, <2>8, <2>9 DEF Sound, SlotsOK
  <2>11. AllocateIndex(st, s) = syncObjectRoots(b)
    BY <1>2 DEF AllocateIndex, b
  <2>12. \A t \in Subjects : HasIndex(syncObjectRoots(b), t) <=> HasIndex(b, t)
    BY Zenon, <2>2, SyncFields DEF HasIndex, depositIndexOf
  <2> QED
    BY <2>2, <2>4, <2>10, <2>11, <2>12, SyncOK, SyncFields
<1> QED
  BY <1>1, <1>2

(* The stored roots are those of the content.                              *)
Current(st) == st.roots = ObjectRoots(st)

(* After syncObjectRoots they are.                                         *)
LEMMA SyncCurrent ==
    ASSUME NEW st, st \in Store
    PROVE  Current(syncObjectRoots(st))
<1> DEFINE b == syncObjectRoots(st)
<1>1. b.bits = st.bits /\ b.index = st.index /\ b.eb = st.eb /\ b.roots = ObjectRoots(st)
  BY SyncFields
<1> HIDE DEF b
<1>2. \A i \in Indexes : EBOf(b, i) = EBOf(st, i)
  BY <1>1 DEF EBOf
<1>3. ObjectRoots(b) = ObjectRoots(st)
  BY <1>1, <1>2 DEF ObjectRoots
<1> QED
  BY <1>1, <1>3 DEF Current, b

(* Setting the bit of an allocated slot (BitSet).                          *)
LEMMA BitSetOK ==
    ASSUME NEW st, Sound(st), NEW i \in Indexes, i < st.next
    PROVE  /\ Sound(BitSet(st, i)) /\ Current(BitSet(st, i))
           /\ BitSet(st, i).index = st.index /\ BitSet(st, i).bonded = st.bonded
<1> DEFINE b == [st EXCEPT !.bits = @ \cup {i}]
<1>1. st \in Store
  BY DEF Sound
<1>2. /\ b \in Store /\ b.index = st.index /\ b.next = st.next
      /\ b.bits = st.bits \cup {i} /\ b.eb = st.eb /\ b.bonded = st.bonded
  BY <1>1 DEF Store
<1> HIDE DEF b
<1>3. \A j \in Indexes : j \in b.bits \/ b.eb[j] # NoEB => j < b.next
  BY <1>2 DEF Sound, SlotsOK
<1>4. Sound(b)
  BY <1>1, <1>2, <1>3, SameSlots
<1> QED
  BY Zenon, <1>2, <1>4, SyncOK, SyncCurrent, SyncFields DEF BitSet, b

(* Clearing a bit (BitClear).                                              *)
LEMMA BitClearOK ==
    ASSUME NEW st, Sound(st), NEW i \in Indexes
    PROVE  /\ Sound(BitClear(st, i)) /\ Current(BitClear(st, i))
           /\ BitClear(st, i).index = st.index /\ BitClear(st, i).next = st.next
           /\ BitClear(st, i).bonded = st.bonded
<1> DEFINE b == [st EXCEPT !.bits = @ \ {i}]
<1>1. st \in Store
  BY DEF Sound
<1>2. /\ b \in Store /\ b.index = st.index /\ b.next = st.next
      /\ b.bits = st.bits \ {i} /\ b.eb = st.eb /\ b.bonded = st.bonded
  BY <1>1 DEF Store
<1> HIDE DEF b
<1>3. \A j \in Indexes : j \in b.bits \/ b.eb[j] # NoEB => j < b.next
  BY <1>2 DEF Sound, SlotsOK
<1>4. Sound(b)
  BY <1>1, <1>2, <1>3, SameSlots
<1> QED
  BY Zenon, <1>2, <1>4, SyncOK, SyncCurrent, SyncFields DEF BitClear, b

(* Writing the balance of an allocated slot (SetEB).                       *)
LEMMA SetEBOK ==
    ASSUME NEW st, Sound(st), NEW i \in Indexes, i < st.next, NEW v \in 0 .. 255
    PROVE  /\ Sound(SetEB(st, i, v)) /\ Current(SetEB(st, i, v))
           /\ SetEB(st, i, v).index = st.index /\ SetEB(st, i, v).next = st.next
           /\ SetEB(st, i, v).bonded = st.bonded
<1> DEFINE b == [st EXCEPT !.eb = [@ EXCEPT ![i] = v]]
<1>1. st \in Store
  BY DEF Sound
<1>2. [st.eb EXCEPT ![i] = v] \in [Indexes -> (0 .. 255) \cup {NoEB}]
  BY <1>1 DEF Store
<1>3. /\ b \in Store /\ b.index = st.index /\ b.next = st.next
      /\ b.bits = st.bits /\ b.eb = [st.eb EXCEPT ![i] = v] /\ b.bonded = st.bonded
  <2> DEFINE e == [st.eb EXCEPT ![i] = v]
  <2>1. e \in EBMapType
    BY <1>2 DEF EBMapType
  <2>2. b = [st EXCEPT !.eb = e]
    OBVIOUS
  <2> HIDE DEF b, e
  <2>3. /\ b \in Store /\ b.index = st.index /\ b.next = st.next
        /\ b.bits = st.bits /\ b.eb = e /\ b.bonded = st.bonded
    BY Zenon, <1>1, <2>1, <2>2, StoreIs
  <2> QED
    BY Zenon, <2>3 DEF e
<1> HIDE DEF b
<1>4. \A j \in Indexes : j \in b.bits \/ b.eb[j] # NoEB => j < b.next
  BY <1>1, <1>3 DEF Sound, SlotsOK, Store
<1>5. Sound(b)
  BY Zenon, <1>1, <1>3, <1>4, SameSlots
<1> QED
  BY Zenon, <1>3, <1>5, SyncOK, SyncCurrent, SyncFields DEF SetEB, b

(* A balance made from a weight is a byte (ebFromWeight).                  *)
LEMMA EBType ==
    ASSUME NEW w \in Int
    PROVE  ebFromWeight(w) \in 0 .. 255
BY DEF ebFromWeight

(* Allocation commits the roots, or has nothing to commit.                 *)
LEMMA AllocateCurrent ==
    ASSUME NEW st, Sound(st), Current(st), NEW s \in Subjects
    PROVE  Current(AllocateIndex(st, s))
<1>1. CASE HasIndex(st, s)
  BY <1>1 DEF AllocateIndex
<1>2. CASE ~HasIndex(st, s)
  <2> DEFINE b == [st EXCEPT !.index = [@ EXCEPT ![s] = st.next], !.next = @ + 1]
  <2>1. st \in Store /\ st.next \in Indexes
    BY <1>2, RoomForOne DEF Sound
  <2>2. b \in Store
    BY Zenon, <2>1, AllocateFields
  <2> HIDE DEF b
  <2> QED
    BY <1>2, <2>2, SyncCurrent DEF AllocateIndex, b
<1> QED
  BY <1>1, <1>2

(* Admission keeps a store sound and its roots current (admitMember),      *)
(* leaves the subject with a slot, and takes no slot or row away.          *)
LEMMA AdmitOK ==
    ASSUME NEW st, Sound(st), Current(st), NEW s \in Subjects, NEW w \in Int
    PROVE  /\ Sound(admitMember(st, s, w)) /\ Current(admitMember(st, s, w))
           /\ HasIndex(admitMember(st, s, w), s)
           /\ \A t \in Subjects : HasIndex(st, t) => HasIndex(admitMember(st, s, w), t)
           /\ admitMember(st, s, w).bonded = st.bonded
<1> DEFINE a == AllocateIndex(st, s)
           i == depositIndexOf(a, s)
           b == IF a.eb[i] = NoEB THEN SetEB(a, i, ebFromWeight(w)) ELSE a
<1>1. /\ Sound(a) /\ HasIndex(a, s) /\ Current(a) /\ a.bonded = st.bonded
      /\ \A t \in Subjects : HasIndex(st, t) => HasIndex(a, t)
  BY AllocateOK, AllocateCurrent
<1>2. i \in Indexes /\ i < a.next
  BY <1>1, IndexBound DEF depositIndexOf
<1>3. Sound(b) /\ b.index = a.index /\ b.next = a.next /\ b.bonded = a.bonded
  <2> DEFINE v == ebFromWeight(w)
  <2>1. v \in 0 .. 255
    BY EBType
  <2> HIDE DEF a, i, v
  <2>2. /\ Sound(SetEB(a, i, v)) /\ SetEB(a, i, v).index = a.index
        /\ SetEB(a, i, v).next = a.next /\ SetEB(a, i, v).bonded = a.bonded
    BY ZenonT(30), <1>1, <1>2, <2>1, SetEBOK
  <2> QED
    BY <1>1, <2>2 DEF v
<1>4. /\ Sound(BitSet(b, i)) /\ Current(BitSet(b, i))
      /\ BitSet(b, i).index = a.index /\ BitSet(b, i).bonded = a.bonded
  BY <1>2, <1>3, BitSetOK
<1>5. admitMember(st, s, w) = IF w > 0 THEN BitSet(b, i) ELSE a
  BY DEF admitMember
<1> HIDE DEF a, b, i
<1> QED
  BY <1>1, <1>4, <1>5 DEF HasIndex, depositIndexOf

(* A store in which only rows, marks and powers differ is as sound, and    *)
(* its roots are as current.                                               *)
LEMMA SameContent ==
    ASSUME NEW a, NEW b, Sound(a), b \in Store,
           b.index = a.index, b.next = a.next, b.bits = a.bits, b.eb = a.eb, b.roots = a.roots
    PROVE  Sound(b) /\ (Current(a) => Current(b))
<1>1. \A i \in Indexes : i \in b.bits \/ b.eb[i] # NoEB => i < b.next
  BY DEF Sound, SlotsOK
<1>2. Sound(b)
  BY <1>1, SameSlots DEF Sound
<1>3. \A i \in Indexes : EBOf(b, i) = EBOf(a, i)
  BY DEF EBOf
<1>4. ObjectRoots(b) = ObjectRoots(a)
  BY <1>3 DEF ObjectRoots
<1> QED
  BY <1>2, <1>4 DEF Current

(* The whole of what is kept between operations.                           *)
StoreOK(st) == Sound(st) /\ Current(st) /\ RowsIndexed(st)

(* admitMember keeps it.                                                   *)
LEMMA AdmitStoreOK ==
    ASSUME NEW st, StoreOK(st), NEW s \in Subjects, NEW w \in Int
    PROVE  StoreOK(admitMember(st, s, w))
<1>1. \A r \in st.bonded : r.subject \in Subjects
  BY DEF StoreOK, Sound, Store, BondedRow
<1> QED
  BY <1>1, AdmitOK DEF StoreOK, RowsIndexed

(* Accepting a proof: the row goes in first, and the admission right after *)
(* gives its subject the index (AcceptProof).                              *)
LEMMA AcceptOK ==
    ASSUME NEW st, StoreOK(st), NEW p \in Nat, NEW s \in Subjects, NEW w \in Nat
    PROVE  StoreOK(AcceptProof(st, p, s, w))
<1> DEFINE row == [period |-> p, subject |-> s, accepted |-> TRUE, weight |-> w]
           b == PutRow(st, row)
           c == admitMember(b, s, w)
<1>1. row \in BondedRow /\ st \in Store
  BY DEF BondedRow, StoreOK, Sound
<1>2. /\ b \in Store /\ b.index = st.index /\ b.next = st.next /\ b.bits = st.bits
      /\ b.eb = st.eb /\ b.roots = st.roots
      /\ b.bonded \subseteq st.bonded \cup {row}
  <2> DEFINE kept == {r \in st.bonded : ~(r.period = row.period /\ r.subject = row.subject)}
  <2>1. b = [st EXCEPT !.bonded = kept \cup {row}]
    BY DEF PutRow
  <2>2. kept \subseteq st.bonded /\ st.bonded \subseteq BondedRow
    BY <1>1 DEF Store
  <2> HIDE DEF kept, row, b
  <2>3. kept \cup {row} \in BondedType
    BY <1>1, <2>2 DEF BondedType
  <2> QED
    BY Zenon, <1>1, <2>1, <2>2, <2>3, StoreIs
<1>3. Sound(b) /\ Current(b)
  BY <1>2, SameContent DEF StoreOK
<1>4. /\ Sound(c) /\ Current(c) /\ HasIndex(c, s) /\ c.bonded = b.bonded
      /\ \A t \in Subjects : HasIndex(b, t) => HasIndex(c, t)
  <2>1. w \in Int
    OBVIOUS
  <2> HIDE DEF b
  <2> QED
    BY <1>3, <2>1, AdmitOK
<1>5. \A r \in b.bonded : r.subject \in Subjects /\ (r = row \/ r \in st.bonded)
  BY Zenon, <1>2 DEF Store, BondedRow
<1>6. row.subject = s
  OBVIOUS
<1>7. AcceptProof(st, p, s, w) = c
  BY DEF AcceptProof
<1> HIDE DEF row, b, c
<1>8. \A r \in c.bonded : r.accepted => HasIndex(c, r.subject)
  <2> SUFFICES ASSUME NEW r \in c.bonded, r.accepted
               PROVE  HasIndex(c, r.subject)
    OBVIOUS
  <2>1. CASE r = row
    BY <2>1, <1>4, <1>6
  <2>2. CASE r \in st.bonded
    <3>1. HasIndex(st, r.subject)
      BY <2>2 DEF StoreOK, RowsIndexed
    <3>2. HasIndex(b, r.subject)
      BY <3>1, <1>2 DEF HasIndex, depositIndexOf
    <3> QED
      BY <3>2, <1>4, <1>5
  <2> QED
    BY <2>1, <2>2, <1>4, <1>5
<1> QED
  BY <1>4, <1>7, <1>8 DEF StoreOK, RowsIndexed

(* A LEAV clears the bit and the balance and keeps the slot (ApplyLeave).  *)
LEMMA LeaveOK ==
    ASSUME NEW st, StoreOK(st), NEW p \in Nat, NEW s \in Subjects
    PROVE  StoreOK(ApplyLeave(st, p, s))
<1> DEFINE b == [st EXCEPT !.leave  = @ \cup {<<p, s>>},
                           !.bonded = {r \in @ : ~(r.period = p /\ r.subject = s)}]
           i == depositIndexOf(st, s)
           c == BitClear(b, i)
           d == SetEB(c, i, 0)
<1>1. st \in Store
  BY DEF StoreOK, Sound
<1>2. /\ b \in Store /\ b.index = st.index /\ b.next = st.next /\ b.bits = st.bits
      /\ b.eb = st.eb /\ b.roots = st.roots /\ b.bonded \subseteq st.bonded
  <2> DEFINE L == st.leave \cup {<<p, s>>}
             B == {r \in st.bonded : ~(r.period = p /\ r.subject = s)}
  <2>1. L \in SUBSET (Nat \X Subjects) /\ B \in SUBSET BondedRow /\ B \subseteq st.bonded
    BY <1>1 DEF Store
  <2>2. b = [st EXCEPT !.leave = L, !.bonded = B]
    OBVIOUS
  <2> HIDE DEF L, B, b, i, c, d
  <2>3. L \in LeaveType /\ B \in BondedType
    BY <2>1 DEF LeaveType, BondedType
  <2> QED
    BY Zenon, <1>1, <2>1, <2>2, <2>3, StoreIs
<1>3. Sound(b) /\ Current(b)
  BY Zenon, <1>2, SameContent DEF StoreOK
<1>4. ApplyLeave(st, p, s) = IF HasIndex(st, s) THEN d ELSE b
  BY DEF ApplyLeave
<1>5. HasIndex(st, s) => i \in Indexes /\ i < b.next
  BY <1>2, IndexBound DEF StoreOK, depositIndexOf
<1> HIDE DEF b, i
<1>6. HasIndex(st, s) => /\ Sound(c) /\ c.index = b.index /\ c.next = b.next
                         /\ c.bonded = b.bonded
  BY <1>3, <1>5, BitClearOK
<1> HIDE DEF c
<1>7. HasIndex(st, s) => /\ Sound(d) /\ Current(d) /\ d.index = b.index
                         /\ d.bonded = b.bonded
  <2>1. 0 \in 0 .. 255
    OBVIOUS
  <2>2. HasIndex(st, s) => i \in Indexes /\ i < c.next /\ Sound(c)
    BY Zenon, <1>5, <1>6
  <2>3. HasIndex(st, s) => /\ Sound(d) /\ Current(d) /\ d.index = c.index
                           /\ d.bonded = c.bonded
    BY <2>1, <2>2, SetEBOK
  <2> QED
    BY <1>6, <2>3
<1> HIDE DEF d
<1>8. RowsIndexed(b)
  BY <1>2 DEF StoreOK, RowsIndexed, HasIndex, depositIndexOf
<1>9. HasIndex(st, s) => RowsIndexed(d)
  BY <1>7, <1>8 DEF RowsIndexed, HasIndex, depositIndexOf
<1> QED
  BY <1>3, <1>4, <1>7, <1>8, <1>9 DEF StoreOK

(* A row cloned into another period is a row (BondedSetOrCarry).           *)
LEMMA CarryRow ==
    ASSUME NEW r \in BondedRow, NEW p \in Nat
    PROVE  [r EXCEPT !.period = p, !.weight = RowWeight(r)] \in BondedRow
<1>1. RowWeight(r) \in Nat
  BY DEF BondedRow, RowWeight
<1> QED
  BY Zenon, <1>1 DEF BondedRow

(* Carrying the bonded view forward allocates nothing and stays within the *)
(* allocated slots (BondedSetOrCarry).                                     *)
LEMMA CarryOK ==
    ASSUME NEW st, StoreOK(st), NEW p \in Nat
    PROVE  StoreOK(BondedSetOrCarry(st, p))
<1>1. CASE BondedSet(st, p) # {} \/ PriorPeriods(st, p) = {}
  BY <1>1 DEF BondedSetOrCarry
<1>2. CASE ~(BondedSet(st, p) # {} \/ PriorPeriods(st, p) = {})
  <2> DEFINE prev    == BondedSet(st, LastOf(PriorPeriods(st, p)))
             admits  == {r \in prev : r.accepted /\ r.weight > 0}
             indexOf == [r \in admits |-> depositIndexOf(st, r.subject)]
             rows == st.bonded \cup {[r EXCEPT !.period = p, !.weight = RowWeight(r)] : r \in prev}
             bits == st.bits \cup {indexOf[r] : r \in admits}
             eb == [i \in Indexes |->
                      IF st.eb[i] = NoEB /\ \E r \in admits : indexOf[r] = i
                      THEN ebFromWeight((CHOOSE r \in admits : indexOf[r] = i).weight)
                      ELSE st.eb[i]]
             b == [st EXCEPT !.bonded = rows, !.bits = bits, !.eb = eb]
  <2>1. BondedSetOrCarry(st, p) = syncObjectRoots(b)
    BY <1>2 DEF BondedSetOrCarry
  <2>2. st \in Store /\ Sound(st) /\ prev \subseteq st.bonded
    BY DEF StoreOK, Sound, BondedSet
  <2>3. \A r \in prev : r \in BondedRow /\ r.subject \in Subjects /\ r.weight \in Nat
    BY <2>2 DEF Store, BondedRow
  <2>4. \A r \in admits : indexOf[r] \in Indexes /\ indexOf[r] < st.next
    BY <2>2, <2>3, IndexBound DEF StoreOK, RowsIndexed, depositIndexOf
  <2>5. rows \in SUBSET BondedRow
    <3>1. \A r \in prev : [r EXCEPT !.period = p, !.weight = RowWeight(r)] \in BondedRow
      BY Zenon, <2>3, CarryRow
    <3>2. st.bonded \subseteq BondedRow
      BY <2>2 DEF Store
    <3> HIDE DEF prev
    <3> QED
      BY Zenon, <3>1, <3>2
  <2>6. bits \in SUBSET Indexes
    <3>1. st.bits \subseteq Indexes
      BY Zenon, <2>2 DEF Store
    <3> HIDE DEF admits, indexOf
    <3> QED
      BY <3>1, <2>4
  <2>7. eb \in [Indexes -> (0 .. 255) \cup {NoEB}]
    <3>1. \A r \in admits : ebFromWeight(r.weight) \in 0 .. 255
      <4>1. \A r \in admits : r.weight \in Int
        BY <2>3
      <4> QED
        BY Zenon, <4>1, EBType
    <3>2. \A i \in Indexes : st.eb[i] \in (0 .. 255) \cup {NoEB}
      BY Zenon, <2>2 DEF Store
    <3> HIDE DEF admits, indexOf
    <3>3. \A i \in Indexes : (\E r \in admits : indexOf[r] = i) =>
             ebFromWeight((CHOOSE r \in admits : indexOf[r] = i).weight) \in 0 .. 255
      BY <3>1
    <3> QED
      BY <3>2, <3>3
  <2>8. \A i \in Indexes : i \in bits \/ eb[i] # NoEB => i < st.next
    <3> SUFFICES ASSUME NEW i \in Indexes, i \in bits \/ eb[i] # NoEB
                 PROVE  i < st.next
      BY Zenon
    <3>1. i \in st.bits \/ st.eb[i] # NoEB => i < st.next
      BY Zenon, <2>2 DEF Sound, SlotsOK
    <3>2. (\E r \in admits : indexOf[r] = i) => i < st.next
      BY Zenon, <2>4
    <3> HIDE DEF admits, indexOf
    <3> QED
      BY <3>1, <3>2
  <2>9. \A r \in rows : r.accepted => HasIndex(st, r.subject)
    <3>1. \A r \in prev : LET c == [r EXCEPT !.period = p, !.weight = RowWeight(r)]
                          IN  c.accepted = r.accepted /\ c.subject = r.subject
      BY <2>3 DEF BondedRow
    <3> HIDE DEF prev
    <3> QED
      BY Zenon, <2>2, <3>1 DEF StoreOK, RowsIndexed
  <2> HIDE DEF rows, bits, eb
  <2>10. /\ b \in Store /\ b.index = st.index /\ b.next = st.next
         /\ b.bits = bits /\ b.eb = eb /\ b.bonded = rows
    <3>1. rows \in BondedType /\ bits \in BitsType /\ eb \in EBMapType
      BY <2>5, <2>6, <2>7 DEF BondedType, BitsType, EBMapType
    <3> QED
      BY Zenon, <2>2, <3>1, StoreIs
  <2> HIDE DEF b
  <2>11. Sound(b)
    BY <2>2, <2>8, <2>10, SameSlots
  <2>12. RowsIndexed(syncObjectRoots(b))
    BY <2>9, <2>10, SyncFields DEF RowsIndexed, HasIndex, depositIndexOf
  <2> QED
    BY <2>1, <2>10, <2>11, <2>12, SyncOK, SyncCurrent DEF StoreOK
<1> QED
  BY <1>1, <1>2

(* New powers leave the roster alone (ValidatorUpdates).                   *)
LEMMA UpdatesOK ==
    ASSUME NEW st, StoreOK(st)
    PROVE  StoreOK(ValidatorUpdates(st))
<1> DEFINE pw == [s \in Subjects |->
                    IF s \in Pubkeys /\ IsMember(st, s) THEN NextPower(st, s) ELSE 0]
           b  == [st EXCEPT !.power = pw]
<1>1. st \in Store /\ Sound(st) /\ Current(st)
  BY DEF StoreOK, Sound
<1>2. pw \in [Subjects -> Nat]
  <2> SUFFICES ASSUME NEW s \in Subjects, IsMember(st, s)
               PROVE  NextPower(st, s) \in Nat
    OBVIOUS
  <2>1. st.power[s] \in Nat
    BY <1>1 DEF Store
  <2>2. BitWeight(st, s) \in Nat
    <3>1. st.index[s] \in Indexes
      BY <1>1, IndexBound DEF IsMember
    <3> QED
      BY <1>1, <3>1 DEF BitWeight, EBOf, depositIndexOf, Store, NoEB
  <2> QED
    BY <2>1, <2>2 DEF NextPower
<1>3. ValidatorUpdates(st) = b
  BY DEF ValidatorUpdates
<1> HIDE DEF pw
<1>4. /\ b \in Store /\ b.index = st.index /\ b.next = st.next /\ b.bits = st.bits
      /\ b.eb = st.eb /\ b.roots = st.roots /\ b.bonded = st.bonded
  <2>1. pw \in PowerType
    BY <1>2 DEF PowerType
  <2> QED
    BY <1>1, <2>1, StoreIs
<1> HIDE DEF b
<1>5. RowsIndexed(b)
  BY <1>4 DEF StoreOK, RowsIndexed, HasIndex, depositIndexOf
<1> QED
  BY <1>1, <1>3, <1>4, <1>5, SameContent DEF StoreOK

(* Only ValidatorUpdates writes the powers.                                *)
Power(st, pw) == "power" \in DOMAIN st /\ st.power = pw

(* Committing the roots leaves the powers alone (syncObjectRoots).         *)
LEMMA SyncPower ==
    ASSUME NEW st, NEW pw, Power(st, pw)
    PROVE  Power(syncObjectRoots(st), pw)
BY DEF Power, syncObjectRoots

(* So does every write to a slot (BitSet, BitClear, SetEB, AllocateIndex). *)
LEMMA SlotPower ==
    ASSUME NEW st, NEW pw, Power(st, pw), NEW i, NEW s, NEW v
    PROVE  /\ Power(BitSet(st, i), pw) /\ Power(BitClear(st, i), pw)
           /\ Power(SetEB(st, i, v), pw) /\ Power(AllocateIndex(st, s), pw)
<1>1. Power([st EXCEPT !.bits = @ \cup {i}], pw) /\ Power([st EXCEPT !.bits = @ \ {i}], pw)
  BY DEF Power
<1>2. Power([st EXCEPT !.eb = [@ EXCEPT ![i] = v]], pw)
  BY DEF Power
<1>3. Power([st EXCEPT !.index = [@ EXCEPT ![s] = st.next], !.next = @ + 1], pw)
  BY DEF Power
<1> QED
  BY <1>1, <1>2, <1>3, SyncPower DEF BitSet, BitClear, SetEB, AllocateIndex

(* Applying a row and carrying rows forward leave the powers alone         *)
(* (admitMember, AcceptProof, ApplyLeave, BondedSetOrCarry).               *)
LEMMA AdmitPower ==
    ASSUME NEW st, NEW pw, Power(st, pw), NEW s, NEW w
    PROVE  Power(admitMember(st, s, w), pw)
<1> DEFINE a == AllocateIndex(st, s)
           i == depositIndexOf(a, s)
           b == IF a.eb[i] = NoEB THEN SetEB(a, i, ebFromWeight(w)) ELSE a
<1>1. Power(a, pw)
  BY SlotPower
<1>2. admitMember(st, s, w) = IF w > 0 THEN BitSet(b, i) ELSE a
  BY DEF admitMember
<1> HIDE DEF a, i
<1>3. Power(b, pw)
  BY <1>1, SlotPower
<1> HIDE DEF b
<1> QED
  BY <1>1, <1>2, <1>3, SlotPower

(* So do a proof that is accepted and a leave (AcceptProof, ApplyLeave).   *)
LEMMA RowPower ==
    ASSUME NEW st, NEW pw, Power(st, pw), NEW p, NEW s, NEW w
    PROVE  Power(AcceptProof(st, p, s, w), pw) /\ Power(ApplyLeave(st, p, s), pw)
<1> DEFINE row == [period |-> p, subject |-> s, accepted |-> TRUE, weight |-> w]
           marked == [st EXCEPT !.leave  = @ \cup {<<p, s>>},
                                !.bonded = {r \in @ : ~(r.period = p /\ r.subject = s)}]
           i == depositIndexOf(st, s)
<1>1. Power(PutRow(st, row), pw)
  BY DEF Power, PutRow
<1>2. Power(marked, pw)
  BY DEF Power
<1>3. AcceptProof(st, p, s, w) = admitMember(PutRow(st, row), s, w)
  BY DEF AcceptProof
<1>4. ApplyLeave(st, p, s) = IF HasIndex(st, s) THEN SetEB(BitClear(marked, i), i, 0) ELSE marked
  BY DEF ApplyLeave
<1> HIDE DEF row, marked, i
<1> QED
  BY <1>1, <1>2, <1>3, <1>4, AdmitPower, SlotPower

(* So does carrying the bonded view forward (BondedSetOrCarry).            *)
LEMMA CarryPower ==
    ASSUME NEW st, NEW pw, Power(st, pw), NEW p
    PROVE  Power(BondedSetOrCarry(st, p), pw)
<1>1. CASE BondedSet(st, p) # {} \/ PriorPeriods(st, p) = {}
  BY <1>1 DEF BondedSetOrCarry
<1>2. CASE ~(BondedSet(st, p) # {} \/ PriorPeriods(st, p) = {})
  <2>1. PICK A, B, C : BondedSetOrCarry(st, p)
                         = syncObjectRoots([st EXCEPT !.bonded = A, !.bits = B, !.eb = C])
    BY Zenon, <1>2 DEF BondedSetOrCarry
  <2>2. Power([st EXCEPT !.bonded = A, !.bits = B, !.eb = C], pw)
    BY DEF Power
  <2> QED
    BY <2>1, <2>2, SyncPower
<1> QED
  BY <1>1, <1>2

(* ValidatorUpdates never raises a power that is there.                    *)
LEMMA UpdatesLower ==
    ASSUME NEW st, StoreOK(st), NEW s \in Subjects, st.power[s] > 0
    PROVE  ValidatorUpdates(st).power[s] <= st.power[s]
<1>1. st \in Store /\ st.power[s] \in Nat
  BY DEF StoreOK, Sound, Store
<1>2. ValidatorUpdates(st).power[s] = IF s \in Pubkeys /\ IsMember(st, s) THEN NextPower(st, s) ELSE 0
  BY <1>1 DEF ValidatorUpdates, Store
<1>3. CASE s \in Pubkeys /\ IsMember(st, s)
  <2>1. st.index[s] \in Indexes
    BY <1>3, IndexBound DEF IsMember, StoreOK
  <2>2. BitWeight(st, s) \in Nat
    BY <1>1, <2>1 DEF BitWeight, EBOf, depositIndexOf, Store, NoEB
  <2>3. NextPower(st, s) <= st.power[s]
    BY <1>1, <2>2 DEF NextPower
  <2> QED
    BY Zenon, <1>2, <1>3, <2>3
<1> QED
  BY <1>1, <1>2, <1>3

-----------------------------------------------------------------------------
(* What each write does to the roster: the fields it changes, and that it  *)
(* keeps a roster in which every member has a balance.                     *)

(* Every set bit has a positive balance.                                   *)
Balanced(st) == \A i \in st.bits : EBOf(st, i) > 0

(* No row is of a period after p, and a row of p that carries weight is a  *)
(* member's: ApplyLeave deletes the row of the period it applies in.       *)
RowsOfMembers(st, p) ==
    \A r \in st.bonded :
        /\ r.period <= p
        /\ r.accepted /\ r.weight > 0 /\ r.period = p => IsMember(st, r.subject)

(* A pending leave is of a subject that has left.                          *)
LeftForGood(st) == \A l \in st.leave : HasIndex(st, l[2]) /\ ~IsMember(st, l[2])

RosterOK(st, p) == Balanced(st) /\ RowsOfMembers(st, p) /\ LeftForGood(st)

(* Two stores with the same content, roots and powers aside.               *)
SameRoster(a, b) ==
    /\ a.index = b.index /\ a.next = b.next /\ a.bits = b.bits /\ a.eb = b.eb
    /\ a.bonded = b.bonded /\ a.leave = b.leave

(* They have the same members, and the roster of both is as sound.         *)
LEMMA SameRosterOK ==
    ASSUME NEW a, NEW b, NEW p, SameRoster(a, b), RosterOK(a, p)
    PROVE  /\ RosterOK(b, p)
           /\ \A s \in Subjects : IsMember(b, s) <=> IsMember(a, s)
<1>1. \A s : (IsMember(b, s) <=> IsMember(a, s)) /\ (HasIndex(b, s) <=> HasIndex(a, s))
  BY DEF SameRoster, IsMember, HasIndex, BitIsSet, depositIndexOf
<1>2. \A i : EBOf(b, i) = EBOf(a, i)
  BY DEF SameRoster, EBOf
<1> QED
  BY <1>1, <1>2 DEF SameRoster, RosterOK, Balanced, RowsOfMembers, LeftForGood

(* The fields that setting and clearing a bit change (BitSet, BitClear).   *)
LEMMA BitFields ==
    ASSUME NEW st \in Store, NEW i \in Indexes
    PROVE  /\ BitSet(st, i) \in Store
           /\ SameRoster(BitSet(st, i), [st EXCEPT !.bits = @ \cup {i}])
           /\ BitClear(st, i) \in Store
           /\ SameRoster(BitClear(st, i), [st EXCEPT !.bits = @ \ {i}])
<1>1. [st EXCEPT !.bits = @ \cup {i}] \in Store /\ [st EXCEPT !.bits = @ \ {i}] \in Store
  BY DEF Store
<1> QED
  BY Zenon, <1>1, SyncFields DEF BitSet, BitClear, SameRoster

(* The fields that writing a balance changes (SetEB).                      *)
LEMMA EBFields ==
    ASSUME NEW st \in Store, NEW i \in Indexes, NEW v \in 0 .. 255
    PROVE  /\ SetEB(st, i, v) \in Store
           /\ SameRoster(SetEB(st, i, v), [st EXCEPT !.eb = [@ EXCEPT ![i] = v]])
<1> DEFINE e == [st.eb EXCEPT ![i] = v]
<1>1. e \in EBMapType
  BY DEF EBMapType, Store
<1>2. [st EXCEPT !.eb = [@ EXCEPT ![i] = v]] = [st EXCEPT !.eb = e]
  OBVIOUS
<1> HIDE DEF e
<1>3. [st EXCEPT !.eb = e] \in Store
  BY <1>1, StoreIs
<1> QED
  BY Zenon, <1>2, <1>3, SyncFields DEF SetEB, SameRoster

(* Applying a row of a member changes nothing (admitMember).               *)
LEMMA AdmitAgain ==
    ASSUME NEW st, Sound(st), Balanced(st), NEW s \in Subjects, IsMember(st, s),
           NEW w \in Nat, w > 0
    PROVE  SameRoster(admitMember(st, s, w), st)
<1> DEFINE i == st.index[s]
<1>1. HasIndex(st, s) /\ i \in st.bits /\ i \in Indexes /\ st \in Store
  BY IndexBound DEF IsMember, BitIsSet, depositIndexOf, Sound
<1>2. st.eb[i] # NoEB
  BY <1>1 DEF Balanced, EBOf
<1>3. admitMember(st, s, w) = BitSet(st, i)
  BY <1>1, <1>2 DEF admitMember, AllocateIndex, depositIndexOf
<1>4. SameRoster(BitSet(st, i), [st EXCEPT !.bits = @ \cup {i}])
  BY Zenon, <1>1, BitFields
<1>5. st.bits \cup {i} = st.bits
  BY <1>1
<1> HIDE DEF i
<1> QED
  BY Zenon, <1>1, <1>3, <1>4, <1>5 DEF SameRoster, Store

(* What accepting the proof of a new subject writes: the row, the next     *)
(* slot, its balance and its bit (AcceptProof).                            *)
LEMMA AcceptFields ==
    ASSUME NEW st, StoreOK(st), NEW p \in Nat, NEW s \in Subjects, ~HasIndex(st, s),
           NEW w \in Nat, w > 0
    PROVE  LET row == [period |-> p, subject |-> s, accepted |-> TRUE, weight |-> w]
               c   == AcceptProof(st, p, s, w)
           IN  /\ st.next \in Indexes /\ st.next \notin st.bits
               /\ c.index = [st.index EXCEPT ![s] = st.next]
               /\ c.next = st.next + 1
               /\ c.bits = st.bits \cup {st.next}
               /\ c.eb = [st.eb EXCEPT ![st.next] = ebFromWeight(w)]
               /\ c.bonded \subseteq st.bonded \cup {row}
               /\ c.leave = st.leave
<1> DEFINE row == [period |-> p, subject |-> s, accepted |-> TRUE, weight |-> w]
           rows == {r \in st.bonded : ~(r.period = p /\ r.subject = s)} \cup {row}
           b == PutRow(st, row)
           I == [st.index EXCEPT ![s] = st.next]
           a == [b EXCEPT !.index = [@ EXCEPT ![s] = b.next], !.next = @ + 1]
           n == st.next
           v == ebFromWeight(w)
<1>1. st \in Store /\ n \in Indexes /\ n \in Nat
  BY RoomForOne DEF StoreOK, Sound, Store
<1>2. n \notin st.bits /\ st.eb[n] = NoEB
  <2>1. ~(n < n)
    BY <1>1
  <2> QED
    BY <1>1, <2>1 DEF StoreOK, Sound, SlotsOK
<1>3. b = [st EXCEPT !.bonded = rows] /\ rows \subseteq st.bonded \cup {row} /\ rows \in BondedType
  <2>1. row \in BondedRow
    BY DEF BondedRow
  <2>2. b = [st EXCEPT !.bonded = rows]
    BY DEF PutRow
  <2>3. st.bonded \subseteq BondedRow
    BY <1>1 DEF Store
  <2> HIDE DEF row, b
  <2> QED
    BY <2>1, <2>2, <2>3 DEF BondedType
<1> HIDE DEF rows
<1>4. /\ b \in Store /\ b.index = st.index /\ b.next = n /\ b.bits = st.bits /\ b.eb = st.eb
      /\ b.bonded = rows /\ b.leave = st.leave
  <2> HIDE DEF b
  <2> QED
    BY <1>1, <1>3, StoreIs
<1> HIDE DEF b
<1>5. /\ a \in Store /\ a.index = I /\ a.next = n + 1 /\ a.bits = st.bits /\ a.eb = st.eb
      /\ a.bonded = rows /\ a.leave = st.leave
  <2>1. I \in IndexType /\ n + 1 \in Nat
    BY <1>1 DEF IndexType, Store
  <2>2. a = [b EXCEPT !.index = I, !.next = n + 1]
    BY <1>4
  <2> HIDE DEF a, I, n
  <2> QED
    BY Zenon, <1>4, <2>1, <2>2, StoreIs
<1>6. AllocateIndex(b, s) = syncObjectRoots(a)
  BY Zenon, <1>4 DEF AllocateIndex, HasIndex, depositIndexOf
<1> DEFINE c == syncObjectRoots(a)
<1> HIDE DEF a
<1>7. /\ c \in Store /\ c.index = I /\ c.next = n + 1 /\ c.bits = st.bits /\ c.eb = st.eb
      /\ c.bonded = rows /\ c.leave = st.leave
  BY Zenon, <1>5, SyncFields
<1> HIDE DEF c
<1>8. c.index[s] = n
  BY <1>1, <1>7 DEF Store
<1>9. AcceptProof(st, p, s, w) = BitSet(SetEB(c, n, v), n)
  <2>1. AcceptProof(st, p, s, w) = admitMember(b, s, w)
    BY DEF AcceptProof, b
  <2> HIDE DEF v, n
  <2> QED
    BY Zenon, <1>2, <1>6, <1>7, <1>8, <2>1 DEF admitMember, depositIndexOf, c, v
<1>10. v \in 0 .. 255
  BY EBType
<1> DEFINE d == SetEB(c, n, v)
<1>11. /\ d \in Store /\ d.index = I /\ d.next = n + 1 /\ d.bits = st.bits
       /\ d.eb = [st.eb EXCEPT ![n] = v] /\ d.bonded = rows /\ d.leave = st.leave
  <2> HIDE DEF v, n, I
  <2>1. d \in Store /\ SameRoster(d, [c EXCEPT !.eb = [@ EXCEPT ![n] = v]])
    BY Zenon, <1>1, <1>7, <1>10, EBFields
  <2> HIDE DEF d
  <2> QED
    BY <1>7, <2>1 DEF SameRoster, Store
<1> HIDE DEF d
<1>12. SameRoster(BitSet(d, n), [d EXCEPT !.bits = @ \cup {n}])
  BY Zenon, <1>1, <1>11, BitFields
<1>13. /\ BitSet(d, n).index = I /\ BitSet(d, n).next = n + 1
       /\ BitSet(d, n).bits = st.bits \cup {n} /\ BitSet(d, n).eb = [st.eb EXCEPT ![n] = v]
       /\ BitSet(d, n).bonded = rows /\ BitSet(d, n).leave = st.leave
  <2> HIDE DEF v, n, I
  <2> QED
    BY Zenon, <1>11, <1>12 DEF SameRoster, Store
<1> QED
  BY Zenon, <1>1, <1>2, <1>3, <1>9, <1>13 DEF d

(* What a LEAV of a subject with a slot writes: its mark, and bit, balance *)
(* and row of the period gone (ApplyLeave).                                *)
LEMMA LeaveFields ==
    ASSUME NEW st, StoreOK(st), NEW p \in Nat, NEW s \in Subjects, HasIndex(st, s)
    PROVE  LET d == ApplyLeave(st, p, s)
           IN  /\ st.index[s] \in Indexes
               /\ d.index = st.index /\ d.next = st.next
               /\ d.bits = st.bits \ {st.index[s]}
               /\ d.eb = [st.eb EXCEPT ![st.index[s]] = 0]
               /\ d.bonded = {r \in st.bonded : ~(r.period = p /\ r.subject = s)}
               /\ d.leave = st.leave \cup {<<p, s>>}
<1> DEFINE L == st.leave \cup {<<p, s>>}
           B == {r \in st.bonded : ~(r.period = p /\ r.subject = s)}
           b == [st EXCEPT !.leave = L, !.bonded = B]
           i == st.index[s]
           c == BitClear(b, i)
<1>1. st \in Store /\ i \in Indexes
  BY IndexBound DEF StoreOK, Sound
<1>2. L \in LeaveType /\ B \in BondedType
  BY <1>1 DEF Store, LeaveType, BondedType
<1>3. ApplyLeave(st, p, s) = SetEB(c, i, 0)
  BY DEF ApplyLeave, depositIndexOf
<1> HIDE DEF L, B
<1>4. /\ b \in Store /\ b.index = st.index /\ b.next = st.next /\ b.bits = st.bits
      /\ b.eb = st.eb /\ b.bonded = B /\ b.leave = L
  BY Zenon, <1>1, <1>2, StoreIs
<1> HIDE DEF b, i
<1>5. c \in Store /\ SameRoster(c, [b EXCEPT !.bits = @ \ {i}])
  BY Zenon, <1>1, <1>4, BitFields
<1> HIDE DEF c
<1>6. /\ c.index = st.index /\ c.next = st.next /\ c.bits = st.bits \ {i}
      /\ c.eb = st.eb /\ c.bonded = B /\ c.leave = L
  BY <1>4, <1>5 DEF SameRoster, Store
<1>7. 0 \in 0 .. 255
  OBVIOUS
<1>8. SameRoster(SetEB(c, i, 0), [c EXCEPT !.eb = [@ EXCEPT ![i] = 0]])
  BY Zenon, <1>1, <1>5, <1>7, EBFields
<1> QED
  BY Zenon, <1>1, <1>3, <1>5, <1>6, <1>8 DEF SameRoster, Store, L, B, i

(* Accepting a proof makes its subject a member with the balance of its    *)
(* weight, keeps everyone else in or out, and keeps the roster sound.      *)
LEMMA AcceptRoster ==
    ASSUME NEW st, StoreOK(st), NEW p \in Nat, RosterOK(st, p), NEW s \in Subjects,
           ~HasIndex(st, s), NEW w \in Nat, w > 0
    PROVE  LET c == AcceptProof(st, p, s, w)
           IN  /\ RosterOK(c, p)
               /\ \A t \in Subjects : IsMember(c, t) <=> t = s \/ IsMember(st, t)
<1> DEFINE c == AcceptProof(st, p, s, w)
           n == st.next
           v == ebFromWeight(w)
           row == [period |-> p, subject |-> s, accepted |-> TRUE, weight |-> w]
<1>1. /\ n \in Indexes /\ n \notin st.bits
      /\ c.index = [st.index EXCEPT ![s] = n]
      /\ c.bits = st.bits \cup {n}
      /\ c.eb = [st.eb EXCEPT ![n] = v]
      /\ c.bonded \subseteq st.bonded \cup {row}
      /\ c.leave = st.leave
  BY AcceptFields
<1>2. v \in 0 .. 255 /\ v > 0
  BY DEF ebFromWeight
<1>3. row.subject = s /\ row.period <= p
  OBVIOUS
<1>4. /\ st \in Store /\ n # NoIndex
      /\ \A t \in Subjects : HasIndex(st, t) => st.index[t] # n
  <2>1. st \in Store /\ n \in Nat
    BY DEF StoreOK, Sound, Store
  <2>2. \A t \in Subjects : HasIndex(st, t) => st.index[t] \in Indexes /\ st.index[t] < n
    BY Zenon, IndexBound DEF StoreOK
  <2> QED
    BY <2>1, <2>2, SubjectsFinite DEF NoIndex, Indexes
<1> HIDE DEF c, v, n, row
<1>5. \A t \in Subjects : c.index[t] = IF t = s THEN n ELSE st.index[t]
  BY <1>1, <1>4 DEF Store
<1>6. \A t \in Subjects : HasIndex(c, t) <=> t = s \/ HasIndex(st, t)
  BY Zenon, <1>4, <1>5 DEF HasIndex, depositIndexOf
<1>7. \A t \in Subjects : IsMember(c, t) <=> t = s \/ IsMember(st, t)
  BY Zenon, <1>1, <1>4, <1>5, <1>6 DEF IsMember, BitIsSet, depositIndexOf, HasIndex
<1>8. Balanced(c)
  <2> SUFFICES ASSUME NEW i \in c.bits PROVE EBOf(c, i) > 0
    BY Zenon DEF Balanced
  <2>1. st.bits \subseteq Indexes /\ st.eb \in [Indexes -> (0 .. 255) \cup {NoEB}]
    BY Zenon, <1>4 DEF Store
  <2>2. CASE i = n
    BY <1>1, <1>2, <2>1, <2>2 DEF EBOf, NoEB
  <2>3. CASE i \in st.bits
    <3>1. c.eb[i] = st.eb[i]
      BY <1>1, <2>1, <2>3
    <3> QED
      BY Zenon, <2>3, <3>1 DEF EBOf, RosterOK, Balanced
  <2> QED
    BY Zenon, <1>1, <2>2, <2>3
<1>9. RowsOfMembers(c, p)
  <2> SUFFICES ASSUME NEW r \in c.bonded
               PROVE  /\ r.period <= p
                      /\ r.accepted /\ r.weight > 0 /\ r.period = p => IsMember(c, r.subject)
    BY DEF RowsOfMembers
  <2>1. CASE r = row
    BY <1>3, <1>7, <2>1
  <2>2. CASE r \in st.bonded
    BY Zenon, <1>4, <1>7, <2>2 DEF RosterOK, RowsOfMembers, Store, BondedRow
  <2> QED
    BY <1>1, <2>1, <2>2
<1>10. LeftForGood(c)
  <2> SUFFICES ASSUME NEW l \in c.leave PROVE HasIndex(c, l[2]) /\ ~IsMember(c, l[2])
    BY DEF LeftForGood
  <2>1. l \in st.leave /\ l[2] \in Subjects
    BY <1>1, <1>4 DEF Store
  <2>2. HasIndex(st, l[2]) /\ ~IsMember(st, l[2])
    BY <2>1 DEF RosterOK, LeftForGood
  <2>3. l[2] # s
    BY <2>2
  <2> QED
    BY <1>6, <1>7, <2>1, <2>2, <2>3
<1> QED
  BY Zenon, <1>7, <1>8, <1>9, <1>10 DEF RosterOK, c

(* A LEAV takes its subject, and nobody else, off the roster, and keeps    *)
(* the roster sound.                                                       *)
LEMMA LeaveRoster ==
    ASSUME NEW st, StoreOK(st), NEW p \in Nat, RosterOK(st, p), NEW s \in Subjects,
           HasIndex(st, s)
    PROVE  LET d == ApplyLeave(st, p, s)
           IN  /\ RosterOK(d, p)
               /\ \A t \in Subjects : IsMember(d, t) <=> t # s /\ IsMember(st, t)
<1> DEFINE d == ApplyLeave(st, p, s)
           i == st.index[s]
<1>1. /\ i \in Indexes /\ d.index = st.index /\ d.bits = st.bits \ {i}
      /\ d.eb = [st.eb EXCEPT ![i] = 0]
      /\ d.bonded = {r \in st.bonded : ~(r.period = p /\ r.subject = s)}
      /\ d.leave = st.leave \cup {<<p, s>>}
  BY LeaveFields
<1>2. st \in Store /\ \A t \in Subjects : HasIndex(st, t) /\ st.index[t] = i => t = s
  BY DEF StoreOK, Sound, SlotsOK
<1> HIDE DEF d
<1>3. \A t \in Subjects : HasIndex(d, t) <=> HasIndex(st, t)
  BY <1>1 DEF HasIndex, depositIndexOf
<1>4. \A t \in Subjects : IsMember(d, t) <=> t # s /\ IsMember(st, t)
  BY <1>1, <1>2, <1>3 DEF IsMember, BitIsSet, depositIndexOf
<1> HIDE DEF i
<1>5. Balanced(d)
  <2> SUFFICES ASSUME NEW j \in d.bits PROVE EBOf(d, j) > 0
    BY DEF Balanced
  <2>1. st.bits \subseteq Indexes /\ st.eb \in [Indexes -> (0 .. 255) \cup {NoEB}]
    BY Zenon, <1>2 DEF Store
  <2>2. j \in st.bits /\ d.eb[j] = st.eb[j]
    BY <1>1, <2>1
  <2> QED
    BY <2>2 DEF EBOf, RosterOK, Balanced
<1>6. RowsOfMembers(d, p)
  <2> SUFFICES ASSUME NEW r \in d.bonded
               PROVE  /\ r.period <= p
                      /\ r.accepted /\ r.weight > 0 /\ r.period = p => IsMember(d, r.subject)
    BY Zenon DEF RowsOfMembers
  <2>1. r \in st.bonded /\ r.subject \in Subjects /\ (r.period = p => r.subject # s)
    BY <1>1, <1>2 DEF Store, BondedRow
  <2> QED
    BY <1>4, <2>1 DEF RosterOK, RowsOfMembers
<1>7. LeftForGood(d)
  <2> SUFFICES ASSUME NEW l \in d.leave PROVE HasIndex(d, l[2]) /\ ~IsMember(d, l[2])
    BY DEF LeftForGood
  <2>1. CASE l = <<p, s>>
    BY Zenon, <1>3, <1>4, <2>1
  <2>2. CASE l \in st.leave
    <3>1. l[2] \in Subjects
      BY <1>2, <2>2 DEF Store
    <3> QED
      BY Zenon, <1>3, <1>4, <2>2, <3>1 DEF RosterOK, LeftForGood
  <2> QED
    BY Zenon, <1>1, <2>1, <2>2
<1> QED
  BY Zenon, <1>4, <1>5, <1>6, <1>7 DEF RosterOK, d

(* A non-empty set of numbers has a least element.                         *)
LEMMA Least ==
    ASSUME NEW S \in SUBSET Nat, S # {}
    PROVE  \E x \in S : \A y \in S : x <= y
<1>1. PICK x \in S : \A y \in S : ~(<<y, x>> \in OpToRel(<, Nat))
  BY Zenon, WFMin, NatLessThanWellFounded
<1>2. ASSUME NEW y \in S, y < x
      PROVE  FALSE
  <2>1. <<y, x>> \in Nat \X Nat /\ <<y, x>>[1] = y /\ <<y, x>>[2] = x
    OBVIOUS
  <2>2. <<y, x>> \in OpToRel(<, Nat)
    BY <1>2, <2>1 DEF OpToRel
  <2> QED
    BY Zenon, <1>1, <2>2
<1> QED
  BY <1>2

(* A non-empty set of earlier periods has a last one (LastOf).             *)
LEMMA LastIn ==
    ASSUME NEW p \in Nat, NEW S \in SUBSET (0 .. p), S # {}
    PROVE  LastOf(S) \in S
<1> DEFINE T == {p - x : x \in S}
<1>1. T \in SUBSET Nat /\ T # {}
  <2>1. \A x \in S : p - x \in Nat
    OBVIOUS
  <2>2. PICK x : x \in S
    OBVIOUS
  <2>3. p - x \in T
    BY <2>2
  <2> QED
    BY <2>1, <2>3
<1>2. PICK z \in T : \A y \in T : z <= y
  <2> HIDE DEF T
  <2> QED
    BY <1>1, Least
<1>3. PICK x \in S : z = p - x
  OBVIOUS
<1>4. \A y \in S : p - x <= p - y
  BY <1>2, <1>3
<1>5. \A y \in S : y <= x
  BY <1>4
<1> QED
  BY <1>5 DEF LastOf

(* When there is a bonded view to carry it has rows, and afterwards so has *)
(* the period it was carried into (BondedSetOrCarry).                      *)
LEMMA CarryFills ==
    ASSUME NEW st, StoreOK(st), NEW p \in Nat,
           ~(BondedSet(st, p) # {} \/ PriorPeriods(st, p) = {})
    PROVE  /\ BondedSet(st, LastOf(PriorPeriods(st, p))) # {}
           /\ BondedSet(BondedSetOrCarry(st, p), p) # {}
<1> DEFINE prev == BondedSet(st, LastOf(PriorPeriods(st, p)))
<1>1. st \in Store /\ st.bonded \subseteq BondedRow
  BY DEF StoreOK, Sound, Store
<1>2. PriorPeriods(st, p) \in SUBSET (0 .. p) /\ PriorPeriods(st, p) # {}
  BY <1>1 DEF PriorPeriods, BondedRow
<1>3. prev # {} /\ prev \subseteq st.bonded
  BY Zenon, <1>2, LastIn DEF PriorPeriods, BondedSet
<1> HIDE DEF prev
<1> DEFINE clone == {[r EXCEPT !.period = p, !.weight = RowWeight(r)] : r \in prev}
<1>4. PICK B, E : BondedSetOrCarry(st, p)
                    = syncObjectRoots([st EXCEPT !.bonded = @ \cup clone, !.bits = B, !.eb = E])
  BY Zenon DEF BondedSetOrCarry, prev
<1>5. PICK r \in prev : TRUE
  BY <1>3
<1>6. [r EXCEPT !.period = p, !.weight = RowWeight(r)].period = p
  BY <1>1, <1>3 DEF BondedRow
<1>7. [r EXCEPT !.period = p, !.weight = RowWeight(r)] \in BondedSetOrCarry(st, p).bonded
  <2>1. [r EXCEPT !.period = p, !.weight = RowWeight(r)] \in clone
    BY Zenon
  <2> HIDE DEF clone
  <2>2. BondedSetOrCarry(st, p).bonded = st.bonded \cup clone
    BY Zenon, <1>1, <1>4 DEF syncObjectRoots, Store
  <2> QED
    BY <2>1, <2>2
<1> QED
  BY Zenon, <1>3, <1>6, <1>7 DEF BondedSet, prev

(* Carrying the bonded view into an empty roster without raising anybody   *)
(* back onto it adds rows without weight and nothing else, and a second    *)
(* time nothing at all (BondedSetOrCarry).                                 *)
LEMMA CarryQuiet ==
    ASSUME NEW st, StoreOK(st), NEW p \in Nat, RosterOK(st, p),
           DebugSubjectsFromBits(st) = {}, BondedSetOrCarry(st, p).bits = st.bits
    PROVE  LET c == BondedSetOrCarry(st, p)
           IN  /\ c.index = st.index /\ c.next = st.next /\ c.bits = st.bits /\ c.eb = st.eb
               /\ c.leave = st.leave /\ c.roots = st.roots
               /\ RosterOK(c, p)
               /\ BondedSetOrCarry(c, p) = c
               /\ \A r \in BondedSet(c, p) : RowWeight(r) = 0
<1>1. st \in Store /\ st.bonded \subseteq BondedRow
  BY Zenon DEF StoreOK, Sound, Store
<1>2. \A r \in st.bonded : r.period = p => RowWeight(r) = 0
  BY <1>1 DEF RosterOK, RowsOfMembers, DebugSubjectsFromBits, RowWeight, BondedRow
<1>3. CASE BondedSet(st, p) # {} \/ PriorPeriods(st, p) = {}
  <2>1. BondedSetOrCarry(st, p) = st
    BY Zenon, <1>3 DEF BondedSetOrCarry
  <2> QED
    BY Zenon, <1>2, <2>1 DEF BondedSet
<1>4. CASE ~(BondedSet(st, p) # {} \/ PriorPeriods(st, p) = {})
  <2> DEFINE last    == LastOf(PriorPeriods(st, p))
             prev    == BondedSet(st, last)
             admits  == {r \in prev : r.accepted /\ r.weight > 0}
             indexOf == [r \in admits |-> depositIndexOf(st, r.subject)]
             clone   == {[r EXCEPT !.period = p, !.weight = RowWeight(r)] : r \in prev}
             rows == st.bonded \cup clone
             bits == st.bits \cup {indexOf[r] : r \in admits}
             eb == [i \in Indexes |->
                      IF st.eb[i] = NoEB /\ \E r \in admits : indexOf[r] = i
                      THEN ebFromWeight((CHOOSE r \in admits : indexOf[r] = i).weight)
                      ELSE st.eb[i]]
             b == [st EXCEPT !.bonded = rows, !.bits = bits, !.eb = eb]
             c == syncObjectRoots(b)
  <2>1. BondedSetOrCarry(st, p) = c
    BY <1>4 DEF BondedSetOrCarry
  <2>3. prev # {} /\ prev \subseteq st.bonded
    BY <1>4, CarryFills DEF BondedSet
  <2> HIDE DEF last, prev
  <2>4. c.bits = bits
    BY <1>1 DEF syncObjectRoots, Store
  <2>5. admits = {}
    <3> SUFFICES ASSUME NEW r \in admits PROVE FALSE
      OBVIOUS
    <3>1. r \in st.bonded /\ r.accepted /\ r.subject \in Subjects
      BY Zenon, <1>1, <2>3 DEF BondedRow
    <3>2. HasIndex(st, r.subject)
      BY <3>1 DEF StoreOK, RowsIndexed
    <3>3. st.index[r.subject] \in st.bits
      <4>1. indexOf[r] \in bits
        OBVIOUS
      <4>2. indexOf[r] = st.index[r.subject]
        BY DEF depositIndexOf
      <4> HIDE DEF indexOf, bits, c
      <4> QED
        BY Zenon, <2>1, <2>4, <4>1, <4>2
    <3> QED
      BY Zenon, <3>1, <3>2, <3>3 DEF DebugSubjectsFromBits, IsMember, BitIsSet, depositIndexOf
  <2>6. bits = st.bits
    BY Zenon, <2>5
  <2>7. eb = st.eb
    <3>1. eb = [i \in Indexes |-> st.eb[i]]
      BY <2>5
    <3> HIDE DEF eb
    <3> QED
      BY Zenon, <1>1, <3>1 DEF Store
  <2>8. /\ \A r \in prev : [r EXCEPT !.period = p, !.weight = RowWeight(r)] \in BondedRow
        /\ \A r \in prev : RowWeight(r) = 0
    <3>1. \A r \in prev : r \in BondedRow
      BY Zenon, <1>1, <2>3
    <3>2. \A r \in prev : RowWeight(r) = 0
      BY <2>5, <3>1 DEF RowWeight, BondedRow
    <3> QED
      BY Zenon, <3>1, <3>2, CarryRow
  <2>9. /\ clone # {} /\ clone \subseteq BondedRow
        /\ \A r \in clone : r.period = p /\ r.weight = 0
    <3>1. \A r \in prev : LET x == [r EXCEPT !.period = p, !.weight = RowWeight(r)]
                          IN  x.period = p /\ x.weight = 0
      BY Zenon, <1>1, <2>3, <2>8 DEF BondedRow
    <3> QED
      BY Zenon, <2>3, <2>8, <3>1
  <2> HIDE DEF clone
  <2>10. b = [st EXCEPT !.bonded = rows, !.bits = st.bits, !.eb = st.eb] /\ rows \in BondedType
    BY Zenon, <1>1, <2>6, <2>7, <2>9 DEF BondedType
  <2> HIDE DEF b, rows, bits, eb
  <2>11. /\ b \in Store /\ b.index = st.index /\ b.next = st.next /\ b.bits = st.bits
         /\ b.eb = st.eb /\ b.leave = st.leave /\ b.bonded = rows /\ b.roots = st.roots
    BY Zenon, <1>1, <2>10, StoreIs
  <2>12. ObjectRoots(b) = st.roots
    <3>1. \A i : EBOf(b, i) = EBOf(st, i)
      BY Zenon, <2>11 DEF EBOf
    <3> QED
      BY Zenon, <2>11, <3>1 DEF ObjectRoots, StoreOK, Current
  <2>13. /\ c.index = st.index /\ c.next = st.next /\ c.bits = st.bits
         /\ c.eb = st.eb /\ c.leave = st.leave /\ c.bonded = rows /\ c.roots = st.roots
    BY Zenon, <2>11, <2>12, SyncFields
  <2> HIDE DEF c
  <2>14. \A s : (IsMember(c, s) <=> IsMember(st, s)) /\ (HasIndex(c, s) <=> HasIndex(st, s))
    BY <2>13 DEF IsMember, HasIndex, BitIsSet, depositIndexOf
  <2>15. BondedSet(c, p) # {} /\ \A r \in BondedSet(c, p) : RowWeight(r) = 0
    BY <1>2, <2>9, <2>13 DEF BondedSet, rows, RowWeight
  <2>16. RowsOfMembers(c, p)
    <3> SUFFICES ASSUME NEW r \in rows
                 PROVE  /\ r.period <= p
                        /\ r.accepted /\ r.weight > 0 /\ r.period = p => IsMember(c, r.subject)
      BY <2>13 DEF RowsOfMembers
    <3>1. CASE r \in st.bonded
      BY Zenon, <3>1, <2>14 DEF RosterOK, RowsOfMembers
    <3>2. CASE r \in clone
      BY <3>2, <2>9
    <3> QED
      BY <3>1, <3>2 DEF rows
  <2>17. Balanced(c) /\ LeftForGood(c)
    BY Zenon, <2>13, <2>14 DEF RosterOK, Balanced, LeftForGood, EBOf
  <2>18. BondedSetOrCarry(c, p) = c
    BY Zenon, <2>15 DEF BondedSetOrCarry
  <2> QED
    BY Zenon, <2>1, <2>13, <2>15, <2>16, <2>17, <2>18 DEF RosterOK
<1> QED
  BY Zenon, <1>3, <1>4

(* A block later, in the same period or the next, the roster is as sound.  *)
LEMMA RosterLater ==
    ASSUME NEW st, StoreOK(st), NEW p \in Nat, RosterOK(st, p), NEW p2 \in {p, p + 1}
    PROVE  RosterOK(st, p2)
<1>1. \A r \in st.bonded : r.period \in Nat
  BY DEF StoreOK, Sound, Store, BondedRow
<1> QED
  BY <1>1 DEF RosterOK, RowsOfMembers

(* Powers and roots aside, ending a block changes nothing, and the members *)
(* with a 32-byte name are those with power (ValidatorUpdates).            *)
LEMMA UpdatesFollow ==
    ASSUME NEW st, StoreOK(st), Balanced(st)
    PROVE  /\ SameRoster(st, ValidatorUpdates(st))
           /\ \A s \in Pubkeys : ValidatorUpdates(st).power[s] > 0 <=> IsMember(ValidatorUpdates(st), s)
<1>1. st \in Store
  BY DEF StoreOK, Sound
<1>2. SameRoster(st, ValidatorUpdates(st))
  BY Zenon, <1>1 DEF ValidatorUpdates, SameRoster, Store
<1>3. ASSUME NEW s \in Pubkeys
      PROVE  ValidatorUpdates(st).power[s] > 0 <=> IsMember(ValidatorUpdates(st), s)
  <2>1. s \in Subjects
    BY SubjectsAssumption
  <2>2. IsMember(ValidatorUpdates(st), s) <=> IsMember(st, s)
    BY <1>2 DEF SameRoster, IsMember, HasIndex, BitIsSet, depositIndexOf
  <2>3. ValidatorUpdates(st).power[s] = IF IsMember(st, s) THEN NextPower(st, s) ELSE 0
    BY <1>1, <2>1 DEF ValidatorUpdates, Store
  <2>4. IsMember(st, s) => NextPower(st, s) > 0
    <3> SUFFICES ASSUME IsMember(st, s) PROVE NextPower(st, s) > 0
      OBVIOUS
    <3>1. st.power[s] \in Nat
      BY Zenon, <1>1, <2>1 DEF Store
    <3>2. st.index[s] \in Indexes /\ st.index[s] \in st.bits
      BY Zenon, <2>1, IndexBound DEF StoreOK, IsMember, BitIsSet, depositIndexOf
    <3>3. BitWeight(st, s) \in Nat /\ BitWeight(st, s) > 0
      BY <1>1, <3>2 DEF Balanced, BitWeight, EBOf, depositIndexOf, Store, NoEB
    <3> QED
      BY <3>1, <3>3 DEF NextPower
  <2> QED
    BY <2>2, <2>3, <2>4
<1> QED
  BY <1>2, <1>3
=============================================================================
