------------------------------ MODULE LeanStore ------------------------------
(***************************************************************************)
(* The leanval store (x/leanval/keeper): deposit indices, participation    *)
(* bits, effective balances, the per-period bonded view, pending leaves,   *)
(* the committed object roots and the last Comet powers, with the keeper's *)
(* operations on them as operators from a store to a store.                *)
(*                                                                         *)
(* Subjects are numbers: their order is the byte order of the keys, which  *)
(* is all that the code uses of a key besides its length.                  *)
(***************************************************************************)
EXTENDS Integers, FiniteSets

CONSTANTS Subjects,      \* the names that can ever be a member
          Pubkeys        \* those that are 32 bytes long, so can carry power

(* A JOIN may name a subject of any length; only 32-byte ones get power.   *)
(* 0 is kept for the 5-byte placeholder row of an empty LNPR.              *)
ASSUME SubjectsAssumption ==
    /\ IsFiniteSet(Subjects)
    /\ Subjects \subseteq Nat \ {0}
    /\ Pubkeys \subseteq Subjects

NoIndex == -1            \* no DepositIndexKey(subject)
NoEB    == -1            \* no EBKey(index)

(* At most one index per subject, so no more indices than subjects.        *)
Indexes == 0 .. (Cardinality(Subjects) - 1)

BondedRow == [period : Nat, subject : Subjects, accepted : BOOLEAN, weight : Nat]

Roots == [bitfield : SUBSET Indexes,
          deposit  : [Subjects -> Indexes \cup {NoIndex}],
          eb       : [Indexes -> 0 .. 255]]

Store == [index  : [Subjects -> Indexes \cup {NoIndex}],   \* DepositIndexKey
          next   : Nat,                                    \* NextDepositIndexKey
          bits   : SUBSET Indexes,                         \* BitfieldKey
          eb     : [Indexes -> (0 .. 255) \cup {NoEB}],    \* EBKey
          bonded : SUBSET BondedRow,                       \* BondedKey
          leave  : SUBSET (Nat \X Subjects),               \* PendingLeaveKey
          roots  : Roots,                                  \* ObjectRootsKey
          power  : [Subjects -> Nat]]                      \* LastPowerKey

-----------------------------------------------------------------------------
(* Reading the store.                                                      *)

depositIndexOf(st, s) == st.index[s]

HasIndex(st, s) == depositIndexOf(st, s) # NoIndex

BitIsSet(st, i) == i \in st.bits

EBOf(st, i) == IF st.eb[i] = NoEB THEN 0 ELSE st.eb[i]

IsMember(st, s) == HasIndex(st, s) /\ BitIsSet(st, depositIndexOf(st, s))

(* The subjects behind the set bits.                                       *)
DebugSubjectsFromBits(st) == {s \in Subjects : IsMember(st, s)}

(* The weight such a row carries: the EB byte.                             *)
BitWeight(st, s) == EBOf(st, depositIndexOf(st, s))

(* A Merkle root is the content it commits to.  The bitfield root covers   *)
(* the bits, the deposit root which subject sits at which index, the EB    *)
(* root the balance at each index (0 where the key is absent).             *)
ObjectRoots(st) == [bitfield |-> st.bits,
                    deposit  |-> st.index,
                    eb       |-> [i \in Indexes |-> EBOf(st, i)]]

-----------------------------------------------------------------------------
(* Writing it.  Every writer of the bitfield, the index or the EB tree     *)
(* ends by committing the roots again.                                     *)

syncObjectRoots(st) == [st EXCEPT !.roots = ObjectRoots(st)]

BitSet(st, i) == syncObjectRoots([st EXCEPT !.bits = @ \cup {i}])

BitClear(st, i) == syncObjectRoots([st EXCEPT !.bits = @ \ {i}])

(* Mutant: the roots are not committed after the write.                    *)
SetEBUnsynced(st, i, b) == [st EXCEPT !.eb = [@ EXCEPT ![i] = b]]

SetEB(st, i, b) == syncObjectRoots([st EXCEPT !.eb = [@ EXCEPT ![i] = b]])

(* Mutant: next is not advanced.                                           *)
AllocateFresh(st, s) ==
    IF HasIndex(st, s) THEN st
    ELSE syncObjectRoots([st EXCEPT !.index = [@ EXCEPT ![s] = st.next]])

AllocateIndex(st, s) ==
    IF HasIndex(st, s) THEN st
    ELSE syncObjectRoots([st EXCEPT !.index = [@ EXCEPT ![s] = st.next], !.next = @ + 1])

(* Mutant: no cap at a byte.                                               *)
ebFromWeightUncapped(w) == IF w <= 0 THEN 0 ELSE w

ebFromWeight(w) == IF w <= 0 THEN 0 ELSE IF w > 255 THEN 255 ELSE w

(* An EB byte that is already there is kept, so a subject whose balance    *)
(* was zeroed by a LEAV would come back with balance 0.                    *)
admitMember(st, s, w) ==
    LET a == AllocateIndex(st, s)
        i == depositIndexOf(a, s)
        b == IF a.eb[i] = NoEB THEN SetEB(a, i, ebFromWeight(w)) ELSE a
    IN  IF w > 0 THEN BitSet(b, i) ELSE a

PutRow(st, row) ==
    [st EXCEPT !.bonded =
        {r \in @ : ~(r.period = row.period /\ r.subject = row.subject)} \cup {row}]

AcceptProof(st, p, s, w) ==
    admitMember(
        PutRow(st, [period |-> p, subject |-> s, accepted |-> TRUE, weight |-> w]),
        s, w)

(* The index is kept and the balance zeroed: a subject that left keeps its *)
(* deposit slot for ever.                                                  *)
ApplyLeave(st, p, s) ==
    LET marked == [st EXCEPT !.leave  = @ \cup {<<p, s>>},
                             !.bonded = {r \in @ : ~(r.period = p /\ r.subject = s)}]
        i == depositIndexOf(st, s)
    IN  IF HasIndex(st, s) THEN SetEB(BitClear(marked, i), i, 0) ELSE marked

-----------------------------------------------------------------------------
(* The bonded view.                                                        *)

BondedSet(st, p) == {r \in st.bonded : r.period = p}

RowWeight(r) == IF r.accepted THEN r.weight ELSE 0

(* The most recent earlier period that has rows, if any.                   *)
PriorPeriods(st, p) == {r.period : r \in {x \in st.bonded : x.period < p}}

LastOf(S) == CHOOSE x \in S : \A y \in S : y <= x

(* Clone the last non-empty period into an empty one.  Every accepted row  *)
(* was written by AcceptProof, so its subject already has an index and the *)
(* cloning allocates none: it adds the rows, sets the bits and fills the   *)
(* balances that are absent.                                               *)
BondedSetOrCarry(st, p) ==
    IF BondedSet(st, p) # {} \/ PriorPeriods(st, p) = {} THEN st
    ELSE LET prev    == BondedSet(st, LastOf(PriorPeriods(st, p)))
             admits  == {r \in prev : r.accepted /\ r.weight > 0}
             indexOf == [r \in admits |-> depositIndexOf(st, r.subject)]
         IN  syncObjectRoots(
                [st EXCEPT
                   !.bonded = @ \cup {[r EXCEPT !.period = p, !.weight = RowWeight(r)] : r \in prev},
                   !.bits   = @ \cup {indexOf[r] : r \in admits},
                   !.eb     = [i \in Indexes |->
                                 IF @[i] = NoEB /\ \E r \in admits : indexOf[r] = i
                                 THEN ebFromWeight((CHOOSE r \in admits : indexOf[r] = i).weight)
                                 ELSE @[i]]])

hasBondedOrPrior(st, p) == \E r \in st.bonded : r.period <= p

-----------------------------------------------------------------------------
(* Comet power from the set bits and the EB tree.  A subject first         *)
(* admitted while a live set exists gets power 1, no power is ever raised, *)
(* and whoever has no bit any more is zeroed.  Bits are in use as soon as  *)
(* one index is allocated, which genesis does.                             *)

LiveSet(st) == {s \in Pubkeys : IsMember(st, s) /\ st.power[s] > 0}

(* Mutant: a member's power follows its balance.                           *)
NextPowerFollows(st, s) ==
    IF st.power[s] = 0 /\ LiveSet(st) # {} THEN 1 ELSE BitWeight(st, s)

NextPower(st, s) ==
    LET w == BitWeight(st, s)
        prev == st.power[s]
    IN  CASE w = 0                                -> prev
          [] w > 0 /\ prev = 0                    -> IF LiveSet(st) # {} THEN 1 ELSE w
          [] w > 0 /\ prev > 0                    -> IF w < prev THEN w ELSE prev

(* Mutant: whoever has no bit is not zeroed.                               *)
ValidatorUpdatesKeep(st) ==
    [st EXCEPT !.power = [s \in Subjects |->
        IF s \in Pubkeys /\ IsMember(st, s) THEN NextPower(st, s) ELSE st.power[s]]]

ValidatorUpdates(st) ==
    [st EXCEPT !.power = [s \in Subjects |->
        IF s \in Pubkeys /\ IsMember(st, s) THEN NextPower(st, s) ELSE 0]]

-----------------------------------------------------------------------------
(* What every operation keeps of a store.                                  *)

(* Deposit slots: no two subjects share an index, exactly the indices      *)
(* below next are given out, and no bit or balance lies beyond them        *)
(* (AllocateIndex, BitSet, SetEB).                                         *)
SlotsOK(st) ==
    /\ \A s, t \in Subjects : HasIndex(st, s) /\ st.index[s] = st.index[t] => s = t
    /\ \A s \in Subjects : HasIndex(st, s) => st.index[s] < st.next
    /\ st.next = Cardinality({s \in Subjects : HasIndex(st, s)})
    /\ \A i \in Indexes : i \in st.bits \/ st.eb[i] # NoEB => i < st.next

(* An accepted row was written together with an index (AcceptProof), so    *)
(* carrying it forward finds one.                                          *)
RowsIndexed(st) == \A r \in st.bonded : r.accepted => HasIndex(st, r.subject)
=============================================================================
