------------------------------- MODULE LeanVal -------------------------------
(***************************************************************************)
(* One replica of the leanval keeper: its membership queue, the roster     *)
(* proof (LNPR) a proposer builds from its own queue and the committed     *)
(* store, the check every replica runs on it, and the application of the   *)
(* decided LNPR row by row in FinalizeBlock, with crashes at every point.  *)
(*                                                                         *)
(* Blocks are proposed by this replica from its own queue, or by another   *)
(* replica from a queue of which nothing is known.  Consensus is external: *)
(* a block is decided only if the check accepts its LNPR.  The height      *)
(* enters only through the period, so a committed block either stays in    *)
(* the period or is the last one of it.                                    *)
(***************************************************************************)
EXTENDS LeanStore, Sequences

CONSTANTS Genesis,              \* genesis subjects of positive weight, in file order
          GenesisWeight,        \* their weights
          Watched,              \* genesis subjects of weight 0
          JoinTxs, LeaveTxs,    \* the membership transactions clients may send
          FoldAvailable,        \* lean-stwo-fold runs on the proposers' hosts
          ProverAvailable,      \* lean-valset-air runs on the proposers' hosts
          AllowDummy,           \* Dummy proofs accepted (CometBFT development mode)
          PersistEnabled,       \* membership files are written
          OwnsValset,           \* leanval decides the Comet validator set
          MaxRawStarksPerLNPR,  \* cap on proofs in one LNPR (8 in the code)
          MaxPeriod             \* bound: the last period that is explored

Placeholder == 0
NoBlock     == [period |-> -1]

NoProof == [kind |-> "none"]
Fold(roots)         == [kind |-> "fold", roots |-> roots]
Stwo(p, i, b)       == [kind |-> "stwo", period |-> p, index |-> i, eb |-> b]
Dummy(p, s, w, roots) ==
    [kind |-> "dummy", period |-> p, subject |-> s, weight |-> w, roots |-> roots]

ASSUME LeanValAssumption ==
    /\ Genesis \in Seq(Subjects) /\ Genesis # << >>
    /\ \A i, j \in DOMAIN Genesis : Genesis[i] = Genesis[j] => i = j
    /\ GenesisWeight \in [Subjects -> Nat \ {0}]
    /\ Watched \subseteq Subjects
    /\ \A i \in DOMAIN Genesis : Genesis[i] \notin Watched
    /\ \A j \in JoinTxs : /\ j.type = "JOIN" /\ j.subject \in Subjects
                          /\ j.weight \in Nat \ {0}
    /\ \A l \in LeaveTxs : l.type = "LEAV" /\ l.subject \in Subjects
    /\ FoldAvailable \in BOOLEAN /\ ProverAvailable \in BOOLEAN
    /\ AllowDummy \in BOOLEAN /\ PersistEnabled \in BOOLEAN /\ OwnsValset \in BOOLEAN
    /\ MaxRawStarksPerLNPR \in Nat \ {0}
    /\ MaxPeriod \in Nat

Txs == JoinTxs \cup LeaveTxs
IsJoin(t) == t \in JoinTxs

VARIABLES store,    \* the committed store
          work,     \* the store of the FinalizeBlock context
          period,   \* period of the next block
          block,    \* the decided LNPR that is not committed yet
          phase,    \* "idle", "decided" or "apply"
          todo,     \* subjects of the decided LNPR not applied yet
          mem,      \* membershipQ.txs
          files,    \* the membership directory
          noting,   \* the transaction past NoteMembershipTx's index check, if any
          bound     \* BindContext was called since the process started

vars == <<store, work, period, block, phase, todo, mem, files, noting, bound>>

-----------------------------------------------------------------------------
(* Genesis.                                                                *)

NoRoots == [bitfield |-> {}, deposit |-> [s \in Subjects |-> NoIndex],
            eb |-> [i \in Indexes |-> 0]]

GenesisSubjects == {Genesis[i] : i \in DOMAIN Genesis}
GenesisIndex(s) == (CHOOSE i \in DOMAIN Genesis : Genesis[i] = s) - 1

(* AcceptProof(0, s, w) for each subject of positive weight in file order, *)
(* PutSubject(0, s, 0) for the others.                                     *)
GenesisStore ==
    [index  |-> [s \in Subjects |->
                   IF s \in GenesisSubjects THEN GenesisIndex(s) ELSE NoIndex],
     next   |-> Len(Genesis),
     bits   |-> {GenesisIndex(s) : s \in GenesisSubjects},
     eb     |-> [i \in Indexes |->
                   IF i < Len(Genesis)
                   THEN ebFromWeight(GenesisWeight[Genesis[i + 1]]) ELSE NoEB],
     bonded |-> {[period |-> 0, subject |-> s, accepted |-> TRUE,
                  weight |-> GenesisWeight[s]] : s \in GenesisSubjects}
                \cup {[period |-> 0, subject |-> s, accepted |-> FALSE,
                       weight |-> 0] : s \in Watched},
     leave  |-> {},
     roots  |-> NoRoots,
     power  |-> [s \in Subjects |-> 0]]

(* Then, on a chain that owns its validator set, the first                 *)
(* ValidatorUpdates.                                                       *)
InitGenesis ==
    LET synced == syncObjectRoots(GenesisStore)
    IN  IF OwnsValset THEN ValidatorUpdates(synced) ELSE synced

-----------------------------------------------------------------------------
(* Building the LNPR.  The rows of a blob are a function on its subjects:  *)
(* the builder sorts them and lists none twice, so the order of the rows   *)
(* is the order of the subjects.                                           *)

(* The store after the roster was read: when no bit is set, reading it     *)
(* carries the bonded view forward, which writes.                          *)
AfterRosterRead(st, p) ==
    IF DebugSubjectsFromBits(st) # {} THEN st ELSE BondedSetOrCarry(st, p)

(* The roster and the weight of each of its subjects.                      *)
Roster(st, p) ==
    IF DebugSubjectsFromBits(st) # {}
    THEN [s \in DebugSubjectsFromBits(st) |-> BitWeight(st, s)]
    ELSE LET rows == BondedSet(BondedSetOrCarry(st, p), p)
         IN  [s \in {r.subject : r \in rows} |->
                 RowWeight(CHOOSE r \in rows : r.subject = s)]

knownSubjectSet(st, p) == DOMAIN Roster(st, p)

(* Position of s when the subjects of S are listed in order, from 0.       *)
Rank(S, s) == Cardinality({t \in S : t < s})

First(S) == CHOOSE x \in S : \A y \in S : x <= y

Leaving(st, p, q) ==
    {s \in Subjects : <<p, s>> \in st.leave} \cup {t.subject : t \in q \ JoinTxs}

(* Mutant: a JOIN of a subject that has an index is admissible.            *)
QueuedJoinsAnyIndex(st, p, roster, q) ==
    {j \in q \cap JoinTxs : /\ j.subject \notin Leaving(st, p, q)
                            /\ j.subject \notin DOMAIN roster}

(* The queued JOINs that are admissible: subject without an index, no      *)
(* LEAV for it (a LEAV wins), not a roster row already.                    *)
QueuedJoins(st, p, roster, q) ==
    {j \in q \cap JoinTxs : /\ ~HasIndex(st, j.subject)
                            /\ j.subject \notin Leaving(st, p, q)
                            /\ j.subject \notin DOMAIN roster}

(* Roster plus queue: roster rows whose subject is leaving get weight 0,   *)
(* admissible JOINs are added.  A LEAV of a subject that is not on the     *)
(* roster adds no row.                                                     *)
applyQueuedMembership(st, p, roster, q) ==
    LET joins == QueuedJoins(st, p, roster, q)
    IN  [s \in DOMAIN roster \cup {j.subject : j \in joins} |->
            IF s \in Leaving(st, p, q) THEN 0
            ELSE IF s \in DOMAIN roster THEN roster[s]
            ELSE (CHOOSE j \in joins : j.subject = s).weight]

(* The proof of a row that the roster does not know: the one its JOIN      *)
(* carries unless it is a Dummy, else a fresh one for the index the row    *)
(* would get.                                                              *)
ExtraProof(p, q, s, i, w) ==
    LET carried == (CHOOSE j \in q \cap JoinTxs : j.subject = s).proof
    IN  IF carried.kind \notin {"none", "dummy"} THEN carried
        ELSE IF ProverAvailable THEN Stwo(p, i, ebFromWeight(w)) ELSE NoProof

(* Mutant: the roots as they were before the roster was read.              *)
RosterRootsBefore(st, p) == st.roots

(* The roots a proposer's proofs bind, read after the roster.              *)
RosterRoots(st, p) == AfterRosterRead(syncObjectRoots(st), p).roots

(* The LNPR a proposer builds at store st for period p from queue q.  The  *)
(* fold rides on the first roster row; an empty roster gets a placeholder  *)
(* row.  Without a fold, rows that have no proof get a Dummy, up to the    *)
(* cap, where Dummies are allowed.                                         *)
buildLNPR(st, p, q) ==
    LET synced  == syncObjectRoots(st)
        ctx     == AfterRosterRead(synced, p)
        known   == knownSubjectSet(synced, p)
        weight  == applyQueuedMembership(ctx, p, Roster(synced, p), q)
        subs    == DOMAIN weight
        extras  == {s \in subs \ known : weight[s] > 0}
        proof   == [s \in subs |->
                      IF s \in extras
                      THEN ExtraProof(p, q, s, ctx.next + Rank(extras, s), weight[s])
                      ELSE NoProof]
        bare    == {s \in subs : proof[s] = NoProof}
        slot    == First(IF known # {} THEN known ELSE subs)
        roots   == RosterRoots(st, p)
        folded  == [proof EXCEPT ![slot] = Fold(roots)]
        dummied == [s \in subs |->
                      IF s \in bare /\ Rank(bare, s) < MaxRawStarksPerLNPR
                      THEN Dummy(p, s, weight[s], roots) ELSE proof[s]]
        proofs  == IF FoldAvailable THEN folded ELSE IF AllowDummy THEN dummied ELSE proof
    IN  [period |-> p,
         rows   |-> IF FoldAvailable /\ subs = {}
                    THEN [s \in {Placeholder} |-> [weight |-> 0, proof |-> Fold(roots)]]
                    ELSE [s \in subs |-> [weight |-> weight[s], proof |-> proofs[s]]]]

-----------------------------------------------------------------------------
(* Checking it.                                                            *)

Subs(blob) == DOMAIN blob.rows
isFoldProof(pf) == pf.kind = "fold"
Folds(blob) == {s \in Subs(blob) : isFoldProof(blob.rows[s].proof)}
foldProofFromLNPR(blob) == blob.rows[First(Folds(blob))].proof

(* Rows of positive weight that the roster does not know.  While there is  *)
(* no roster at all there are none.                                        *)
Extras(st, blob) ==
    LET known == knownSubjectSet(st, blob.period)
    IN  IF known = {} THEN {}
        ELSE {s \in Subs(blob) \ known : blob.rows[s].weight > 0}

(* The verifiers compare what a proof was made for with what it is used    *)
(* for.                                                                    *)
VerifySameStatementFold(pf, roots) == pf.roots = roots

(* Mutant: the index in the proof's instance is not compared.              *)
verifyValsetStwoAnyIndex(pf, p, i, b) == pf.period = p /\ pf.eb = b

verifyValsetStwo(pf, p, i, b) == pf = Stwo(p, i, b)

VerifyDummy(pf, p, s, w, roots) == pf = Dummy(p, s, w, roots)

verifySubjectProof(st, blob, s, i) ==
    LET row == blob.rows[s]
    IN  CASE row.proof.kind = "stwo"  ->
               verifyValsetStwo(row.proof, blob.period, i, ebFromWeight(row.weight))
          [] row.proof.kind = "dummy" ->
               AllowDummy /\ VerifyDummy(row.proof, blob.period, s, row.weight, st.roots)
          [] OTHER -> FALSE

(* Mutant: extraIdx is not counted up.                                     *)
ExtraIndexStuck(st, blob, s) == st.next

(* Extras are verified at the deposit index each will get.  extraIdx is    *)
(* taken after the roster was read.                                        *)
ExtraIndex(st, blob, s) == st.next + Rank(Extras(st, blob), s)

(* An empty LNPR must not replace a set; rows are unique by construction.  *)
CheckLNPRUniqueness(st, blob) ==
    Subs(blob) = {} => ~hasBondedOrPrior(st, blob.period)

VerifyLNPR(st, blob) ==
    LET raw == {s \in Subs(blob) : blob.rows[s].proof.kind \in {"stwo", "dummy"}}
        fold == Folds(blob) # {}
        extras == Extras(st, blob)
    IN  /\ CheckLNPRUniqueness(st, blob)
        /\ Subs(blob) # {} =>
             /\ IF fold THEN VerifySameStatementFold(foldProofFromLNPR(blob), st.roots)
                        ELSE AllowDummy
             /\ \A s \in raw : blob.rows[s].proof.kind = "dummy" => ~fold /\ s \notin extras
             /\ Cardinality(raw) + (IF fold THEN 1 ELSE 0) <= MaxRawStarksPerLNPR
             /\ \A s \in extras : /\ blob.rows[s].proof.kind = "stwo"
                                  /\ verifySubjectProof(st, blob, s, ExtraIndex(st, blob, s))
             /\ ~fold => \A s \in Subs(blob) \ extras :
                            verifySubjectProof(st, blob, s, Rank(Subs(blob), s))

(* What the check leaves in the store of the context it ran in.            *)
AfterVerify(st, blob) ==
    IF Subs(blob) = {} THEN st ELSE AfterRosterRead(st, blob.period)

(* FinalizeBlock checks twice: in PreBlocker, and in EndBlocker on what    *)
(* the first check left.                                                   *)
Applicable(st, blob) ==
    VerifyLNPR(st, blob) /\ VerifyLNPR(AfterVerify(st, blob), blob)

-----------------------------------------------------------------------------
(* The queue.                                                              *)

loadMembershipFiles == files

PendingMembershipTxs == mem \cup loadMembershipFiles

persistMembershipFile(t) == IF PersistEnabled THEN files \cup {t} ELSE files

(* The store NoteMembershipTx looks the index up in: the one last bound;   *)
(* before the first bind of a process it is an empty in-memory store.      *)
ViewHasIndex(s) ==
    bound /\ HasIndex(IF phase = "apply" THEN work ELSE store, s)

(* The queue is read in arrival order, files in the order of their hashes: *)
(* of several JOINs of one subject the first read counts, and any of them  *)
(* can be it.                                                              *)
FirstJoins(pend) ==
    {q \in SUBSET pend :
        /\ pend \ JoinTxs \subseteq q
        /\ \A j \in pend \cap JoinTxs :
              Cardinality({k \in q \cap JoinTxs : k.subject = j.subject}) = 1}

(* Mutants: a row drops the LEAV of its subject too, or every JOIN.        *)
forgetMembershipSubject(S, s, dropJoin, dropLeave) == {t \in S : t.subject # s}
forgetMembershipJoins(S, s, dropJoin, dropLeave) ==
    {t \in S : ~(IF IsJoin(t) THEN dropJoin ELSE t.subject = s /\ dropLeave)}

forgetMembership(S, s, dropJoin, dropLeave) ==
    {t \in S : ~(t.subject = s /\ IF IsJoin(t) THEN dropJoin ELSE dropLeave)}

-----------------------------------------------------------------------------
Init ==
    /\ store = InitGenesis
    /\ work = store
    /\ period = 0
    /\ block = NoBlock
    /\ phase = "idle"
    /\ todo = {}
    /\ mem = {}
    /\ files = {}
    /\ noting = {}
    /\ bound = TRUE

(* CheckTx, InsertTx or PrepareProposal hand a membership transaction to   *)
(* NoteMembershipTx, one call at a time (the mempool connection is serial):*)
(* first the index check of a JOIN...                                      *)
NoteMembershipTx(t) ==
    /\ noting = {}
    /\ IsJoin(t) => ~ViewHasIndex(t.subject)
    /\ noting' = {t}
    /\ UNCHANGED <<store, work, period, block, phase, todo, mem, files, bound>>

(* ... then, without a lock held in between, the queue and the file.       *)
NoteMembershipBytes(t) ==
    /\ t \in noting
    /\ noting' = {}
    /\ mem' = mem \cup {t}
    /\ files' = persistMembershipFile(t)
    /\ UNCHANGED <<store, work, period, block, phase, todo, bound>>

(* PrepareProposal at a proposer with queue q, ProcessProposal at the      *)
(* replicas, and the decision.  Both run on contexts that are discarded.   *)
Decide(q) ==
    /\ phase = "idle"
    /\ block' = buildLNPR(store, period, q)
    /\ VerifyLNPR(store, block')
    /\ phase' = "decided"
    /\ UNCHANGED <<store, work, period, todo, mem, files, noting>>

(* This replica proposes.                                                  *)
DecideOwn ==
    /\ \E q \in FirstJoins(PendingMembershipTxs) : Decide(q)
    /\ bound' = TRUE

(* Another replica proposes, this one processes.                           *)
DecideRemote ==
    /\ \E q \in SUBSET Txs : q \in FirstJoins(q) /\ Decide(q)
    /\ bound' = TRUE

(* PreBlocker: bind the finalize context, check the LNPR, stage it.        *)
(* EndBlocker checks it once more before it applies the first row.         *)
ProcessInjectedLNPR ==
    /\ phase = "decided"
    /\ Applicable(store, block)
    /\ work' = AfterVerify(AfterVerify(store, block), block)
    /\ phase' = "apply"
    /\ todo' = Subs(block)
    /\ bound' = TRUE
    /\ UNCHANGED <<store, period, block, mem, files, noting>>

(* One row of the loop of ApplyLNPR.                                       *)
RowApplied(st, p, s, w) ==
    IF s \notin Subjects THEN st
    ELSE IF w <= 0 THEN IF HasIndex(st, s) THEN ApplyLeave(st, p, s) ELSE st
    ELSE IF HasIndex(st, s) THEN admitMember(st, s, w)
    ELSE AcceptProof(st, p, s, w)

(* Mutant: rows in the opposite order.                                     *)
NextRowLast(S) == LastOf(S)

NextRow(S) == First(S)

ApplyLNPRRow ==
    /\ phase = "apply" /\ todo # {}
    /\ LET s == NextRow(todo)
           w == block.rows[s].weight
       IN  /\ work' = RowApplied(work, block.period, s, w)
           /\ mem' = forgetMembership(mem, s, TRUE, w <= 0)
           /\ files' = IF PersistEnabled THEN forgetMembership(files, s, TRUE, w <= 0) ELSE files
           /\ todo' = todo \ {s}
    /\ UNCHANGED <<store, period, block, phase, noting, bound>>

(* The end of ApplyLNPR and of EndBlocker, and the commit.  The next block *)
(* is in the same period or opens the next one.                            *)
EndBlocker ==
    /\ phase = "apply" /\ todo = {}
    /\ LET synced == syncObjectRoots(work)
       IN  store' = IF OwnsValset THEN ValidatorUpdates(synced) ELSE synced
    /\ work' = store'
    /\ phase' = "idle"
    /\ block' = NoBlock
    /\ period' \in {period, period + 1} /\ period' <= MaxPeriod
    /\ UNCHANGED <<todo, mem, files, noting, bound>>

(* Mutant: rows are written to the committed store as they are applied.    *)
RestartTorn ==
    /\ mem' = {} /\ noting' = {}
    /\ store' = work
    /\ todo' = {}
    /\ phase' = IF phase = "apply" THEN "decided" ELSE phase
    /\ bound' = FALSE
    /\ UNCHANGED <<work, period, block, files>>

(* The process dies and starts again: queue, calls in flight, finalize     *)
(* store and staged LNPR are lost, files and the committed store are not,  *)
(* and the decided block is delivered again.                               *)
Restart ==
    /\ mem' = {} /\ noting' = {}
    /\ work' = store
    /\ todo' = {}
    /\ phase' = IF phase = "apply" THEN "decided" ELSE phase
    /\ bound' = FALSE
    /\ UNCHANGED <<store, period, block, files>>

Next ==
    \/ \E t \in Txs : NoteMembershipTx(t)
    \/ \E t \in Txs : NoteMembershipBytes(t)
    \/ DecideOwn
    \/ DecideRemote
    \/ ProcessInjectedLNPR
    \/ ApplyLNPRRow
    \/ EndBlocker
    \/ Restart

Spec == Init /\ [][Next]_vars

(* Leaders rotate, so this replica gets to propose again and again; a      *)
(* decided block is finalized; crashes come to an end.                     *)
Fairness ==
    /\ \A t \in Txs : WF_vars(NoteMembershipBytes(t))
    /\ SF_vars(DecideOwn)
    /\ WF_vars(ProcessInjectedLNPR)
    /\ WF_vars(ApplyLNPRRow)
    /\ WF_vars(EndBlocker)
    /\ <>[][~Restart]_vars

FairSpec == Spec /\ Fairness

-----------------------------------------------------------------------------
(* Every variable stays in its type; the rows still to apply are rows of   *)
(* the decided LNPR (Keeper, membershipQ).                                 *)
TypeOK ==
    /\ store \in Store /\ work \in Store
    /\ period \in Nat
    /\ phase \in {"idle", "decided", "apply"}
    /\ block = NoBlock <=> phase = "idle"
    /\ todo \subseteq IF phase = "apply" THEN Subs(block) ELSE {}
    /\ mem \subseteq Txs /\ files \subseteq Txs /\ noting \subseteq Txs
    /\ bound \in BOOLEAN

(* Deposit slots are sound (SlotsOK: no index shared, all below next given *)
(* out, no bit or balance beyond) in the committed store and in the middle *)
(* of ApplyLNPR, also after a crash between two rows.                      *)
DepositSlots == SlotsOK(store) /\ SlotsOK(work)

(* A set bit always has a positive balance (admitMember keeps an EB byte   *)
(* that is present, and ApplyLeave writes 0 there): no member is without   *)
(* weight, in between rows either.                                         *)
MembersHaveBalance ==
    \A st \in {store, work} : \A i \in st.bits : EBOf(st, i) > 0

(* The roots the next proposer and the verifiers use are those of the      *)
(* bits, indices and balances they stand for (syncObjectRoots).            *)
RootsCurrent == \A st \in {store, work} : st.roots = ObjectRoots(st)

(* The index and the balance that the STWO proof of a JOIN was verified    *)
(* for are those that ApplyLNPR gives its subject: verifyLNPR counts       *)
(* extraIdx over the rows, ApplyLNPR allocates row by row, buildLNPR       *)
(* proves for a third count.  A JOIN into an empty roster is no extra: its *)
(* proof is not verified.                                                  *)
ProvenSlotIsAllocated ==
    phase = "apply" =>
        \A s \in Extras(store, block) \ todo :
            /\ work.index[s] = block.rows[s].proof.index
            /\ BitWeight(work, s) = block.rows[s].proof.eb

(* A block that ProcessProposal accepted never fails in FinalizeBlock: the *)
(* check passes in PreBlocker and again in EndBlocker, on the store as the *)
(* first check left it, also when a crash makes it run again.              *)
DecidedIsApplicable == phase = "decided" => Applicable(store, block)

(* The proofs the rows of blob need: the fold and one per JOIN, or, where  *)
(* there is no fold, a Dummy or STWO for every row.                        *)
ProofsNeeded(st, blob) ==
    IF FoldAvailable THEN Cardinality(Extras(st, blob)) + 1
                     ELSE Cardinality(Subs(blob))

(* What this replica would propose now is accepted, however the queue got  *)
(* to be what it is (buildLNPR against verifyLNPR): as long as the provers *)
(* run, someone is a member, no JOIN brings a proof of its own and the     *)
(* proofs fit under the cap.                                               *)
ProposalAccepted ==
    /\ phase = "idle" /\ DebugSubjectsFromBits(store) # {}
    /\ (FoldAvailable \/ AllowDummy) /\ ProverAvailable
    =>
        \A q \in FirstJoins(PendingMembershipTxs) :
            LET blob == buildLNPR(store, period, q)
            IN  /\ \A j \in q \cap JoinTxs : j.proof = NoProof
                /\ ProofsNeeded(store, blob) <= MaxRawStarksPerLNPR
                => VerifyLNPR(store, blob)

(* The Comet validator set is the roster: a 32-byte subject has power iff  *)
(* its bit is set (ValidatorUpdates).                                      *)
PowerFollowsRoster ==
    OwnsValset =>
        \A s \in Pubkeys : store.power[s] > 0 <=> IsMember(store, s)

(* No block raises the power of a subject that has some (ValidatorUpdates: *)
(* "Power is never auto-raised later").                                    *)
PowerNeverRaised ==
    [][\A s \in Subjects :
          store.power[s] > 0 => store'.power[s] <= store.power[s]]_vars

(* Refinement: committed membership behaves as LeanRoster says.            *)
Members == DebugSubjectsFromBits(store)
Roster_ == INSTANCE LeanRoster WITH
               Founders <- GenesisSubjects,
               Joiners  <- {j.subject : j \in JoinTxs},
               Leavers  <- {l.subject : l \in LeaveTxs},
               members  <- Members,
               left     <- {s \in Subjects : HasIndex(store, s)} \ Members

(* Blocks admit only subjects that asked and were never members, drop only *)
(* subjects that asked, and whoever left stays out, whatever stale JOINs   *)
(* the queues hold.                                                        *)
ImplementsRoster == Roster_!Spec

(* A LEAV in the directory takes effect, across crashes that tear          *)
(* ApplyLNPR apart after the file was removed.                             *)
LeaveTakesEffect ==
    \A t \in LeaveTxs :
        (t \in files /\ IsMember(store, t.subject)) ~> ~IsMember(store, t.subject)

(* A JOIN in the directory whose subject nobody asks to leave is admitted. *)
JoinTakesEffect ==
    \A t \in JoinTxs :
        (\A l \in LeaveTxs : l.subject # t.subject) =>
            (t \in files ~> IsMember(store, t.subject))
=============================================================================
