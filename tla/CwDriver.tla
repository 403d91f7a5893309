------------------------------- MODULE CwDriver -------------------------------
(***************************************************************************)
(* The Commonware driver (x/leanval/cwffi): the Go object between the      *)
(* simplex engine and the ABCI application.  The engine asks it to propose *)
(* and to verify payloads and reports finalizations; the catch-up loop     *)
(* hands it payloads fetched from another node; clients add transactions.  *)
(*                                                                         *)
(* The application is reduced to what the driver sees of it: the blocks it *)
(* has committed, which survive a crash, and the membership bits in its    *)
(* store.  Everything else the driver holds is in memory.  Every operation *)
(* takes the driver's mutex, so each one is a single action.  Nothing is   *)
(* assumed of the engine here: any payload may be finalized, repeatedly,   *)
(* in any order, with any certificate.                                     *)
(***************************************************************************)
EXTENDS Integers, Sequences, FiniteSets, FiniteSetsExt

CONSTANTS Keys,         \* public keys, as integers in their byte order
          Weight,       \* effective balance of each key
          Genesis,      \* keys whose bit is set by InitChain
          Txs,          \* transactions
          Dummy,        \* the transactions whose bytes hold the DSTW magic
          Payloads,     \* payloads that decode: height, txs, and the keys whose bit they flip
          Certs,        \* certificates
          MaxConflicts, \* bound: conflict reports counted
          VerifyNamespace  \* the namespace lean_cw_verify_finalization checks against

NoPayload == [height |-> 0]       \* empty or undecodable payload bytes
NoCert    == [form |-> "none"]    \* an empty certificate

ASSUME CwDriverAssumption ==
    /\ Keys \subseteq Nat /\ IsFiniteSet(Keys)
    /\ Weight \in [Keys -> Nat \ {0}]
    /\ Genesis \subseteq Keys
    /\ Dummy \subseteq Txs
    /\ \A p \in Payloads : /\ p.height \in Nat \ {0}
                           /\ p.txs \subseteq Txs
                           /\ p.flip \subseteq Keys
    /\ \A c \in Certs : c.form \in {"lcert", "raw", "junk"}

VARIABLES app,   \* committed by the application: log, vals (durable)
          drv,   \* the Driver object (lost in a crash)
          fresh  \* for every transaction, the height at which CheckTx last took it in

vars == << app, drv, fresh >>

-----------------------------------------------------------------------------
(* Participants and certificates *)

\* Position of a key in the sorted participant list, counted from 0.
IndexOf(k, pks) == Cardinality({j \in pks : j < k})

\* Participants at the certificate's signer indices; indices past the end are skipped.
SignerKeys(c, pks) == {k \in pks : IndexOf(k, pks) \in c.signers}

SumOfWeights(ks) == MapThenSumSet(LAMBDA k : Weight[k], ks)

signedWeight(c, pks) == SumOfWeights(SignerKeys(c, pks))

totalWeight(pks) == SumOfWeights(pks)

MeetsWeight(signed, total) == total > 0 /\ signed * 3 > total * 2

\* The certificate was produced by exactly these participants, in the
\* namespace the verifier is built for, and enough weight signed it.
VerifyFinalization(pks, c) ==
    /\ pks # {} /\ c.form # "junk"
    /\ c.ns = VerifyNamespace
    /\ c.pks = pks
    /\ MeetsWeight(signedWeight(c, pks), totalWeight(pks))

\* Bonded participants in the store now, or the last ones seen.
participantsAndWeightsLocked(a, d) == IF a.vals = {} THEN d.lastVals ELSE a.vals

\* The keys FinalizeBlock is told have signed.
lastCommitFromCert(c, pks) ==
    IF c.form # "lcert" THEN {} ELSE SignerKeys(c, pks)

containsDSTW(p) == p \in Payloads /\ p.txs \cap Dummy # {}

-----------------------------------------------------------------------------
(* The driver's operations, on the state of one node *)

NewDriver(a) ==
    [next        |-> IF Len(a.log) < 1 THEN 1 ELSE Len(a.log) + 1,
     mempool     |-> {},   \* no duplicates; the order is the application's affair
     committed   |-> << >>,
     lastCert    |-> NoCert,
     lastVals    |-> {},
     lastDummy   |-> FALSE,
     verifyCert  |-> FALSE,
     conflicts   |-> 0]

InitChain == [log |-> << >>, vals |-> Genesis, votes |-> {}]

TrustsCert(a, d, c, remote) ==
    LET pks == participantsAndWeightsLocked(a, d)
    IN  /\ remote => /\ c # NoCert
                     /\ d.verifyCert => VerifyFinalization(pks, c)
        /\ (c.form = "lcert" /\ c.signers # {} /\ totalWeight(pks) > 0)
              => MeetsWeight(signedWeight(c, pks), totalWeight(pks))

\* Mutant: only stale heights are refused, a payload from the future is executed.
FinalizesAhead(a, d, p, c, remote) ==
    p # NoPayload /\ p.height >= d.next /\ TrustsCert(a, d, c, remote)

\* The checks of finalize, in the order of its early returns.
Finalizes(a, d, p, c, remote) ==
    /\ p # NoPayload
    /\ p.height >= d.next
    /\ p.height = d.next
    /\ TrustsCert(a, d, c, remote)

FinalizeBlock(a, p, votes) ==
    [log   |-> Append(a.log, p),
     vals  |-> (a.vals \ p.flip) \cup (p.flip \ a.vals),
     votes |-> votes]

\* Mutant: the mempool keeps the transactions of the block.
CommittedKeepsTxs(a, d, p, c) ==
    [d EXCEPT !.committed = [h \in DOMAIN @ \cup {p.height} |->
                                IF h = p.height THEN [payload |-> p, cert |-> c] ELSE @[h]],
              !.next      = p.height + 1]

\* Mutant: the block is filed under the height the driver will propose next.
CommittedOffByOne(a, d, p, c) ==
    [d EXCEPT !.mempool   = @ \ p.txs,
              !.committed = [h \in DOMAIN @ \cup {p.height + 1} |->
                                IF h = p.height + 1 THEN [payload |-> p, cert |-> c] ELSE @[h]],
              !.next      = p.height + 1]

Committed(a, d, p, c) ==
    [d EXCEPT !.mempool   = @ \ p.txs,
              !.lastCert  = IF c = NoCert THEN @ ELSE c,
              !.lastVals  = participantsAndWeightsLocked(a, d),
              !.committed = [h \in DOMAIN @ \cup {p.height} |->
                                IF h = p.height THEN [payload |-> p, cert |-> c] ELSE @[h]],
              !.next      = p.height + 1]

\* Payload and certificate served for height h: what was committed since the
\* process started, or no payload and the last certificate.
PayloadAt(d, h) ==
    LET g == IF h <= 0 THEN d.next - 1 ELSE h
    IN  IF g \in DOMAIN d.committed THEN d.committed[g]
        ELSE [payload |-> NoPayload, cert |-> d.lastCert]

\* Of the last payload proposed or verified only the DSTW magic is looked at.
CertifyAnswer(d) == ~ d.lastDummy

-----------------------------------------------------------------------------
Init ==
    /\ app = InitChain
    /\ drv = NewDriver(InitChain)
    /\ fresh = [t \in Txs |-> 0]

\* PrepareProposal returns any block of the next height whose ordinary
\* transactions come from the mempool.
Propose(p) ==
    /\ p.height = drv.next
    /\ p.txs \subseteq drv.mempool
    /\ drv' = [drv EXCEPT !.lastDummy = containsDSTW(p)]
    /\ UNCHANGED << app, fresh >>

\* Verify remembers the payload before it looks at it.  The answer goes to
\* the engine, which is external.
Verify(p) ==
    /\ drv' = [drv EXCEPT !.lastDummy = containsDSTW(p)]
    /\ UNCHANGED << app, fresh >>

Report ==
    /\ drv.conflicts < MaxConflicts
    /\ drv' = [drv EXCEPT !.conflicts = @ + 1]
    /\ UNCHANGED << app, fresh >>

\* ok: neither FinalizeBlock nor Commit returned an error; otherwise nothing
\* is remembered of the attempt and next stays where it is.
finalize(p, c, remote, ok) ==
    /\ Finalizes(app, drv, p, c, remote)
    /\ LET pks == participantsAndWeightsLocked(app, drv)
       IN  app' = IF ok THEN FinalizeBlock(app, p, lastCommitFromCert(c, pks)) ELSE app
    /\ drv' = IF ok THEN Committed(app, drv, p, c) ELSE drv
    /\ UNCHANGED fresh

Finalize(p, c, ok) == finalize(p, c, FALSE, ok)

ApplyRemote(p, c, ok) == p # NoPayload /\ c # NoCert /\ finalize(p, c, TRUE, ok)

CheckTx(t) ==
    /\ t \notin drv.mempool
    /\ drv' = [drv EXCEPT !.mempool = @ \cup {t}]
    /\ fresh' = [fresh EXCEPT ![t] = Len(app.log)]
    /\ UNCHANGED app

\* cwffi.Start installs the certificate check, whether or not the engine starts.
SetVerifyCert ==
    /\ drv' = [drv EXCEPT !.verifyCert = TRUE]
    /\ UNCHANGED << app, fresh >>

Restart ==
    /\ drv' = NewDriver(app)
    /\ UNCHANGED << app, fresh >>

Next ==
    \/ \E p \in Payloads : Propose(p) \/ Verify(p)
    \/ \E p \in Payloads \cup {NoPayload}, c \in Certs \cup {NoCert}, ok \in BOOLEAN :
          Finalize(p, c, ok) \/ ApplyRemote(p, c, ok)
    \/ \E t \in Txs : CheckTx(t)
    \/ Report
    \/ SetVerifyCert
    \/ Restart

Spec == Init /\ [][Next]_vars

-----------------------------------------------------------------------------
(* Properties *)

\* The height the driver proposes and accepts next is the one after the
\* application's, after every restart, failed block, repeated finalization
\* and catch-up (driver.go NewDriver, finalize).
NextFollowsApp == drv.next = Len(app.log) + 1

\* What PayloadAt serves to a node that catches up is the block this node's
\* application executed at that height.
ServedIsExecuted ==
    \A h \in DOMAIN drv.committed :
        h \in DOMAIN app.log /\ PayloadAt(drv, h).payload = app.log[h]

\* The blocks served have no holes: from the first one committed since the
\* process started, every height up to the application's is there.
ServedWithoutHoles ==
    \A h \in DOMAIN drv.committed : \A g \in h .. Len(app.log) : g \in DOMAIN drv.committed

\* The driver's log and the application's agree: the three above together,
\* after every restart, failed commit, repeated finalization and catch-up.
LogAgrees == NextFollowsApp /\ ServedIsExecuted /\ ServedWithoutHoles

\* A transaction is not proposed again after the block that included it,
\* unless a client sent it again after that block (finalize prunes the
\* mempool that Propose reads, whichever way the block arrived).
NeverReproposed ==
    \A t \in drv.mempool, h \in DOMAIN app.log :
        t \in app.log[h].txs => h <= fresh[t]

Log == INSTANCE CwLog WITH log <- app.log

\* The blocks the application commits implement the append-only log.
LogRefines == Log!Spec
=============================================================================
