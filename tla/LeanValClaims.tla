---------------------------- MODULE LeanValClaims ----------------------------
(***************************************************************************)
(* What comments in x/leanval say of the roster and of the Comet powers,   *)
(* and the code does not keep.                                             *)
(***************************************************************************)
EXTENDS LeanVal, FiniteSetsExt

TotalPower(st, S) == MapThenSumSet(LAMBDA s : st.power[s], S)

(* keeper/power.go:108: "A silent JOIN must not take remaining VP to <=2/3 *)
(* of the new total."  In a block that admits subjects, those that had     *)
(* power before and keep some hold more than 2/3 of the new total          *)
(* (ValidatorUpdates admits each JOIN with power 1).                       *)
JoinKeepsQuorum ==
    [][LET joined == {s \in Subjects : store.power[s] = 0 /\ store'.power[s] > 0}
           stayed == {s \in Subjects : store.power[s] > 0 /\ store'.power[s] > 0}
       IN  joined # {} /\ stayed # {} =>
              3 * TotalPower(store', stayed) > 2 * TotalPower(store', Subjects)]_vars

(* types/lnpr.go:93: "Fold covers the roster via object-root inclusion;    *)
(* extras (JOIN) may carry individual STWO proofs up to this cap."  So an  *)
(* LNPR with a fold and as many proven JOINs as the cap allows is accepted *)
(* (verifyLNPR counts the fold towards the cap).                           *)
ExtrasUpToCap ==
    phase = "idle" /\ FoldAvailable /\ ProverAvailable =>
        \A q \in FirstJoins(PendingMembershipTxs) :
            LET blob == buildLNPR(store, period, q)
            IN  /\ \A j \in q \cap JoinTxs : j.proof = NoProof
                /\ Cardinality(Extras(store, blob)) <= MaxRawStarksPerLNPR
                => VerifyLNPR(store, blob)

(* keeper/abci.go:118: "buildLNPR encodes the roster this block certifies: *)
(* committed bits plus queued JOIN/LEAV subjects."  Every row of positive  *)
(* weight is a member by its bit or a queued JOIN (buildLNPR reads the     *)
(* bonded view of an earlier period when no bit is set).                   *)
RosterIsBitsAndQueue ==
    phase = "idle" =>
        \A q \in FirstJoins(PendingMembershipTxs) :
            LET blob == buildLNPR(store, period, q)
            IN  \A s \in Subs(blob) :
                   blob.rows[s].weight > 0 =>
                      IsMember(store, s) \/ \E j \in q \cap JoinTxs : j.subject = s

(* doc.go:3: "Power for period P is BondedSet(P) only."  Between blocks,   *)
(* whoever has power has an accepted row in the bonded set of the period   *)
(* (ValidatorUpdates reads the bits, and rows are written on admission     *)
(* only).                                                                  *)
PowerIsBondedSet ==
    phase = "idle" =>
        \A s \in Subjects : store.power[s] > 0 =>
            \E r \in BondedSet(store, period) : r.subject = s /\ r.accepted
=============================================================================
