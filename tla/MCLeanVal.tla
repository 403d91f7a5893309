------------------------------ MODULE MCLeanVal ------------------------------
(* Small instances of LeanVal.  Genesis lists its subjects against the key *)
(* order, so indices and key order differ.                                 *)
EXTENDS LeanValClaims

MCSubjects == {1, 2, 3, 4}
MCPubkeys  == {1, 2, 3}
MCGenesis  == <<3, 1>>
MCWeight   == [s \in MCSubjects |-> IF s = 2 THEN 300 ELSE s]

Join(s, w, pf) == [type |-> "JOIN", subject |-> s, weight |-> w, proof |-> pf]
Leave(s)       == [type |-> "LEAV", subject |-> s]

(* Two subjects join; 1 (genesis) and 2 (joined) may leave, 3 stays.       *)
MCJoins  == {Join(2, 300, NoProof), Join(4, 2, NoProof)}
MCLeaves == {Leave(1), Leave(2)}

(* JOINs that bring proofs: for the right slot, for one that another JOIN  *)
(* takes first, for a later period; and two JOINs of one subject.          *)
MCCarried == {Join(2, 300, Stwo(0, 2, 255)), Join(4, 2, Stwo(0, 2, 2)),
              Join(4, 1, Stwo(1, 3, 1))}

(* Everyone may leave, and a genesis subject may ask to come back.         *)
MCAllLeave == {Leave(1), Leave(3)}
MCRejoin   == {Join(1, 2, NoProof)}

(* The small roster of the liveness run.                                   *)
MC3Subjects == {1, 2, 3}
MC3Weight   == [s \in MC3Subjects |-> s]
MC3Joins    == {Join(2, 2, NoProof)}
MC3Leaves   == {Leave(1)}
=============================================================================
