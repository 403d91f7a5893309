-------------------------------- MODULE MCCw --------------------------------
(***************************************************************************)
(* Small instances of CwDriver and CwNode.  In mode "node" the driver is   *)
(* part of a node, and in mode "driver" it is called in every way its      *)
(* interface allows, by an engine of which nothing is assumed.             *)
(***************************************************************************)
EXTENDS CwNode

CONSTANTS t1, t2,
          DriverHeight  \* bound: the last height that is finalized in mode "driver"

VARIABLE mode

DriverPayloads == [height : 1 .. DriverHeight, txs : {{}, {t1}}, flip : {{}}]
                      \cup [height : 1 .. DriverHeight, txs : {{t2}}, flip : {{2}}]

MCPayloads == [height : 1 .. MaxHeight, txs : {{}}, flip : Flips] \cup DriverPayloads

\* One signed by both founders, one by the second alone.
MCCerts == {[form |-> "lcert", ns |-> VerifyNamespace, pks |-> {2, 3}, signers |-> {0, 1}],
            [form |-> "raw", ns |-> VerifyNamespace, pks |-> {3}, signers |-> {0}]}

MCWeight == [k \in Keys |-> IF k = 1 THEN 1 ELSE 2]

MCWeightLast == [k \in Keys |-> IF k = 4 THEN 1 ELSE 2]

Driver == INSTANCE CwDriver WITH Payloads <- DriverPayloads

\* What this engine finalizes is, by definition, what its network decided.
DriverNext ==
    /\ Driver!Next
    /\ net' = [h \in DOMAIN app'.log |-> [payload |-> app'.log[h]]]
    /\ UNCHANGED << netVals, netSet, srvFrom, restarts, procVars, crashes, up >>

CwInit == NodeInit /\ mode \in {"driver", "node"}

CwNext ==
    /\ \/ mode = "driver" /\ DriverNext
       \/ mode = "node" /\ NodeNext
    /\ UNCHANGED mode

CwSpec == CwInit /\ [][CwNext]_<< nodeVars, mode >>

\* The node alone, with its fairness, as a member or outside the set.  Genesis
\* is read again only when the set is empty, which the configuration excludes.
Outsider == INSTANCE CwNode WITH Genesis <- Genesis \ {Self}

LiveInit == (NodeInit \/ Outsider!NodeInit) /\ mode = "node"

LiveSpec ==
    /\ LiveInit
    /\ [][NodeNext /\ UNCHANGED mode]_<< nodeVars, mode >>
    /\ NodeFairness
=============================================================================
