------------------------------ MODULE LeanRoster ------------------------------
(***************************************************************************)
(* What leanval promises of membership, block by block: genesis founds the *)
(* roster, a block admits subjects that asked to join and were never on    *)
(* it, drops subjects that asked to leave, and whoever left stays out.     *)
(***************************************************************************)
EXTENDS FiniteSets

CONSTANTS Founders,   \* genesis subjects of positive weight
          Joiners,    \* subjects of which a JOIN may be sent
          Leavers     \* subjects of which a LEAV may be sent

VARIABLES members,    \* subjects whose participation bit is set
          left        \* subjects that have a deposit index and no bit

Init ==
    /\ members = Founders
    /\ left = {}

Block(J, L) ==
    /\ J \subseteq Joiners \ (members \cup left)
    /\ L \subseteq Leavers \cap members
    /\ members' = (members \cup J) \ L
    /\ left' = left \cup L

Next == \E J \in SUBSET Joiners, L \in SUBSET Leavers : Block(J, L)

Spec == Init /\ [][Next]_<<members, left>>
=============================================================================
