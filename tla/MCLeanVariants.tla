--------------------------- MODULE MCLeanVariants ---------------------------
(***************************************************************************)
(* Three settings of LeanVal in one specification.  The first state picks  *)
(* the setting, and every step is one of LeanVal in that setting:          *)
(*   "dummy"     no fold, Dummy proofs, no membership files;               *)
(*   "carried"   JOINs that bring a proof of their own;                    *)
(*   "all_leave" everyone may leave, a founder asks to come back, three    *)
(*               periods.                                                  *)
(* The configuration file gives the constants of "dummy".                  *)
(***************************************************************************)
EXTENDS MCLeanVal

VARIABLE setting

Carried == INSTANCE LeanVal WITH
               JoinTxs <- MCCarried, LeaveTxs <- {}, FoldAvailable <- TRUE,
               AllowDummy <- FALSE, PersistEnabled <- TRUE, MaxRawStarksPerLNPR <- 3

AllLeave == INSTANCE LeanVal WITH
                JoinTxs <- MCRejoin, LeaveTxs <- MCAllLeave, FoldAvailable <- TRUE,
                AllowDummy <- FALSE, PersistEnabled <- TRUE, MaxRawStarksPerLNPR <- 3,
                MaxPeriod <- 2

VariantsInit == Init /\ setting \in {"dummy", "carried", "all_leave"}

VariantsNext ==
    /\ \/ setting = "dummy" /\ Next
       \/ setting = "carried" /\ Carried!Next
       \/ setting = "all_leave" /\ AllLeave!Next
    /\ UNCHANGED setting

VariantsSpec == VariantsInit /\ [][VariantsNext]_<<vars, setting>>

(* What a replica proposes is accepted also where every row needs a Dummy  *)
(* proof and the queue is in memory only (buildLNPR against verifyLNPR).   *)
(* A block that was accepted is applied (EndBlocker, ApplyLNPR), with      *)
(* Dummy proofs and when the last member has left, and no member is then   *)
(* without weight from a bonded view carried forward (ApplyLeave).         *)
VariantApplicable ==
    /\ setting = "dummy" => ProposalAccepted /\ DecidedIsApplicable
    /\ setting = "all_leave" => AllLeave!DecidedIsApplicable /\ AllLeave!MembersHaveBalance

(* Of the JOINs that bring a proof, only those whose slot is the one that  *)
(* ApplyLNPR allocates are admitted, and slots stay sound when two JOINs   *)
(* of one subject, or for one slot, are queued at a time (AllocateIndex).  *)
CarriedSlotIsAllocated ==
    setting = "carried" => Carried!ProvenSlotIsAllocated /\ Carried!DepositSlots

(* Every block is one of LeanRoster's: nobody who left comes back, also    *)
(* when the roster is empty, and without membership files.                 *)
VariantRoster ==
    [][/\ setting = "dummy" => Roster_!Next \/ UNCHANGED store
       /\ setting = "all_leave" => AllLeave!Roster_!Next \/ UNCHANGED store]_<<vars, setting>>
=============================================================================
