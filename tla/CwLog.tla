-------------------------------- MODULE CwLog --------------------------------
(***************************************************************************)
(* What a node promises to the application behind the Commonware driver:   *)
(* the blocks it executes form a log that only grows, one block at a time, *)
(* the block at position h being a payload of height h.  Nothing a crash,  *)
(* a repeated finalization or a catch-up does may rewrite the log.         *)
(***************************************************************************)
EXTENDS Naturals, Sequences

CONSTANT Payloads

VARIABLE log

Init == log = << >>

Execute(p) == p.height = Len(log) + 1 /\ log' = Append(log, p)

Next == \E p \in Payloads : Execute(p)

Spec == Init /\ [][Next]_log
=============================================================================
