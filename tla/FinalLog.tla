------------------------------ MODULE FinalLog ------------------------------
(***************************************************************************)
(* What a node promises about irreversible blocks: the block log is one    *)
(* chain that starts at the genesis block and only ever grows, one child   *)
(* at a time.  Nothing is taken back or replaced, whatever the forks, the  *)
(* rejected blocks, the failures and the restarts.                         *)
(***************************************************************************)
EXTENDS Naturals, Sequences

CONSTANTS Blocks, Genesis, Prev

VARIABLE log

Init == log = <<Genesis>>

Finalise(b) == Prev[b] = log[Len(log)] /\ log' = Append(log, b)

Next == \E b \in Blocks : Finalise(b)

Spec == Init /\ [][Next]_log
=============================================================================
