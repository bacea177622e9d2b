--------------------------- MODULE MCApprovedPatch ---------------------------
(***************************************************************************)
(* Instances of ApprovedPatch for TLC.                                     *)
(***************************************************************************)
EXTENDS ApprovedPatch, TLC

CONSTANT tty

\* Both runs share a terminal: each may redeem what the other was issued.
OneTerminal == [p \in Proc |-> tty]

Symmetry == Permutations(Tx) \union Permutations(Approval) \union Permutations(Proc)

\* No step reads what a run reported, or whether it wrote.
Unreported == <<text, typed, applied, approvals, known, lock, clock, pc, req, loaded, spent>>

=============================================================================
