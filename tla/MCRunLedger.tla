----------------------------- MODULE MCRunLedger -----------------------------
(***************************************************************************)
(* Instances of RunLedger for TLC.                                         *)
(***************************************************************************)
EXTENDS RunLedger, TLC

Symmetry == Permutations(Proc) \union Permutations(Run)

=============================================================================
