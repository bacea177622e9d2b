-------------------------- MODULE MCMigrateInstall --------------------------
(***************************************************************************)
(* Instances of MigrateInstall for TLC.                                    *)
(***************************************************************************)
EXTENDS MigrateInstall, TLC

Symmetry == Permutations(Tracked) \union Permutations(Content)

=============================================================================
