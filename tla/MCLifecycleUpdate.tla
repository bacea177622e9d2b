------------------------- MODULE MCLifecycleUpdate -------------------------
(***************************************************************************)
(* Instances of LifecycleUpdate for TLC.                                   *)
(***************************************************************************)
EXTENDS LifecycleUpdate, TLC

CONSTANTS v0, v1, v2, config, jobs

\* Every version but the installed one is like any other.
Symmetry == Permutations({v1, v2})

=============================================================================
