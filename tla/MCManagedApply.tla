--------------------------- MODULE MCManagedApply ---------------------------
(***************************************************************************)
(* Instances of ManagedApply for TLC.                                      *)
(***************************************************************************)
EXTENDS ManagedApply, TLC

CONSTANTS body1, body2, m0, m1

\* Inode numbers 1, 2, ... for the notes, all unpatched and with one body.
MCVault ==
  CHOOSE v \in [Note -> [ino : 1 .. Cardinality(Note), text : {[body |-> body1, managed |-> m0]}]] :
    \A a, b \in Note : a # b => v[a].ino # v[b].ino

Symmetry == Permutations(Tx) \union Permutations(Proc)

=============================================================================
