-------------------------- MODULE MCFreshnessScan --------------------------
(***************************************************************************)
(* Instances of FreshnessScan for TLC.                                     *)
(***************************************************************************)
EXTENDS FreshnessScan, TLC

CONSTANTS s1, s2, s3, never, old, fresh

\* A note that was never verified comes before one that is overdue.
Order == [v \in Version |-> IF v = never THEN 0 ELSE IF v = old THEN 1 ELSE 2]

\* Every note is there and can be read, or none is there; edits do the rest.
FullOrEmpty == [Name -> Version] \union {Nothing}

Symmetry == Permutations(Scan)
=============================================================================
