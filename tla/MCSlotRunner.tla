---------------------------- MODULE MCSlotRunner ----------------------------
(***************************************************************************)
(* Instances of SlotRunner for TLC.                                        *)
(***************************************************************************)
EXTENDS SlotRunner, TLC

CONSTANTS j1, j2, r1, r2, r3, f1, f2

\* Two jobs, due in turn; one job that is due again within the bound.
TwoJobs == (j1 :> {0, 3}) @@ (j2 :> {-2, 1})
OneJob == j1 :> {0, 3}

\* A day the job is due on, at a time it is not; a day no job is due on.
ByUsers == {<<0, 1>>, <<1, 1>>}

\* Runs under one lock file; runs of which one is started from a shell with another
\* XDG_RUNTIME_DIR.
SameLock == [r \in Run |-> f1]
OtherLock == [r \in Run |-> IF r = r1 THEN f2 ELSE f1]

=============================================================================
