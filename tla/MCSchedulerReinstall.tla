------------------------ MODULE MCSchedulerReinstall ------------------------
(***************************************************************************)
(* Instances of SchedulerReinstall for TLC: two jobs, one of them enabled, *)
(* as each installer exports them.                                         *)
(***************************************************************************)
EXTENDS SchedulerReinstall

CONSTANTS health, morning

Jobs == <<[unit |-> morning, enabled |-> FALSE], [unit |-> health, enabled |-> TRUE]>>

Systemd == [digests |-> TRUE, jobs |-> Jobs]
Launchd == [digests |-> FALSE, jobs |-> Jobs]

Both == {Systemd, Launchd}
OnlySystemd == {Systemd}
=============================================================================
