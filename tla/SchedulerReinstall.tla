------------------------- MODULE SchedulerReinstall -------------------------
(***************************************************************************)
(* jobs.reinstall_owned_jobs, the callback of an update: it writes every   *)
(* unit of the ownership export anew and then activates them.              *)
(*                                                                         *)
(* The exports are those of install-systemd.sh and install-launchd.sh.     *)
(* Only the first records digests, of its own texts, which render_systemd  *)
(* never writes: its activation cannot be reached and is left out.         *)
(* launchctl is external: bootout unloads a unit, bootstrap loads one that *)
(* is not loaded, print finds one that is.                                 *)
(***************************************************************************)
EXTENDS Integers, Sequences

CONSTANTS
  Unit,            \* paths of unit files
  Exports,         \* the exports the installers wrote
  ReinstallFaults  \* what the environment does in this instance

ReinstallFaultKinds == {
  "crash",  \* the process is killed
  "fail",   \* a system call or a command fails
  "busy"}   \* users write and load units while it runs

\* What a unit file holds: a user's text, the installer's, or the one the
\* library renders.
Text == {"absent", "foreign", "installed", "rendered"}

Entry == [unit : Unit, enabled : BOOLEAN]

ASSUME ReinstallAssumption ==
  /\ Exports \subseteq [digests : BOOLEAN, jobs : Seq(Entry)]
  /\ ReinstallFaults \subseteq ReinstallFaultKinds

\* Each installer writes one entry for each unit it writes.
ASSUME OneEntryPerUnit == \A e \in Exports : \A j, k \in DOMAIN e.jobs :
  e.jobs[j].unit = e.jobs[k].unit => j = k

VARIABLES
  export,  \* the ownership export
  unit,    \* the unit files
  loaded,  \* the texts launchd has loaded
  phase,   \* next step
  entry,   \* the entry it is at
  result   \* how the last call ended

reinstallVars == <<export, unit, loaded, phase, entry, result>>

\* Every variable holds what the code can put there.
ReinstallTypeOK ==
  /\ export \in Exports
  /\ unit \in [Unit -> Text] /\ loaded \in [Unit -> Text]
  /\ phase \in {"idle", "prepare", "bootout", "bootstrap", "verify"}
  /\ entry \in 1 .. Len(export.jobs) + 1
  /\ result \in {"none", "true", "raised", "failed"}

\* The installer wrote the units and the export, and loaded what is enabled.
ReinstallInit ==
  /\ export \in Exports
  /\ unit = [u \in Unit |-> "installed"]
  /\ loaded = [u \in Unit |->
       IF \E k \in DOMAIN export.jobs : export.jobs[k] = [unit |-> u, enabled |-> TRUE]
       THEN "installed" ELSE "absent"]
  /\ phase = "idle" /\ entry = 1 /\ result = "none"

At == export.jobs[entry]
More == entry <= Len(export.jobs)
End(r) == phase' = "idle" /\ entry' = 1 /\ result' = r

Begin ==
  /\ phase = "idle" /\ phase' = "prepare" /\ result' = "none"
  /\ UNCHANGED <<export, unit, loaded, entry>>

\* Every unit is replaced before any is activated.  One that is not owned is
\* never replaced; a digest is compared after its unit was.
Collides ==
  /\ phase = "prepare" /\ More /\ unit[At.unit] = "foreign"
  /\ End("raised") /\ UNCHANGED <<export, unit, loaded>>

Replace ==
  /\ phase = "prepare" /\ More /\ unit[At.unit] # "foreign"
  /\ unit' = [unit EXCEPT ![At.unit] = "rendered"]
  /\ IF export.digests THEN End("raised") ELSE entry' = entry + 1 /\ UNCHANGED <<phase, result>>
  /\ UNCHANGED <<export, loaded>>

PreparedAtZero ==
  /\ phase = "prepare" /\ ~More /\ phase' = "bootout" /\ entry' = 0
  /\ UNCHANGED <<export, unit, loaded, result>>

Prepared ==
  /\ phase = "prepare" /\ ~More /\ phase' = "bootout" /\ entry' = 1
  /\ UNCHANGED <<export, unit, loaded, result>>

\* Whether bootout did anything is not looked at.
Bootout ==
  /\ phase = "bootout" /\ More
  /\ loaded' \in {[loaded EXCEPT ![At.unit] = "absent"]}
                 \union IF "fail" \in ReinstallFaults THEN {loaded} ELSE {}
  /\ phase' = IF At.enabled THEN "bootstrap" ELSE "verify"
  /\ UNCHANGED <<export, unit, entry, result>>

BootstrapUnchecked ==
  /\ phase = "bootstrap" /\ phase' = "verify"
  /\ loaded' = [loaded EXCEPT ![At.unit] = IF @ = "absent" THEN unit[At.unit] ELSE @]
  /\ UNCHANGED <<export, unit, entry, result>>

Bootstrap ==
  /\ phase = "bootstrap" /\ loaded[At.unit] = "absent" /\ unit[At.unit] # "absent"
  /\ loaded' = [loaded EXCEPT ![At.unit] = unit[At.unit]]
  /\ phase' = "verify"
  /\ UNCHANGED <<export, unit, entry, result>>

BootstrapRefused ==
  /\ phase = "bootstrap" /\ (loaded[At.unit] # "absent" \/ unit[At.unit] = "absent")
  /\ End("raised") /\ UNCHANGED <<export, unit, loaded>>

\* launchctl print.
Verify ==
  /\ phase = "verify"
  /\ IF (loaded[At.unit] # "absent") = At.enabled
     THEN entry' = entry + 1 /\ phase' = "bootout" /\ UNCHANGED result
     ELSE End("raised")
  /\ UNCHANGED <<export, unit, loaded>>

Return ==
  /\ phase = "bootout" /\ ~More /\ End("true")
  /\ UNCHANGED <<export, unit, loaded>>

\* A command or a write fails, or the process is killed.
Stops ==
  /\ phase # "idle" /\ {"crash", "fail"} \intersect ReinstallFaults # {}
  /\ End("failed") /\ UNCHANGED <<export, unit, loaded>>

\* Users write, remove, load and unload units of these names.
UserActs ==
  /\ phase = "idle" \/ "busy" \in ReinstallFaults
  /\ \E u \in Unit :
       \/ unit' = [unit EXCEPT ![u] = "foreign"] /\ UNCHANGED loaded
       \/ unit' = [unit EXCEPT ![u] = "absent"] /\ UNCHANGED loaded
       \/ loaded' = [loaded EXCEPT ![u] = unit[u]] /\ UNCHANGED unit
       \/ loaded' = [loaded EXCEPT ![u] = "absent"] /\ UNCHANGED unit
  /\ result' = "none"
  /\ UNCHANGED <<export, phase, entry>>

Reinstall ==
  \/ Begin \/ Collides \/ Replace \/ Prepared \/ Bootout \/ Bootstrap
  \/ BootstrapRefused \/ Verify \/ Return \/ Stops

ReinstallNext == Reinstall \/ UserActs

ReinstallSpec == ReinstallInit /\ [][ReinstallNext]_reinstallVars

-----------------------------------------------------------------------------

\* When reinstall_owned_jobs returns True, what is scheduled is what the export
\* says, in the text that is on disk and that this version renders.
TrueMeansScheduled ==
  result = "true" =>
    \A k \in DOMAIN export.jobs :
      LET e == export.jobs[k]
      IN unit[e.unit] = "rendered" /\ loaded[e.unit] = IF e.enabled THEN "rendered" ELSE "absent"

\* A reinstall in which no command and no write fails raises only over a unit
\* that is not owned, or over the digests of an export.
RaisedForCause ==
  result = "raised" => export.digests \/ \E u \in Unit : unit[u] = "foreign"

\* README.md:155: an update "reinstalls owned jobs": when nothing fails and no
\* unit is a user's, the reinstall of an installer's export succeeds.
OwnedJobsAreTaken == result = "raised" => \E u \in Unit : unit[u] # "rendered" /\ unit[u] # "installed"
=============================================================================
