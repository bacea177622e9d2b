--------------------------- MODULE LifecycleUpdate ---------------------------
(***************************************************************************)
(* latticemind_core/update.py, as cli.main calls it on Unix: an update     *)
(* snapshots the owned components, installs a version directory, records   *)
(* the snapshot in state-v1.json, points "current" at the new version and  *)
(* runs its callbacks; a failed update is undone, and a rollback goes back *)
(* to the recorded snapshot.  No lock is taken.                            *)
(*                                                                         *)
(* Signatures, digests and archive checks hold or fail as a whole: a call  *)
(* they refuse changes nothing and has no step here.  A component's        *)
(* content is the version it was written for, and what the job reinstall   *)
(* does to the scheduler is left out.  update.journal is left out too: it  *)
(* is written and removed, and nothing reads it.                           *)
(***************************************************************************)
EXTENDS Integers

CONSTANTS
  Version,    \* releases
  First,      \* the one the installer installed
  Component,  \* owned files the update snapshots
  Config,     \* the one the migration rewrites
  Proc,       \* processes that update or roll back
  Faults,     \* what the environment does in this instance
  NoVersion, Self, NoSnap, NoState, Torn, Missing, Partial

FaultKinds == {
  "crash",     \* a process is killed while it updates or rolls back
  "recrash",   \* a process is killed while it undoes a failed update
  "fail",      \* a system call, a callback or a check of the archive fails
  "reapply",   \* users update to the version in use, or to the one to go back to
  "unlinked"}  \* users update an install that has lost its pointer

\* Part: a copy that was cut short.
Part == Version \union {Partial}
Content == Part \union {Missing}
Install == [files : [Component -> Content], current : Version \union {NoVersion}]

\* A snapshot is its content: it has a new name (uuid4) and never changes.  Its
\* pointer target is a version, or the pointer's own path, which cli.main passes
\* when there is no symbolic link.
Snapshot == [files : [Component -> Part], current : Version \union {Self}]

\* state-v1.json: the snapshot a rollback goes back to, and the release whose
\* manifest it must be given.
Trusted == [snap : Snapshot, version : Version]
State == Trusted \union {NoState, Torn}

ASSUME ConstantsAssumption ==
  /\ Faults \subseteq FaultKinds
  /\ First \in Version /\ Config \in Component
  /\ NoVersion \notin Version /\ Self \notin Version
  /\ Missing \notin Part /\ Partial \notin Version
  /\ NoSnap \notin Snapshot
  /\ NoState \notin Trusted /\ Torn \notin Trusted /\ NoState # Torn

VARIABLES
  installed,  \* the directories under versions/
  current,    \* the version the pointer links to, or NoVersion
  files,      \* the owned components
  state,      \* state-v1.json
  pc,         \* next step of each process
  job,        \* what each process works at
  result,     \* how its last call ended
  start,      \* history: what there was when the last call started
  goal,       \* history: the install it was to make
  pulled      \* history: versions an update took away that it had not made,
              \* and none has installed again

disk == <<installed, current, files, state>>
history == <<start, goal, pulled>>
vars == <<installed, current, files, state, pc, job, result, start, goal, pulled>>

Labels == {"idle", "unpack", "snapshot", "place", "trust", "switch", "migrate",
           "validate", "aside", "copy", "undo", "repoint", "remove",
           "rewrite", "rewritten", "rb_point", "rb_undo", "rb_unpoint", "rb_repoint"}

\* "undone": the update failed and was rolled back; "broken": and restoration
\* failed; "lost": and what restoration had moved could not be put back;
\* "failed": a rollback did, and was undone; "broken": and could not be.
Results == {"none", "ok", "undone", "broken", "lost", "failed"}

\* old: the target of the pointer at the start; unpacked: "final" is bound;
\* aside: components moved out of the way; created: components copied back.
Job == [op : {"update", "rollback"}, version : Version,
        old : Version \union {NoVersion, Self}, prev : State,
        snap : Snapshot \union {NoSnap}, unpacked : BOOLEAN, switched : BOOLEAN,
        aside : [Component -> Content], created : SUBSET Component]

NothingAside == [c \in Component |-> Missing]
NoJob == [op |-> "none", version |-> NoVersion, old |-> Self, prev |-> NoState,
          snap |-> NoSnap, unpacked |-> FALSE, switched |-> FALSE,
          aside |-> NothingAside, created |-> {}]

Here == [files |-> files, current |-> current]

Init ==
  /\ installed = {First}
  /\ current = First
  /\ files = [c \in Component |-> First]
  /\ state = NoState
  /\ pc = [p \in Proc |-> "idle"]
  /\ job = [p \in Proc |-> NoJob]
  /\ result = [p \in Proc |-> "none"]
  /\ start = [install |-> Here, state |-> NoState]
  /\ goal = Here
  /\ pulled = {}

Goto(p, label) == pc' = [pc EXCEPT ![p] = label]

Return(p, how) ==
  /\ Goto(p, "idle")
  /\ job' = [job EXCEPT ![p] = NoJob]
  /\ result' = [result EXCEPT ![p] = how]

\* What a pointer target means to _pointer, which resolves it first.
Resolved(target) == IF target = Self THEN current ELSE target

(***************************************************************************)
(* apply_update.                                                           *)
(***************************************************************************)
Sensible(v) ==
  /\ "reapply" \notin Faults =>
       v # current /\ (state \in Trusted => v # state.snap.current)
  /\ "unlinked" \notin Faults => current # NoVersion

Update(p, v) ==
  /\ pc[p] = "idle"
  /\ Sensible(v)
  /\ job' = [job EXCEPT ![p] =
       [NoJob EXCEPT !.op = "update", !.version = v, !.prev = state,
                     !.old = IF current = NoVersion THEN Self ELSE current]]
  /\ result' = [result EXCEPT ![p] = "none"]
  /\ start' = [install |-> Here, state |-> state]
  /\ goal' = [files |-> [files EXCEPT ![Config] = v], current |-> v]
  /\ Goto(p, "unpack")
  /\ UNCHANGED <<disk, pulled>>

Unpack(p) ==
  /\ pc[p] = "unpack"
  /\ job' = [job EXCEPT ![p].unpacked = TRUE]
  /\ Goto(p, "snapshot")
  /\ UNCHANGED <<disk, result, history>>

\* Mutant: components that are gone are snapshotted as they are.
SnapshotUnchecked(p) ==
  /\ pc[p] = "snapshot"
  /\ job[p].version \notin installed
  /\ job' = [job EXCEPT ![p].snap = [files |-> files, current |-> job[p].old]]
  /\ Goto(p, "place")
  /\ UNCHANGED <<installed, current, files, state, result, history>>

\* snapshot_install.  A snapshot that fails half-way is removed again.
TakeSnapshot(p) ==
  /\ pc[p] = "snapshot"
  /\ job[p].version \notin installed
  /\ \A c \in Component : files[c] # Missing
  /\ job' = [job EXCEPT ![p].snap = [files |-> files, current |-> job[p].old]]
  /\ Goto(p, "place")
  /\ UNCHANGED <<installed, current, files, state, result, history>>

\* Mutant: the trusted state is not written before the switch.
PlaceUntrusted(p) ==
  /\ pc[p] = "place"
  /\ job[p].version \notin installed
  /\ installed' = installed \union {job[p].version}
  /\ Goto(p, "switch")
  /\ UNCHANGED <<current, files, state, job, result, history>>

Place(p) ==
  /\ pc[p] = "place"
  /\ job[p].version \notin installed
  /\ installed' = installed \union {job[p].version}
  /\ Goto(p, "trust")
  /\ UNCHANGED <<current, files, state, job, result, history>>

Trust(p) ==
  /\ pc[p] = "trust"
  /\ state' = [snap |-> job[p].snap, version |-> job[p].version]
  /\ Goto(p, "switch")
  /\ UNCHANGED <<installed, current, files, job, result, history>>

\* Mutant: the switch is not noted.
SwitchUnnoted(p) ==
  /\ pc[p] = "switch"
  /\ job[p].version \in installed
  /\ current' = job[p].version
  /\ Goto(p, "migrate")
  /\ UNCHANGED <<installed, files, state, job, result, history>>

\* _pointer renames a new link over the old one.
Switch(p) ==
  /\ pc[p] = "switch"
  /\ job[p].version \in installed
  /\ current' = job[p].version
  /\ job' = [job EXCEPT ![p].switched = TRUE]
  /\ Goto(p, "migrate")
  /\ UNCHANGED <<installed, files, state, result, history>>

\* _run_migration.
Migrate(p) ==
  /\ pc[p] = "migrate"
  /\ files[Config] # Missing
  /\ files' = [files EXCEPT ![Config] = job[p].version]
  /\ Goto(p, "validate")
  /\ UNCHANGED <<installed, current, state, job, result, history>>

\* The job reinstall, _validate_lifecycle, and the end of the update.
Validate(p) ==
  /\ pc[p] = "validate"
  /\ files[Config] = job[p].version /\ current \in installed
  /\ Return(p, "ok")
  /\ pulled' = pulled \ {job[p].version}
  /\ UNCHANGED <<disk, start, goal>>

(***************************************************************************)
(* The except clause of apply_update.                                      *)
(***************************************************************************)
Updating == {"unpack", "snapshot", "place", "trust", "switch", "migrate", "validate"}

\* A step cannot be taken: its version is installed already or has gone, or a
\* component is missing.
Refused(p) ==
  \/ pc[p] \in {"snapshot", "place"} /\ job[p].version \in installed
  \/ pc[p] = "snapshot" /\ \E c \in Component : files[c] = Missing
  \/ pc[p] = "switch" /\ job[p].version \notin installed
  \/ pc[p] = "migrate" /\ files[Config] = Missing
  \/ pc[p] = "validate" /\ ~(files[Config] = job[p].version /\ current \in installed)

AfterRestore(j) == IF j.switched THEN "repoint" ELSE "remove"

UpdateFails(p) ==
  /\ pc[p] \in Updating
  /\ Refused(p) \/ "fail" \in Faults
  /\ Goto(p, IF job[p].snap # NoSnap THEN "aside" ELSE AfterRestore(job[p]))
  /\ UNCHANGED <<disk, job, result, history>>

Repoint(p) ==
  /\ pc[p] = "repoint"
  /\ Resolved(job[p].old) \in installed
  /\ current' = Resolved(job[p].old)
  /\ Goto(p, "remove")
  /\ UNCHANGED <<installed, files, state, job, result, history>>

\* Any directory of that version goes, though the update found it there and
\* failed for that; and the pointer may lead to it when the update began at
\* that version, or without a pointer.
Pulls(p) == job[p].snap = NoSnap \/ job[p].old \in {Self, job[p].version}

RemoveVersion(p) ==
  LET gone == IF job[p].unpacked THEN {job[p].version} ELSE {} IN
  /\ pc[p] = "remove"
  /\ installed' = installed \ gone
  /\ pulled' = IF Pulls(p) THEN pulled \union (gone \intersect installed) ELSE pulled
  /\ Goto(p, "rewrite")
  /\ UNCHANGED <<current, files, state, job, result, start, goal>>

\* Mutant: the trusted state of the failed update stays.
RewriteKeeping(p) ==
  /\ pc[p] = "rewrite"
  /\ Return(p, "undone")
  /\ UNCHANGED <<disk, history>>

\* unlink, or write_bytes, which empties the file first.
RewriteState(p) ==
  /\ pc[p] = "rewrite"
  /\ \/ /\ job[p].prev = NoState
        /\ state' = NoState
        /\ Return(p, "undone")
     \/ /\ job[p].prev # NoState
        /\ state' = Torn
        /\ Goto(p, "rewritten")
        /\ UNCHANGED <<job, result>>
  /\ UNCHANGED <<installed, current, files, history>>

StateRewritten(p) ==
  /\ pc[p] = "rewritten"
  /\ state' = job[p].prev
  /\ Return(p, "undone")
  /\ UNCHANGED <<installed, current, files, history>>

\* An exception out of the except clause.
RestorationFails(p) ==
  /\ \/ pc[p] = "repoint" /\ Resolved(job[p].old) \notin installed
     \/ "fail" \in Faults /\ pc[p] \in {"repoint", "remove", "rewrite", "rewritten"}
  /\ Return(p, "broken")
  /\ UNCHANGED <<disk, history>>

(***************************************************************************)
(* _component_transaction, for a failed update and for a rollback: every   *)
(* component is moved aside, then every one is copied from the snapshot.   *)
(* (The code goes through them in the receipt's order.)  A move or a       *)
(* removal takes a component as a whole; a copy may stop anywhere.         *)
(***************************************************************************)
MoveAside(p, c) ==
  /\ pc[p] = "aside" /\ files[c] # Missing
  /\ job' = [job EXCEPT ![p].aside[c] = files[c]]
  /\ files' = [files EXCEPT ![c] = Missing]
  /\ UNCHANGED <<installed, current, state, pc, result, history>>

AllAside(p) ==
  /\ pc[p] = "aside" /\ \A c \in Component : files[c] = Missing
  /\ Goto(p, "copy")
  /\ UNCHANGED <<disk, job, result, history>>

BeginCopy(p, c) ==
  /\ pc[p] = "copy" /\ c \notin job[p].created
  /\ \A d \in Component \ job[p].created : files[d] # Partial
  /\ files' = [files EXCEPT ![c] = Partial]
  /\ UNCHANGED <<installed, current, state, pc, job, result, history>>

CopyBack(p, c) ==
  /\ pc[p] = "copy" /\ c \notin job[p].created /\ files[c] = Partial
  /\ files' = [files EXCEPT ![c] = job[p].snap.files[c]]
  /\ job' = [job EXCEPT ![p].created = @ \union {c}]
  /\ UNCHANGED <<installed, current, state, pc, result, history>>

AllBack(p) ==
  /\ pc[p] = "copy" /\ job[p].created = Component
  /\ Goto(p, IF job[p].op = "update" THEN AfterRestore(job[p]) ELSE "rb_point")
  /\ UNCHANGED <<disk, job, result, history>>

TransactionFails(p) ==
  /\ "fail" \in Faults /\ pc[p] \in {"aside", "copy"}
  /\ Goto(p, "undo")
  /\ UNCHANGED <<disk, job, result, history>>

\* _rollback_transaction, for a restoration that failed and for a rollback that
\* did: first the copies are removed, then the components come back.  A copy
\* that was cut short is not among the copies: it goes only if its component
\* comes back.
BeingUndone == {"undo", "rb_undo"}

RemoveCopy(p, c) ==
  /\ pc[p] \in BeingUndone /\ c \in job[p].created
  /\ files' = [files EXCEPT ![c] = Missing]
  /\ job' = [job EXCEPT ![p].created = @ \ {c}]
  /\ UNCHANGED <<installed, current, state, pc, result, history>>

PutBack(p, c) ==
  /\ pc[p] \in BeingUndone /\ job[p].created = {} /\ job[p].aside[c] # Missing
  /\ files' = [files EXCEPT ![c] = job[p].aside[c]]
  /\ job' = [job EXCEPT ![p].aside[c] = Missing]
  /\ UNCHANGED <<installed, current, state, pc, result, history>>

Reinstated(p) ==
  /\ pc[p] \in BeingUndone /\ job[p].created = {} /\ job[p].aside = NothingAside
  /\ IF pc[p] = "rb_undo"
     THEN Goto(p, "rb_unpoint") /\ UNCHANGED <<job, result>>
     ELSE Return(p, IF job[p].op = "update" THEN "broken" ELSE "failed")
  /\ UNCHANGED <<disk, history>>

\* An exception out of _rollback_transaction ends the call.
ReinstatingFails(p) ==
  /\ "fail" \in Faults /\ pc[p] \in BeingUndone
  /\ Return(p, IF job[p].op = "update" THEN "lost" ELSE "broken")
  /\ UNCHANGED <<disk, history>>

(***************************************************************************)
(* rollback: only to the snapshot, and with the manifest, that             *)
(* state-v1.json names.                                                    *)
(***************************************************************************)
Rollback(p) ==
  /\ pc[p] = "idle"
  /\ state \in Trusted
  /\ job' = [job EXCEPT ![p] =
       [NoJob EXCEPT !.op = "rollback", !.version = state.version, !.snap = state.snap]]
  /\ result' = [result EXCEPT ![p] = "none"]
  /\ start' = [install |-> Here, state |-> state]
  /\ goal' = [files |-> state.snap.files,
              current |-> Resolved(state.snap.current)]
  /\ Goto(p, "aside")
  /\ UNCHANGED <<disk, pulled>>

\* The backups the transaction leaves are removed as far as they can be.
RollbackPoint(p) ==
  LET target == Resolved(job[p].snap.current) IN
  /\ pc[p] = "rb_point"
  /\ target \in installed
  /\ current' = target
  /\ Return(p, "ok")
  /\ UNCHANGED <<installed, files, state, history>>

RollbackFails(p) ==
  /\ pc[p] = "rb_point"
  /\ "fail" \in Faults \/ Resolved(job[p].snap.current) \notin installed
  /\ job' = [job EXCEPT ![p].old = current]
  /\ Goto(p, "rb_undo")
  /\ UNCHANGED <<disk, result, history>>

RemovePointer(p) ==
  /\ pc[p] = "rb_unpoint"
  /\ current' = NoVersion
  /\ Goto(p, "rb_repoint")
  /\ UNCHANGED <<installed, files, state, job, result, history>>

RestorePointer(p) ==
  /\ pc[p] = "rb_repoint"
  /\ job[p].old \in installed
  /\ current' = job[p].old
  /\ Return(p, "failed")
  /\ UNCHANGED <<installed, files, state, history>>

\* What goes wrong while the pointer is restored is ignored.
RestorePointerFails(p) ==
  /\ \/ pc[p] = "rb_repoint" /\ job[p].old \notin installed
     \/ "fail" \in Faults /\ pc[p] \in {"rb_unpoint", "rb_repoint"}
  /\ Return(p, "failed")
  /\ UNCHANGED <<disk, history>>

-----------------------------------------------------------------------------
\* The process is in the except clause of apply_update.
Undoing(p) == job[p].op = "update" /\ pc[p] \notin Updating

Crash(p) ==
  /\ (IF Undoing(p) THEN "recrash" ELSE "crash") \in Faults
  /\ pc[p] # "idle"
  /\ Return(p, "none")
  /\ UNCHANGED <<disk, history>>

Next == \E p \in Proc :
  \/ \E v \in Version : Update(p, v)
  \/ Unpack(p) \/ TakeSnapshot(p) \/ Place(p) \/ Trust(p) \/ Switch(p)
  \/ Migrate(p) \/ Validate(p)
  \/ UpdateFails(p) \/ Repoint(p) \/ RemoveVersion(p) \/ RewriteState(p)
  \/ StateRewritten(p) \/ RestorationFails(p)
  \/ \E c \in Component :
       \/ MoveAside(p, c) \/ BeginCopy(p, c) \/ CopyBack(p, c)
       \/ RemoveCopy(p, c) \/ PutBack(p, c)
  \/ AllAside(p) \/ AllBack(p) \/ TransactionFails(p)
  \/ Reinstated(p) \/ ReinstatingFails(p)
  \/ Rollback(p) \/ RollbackPoint(p) \/ RollbackFails(p)
  \/ RemovePointer(p) \/ RestorePointer(p) \/ RestorePointerFails(p)
  \/ Crash(p)

Spec == Init /\ [][Next]_vars

-----------------------------------------------------------------------------
(***************************************************************************)
(* Properties.                                                             *)
(***************************************************************************)
\* Every variable keeps its type; no snapshot has a hole in it.
TypeOK ==
  /\ installed \subseteq Version
  /\ current \in Version \union {NoVersion}
  /\ files \in [Component -> Content]
  /\ state \in State
  /\ pc \in [Proc -> Labels]
  /\ job \in [Proc -> Job \union {NoJob}]
  /\ result \in [Proc -> Results]
  /\ start \in [install : Install, state : State]
  /\ goal \in Install
  /\ pulled \subseteq Version

\* The pointer may be gone, but leads nowhere only where an update was asked for
\* that had no other version to fall back on: one to a version that is
\* installed, which fails for that and then removes it, in use or not, or one
\* of an install without a pointer.  No other sequence of updates and rollbacks,
\* failed or cut short, removes the version in use.
PointerLives == current \in installed \union {NoVersion} \union pulled

\* The install that the recorded snapshot, rolled back to, makes.
Behind == [files |-> state.snap.files, current |-> Resolved(state.snap.current)]

\* Whatever fails and whenever a call is cut short, the install is what it was
\* when the call started or what the call was to make, or a rollback can be
\* had that makes it so.  Excepted are a failed update that is being undone, one
\* that could not put back what it had moved, and, of a rollback, the version
\* that an update pulled away (PointerLives).
Recoverable == (\A p \in Proc : ~Undoing(p) /\ result[p] # "lost") =>
  \/ Here \in {start.install, goal}
  \/ /\ state \in Trusted
     /\ Behind \in {start.install, goal} /\ Behind.current \in installed \union pulled

\* What a call reports is so.  One that succeeded made the install it was to
\* make, and the install before an update is the one a rollback goes back to.
\* An update that says it was rolled back has left the components, the pointer
\* and the trusted state as it found them.  A rollback that failed has left the
\* trusted state and the components it found; one that was missing may now be
\* part of a copy, and the pointer may be gone.
OutcomeIsTrue == \A p \in Proc : pc[p] = "idle" =>
  /\ result[p] = "ok" =>
       /\ Here = goal /\ state \in Trusted
       /\ Behind = start.install \/ state = start.state
  /\ result[p] = "undone" => start = [install |-> Here, state |-> state]
  /\ result[p] = "failed" =>
       /\ \A c \in Component : files[c] # start.install.files[c] =>
            start.install.files[c] = Missing /\ files[c] = Partial
       /\ state = start.state
       /\ current \in {start.install.current, NoVersion}

=============================================================================
