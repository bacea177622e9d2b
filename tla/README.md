# LatticeMind: models, checks and proofs

TLA+ specifications of the stateful core of LatticeMind, the TLC instances
that model-check them and TLAPS proofs about them. Source paths are relative to
the repository (`src/` in `PROJECT.json`); "apply.py" stands for
`latticemind_core/apply.py`, and so on.

    tlc -workers 2 -config ApplyAtomic.cfg MCManagedApply     # a run
    tlapm ManagedApplyProofs.tla                              # the proofs

`PROJECT.json` lists every run, the mutant that shows each property can fail,
the source lines behind each definition, the findings, hazards and theorems.

## 1. The system

LatticeMind is a local maintenance tool for an Obsidian vault: command-line
runs, timer-started runs, an installer and an updater, which share nothing but
files. There is no server. Everything hard about it is file protocols: what a
crash between two writes leaves, who may overtake whom between a check and the
act that relies on it, and what is still true when a step that was assumed to
succeed did not.

| Component | State it keeps | Operations | Interacts through | What makes it correct |
|---|---|---|---|---|
| managed apply (apply.py) | notes; `transactions/<id>/` with journal, backup, staged file; `.apply.lock` | `apply_file`, `recover` | called by `freshness apply`; users edit the same notes | a patch is atomic and undoable, never touches text outside the managed keys, a committed patch stays |
| approvals (approval.py) | `approvals/<id>.json`; `.approval.lock` | `issue_challenge`, `reserve`, `consume` | called around `apply_file` | a code is spent once, for the patch, note, text and terminal it was shown for |
| approved-patch workflow (cli.py 279-291) | none of its own | challenge; digest, reserve, patch, consume | sequences the two above | a note is only patched as approved |
| job slots (jobs.py 86-203) | `slots.json`, `slots.json.lock` | `scheduled_occurrence`, `run_persisted_slot` | called by the maintenance script | one run per slot, no overlap, bounded catch-up, no slot forgotten |
| maintenance script (bin/latticemind-maintain) | the per-user lock | one run | timers and users start it; it starts the job as a child | no run late, no run lost |
| state primitives (state.py) | lock files, JSON files, the run ledger | `FileLock`, `write_json_atomic`, `Ledger`, `StateStore` | used by all of the above | a lock has one holder, a file is old or new |
| lifecycle update (update.py) | `versions/`, `current`, snapshots, `state-v1.json` | `apply_update`, `rollback`, `snapshot_install` | migrates the configuration, reinstalls the jobs, validates | the install is before or after, and one can go back |
| scheduler reinstall (jobs.py 266-356) | units of systemd and launchd, Windows tasks | `reinstall_owned_jobs` | callback of the update | only owned units are replaced, and all or none |
| migration (migrate.py) | configuration, journal, receipt, snapshot | `migrate_install` | one-time, by the command line | restartable, restores on failure |
| freshness scan (freshness.py) | reports | `scan` | job of the freshness slot | a report describes one state of the vault |
| backend runner (backend_runner.py, backends.py) | a child process, its output | `run_backend` | started by a job | ends within its deadline, output bounded, no survivors |
| release verification (release.py, trust_root.py) | none | `verify_manifest`, `validate_archive` | guards of the update | pure checks |
| configuration, contracts, permissions | none | validation, canonical encodings | everywhere | pure functions |
| status, validate | none | read-only reports | reads the state of the others | |
| installers and uninstallers (shell, PowerShell) | owned files, backups, transaction logs | install, uninstall | before and after everything else | only owned files are replaced or removed, with backups |

`PROJECT.json` lists all of them under "components", with what is modelled, and
40 hazards with the line where each bites.

## 2. The modules

### ManagedApply, AtomicPatch (apply.py)

`ManagedApply` is `apply_file` and `recover`: one action per durable effect or
look at shared state. A process takes the lock (`Acquire`, `Contend`: the lock
has a timeout of 0), walks every recorded transaction (`RecoverRefuses`,
`RecoverSkips`, `RecoverUndoes`, `Restore`), and then, if it was asked to patch,
goes through `Stat`, `ReadPreimage`, `MakeBackup`, `Recheck`, `Stage`, `Swap`,
`Verify`, `Purge`. Every journal write is `_wal`: `JournalOpen` creates the
scratch file exclusively, `JournalRename` publishes it, and `Continuation` says
what follows the phase just written. `Raise` is the way out of an exception with
its two `finally` clauses; `Crash` leaves everything on disk as it is.

A file is an inode number and a text, a text is a body and a managed part; a
digest is the text itself. Inode numbers matter because a record names files by
them: a new file gets a number that no file holds and, unless the "reuse" fault
is on, that no record mentions.

`AtomicPatch` is what a managed write promises: a user saves, or a patch
replaces the managed part in one step, at most once per transaction. The
refinement (`ImplementsAtomicPatch`) reads a note through recovery: while an
uncommitted replacement is in place and can be undone, the note still "says" its
preimage, and the patch takes effect with the record "committed".

### ApprovedPatch (approval.py, cli.py)

Runs of `freshness challenge` and `freshness apply`, each digesting the note
first and then passing through `.approval.lock` up to three times. Loading,
checking and saving an approval file are separate steps. The patch itself is the
`Patch` of `AtomicPatch` (an instance of that module over the same vault), plus
the ways `apply_file` can refuse. A write that raises may have taken effect or
not (`WriteFails`): `write_json_atomic` syncs the directory after the rename.

`OneTimePatch` is what the workflow promises: an approval is granted for one
patch of one note that says one thing; it patches that note so, once, or becomes
void; and only a used one is confirmed. In the refinement
(`ImplementsOneTimePatch`) `Standing` reads an approval off its file and the run
that holds it: a file that says "reserved" is still open while its run is at the
patch, used once the run has patched, and void when the run ended otherwise.

### SlotRunner (jobs.py, bin/latticemind-maintain)

Runs of the maintenance script: per-user lock (`Start`), clock (`ReadClock`),
`slots.json.lock` (`TakeSlotLock`, blocking), `Load`, the job as a child process
(`StartJob`, `JobEnds`) and `Save`. The calendar is a constant, a set of
occurrence times of each job as the local wall clock reads them; `Offset` is the
zone. A timer names no occurrence (`ByTimer`); with `--scheduled-at` a user may
name any time that has a zone, due or not (`ByHand`, `Named`). Time passes between
any two steps. A run can end early in three ways: an exception (`Raises`), with its
child (`Stopped`, what systemd does to a unit that takes too long), or alone
(`Killed`, after which the job goes on as an orphan until `OrphanEnds`).

### LifecycleUpdate (update.py, cli.py 245-278)

Updates and rollbacks of a Unix installation. Forward: `Unpack`, `TakeSnapshot`,
`Place` (the version directory), `Trust` (`state-v1.json`), `Switch` (the
pointer), `Migrate`, `Validate`. The except clause of `apply_update` is a
sequence of its own: restore the components, `Repoint`, `RemoveVersion`,
`RewriteState` (two steps, since `write_bytes` empties the file first).
`_component_transaction` is shared with `rollback`: every component is moved
aside (`MoveAside`), then every one is copied (`BeginCopy`, `CopyBack`), and
`_rollback_transaction` removes the copies and moves the components back, one by
one (`RemoveCopy`, `PutBack`). Each of these steps may fail, those of the undoing
too (`ReinstatingFails`: the update ends "lost", the rollback "broken"). A move or
a removal takes a component as a whole; a copy may stop anywhere and leave
`Partial`. A component's content is the version it was written for, and a snapshot
is its content: its name is a new one (uuid4) and it never changes. `pulled` is
history: the versions removed by failed updates that found them installed, or that
began at them or without a pointer (`Pulls`), until one installs them again.

### SchedulerReinstall (jobs.py 266-356)

The callback of an update that writes the timers anew. `Replace` puts the
rendered text of one unit in place, `Prepared` compares its digest with the
export, and only when every unit is prepared does the activation by launchctl
begin (`Bootout`, `Bootstrap`, `Verify`). A unit is described by whose text it
holds: a user's, the installer's or the one this version renders. `Exports` are
what the two Unix installers write, an entry for each file: systemd's export has
one for a job's `.service` and one for its `.timer`, which the reinstall treats
alike, so each is a unit. Only systemd's records digests.

### MigrateInstall (migrate.py, install-local.sh)

`migrate_install` as a sequence of calls: `TakeManifest` and `StartCopy`,
`EndCopy` per backup (a crash in between leaves `Partial` under the final name),
`WriteConfig`, `Commit` (the receipt), and the except clause, which removes a
live directory before it copies the backup over it (`StartRestore`, `EndRestore`)
and unlinks a configuration no receipt verifies (`Undone`). Between calls users
and jobs write, and the installer edits the configuration (`EditConfig`).

### FreshnessScan (freshness.py)

Several scans of one vault that users edit at any time, also between the `Open`
of a note and the `Read` that finds it touched. A scan reads two manifests
(`Again` begins the second), compares them (`Compare`), and publishes packet and
report, each created exclusively under the digest of its content (`Create`,
`Written`); who finds the name taken compares what is there (`AlreadyThere`,
`Collision`). A crash leaves a part under the final name.

`SnapshotArchive` is what the scans promise: a scan sees the whole vault at one
moment, and puts its packet and then its report in an archive that only grows.
In the refinement (`ImplementsSnapshotArchive`) the moment is the beginning of
the second manifest (`Seen`), and an output is in the archive once all of it is
written.

### BackendRunner (backend_runner.py, backends.py)

`BackendRunner.run` beside the backend it started. The runner goes through
`Turn` (one pass of the read loop), `Poll`, `KillGroup` or `KillLeader`, `Reap`,
`Collect`, `ReadEvidence` and `Clean`; the backend forks, writes, closes its
outputs, leaves evidence and ends as it likes (`Backend`). Output is counted in
chunks up to `Limit`; `Tick` counts down the deadline and the five seconds of
`wait`. SIGKILL dooms a process, which is gone some time later (`Dies`).

A signal goes to the process group and reaches whom it may. `beyond` are the
others: what the backend started may leave the group (`Leave`: setpgid, setsid; the
leader of a session cannot), and any process may change its user (`ChangeUser`).
`_terminate` swallows the error of its second kill, so a leader beyond reach stays
alive without a word: `KillGroup` and `KillLeader` then doom nobody. That the group
refuses the signal and the leader takes it (`KillLeader`, fault "killpg") happens on
macOS; on Linux killpg fails only when no member may be signalled, which is
`KillGroup` with all of them beyond.

### RunLedger (state.py 79-151)

`StateStore.append` and `Ledger.append` by several processes: `Acquire`, `Read`,
`Write`, `Sync`, `Ack`. A write can stop in the middle (`WriteStops`), a process
between any two steps (`Stops`), and the machine (`Power`), which takes what was
not synced (`TailGoes`) or, since `append` never syncs the directory, the whole file
(`FileGoes`); `entry` says that a power loss has found the file on disk, which the
next cannot undo. A digest is the list of what it was computed from, so the chain can
be verified as `Ledger.verify` does. `ended` says whether the last line has its
newline: without one, the next line joins it (`Adding`).

### MC modules and proof modules

`MCX` only gives the constants of `X` values and names the symmetries; `XProofs`
extends `X` with the theorems about it, and `JobsProofs` has those about both
modules of jobs.py (whose names for the specification, its initial states and so
on differ for that reason). AtomicPatch,
OneTimePatch and SnapshotArchive, which have no run of their own, are checked
through the modules that use or implement them.

Who composes whom: ManagedApply implements AtomicPatch, ApprovedPatch uses
AtomicPatch's `Patch` for the call of `apply_file` and implements OneTimePatch,
whose vault is AtomicPatch's as well; FreshnessScan implements SnapshotArchive. LifecycleUpdate takes its
callbacks (migration, reinstall, validation) as steps that succeed or fail;
MigrateInstall and SchedulerReinstall say what they do in between.

## 3. The runs

| Run | Instance | Shows |
|---|---|---|
| apply_atomic | 2 processes, 1 note with 2 bodies, 2 transactions; crashes, I/O errors, saves between calls | `TypeOK`, `WriteAhead`, `BackupKept`, `SourcePreserved`, `ScratchStopsRecoveryOnly`, `CommittedStays`, `ImplementsAtomicPatch` |
| approval_once | 2 runs, 2 approvals, 1 note, 2 transactions; crashes, failed writes, expiry, saves | `TypeOK`, `AppliedOnce`, `ConsumedWasApplied`, `PatchedAsApproved`, `ImplementsOneTimePatch` |
| slot_faults | 2 runs under different per-user locks, 1 job, 2 named times, 4 times; every fault | `TypeOK`, `NoOverlap`, `CompletedStays`, `OncePerSlot`, `RunsEnd` |
| update_faults | 1 process, 3 versions, 2 components; any step may fail, a call may be killed, updates also to installed versions | `TypeOK`, `PointerLives`, `Recoverable`, `OutcomeIsTrue` |
| migrate | 3 calls, 2 directories and the legacy file, 2 contents; any step may fail, a call may be killed, edits between calls | `TypeOK`, `NothingLost`, `VerifiedIsFounded`, `FailedIsUndone` |
| backend | a leader and a helper, 2 streams, a pipe of 1 chunk, a cap of 2, a deadline of 2 ticks; every fault, processes out of reach and failed kills among them | `TypeOK`, `Contained`, `AcceptedIsFinal`, `RunEnds` |
| scan | 2 scans, 2 notes, 2 versions, a packet of 1, 2 edits, a vault that starts full or empty; crashes, failed calls | `TypeOK`, `ReportIsSnapshot`, `ImplementsSnapshotArchive` |
| ledger | 2 runs, 2 processes, 4 lines; crashes, torn writes, power losses | `TypeOK`, `ChainSound`, `LegalRuns`, `AckedKept` |
| reinstall | the exports of both installers, 2 units, one enabled; crashes, failed commands, users' changes | `ReinstallTypeOK`, `TrueMeansScheduled` |
| apply_wedged | 1 process, 1 note, 1 transaction; saves between calls | a disagreement, see below |
| timer_expired | 1 run, 2 jobs, a clock 1 ahead of UTC; no faults | a disagreement, see below |
| reinstall_refused | systemd's export; no faults | a disagreement, see below |

Bounds. Two transactions are an unfinished one and a later one that meets it;
journals do not interact otherwise, as a record only speaks of its own directory
and its note. Two bodies tell saved source material from lost material, two
managed values tell patched from unpatched. `Inode` has more numbers than files
and records of the instance, so that none is reused by force. Two runs and two
approvals show every race on one approval and every mix-up of two. Time runs to
3, past a window of 1, with occurrences 3 apart, and users name the day of an
occurrence and a day that has none: a slot can be early, in time, late and
superseded. Updates follow each other without bound; three versions are the one in
use, the one to go back to and a new one. Three migrations are a failed or killed one, one
that meets what it left, and one that finds a receipt; two directories tell the
one that is being copied from the one that is done. Two notes and a packet of one
make the cap bite; two edits are one in each manifest, and two scans reach every
race for one name. `Start` is the vaults the instance starts from: every
note is there and readable, or none is; edits make the others. A cap of two and a pipe of one chunk let a stream end below,
at and beyond the cap, with output left in the pipe. Four lines are a run up to
`applied` or two runs that interleave, with a torn line or a power loss at each;
`LegalRunsHolds` is about any number. `Tx`,
`MaxTime`, `MaxCalls`, `MaxEdits` and `MaxLines` are the only bounds on
how long a system goes on; they appear as guards in `RoomForCall`, `Tick`,
`Begin`, `Edit` and `Calls`.

ApplyAtomic, ApprovalOnce, UpdateFaults, Migrate, Scan and Ledger use symmetry of
model values that no definition tells apart; no liveness property is checked under
symmetry. `MCApprovedPatch` also has a VIEW, `Unreported`, that leaves out how a
run ended: no property of that run and no guard reads it.

Deadlock is checked in every run. BackendRunner and RunLedger have an end, which
is a named stutter of its own (`Stop`, `Full`).

Fairness is assumed where liveness is checked.

* `slot_faults`: a run of the script is an operating-system process and is
  scheduled while it can act (`WF` of `Script`), and its job ends, since the unit
  of a timer has a time limit. Nothing is asked of the job of a run that was killed
  alone: nobody waits for it. `flock` may let another process overtake a waiting
  one, but not for ever (`SF` of `TakeSlotLock`).
* `backend`: the runner goes on while it can (`WF` of `Run`), time passes (`WF` of
  `Tick`), and a process that was sent SIGKILL ends (`WF` of `Dies`). Nothing is
  asked of a backend that was not killed: it may hang for ever, and a kill that
  fails need not be repeated. `RunEnds` therefore excepts the one wait that has no
  timeout, for a leader that could not be signalled (`AtItsMercy`).

Nobody is obliged to start a run, and no fault is obliged to happen.

## 4. Disagreements found and limits

Each of these three is a run that TLC must find violated, with the quoted text
in PROJECT.json.

* **apply_wedged** (apply.py:207). Recovery compares the note with the
  replacement of every committed record, and records are never removed. One save
  of a note that was once patched makes every later patch and recovery of the whole
  vault raise: that is the run. A second patch of the note does the same.
* **timer_expired** (jobs.py:103). `datetime.now().astimezone()` has an offset and
  no zone name, so `scheduled_occurrence` falls back to UTC and reads the wall-clock
  time of the job as one of UTC. A timer that fires on time finds the occurrence
  before, which is expired; the job is not run and the script exits 0. `FiresInTime`
  holds where local time is UTC, where it is no more than arithmetic.
* **reinstall_refused** (jobs.py:311). install-systemd.sh exports the digests of
  its own unit texts; the reinstall replaces each unit with the text of
  `render_systemd` and only then compares, so it raises, with the first unit
  replaced, whenever it is given that export.

The following limits of the code are not among the properties; the models either
show them in the states they reach, or have a fault that lets TLC find them and
that the runs leave out. Two are stated as definitions that no run checks and
TLC finds violated when a configuration names them: `RecoveryNeverRefused`
(ManagedApply) and `DeniedChangesNothing` (ApprovedPatch). (`ForwardOnly`,
`ReportHasPacket` and `PublishedStays` are in no run for another reason: a
refinement that a run checks says more, and each is a theorem.)

Patches. A crash after recovery moved the backup into the note and before it
recorded that leaves a record that matches neither file, and every later recovery
raises (apply.py:216-219). A save between the recheck and the swap is overwritten
without a backup (apply.py:162-170; fault "race"). Recovery takes a note into which
a user saved exactly the text of an unfinished patch for that patch and undoes it
(apply.py:201-216; fault "revisit"). A crash in `_wal` leaves
`transaction.json.tmp`, and nothing removes it (apply.py:83). No patch meets one
when it writes its own journal (`ScratchStopsRecoveryOnly`), but a recovery that
has to write that journal raises, and every later call begins with that recovery. With a reused inode
number recovery of an old record takes a committed file for its own (fault
"reuse"). An approval that expires between reserve and consume makes the command
exit 73, "permission denied", after the note was patched (approval.py:117).

Slots. The job of a run killed alone goes on without its locks, and the next run
may start another beside it: `NoOverlap` excepts such an orphan, though README.md:124
promises "no overlapping runs". A run under another per-user lock waits for
`slots.json.lock` with the time it read before, and may start its job after the
catch-up window; no text says that it may not, and no property says so. Every
result completes a slot, "blocked" and "failed" among them.

Updates. An update to the version in use raises "version already installed"
(update.py:313), and its except clause removes that version's directory
(update.py:342): the pointer leads nowhere and the install is gone. The run has
such updates; `PointerLives` names what they remove (`pulled`) as its one
exception. Without a symbolic link the "old" target is the pointer itself, and a
failed update removes the directory it leads to ("unlinked"; the theorem about
`PointerLives` includes it, the run and the other theorems do not). A crash while
an update that failed early moves the components aside leaves them missing with
nothing to go back to, and one while `state-v1.json` is rewritten leaves it empty
(update.py:221, 344; fault "recrash", left out of the run, of `Recoverable` and of
`OutcomeIsTrue`). A copy that stops half way is not on the list of copies to
remove: when its component was missing before, the part stays after a rollback that
was undone (update.py:222). When the undoing itself fails nothing is promised. No
lock keeps two updates apart. README.md and CHANGELOG.md say that the pointer is
switched after migration, reinstall and validation; the code switches it before.

Reinstall. The activation through systemctl cannot be reached with any
installer's export. Units are in no snapshot of an update, so undoing an update
leaves them replaced.

Migration. A part of a backup left by a crash makes every later call raise
"backup collision", as does a directory that changed since it was kept; nothing
removes the part. A directory removed since it was kept comes back when a
migration fails. The installer edits the configuration after the receipt, so a
later call finds nothing verified and migrates again, and a failed call then
unlinks the edited configuration. What jobs write during a migration can be lost
("busy").

Scan. A note that becomes again what it was between two looks escapes both
manifests ("revert"). A crash leaves a part of an output under its final name, and
every later scan of the same vault state collides with it; two overlapping scans
can collide likewise. One front matter with an unknown field makes the whole scan
raise.

Backend. A helper survives when the leader ends first and nothing times out, and
whenever it left the process group or changed its user. A leader that changed its
user cannot be killed; the error is swallowed, and the wait at
backend_runner.py:115 lasts as long as that leader likes, or the run returns with it
alive after a failed read. A workspace that cannot be removed is never reported:
in the except clause `sys.exc_info()[1]` is that failure itself
(backend_runner.py:138-142). A backend whose outputs were both closed by the cap is killed five seconds later
and reported as timed out. The grace of `wait` accepts a result after the
deadline, and a leader that ends exactly at the deadline is reported as timed
out.

Ledger. A torn last line makes every later append raise. A last line without a
newline is joined by the next one, which is lost although its append returned. The
directory of a new ledger is not synced, and a power loss may take the file with
every line that was acknowledged (state.py:137-139). `AckedKept` names these two as
its exceptions. `splitlines()` also splits at U+0085, U+2028 and U+2029, which the
canonical JSON leaves raw (state.py:117): a line with one of them reads as torn.
Text is left out of the model. Nothing but tests calls `StateStore`, and
`Ledger.append` by itself takes no lock.

## 5. What is proved

For every value of the constants, from the assumptions named in the modules
(`ConstantsAssumption`, `CalendarAssumption`, `NoSlotAssumption`,
`ReinstallAssumption`, `OneEntryPerUnit`) and the ones
stated in the theorem. Bounds are constants, so the theorems hold for systems
that go on for any length.

**ManagedApplyProofs.** `Invariance` proves `IInv`, which joins `TypeOK` and
`WriteAhead` with what makes them inductive: a directory that does not exist has
no journal (`DirInv`); the locals of a process are what its step needs
(`LocalInv`); and how far a process is in its transaction against what is on
disk (`ProgressInv`): the backup holds the preimage until the commit is
recorded, no note is the replacement of a transaction before its swap, and the
journal is exactly one phase behind the record in memory. `WriteAhead` alone is
not inductive: the swap makes it true only because the journal already names the
staged file. `TypeCorrect`, `WriteAheadHolds` and `BackupKeptHolds` follow, for
any faults. `SourcePreservedHolds` needs "race" left out of the faults (section 4
says why) and a second invariant, `SourceInv`: every text that
may still be put into a note has the body its user last saved.

`ScratchStopsRecoveryOnlyHolds`, for any faults, needs `ScratchInv`: a scratch
file is in a directory that exists, and a process that is to write a journal
other than that of a recovery finds none in its directory except the one it just
created. A patch begins in a new directory, and whatever stops it ends its call,
so a scratch file that was left is one only a recovery can meet.

`CommittedStaysHolds` leaves only "reuse" out. Its invariant, `StayInv`, says that
a note a transaction wrote is the replacement its record names (`Placed`), that no
two records name one replacement (`Distinct`), and that the file a prepared record
found still has its preimage unless a user saved it (`Untried`): so recovery never
takes another transaction's file for its own.

`AtomicPatchImplemented` proves the refinement: initial states map to initial
states and every step to a step of AtomicPatch or a stutter. It leaves "race",
"revisit" and "reuse" out, as run apply_atomic does. `ShowInv` is what the mapping
needs: only the swap of a transaction makes its note its replacement (`Own`), so
what `Says` looks for in all records is what the last writer's record tells
(`SaysShown`); and past its recovery walk a call finds no note still to be undone
(`ShowLocal`), so its swap shows the reader nothing new. The rename that records
"committed" is `Patch`, a save is `Save`, every other step is a stutter.

**ApprovedPatchProofs.** `TypeCorrect`, `AppliedOnceHolds`,
`ConsumedWasAppliedHolds`. The invariant says which state the approval file of a
run is in at each of its steps, that only one run can be past the reservation of
an approval (`Exclusive`), and that an approval not yet reserved has authorised
nothing (`Unspent`). `ForwardOnlyHolds` follows from what a step may do to an
approval file (`FileStep`: issue it, or move it by one state with its binding
kept), and `PatchedAsApprovedHolds` from `BindInv`: when a run patches, the file
binds what the run was asked to patch, from the run's own terminal.

`OneTimePatchImplemented` proves the refinement, for any faults. The save of an
issued file is `Grant`; `PatchNote` is `Redeem`, which `BindInv` makes the patch
and the text the approval binds and `Exclusive` its only one; the save of
"consumed" is `Confirm`; whatever ends a run between its reservation and its
patch (a kill, an exception, a digest that no longer fits) is `Void`, as is a
save of "reserved" that raises although it took effect. Every other step is a
stutter, the reservation included: the approval stays open while its run goes on.

**JobsProofs, SlotRunner.** For any faults and whatever lock files the runs open:
`TypeCorrect`, `NoOverlapHolds`, `CompletedStaysHolds` and `OncePerSlotHolds`.
The invariant `RunInv` ties the program counter to the two locks, the loaded
state and the child; `Remembered` says where the slot of a started job is
recorded.

Of the liveness property `RunsEnd`, two parts that need no fairness are proved, for
any faults: a run goes through each of its steps at most once (`RunsMoveOnHolds`,
with `StepsLeft` as the measure), and who waits for `slots.json.lock` waits for a
run that needs no lock any more (`WaitsForOneInsideHolds`). What remains is that
the holder gets on and the waiting run has its turn, which is what the fairness of
section 3 assumes.

**JobsProofs, SchedulerReinstall.** `ReinstallTypes`; `SuccessIsScheduled`, when
no user writes or loads a unit while the reinstall runs ("busy" left out), for
any other faults; and two theorems about the second disagreement of section 4:
`NoDigestSucceeds` (no export with digests is ever reinstalled with success) and
`RaisesForCause` (digests apart, a reinstall in which no command fails raises
only over a unit that is not owned, so the digests are the only thing in the
way). `Undisturbed` says what the units before the entry it is at are like in
each phase; success needs that no two entries name one unit
(`OneEntryPerUnit`), or the second would undo what the first was verified for.

**LifecycleUpdateProofs.** `TypeCorrect` holds for any number of processes and any
faults, from `TInv`: a call under way has a job, and from `Place` on a snapshot. The
type of `state` says that what `state-v1.json` sends a rollback to has no hole.

`PointerLivesHolds` is for one process, since no lock keeps two apart, and for any
faults: updates to installed versions, installs without a pointer and kills at any
step are all in it. `PInv` adds to `PointerLives` that a call which has not moved
the pointer, and an update about to remove its version, find it where they began
(`Held`): so removing the version takes what the pointer leads to only when the
update began at it, began without a pointer, or found it installed, and those it
`Pulls`.

`OutcomeIsTrueHolds` and `RecoverableHolds` are for one process that crashes, fails
and updates to any version, but is not killed while it undoes an update, and whose
install has a pointer (`Alone(p)`; section 4 says what happens otherwise). Their
invariant says what an update knows of the install it started from at each step
(`UpdateInv`), that a rollback is to the recorded snapshot throughout
(`RollbackInv`), where each component is during `_component_transaction` and while
it is undone (`TransactionInv`), and that between calls the install or the recorded
snapshot is what it should be (`IdleInv`); `GoalInv` adds how much of the install it
is to make there is, and what a rollback that fails puts back.

**MigrateInstallProofs.** `NothingLostHolds`, `VerifiedIsFoundedHolds`,
`FailedIsUndoneHolds` and `TypeCorrect`, when users and jobs write between calls
only ("busy" left out). `FailedIsUndone` promises of the directories that each is as
it was or, if it was absent, came back from its backup, and of the configuration only
that it is absent or verified, or untouched when the call was refused before. The invariant says that up to its commit a call changes
nothing but backups (`Keeping`), that a copy under way is of something no backup
held and no receipt mentions (`Copying`), that once it restores the backups hold
whatever must not be lost (`Restoring`), and that a receipt stays founded
(`ReceiptInv`).

**FreshnessScanProofs.** For any faults: `TypeCorrect`, which includes that no
packet has more notes than the cap (a due note is mapped one-to-one to how many
are ahead of it), `ReportHasPacketHolds` and `PublishedStaysHolds`, from `Owns` (an
output that exists and is not whole belongs to one scan at most) and
`PacketFirst`. `ReportIsSnapshotHolds` leaves "revert" out and needs `SInv`: what a
scan has taken of a note is what the note was, and what it was it never is again
once it changed.

`SnapshotArchiveImplemented` proves the refinement, likewise without "revert":
the step that begins the second manifest is `See`, the last step of an exclusive
write is `PublishPacket` or `PublishReport`, and a scan that raises, finds the
vault changed, collides, is killed or finds its report already there takes `Leave`.
`ReportIsSnapshot` makes what is published what was seen, `PacketFirst` puts the
packet there before the report, and `Owns` lets a failed write unlink only its own
part, so that nothing leaves the archive.

**BackendRunnerProofs.** For any faults: `TypeCorrect`, `ContainedHolds`,
`AcceptedIsFinalHolds`, from what each step of the runner knows of the leader
(`LeaderInv`), of the clock and the streams (`LateInv`) and of its result
(`AcceptInv`). Likewise for `RunEnds`: `MovesOnHolds` says that no step of anybody
takes the runner back to an earlier `Stage` or puts a deadline off, and that every
step of the runner lowers the stage, except a turn of the read loop before the
deadline; `WaitsForTheDeadHolds` that the only wait without a timeout
(backend_runner.py:115) is for a leader that was sent SIGKILL, is gone, or is beyond
the reach of a signal.

**RunLedgerProofs.** For any faults: `TypeCorrect`, `ChainSoundHolds`,
`LegalRunsHolds`, `AckedKeptHolds`. `CallInv` says that a call inside holds the
lock and decides about the file as it is; `AckInv` that an acknowledged line is
synced and nothing joins it, or the ledger is torn for good. A step changes the
file in one of a few ways (it loses a part of its end, ends torn, or gains the
line of a valid record), and `ChainSound` and `LegalRuns` are proved for each.

Only model-checked: the liveness properties `RunsEnd` and `RunEnds` as a whole, since
fairness and ENABLED are out of the prover's reach. Every safety property that a
passing run checks is a theorem.

## 6. What is not modelled, and why

Release verification, configuration, contracts and permissions are pure checks:
in the models they hold or fail as a whole. Status and validate only read. The
frontmatter codec is reduced to "only the managed part changes". The DST rule of
`_resolve_local` and the jitter are left out: the calendar is given. Windows
(junctions, tasks, mutexes) and the release build are left out. The installers
and uninstallers are sequential shell scripts; only what the installer does to
the migrated configuration is modelled. `StateStore.write_status` is one atomic
write nothing reads, and `redact` a pure function. In LifecycleUpdate a call that
is refused before it changes anything has no step. `update.journal` and the migration's journal are left out because nothing
reads them.

## 7. What is left

In this order, the most valuable first.

1. *An abstract install* (before or after, and the one to go back to) that
   LifecycleUpdate implements, and the composition of MigrateInstall and
   SchedulerReinstall with it as callbacks.
2. *JobCalendar*: occurrences and next runs across a DST change, as operators
   checked against a reference definition.
3. *Installer, Uninstaller*: ownership markers, backups, partial failure.
4. *Windows*: junctions instead of symbolic links, scheduled tasks, the
   maintenance mutex.
