--------------------------- MODULE MigrateInstall ---------------------------
(***************************************************************************)
(* latticemind_core/migrate.py: migrate_install, as the installers and     *)
(* "latticemind migrate" call it.  The legacy configuration and the owned  *)
(* directories are copied to backups/migration-v1, config-v1.json is       *)
(* written and the receipt commits it; a failure after that puts the       *)
(* directories back.                                                       *)
(*                                                                         *)
(* A content is a value of Content; digests and manifests compare          *)
(* contents.  Parsing, the requested vault and the signed manifest hold or *)
(* refuse the call as a whole, and migration-v1.journal.json is left out:  *)
(* it is written and nothing reads it.                                     *)
(***************************************************************************)
EXTENDS Integers, FiniteSets

CONSTANTS
  Tracked,   \* reports, integrations, jobs, state, runtime
  Legacy,    \* the legacy configuration file
  Content,   \* what a file or a directory can hold
  MaxCalls,  \* bound: calls made
  Faults,    \* what the environment does in this instance
  Absent, Partial, None

FaultKinds == {
  "crash",  \* the process is killed
  "fail",   \* a system call fails
  "busy"}   \* jobs and users write while a migration runs

Thing == Tracked \union {Legacy}
Held == Content \union {Absent, Partial}

\* config-v1.json as migrate_install builds it.  The install id comes from
\* the legacy vault path, or is random (a number) when there is no legacy file.
Config == [source : Held, dirs : [Tracked -> Held], id : 0 .. MaxCalls, edited : BOOLEAN]

ASSUME ConstantsAssumption ==
  /\ Legacy \notin Tracked /\ IsFiniteSet(Tracked)
  /\ Absent \notin Content /\ Partial \notin Content /\ Absent # Partial
  /\ None \notin Config /\ None \notin Thing
  /\ MaxCalls \in Nat /\ Faults \subseteq FaultKinds

VARIABLES
  live,     \* what is in the configuration directory
  kept,     \* what is in backups/migration-v1
  config,   \* config-v1.json
  receipt,  \* the configuration whose digest migration-v1.json holds
  pc,       \* where migrate_install is
  todo,     \* what it still has to copy
  copying,  \* what it is copying
  raw,      \* the legacy bytes it read
  dirs,     \* the manifests it took of the directories
  calls,    \* how many calls were made
  owned,    \* history: what users and jobs last left there
  before,   \* history: the directories and the configuration when the call began
  result    \* how the last call ended

store == <<live, kept, config, receipt>>
call == <<pc, todo, copying, raw, dirs, calls>>
history == <<owned, before>>
vars == <<store, call, history, result>>

Results == {"none", "done", "refused", "failed", "broken", "crashed"}

\* Every variable holds what migrate.py can put there; the legacy file is never
\* restored, and a copy is of something that is still to be copied.
TypeOK ==
  /\ live \in [Thing -> Held] /\ kept \in [Thing -> Held]
  /\ config \in Config \union {None} /\ receipt \in Config \union {None}
  /\ pc \in {"idle", "keep", "try", "written", "undo"}
  /\ todo \subseteq (IF pc = "undo" THEN Tracked ELSE Thing) /\ copying \in todo \union {None}
  /\ raw \in Held /\ dirs \in [Tracked -> Held] /\ calls \in 0 .. MaxCalls
  /\ owned \in [Thing -> Content \union {Absent}]
  /\ before \in [live : [Thing -> Held], config : Config \union {None}] /\ result \in Results

Nothing == [d \in Tracked |-> Absent]

Init ==
  /\ live \in [Thing -> Content \union {Absent}]
  /\ kept = [x \in Thing |-> Absent]
  /\ config = None /\ receipt = None
  /\ pc = "idle" /\ todo = {} /\ copying = None
  /\ raw = Absent /\ dirs = Nothing /\ calls = 0
  /\ owned = live /\ before = [live |-> live, config |-> None] /\ result = "none"

\* _verified_receipt: a digest is the configuration it is the digest of.
Verified == config # None /\ receipt = config

\* How a call leaves: its local variables go with it.
End(r) ==
  /\ pc' = "idle" /\ result' = r
  /\ todo' = {} /\ copying' = None /\ raw' = Absent /\ dirs' = Nothing

-----------------------------------------------------------------------------

\* The receipt is checked first; otherwise the legacy file is read, and what is
\* there is to be kept.
BeginWith(things) ==
  /\ pc = "idle" /\ calls < MaxCalls
  /\ calls' = calls + 1 /\ before' = [live |-> live, config |-> config]
  /\ IF Verified THEN End("done")
     ELSE /\ pc' = "keep" /\ raw' = live[Legacy] /\ todo' = things
          /\ result' = "none" /\ UNCHANGED <<copying, dirs>>
  /\ UNCHANGED <<store, owned>>

BeginSkipsLegacy == BeginWith({d \in Tracked : live[d] # Absent})

Begin == BeginWith({x \in Thing : live[x] # Absent})

\* The legacy configuration is kept before any directory.  A backup that is
\* already there must hold the same, and is never written again.
KeepNext(x) == pc = "keep" /\ x \in todo /\ copying = None /\ (Legacy \in todo => x = Legacy)

TakeManifest(x) == dirs' = IF x = Legacy THEN dirs ELSE [dirs EXCEPT ![x] = live[x]]

AlreadyKeptUnchecked(x) ==
  /\ KeepNext(x) /\ kept[x] # Absent
  /\ todo' = todo \ {x} /\ TakeManifest(x)
  /\ UNCHANGED <<store, pc, copying, raw, calls, history, result>>

AlreadyKept(x) ==
  /\ KeepNext(x) /\ kept[x] # Absent /\ kept[x] = live[x]
  /\ todo' = todo \ {x} /\ TakeManifest(x)
  /\ UNCHANGED <<store, pc, copying, raw, calls, history, result>>

BackupCollision(x) ==
  /\ KeepNext(x) /\ kept[x] # Absent /\ (kept[x] # live[x] \/ kept[x] = Partial)
  /\ End("refused")
  /\ UNCHANGED <<store, calls, history>>

StartCopy(x) ==
  /\ KeepNext(x) /\ kept[x] = Absent
  /\ copying' = x /\ kept' = [kept EXCEPT ![x] = Partial] /\ TakeManifest(x)
  /\ UNCHANGED <<live, config, receipt, pc, todo, raw, calls, history, result>>

EndCopy ==
  /\ pc = "keep" /\ copying # None
  /\ kept' = [kept EXCEPT ![copying] = live[copying]]
  /\ todo' = todo \ {copying} /\ copying' = None
  /\ UNCHANGED <<live, config, receipt, pc, raw, dirs, calls, history, result>>

\* The legacy text does not parse, the vault is another one, the signed
\* manifest does not verify, or a copy fails: nothing is undone.
Refuse ==
  /\ pc = "keep" /\ (Legacy \notin todo \/ "fail" \in Faults)
  /\ copying # None => "fail" \in Faults
  /\ End("refused")
  /\ UNCHANGED <<store, calls, history>>

Prepared ==
  /\ pc = "keep" /\ todo = {} /\ pc' = "try"
  /\ UNCHANGED <<store, todo, copying, raw, dirs, calls, history, result>>

Payload == [source |-> raw, dirs |-> dirs, edited |-> FALSE,
            id |-> IF raw = Absent THEN calls ELSE 0]

WriteConfig ==
  /\ pc = "try" /\ pc' = "written" /\ config' = Payload
  /\ UNCHANGED <<live, kept, receipt, todo, copying, raw, dirs, calls, history, result>>

Commit ==
  /\ pc = "written" /\ receipt' = Payload /\ End("done")
  /\ UNCHANGED <<live, kept, config, calls, history>>

Undo(things) ==
  /\ pc \in {"try", "written"}
  /\ pc' = "undo" /\ todo' = {x \in things : kept[x] # Absent}
  /\ UNCHANGED <<store, copying, raw, dirs, calls, history, result>>

FailsRestoringAll == Undo(Thing)

\* The vault changed, or a write failed: every backup of a directory is put
\* back, one after another, each directory removed before it is copied.
Fails == Undo(Tracked)

StartRestore(d) ==
  /\ pc = "undo" /\ d \in todo /\ copying = None
  /\ copying' = d /\ live' = [live EXCEPT ![d] = Partial]
  /\ UNCHANGED <<kept, config, receipt, pc, todo, raw, dirs, calls, history, result>>

EndRestore ==
  /\ pc = "undo" /\ copying # None
  /\ live' = [live EXCEPT ![copying] = kept[copying]]
  /\ todo' = todo \ {copying} /\ copying' = None
  /\ UNCHANGED <<kept, config, receipt, pc, raw, dirs, calls, history, result>>

\* The configuration goes unless its receipt verifies it.
UndoneKeepsConfig ==
  /\ pc = "undo" /\ todo = {} /\ End("failed")
  /\ UNCHANGED <<store, calls, history>>

Undone ==
  /\ pc = "undo" /\ todo = {} /\ End("failed")
  /\ config' = IF Verified THEN config ELSE None
  /\ UNCHANGED <<live, kept, receipt, calls, history>>

UndoFails ==
  /\ pc = "undo" /\ "fail" \in Faults /\ End("broken")
  /\ UNCHANGED <<store, calls, history>>

Crash ==
  /\ pc # "idle" /\ "crash" \in Faults /\ End("crashed")
  /\ UNCHANGED <<store, calls, history>>

-----------------------------------------------------------------------------

\* recover_migration.
Recover ==
  /\ pc = "idle" /\ config # None /\ ~Verified
  /\ config' = None /\ result' = "none"
  /\ UNCHANGED <<live, kept, receipt, call, history>>

\* The installer writes the chosen profile into the configuration, maybe the
\* one it had.
EditConfig ==
  /\ pc = "idle" /\ config # None /\ result' = "none"
  /\ \E e \in BOOLEAN : config' = [config EXCEPT !.edited = e]
  /\ UNCHANGED <<live, kept, receipt, call, history>>

\* Users edit the legacy file, jobs write the directories.
OwnerWrites(x) ==
  /\ pc = "idle" \/ "busy" \in Faults
  /\ \E c \in Content \union {Absent} :
       /\ c # live[x]
       /\ live' = [live EXCEPT ![x] = c] /\ owned' = [owned EXCEPT ![x] = c]
  /\ result' = "none"
  /\ UNCHANGED <<kept, config, receipt, call, before>>

Next ==
  \/ Begin \/ EndCopy \/ Refuse \/ Prepared \/ WriteConfig \/ Commit \/ Fails
  \/ EndRestore \/ Undone \/ UndoFails \/ Crash \/ Recover \/ EditConfig
  \/ \E x \in Thing : AlreadyKept(x) \/ BackupCollision(x) \/ StartCopy(x) \/ OwnerWrites(x)
  \/ \E d \in Tracked : StartRestore(d)

Spec == Init /\ [][Next]_vars

-----------------------------------------------------------------------------

\* What users and jobs left in the legacy file and in the directories is still
\* there or in the backups, wherever a migration stops.
NothingLost == \A x \in Thing : owned[x] \in {Absent, live[x], kept[x]}

\* What a committed configuration was made from can be read in the backups:
\* the legacy file and every directory its provenance lists.
VerifiedIsFounded ==
  Verified =>
    /\ config.source # Absent => kept[Legacy] = config.source
    /\ \A d \in Tracked : config.dirs[d] # Absent => kept[d] = config.dirs[d]

\* A call that failed left every directory as it was when the call began, and no
\* configuration but one a receipt verifies; one that was refused left the
\* configuration too.  A directory removed since it was kept comes back.
FailedIsUndone ==
  /\ result \in {"refused", "failed"} => \A x \in Thing :
       \/ live[x] = before.live[x]
       \/ result = "failed" /\ before.live[x] = Absent /\ live[x] = kept[x]
  /\ result = "failed" => config = None \/ Verified
  /\ result = "refused" => config = before.config
=============================================================================
