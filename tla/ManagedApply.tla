---------------------------- MODULE ManagedApply ----------------------------
(***************************************************************************)
(* latticemind_core/apply.py: a patch of one note's managed frontmatter,   *)
(* as a write-ahead-logged file transaction.  One step per durable effect  *)
(* or per look at shared state; between two steps of a process a user may  *)
(* save the note, the process may be killed, or a system call may fail.    *)
(*                                                                         *)
(* A file is its inode number and its text; a digest is the text itself    *)
(* (sha256 is taken to be injective).  Transaction directories are never   *)
(* removed, so every later call walks all of them.                         *)
(***************************************************************************)
EXTENDS Integers, FiniteSets

CONSTANTS
  Note,      \* notes of the vault
  Body,      \* source material: everything outside the managed keys
  Managed,   \* values of the managed frontmatter keys
  Tx,        \* names of transaction directories (uuid4); bounds the calls
  Proc,      \* processes that call apply_file or recover
  Inode,     \* inode numbers the file systems may hand out
  Vault,     \* the file each note starts as
  Faults,    \* what the environment does in this instance
  NoProc,    \* nobody holds the lock
  NoTx,      \* no transaction wrote the note
  NoNote     \* recover() names no note

FaultKinds == {
  "crash",    \* a process is killed between two steps
  "io",       \* a system call raises OSError
  "save",     \* a user saves a note while no call is running
  "race",     \* a user saves a note while a call is running
  "revisit",  \* a saved text may equal the postimage of an unfinished record
  "reuse"}    \* a freed inode number named by a record is handed out again

NoInode == 0
Text == [body : Body, managed : Managed]
File == [ino : Inode, text : Text]
NoText == [body |-> "none", managed |-> "none"]
NoFile == [ino |-> NoInode, text |-> NoText]

ASSUME ConstantsAssumption ==
  /\ Faults \subseteq FaultKinds
  /\ NoInode \notin Inode /\ Inode \subseteq Nat
  /\ "none" \notin Body /\ "none" \notin Managed
  /\ NoProc \notin Proc /\ NoTx \notin Tx /\ NoNote \notin Note
  /\ Vault \in [Note -> File]
  /\ \A m, n \in Note : m # n => Vault[m].ino # Vault[n].ino

(***************************************************************************)
(* The journal record of a transaction (transaction.json).                 *)
(***************************************************************************)
Phases == {"none", "prepared", "replacing", "replaced", "committed", "recovered"}

Record == [target : Note, target_ino : Inode, replacement_ino : Inode \union {NoInode},
           preimage : Text, postimage : Text, phase : Phases]

NoRecord == [target |-> NoNote, target_ino |-> NoInode, replacement_ino |-> NoInode,
             preimage |-> NoText, postimage |-> NoText, phase |-> "none"]

VARIABLES
  note,      \* the vault: each note's file
  dirs,      \* transaction directories that exist
  journal,   \* their transaction.json, NoRecord while there is none
  scratch,   \* those with a transaction.json.tmp left in them
  backup,    \* their "preimage" file, or NoFile
  staged,    \* the .latticemind-* replacement next to the note, or NoFile
  lock,      \* holder of .apply.lock
  pc,        \* next step of each process
  call,      \* arguments of each process's call
  st,        \* inode number the process read at the start of its transaction
  todo,      \* transactions its recovery walk has still to look at
  tx,        \* transaction directory the process works in
  rec,       \* the in-memory record it writes next
  result,    \* how its last call ended
  writer,    \* history: the transaction whose replacement the note is, or NoTx
  typed      \* history: what the user last saved in each note

files == <<note, dirs, journal, scratch, backup, staged>>
locals == <<call, st, todo, tx, rec>>
history == <<writer, typed>>
vars == <<note, dirs, journal, scratch, backup, staged, lock, pc, call, st, todo,
          tx, rec, result, writer, typed>>

Labels == {"idle", "acquire", "recover", "restore", "stat", "read", "backup",
           "journal_open", "journal_rename", "recheck", "stage", "swap",
           "verify", "purge"}

\* "refused" is an exception out of _recover's checks, "failed" any other one.
Results == {"none", "ok", "refused", "failed"}

NoCall == [op |-> "none", target |-> NoNote, update |-> "none", expected |-> NoText]
Call == [op : {"apply"}, target : Note, update : Managed, expected : Text]
        \union {[NoCall EXCEPT !.op = "recover"]}

\* _render: only the managed keys change.
Render(c, u) == [c EXCEPT !.managed = u]

(***************************************************************************)
(* Inode numbers.  A new file gets a number no file holds.  Numbers that   *)
(* neither a file nor a record nor a process mentions are interchangeable, *)
(* so one of them stands for all; with "reuse" a freed number that is      *)
(* still mentioned may come back as well.                                  *)
(***************************************************************************)
InUse ==
  {note[n].ino : n \in Note} \union {backup[t].ino : t \in Tx}
    \union {staged[t].ino : t \in Tx}

Mentioned ==
  {journal[t].target_ino : t \in Tx} \union {journal[t].replacement_ino : t \in Tx}
    \union {st[p] : p \in Proc}

NewInode ==
  LET free == Inode \ InUse
      unmentioned == free \ Mentioned
  IN (IF unmentioned = {} THEN {} ELSE {CHOOSE i \in unmentioned : TRUE})
     \union (IF "reuse" \in Faults THEN free \intersect Mentioned ELSE {})

-----------------------------------------------------------------------------
Init ==
  /\ note = Vault
  /\ dirs = {}
  /\ journal = [t \in Tx |-> NoRecord]
  /\ scratch = {}
  /\ backup = [t \in Tx |-> NoFile]
  /\ staged = [t \in Tx |-> NoFile]
  /\ lock = NoProc
  /\ pc = [p \in Proc |-> "idle"]
  /\ call = [p \in Proc |-> NoCall]
  /\ st = [p \in Proc |-> NoInode]
  /\ todo = [p \in Proc |-> {}]
  /\ tx = [p \in Proc |-> NoTx]
  /\ rec = [p \in Proc |-> NoRecord]
  /\ result = [p \in Proc |-> "none"]
  /\ writer = [n \in Note |-> NoTx]
  /\ typed = [n \in Note |-> Vault[n].text]

Goto(p, label) == pc' = [pc EXCEPT ![p] = label]

\* Mutant: a return that forgets the lock.
ReturnKeepingLock(p, how) ==
  /\ pc' = [pc EXCEPT ![p] = "idle"]
  /\ call' = [call EXCEPT ![p] = NoCall]
  /\ st' = [st EXCEPT ![p] = NoInode]
  /\ todo' = [todo EXCEPT ![p] = {}]
  /\ tx' = [tx EXCEPT ![p] = NoTx]
  /\ rec' = [rec EXCEPT ![p] = NoRecord]
  /\ result' = [result EXCEPT ![p] = how]
  /\ UNCHANGED lock

\* The call ends and the process forgets its locals.
Return(p, how) ==
  /\ pc' = [pc EXCEPT ![p] = "idle"]
  /\ lock' = IF lock = p THEN NoProc ELSE lock
  /\ call' = [call EXCEPT ![p] = NoCall]
  /\ st' = [st EXCEPT ![p] = NoInode]
  /\ todo' = [todo EXCEPT ![p] = {}]
  /\ tx' = [tx EXCEPT ![p] = NoTx]
  /\ rec' = [rec EXCEPT ![p] = NoRecord]
  /\ result' = [result EXCEPT ![p] = how]

\* The process is inside apply_file's inner try block, with its replacement
\* staged: from mkstemp until the swap.
HoldsStaged(p) ==
  \/ pc[p] = "swap"
  \/ pc[p] \in {"journal_open", "journal_rename"} /\ rec[p].phase = "replacing"

\* An exception leaves the call: _wal's finally unlinks the scratch file it
\* opened, apply_file's finally unlinks the staged replacement, and leaving
\* the with block releases the lock.
Raise(p, how) ==
  /\ scratch' = IF pc[p] = "journal_rename" THEN scratch \ {tx[p]} ELSE scratch
  /\ staged' = IF HoldsStaged(p) THEN [staged EXCEPT ![tx[p]] = NoFile] ELSE staged
  /\ Return(p, how)
  /\ UNCHANGED <<note, dirs, journal, backup, history>>

(***************************************************************************)
(* Entering a call.                                                        *)
(***************************************************************************)
\* Bound: a call starts only while a transaction name is left for it.
RoomForCall ==
  Cardinality({q \in Proc : call[q].op = "apply" /\ pc[q] \in
     {"acquire", "recover", "restore", "stat", "read", "backup", "journal_open", "journal_rename"}})
    < Cardinality(Tx \ dirs)

\* The caller has digested the note it wants to patch.
CallApply(p) ==
  /\ pc[p] = "idle"
  /\ RoomForCall
  /\ \E n \in Note, u \in Managed :
       call' = [call EXCEPT ![p] = [op |-> "apply", target |-> n, update |-> u,
                                    expected |-> note[n].text]]
  /\ result' = [result EXCEPT ![p] = "none"]
  /\ Goto(p, "acquire")
  /\ UNCHANGED <<files, lock, st, todo, tx, rec, history>>

CallRecover(p) ==
  /\ pc[p] = "idle"
  /\ call' = [call EXCEPT ![p] = [NoCall EXCEPT !.op = "recover"]]
  /\ result' = [result EXCEPT ![p] = "none"]
  /\ Goto(p, "acquire")
  /\ UNCHANGED <<files, lock, st, todo, tx, rec, history>>

\* FileLock with its default timeout of 0: one try.
Acquire(p) ==
  /\ pc[p] = "acquire"
  /\ lock = NoProc
  /\ lock' = p
  /\ todo' = [todo EXCEPT ![p] = {t \in dirs : journal[t] # NoRecord}]
  /\ Goto(p, "recover")
  /\ UNCHANGED <<files, call, st, tx, rec, result, history>>

Contend(p) ==
  /\ pc[p] = "acquire"
  /\ lock # NoProc
  /\ Raise(p, "failed")

(***************************************************************************)
(* _recover: every recorded transaction is checked against the note it     *)
(* names, in directory order, which is arbitrary.                          *)
(***************************************************************************)
IsOriginal(r, f) == f.ino = r.target_ino /\ f.text = r.preimage
IsReplacement(r, f) == f.ino = r.replacement_ino /\ f.text = r.postimage

\* Mutant: recovery compares inode numbers only.
MismatchByInode(r, f) == f.ino \notin {r.target_ino, r.replacement_ino}

\* The note is not what the record's phase allows.
Mismatch(r, f) ==
  \/ r.phase = "prepared" /\ f.ino # r.target_ino
  \/ r.phase = "replacing" /\ ~IsOriginal(r, f) /\ ~IsReplacement(r, f)
  \/ r.phase \in {"replaced", "committed"} /\ ~IsReplacement(r, f)
  \/ f.text \notin {r.preimage, r.postimage}

\* Mutant: a swapped but uncommitted transaction counts as finished.
FinishedOnceReplaced(r) == r.phase \in {"replaced", "committed", "recovered"}

Finished(r) == r.phase \in {"committed", "recovered"}

\* Mutant: recovery looks at the note only.
NothingToUndoByText(r, f) == f.text = r.preimage

NothingToUndo(r, f) == Finished(r) \/ f.text = r.preimage

RecoverRefuses(p, t) ==
  LET r == journal[t]  f == note[r.target] IN
  /\ pc[p] = "recover" /\ t \in todo[p]
  /\ \/ Mismatch(r, f)
     \/ ~NothingToUndo(r, f) /\ backup[t].text # r.preimage
  /\ Raise(p, "refused")

\* A finished transaction loses the backup a crash may have left behind.
RecoverSkips(p, t) ==
  LET r == journal[t]  f == note[r.target] IN
  /\ pc[p] = "recover" /\ t \in todo[p]
  /\ ~Mismatch(r, f)
  /\ NothingToUndo(r, f)
  /\ backup' = IF Finished(r) THEN [backup EXCEPT ![t] = NoFile] ELSE backup
  /\ todo' = [todo EXCEPT ![p] = @ \ {t}]
  /\ UNCHANGED <<note, dirs, journal, scratch, staged, lock, pc, call, st, tx, rec,
                 result, history>>

RecoverUndoes(p, t) ==
  LET r == journal[t]  f == note[r.target] IN
  /\ pc[p] = "recover" /\ t \in todo[p]
  /\ ~Mismatch(r, f)
  /\ ~NothingToUndo(r, f)
  /\ backup[t].text = r.preimage
  /\ tx' = [tx EXCEPT ![p] = t]
  /\ rec' = [rec EXCEPT ![p] = [r EXCEPT !.phase = "recovered"]]
  /\ todo' = [todo EXCEPT ![p] = @ \ {t}]
  /\ Goto(p, "restore")
  /\ UNCHANGED <<files, lock, call, st, result, history>>

\* os.replace(backup, target); the record still says what it said.
Restore(p) ==
  /\ pc[p] = "restore"
  /\ note' = [note EXCEPT ![rec[p].target] = backup[tx[p]]]
  /\ backup' = [backup EXCEPT ![tx[p]] = NoFile]
  /\ writer' = [writer EXCEPT ![rec[p].target] = NoTx]
  /\ Goto(p, "journal_open")
  /\ UNCHANGED <<dirs, journal, scratch, staged, lock, locals, result, typed>>

Recovered(p) ==
  /\ pc[p] = "recover" /\ todo[p] = {}
  /\ \/ /\ call[p].op = "apply"
        /\ Goto(p, "stat")
        /\ UNCHANGED <<files, lock, locals, result, history>>
     \/ /\ call[p].op = "recover"
        /\ Return(p, "ok")
        /\ UNCHANGED <<files, history>>

(***************************************************************************)
(* _wal: write transaction.json.tmp, which must not exist, and rename it.  *)
(***************************************************************************)
JournalOpen(p) ==
  /\ pc[p] = "journal_open"
  /\ \/ /\ tx[p] \in scratch
        /\ Raise(p, "failed")
     \/ /\ tx[p] \notin scratch
        /\ scratch' = scratch \union {tx[p]}
        /\ Goto(p, "journal_rename")
        /\ UNCHANGED <<note, dirs, journal, backup, staged, lock, locals, result, history>>

\* What follows the record of each phase.
Continuation(phase) ==
  CASE phase = "prepared"  -> "recheck"
    [] phase = "replacing" -> "swap"
    [] phase = "replaced"  -> "verify"
    [] phase = "committed" -> "purge"
    [] OTHER -> "recover"

\* Mutant: the scratch file is copied to the journal and left behind.
JournalCopy(p) ==
  /\ pc[p] = "journal_rename"
  /\ journal' = [journal EXCEPT ![tx[p]] = rec[p]]
  /\ Goto(p, Continuation(rec[p].phase))
  /\ UNCHANGED <<note, dirs, scratch, backup, staged, lock, locals, result, history>>

JournalRename(p) ==
  /\ pc[p] = "journal_rename"
  /\ journal' = [journal EXCEPT ![tx[p]] = rec[p]]
  /\ scratch' = scratch \ {tx[p]}
  /\ Goto(p, Continuation(rec[p].phase))
  /\ UNCHANGED <<note, dirs, backup, staged, lock, locals, result, history>>

(***************************************************************************)
(* apply_file, after recovery.                                             *)
(***************************************************************************)
Stat(p) ==
  /\ pc[p] = "stat"
  /\ st' = [st EXCEPT ![p] = note[call[p].target].ino]
  /\ Goto(p, "read")
  /\ UNCHANGED <<files, lock, call, todo, tx, rec, result, history>>

ReadPreimage(p) ==
  /\ pc[p] = "read"
  /\ \/ /\ note[call[p].target].text # call[p].expected
        /\ Raise(p, "failed")
     \/ /\ note[call[p].target].text = call[p].expected
        /\ Goto(p, "backup")
        /\ UNCHANGED <<files, lock, locals, result, history>>

\* A new directory with the preimage in it.  Until its journal exists no
\* recovery looks at it, so its making is one step.
MakeBackup(p) ==
  /\ pc[p] = "backup"
  /\ \E t \in Tx \ dirs, i \in NewInode :
       /\ dirs' = dirs \union {t}
       /\ backup' = [backup EXCEPT ![t] = [ino |-> i, text |-> call[p].expected]]
       /\ tx' = [tx EXCEPT ![p] = t]
  /\ rec' = [rec EXCEPT ![p] =
       [target |-> call[p].target, target_ino |-> st[p], replacement_ino |-> NoInode,
        preimage |-> call[p].expected,
        postimage |-> Render(call[p].expected, call[p].update), phase |-> "prepared"]]
  /\ Goto(p, "journal_open")
  /\ UNCHANGED <<note, journal, scratch, staged, lock, call, st, todo, result, history>>

Recheck(p) ==
  /\ pc[p] = "recheck"
  /\ \/ /\ ~IsOriginal(rec[p], note[rec[p].target])
        /\ Raise(p, "failed")
     \/ /\ IsOriginal(rec[p], note[rec[p].target])
        /\ Goto(p, "stage")
        /\ UNCHANGED <<files, lock, locals, result, history>>

\* Mutant: the swap is not announced in the journal first.
StageUnannounced(p) ==
  /\ pc[p] = "stage"
  /\ \E i \in NewInode :
       /\ staged' = [staged EXCEPT ![tx[p]] = [ino |-> i, text |-> rec[p].postimage]]
       /\ rec' = [rec EXCEPT ![p].replacement_ino = i, ![p].phase = "replacing"]
  /\ Goto(p, "swap")
  /\ UNCHANGED <<note, dirs, journal, scratch, backup, lock, call, st, todo, tx, result,
                 history>>

Stage(p) ==
  /\ pc[p] = "stage"
  /\ \E i \in NewInode :
       /\ staged' = [staged EXCEPT ![tx[p]] = [ino |-> i, text |-> rec[p].postimage]]
       /\ rec' = [rec EXCEPT ![p].replacement_ino = i, ![p].phase = "replacing"]
  /\ Goto(p, "journal_open")
  /\ UNCHANGED <<note, dirs, journal, scratch, backup, lock, call, st, todo, tx, result,
                 history>>

Swap(p) ==
  /\ pc[p] = "swap"
  /\ note' = [note EXCEPT ![rec[p].target] = staged[tx[p]]]
  /\ staged' = [staged EXCEPT ![tx[p]] = NoFile]
  /\ writer' = [writer EXCEPT ![rec[p].target] = tx[p]]
  /\ rec' = [rec EXCEPT ![p].phase = "replaced"]
  /\ Goto(p, "journal_open")
  /\ UNCHANGED <<dirs, journal, scratch, backup, lock, call, st, todo, tx, result, typed>>

\* Mutant: the backup goes before the commit is on disk.
VerifyPurging(p) ==
  /\ pc[p] = "verify"
  /\ note[rec[p].target].text = rec[p].postimage
  /\ backup' = [backup EXCEPT ![tx[p]] = NoFile]
  /\ rec' = [rec EXCEPT ![p].phase = "committed"]
  /\ Goto(p, "journal_open")
  /\ UNCHANGED <<note, dirs, journal, scratch, staged, lock, call, st, todo, tx, result,
                 history>>

Verify(p) ==
  /\ pc[p] = "verify"
  /\ \/ /\ note[rec[p].target].text # rec[p].postimage
        /\ Raise(p, "failed")
     \/ /\ note[rec[p].target].text = rec[p].postimage
        /\ rec' = [rec EXCEPT ![p].phase = "committed"]
        /\ Goto(p, "journal_open")
        /\ UNCHANGED <<files, lock, call, st, todo, tx, result, history>>

\* The directories are synced after the unlink: when that fails, the call does.
Purge(p) ==
  /\ pc[p] = "purge"
  /\ backup' = [backup EXCEPT ![tx[p]] = NoFile]
  /\ Return(p, "ok") \/ ("io" \in Faults /\ Return(p, "failed"))
  /\ UNCHANGED <<note, dirs, journal, scratch, staged, history>>

(***************************************************************************)
(* The environment.                                                        *)
(***************************************************************************)
\* The kernel drops the lock of a dead process; nothing else is cleaned up.
Crash(p) ==
  /\ "crash" \in Faults
  /\ pc[p] # "idle"
  /\ Return(p, "none")
  /\ UNCHANGED <<files, history>>

SystemCallFails(p) ==
  /\ "io" \in Faults
  /\ pc[p] # "idle"
  /\ Raise(p, "failed")

Unfinished(t) == journal[t] # NoRecord /\ ~Finished(journal[t])

\* An editor rewrites the note in place, or puts a new file in its place.
Save(n) ==
  /\ IF lock = NoProc THEN "save" \in Faults ELSE "race" \in Faults
  /\ \E c \in Text \ {note[n].text}, i \in {note[n].ino} \union NewInode :
       /\ "revisit" \in Faults \/
            \A t \in Tx : Unfinished(t) /\ journal[t].target = n => c # journal[t].postimage
       /\ note' = [note EXCEPT ![n] = [ino |-> i, text |-> c]]
       /\ typed' = [typed EXCEPT ![n] = c]
  /\ writer' = [writer EXCEPT ![n] = NoTx]
  /\ UNCHANGED <<dirs, journal, scratch, backup, staged, lock, pc, locals, result>>

-----------------------------------------------------------------------------
Step(p) ==
  \/ Acquire(p) \/ Contend(p)
  \/ \E t \in Tx : RecoverRefuses(p, t) \/ RecoverSkips(p, t) \/ RecoverUndoes(p, t)
  \/ Restore(p) \/ Recovered(p)
  \/ JournalOpen(p) \/ JournalRename(p)
  \/ Stat(p) \/ ReadPreimage(p) \/ MakeBackup(p) \/ Recheck(p)
  \/ Stage(p) \/ Swap(p) \/ Verify(p) \/ Purge(p)

Next ==
  \/ \E p \in Proc :
       CallApply(p) \/ CallRecover(p) \/ Step(p) \/ Crash(p) \/ SystemCallFails(p)
  \/ \E n \in Note : Save(n)

Spec == Init /\ [][Next]_vars

-----------------------------------------------------------------------------
(***************************************************************************)
(* Properties.                                                             *)
(***************************************************************************)
\* Every variable keeps its type; a process holds the lock exactly from its
\* acquisition to its return (the with block of apply_file and recover).
TypeOK ==
  /\ note \in [Note -> File]
  /\ dirs \in SUBSET Tx
  /\ journal \in [Tx -> Record \union {NoRecord}]
  /\ scratch \in SUBSET Tx
  /\ backup \in [Tx -> File \union {NoFile}]
  /\ staged \in [Tx -> File \union {NoFile}]
  /\ lock \in Proc \union {NoProc}
  /\ pc \in [Proc -> Labels]
  /\ call \in [Proc -> Call \union {NoCall}]
  /\ st \in [Proc -> Inode \union {NoInode}]
  /\ todo \in [Proc -> SUBSET Tx]
  /\ tx \in [Proc -> Tx \union {NoTx}]
  /\ rec \in [Proc -> Record \union {NoRecord}]
  /\ result \in [Proc -> Results]
  /\ writer \in [Note -> Tx \union {NoTx}]
  /\ typed \in [Note -> Text]
  /\ \A p \in Proc : lock = p <=> pc[p] \notin {"idle", "acquire"}

\* Recovery would put the preimage of t back: its checks of the record against
\* the note pass and the backup it needs is there.
Undoable(t) ==
  LET r == journal[t] IN
  /\ r.phase \in {"replacing", "replaced"}
  /\ IsReplacement(r, note[r.target])
  /\ backup[t].text = r.preimage

\* Write-ahead: while a note is the replacement an uncommitted transaction put
\* there, the record on disk names exactly that file and the preimage is still
\* in the backup, whatever crashed, failed or was saved meanwhile (lines
\* 151-177 of apply.py: backup, then journal, then swap, then commit, then
\* unlink of the backup; lines 210-216 of its recovery).
WriteAhead ==
  \A n \in Note : LET t == writer[n] IN
    t # NoTx /\ journal[t].phase # "committed" =>
      journal[t].target = n /\ Undoable(t)

\* The source material of a note is what its user last saved: neither a patch
\* nor its recovery, interrupted anywhere, drops or revives a byte outside the
\* managed keys (_render, the rechecks at lines 146 and 162, and recovery's
\* refusals at lines 201-209).
SourcePreserved ==
  \A n \in Note : note[n].text.body = typed[n].body

\* A note whose patch was recorded as committed is never rolled back: only a
\* save (a step of no process) or a further patch replaces the committed file
\* (lines 207-214).
CommittedStays ==
  [][\A n \in Note :
       writer[n] # NoTx /\ journal[writer[n]].phase = "committed" =>
         note'[n] = note[n] \/ pc' = pc \/ writer'[n] \notin {NoTx, writer[n]}]_vars

\* The preimage is unlinked or moved only once it cannot be needed: its
\* transaction is recorded as committed or recovered, or the move is what puts
\* it back in the note (lines 175, 212 and 216).
BackupKept ==
  [][\A t \in Tx : backup[t] # NoFile /\ backup'[t] = NoFile =>
       \/ Finished(journal[t])
       \/ note'[journal[t].target].text = journal[t].preimage]_vars

\* A transaction.json.tmp that a crash left behind stops the last write of a
\* recovery and nothing else: a patch finds the journal of its transaction free,
\* at every one of its four writes (O_EXCL, line 83; lines 159, 169, 172 and 174).
ScratchStopsRecoveryOnly ==
  \A p \in Proc : pc[p] = "journal_open" /\ tx[p] \in scratch => rec[p].phase = "recovered"

(***************************************************************************)
(* The abstract patch.  A note says what recovery would make it say: the   *)
(* preimage while the replacement in place is still to be undone, and what *)
(* the file says otherwise.  The patch takes effect with the record that   *)
(* says "committed".                                                       *)
(***************************************************************************)
Says(n) ==
  LET undo == {t \in Tx : journal[t].target = n /\ Undoable(t)} IN
  IF undo = {} THEN note[n].text ELSE journal[CHOOSE t \in undo : TRUE].preimage

Abstract == INSTANCE AtomicPatch WITH
  text <- [n \in Note |-> Says(n)],
  applied <- {t \in Tx : journal[t].phase = "committed"}

\* Every behaviour is one of AtomicPatch: to someone who reads notes through
\* recovery, a patch happens at once and at most once, or not at all.
ImplementsAtomicPatch == Abstract!Spec

(***************************************************************************)
(* What the repository says and the code does not do.                      *)
(***************************************************************************)
\* LatticeMind "connects an existing Markdown/Obsidian vault" and "does not
\* replace Obsidian" (README.md:14-17): users go on saving patched notes; and
\* claims fall due for revalidation after "7/30/90/365 days" (README.md:86), so
\* that notes are patched again.  Neither is a reason for "crash recovery"
\* (apply.py:1): a call is refused only for a transaction that is unfinished.
CommittedWorkNeverBlocks ==
  \A p \in Proc : result[p] = "refused" => \E t \in Tx : Unfinished(t)

\* test_wal_recovery_rolls_back_crash_after_replace_before_phase_update
\* (tests/unit/test_security.py:186-204): recovering after a crash restores the
\* note.  With no user about, a recovery is never refused.
RecoveryNeverRefused ==
  \A p \in Proc : result[p] # "refused"

=============================================================================
