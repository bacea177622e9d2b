------------------------- MODULE ManagedApplyProofs -------------------------
(***************************************************************************)
(* Proofs about ManagedApply, for every vault, every number of processes   *)
(* and transactions and every combination of faults, unless a theorem says *)
(* otherwise.  IInv carries the type invariant, WriteAhead and BackupKept; *)
(* ScratchInv, SourceInv, StayInv and ShowInv are inductive on top of it   *)
(* and carry ScratchStopsRecoveryOnly, SourcePreserved, CommittedStays and *)
(* ImplementsAtomicPatch.                                                  *)
(***************************************************************************)
EXTENDS ManagedApply, TLAPS

\* Steps at which a process works in a transaction directory.
Writing == {"restore", "journal_open", "journal_rename", "recheck", "stage",
            "swap", "verify", "purge"}

Journaling(p) == pc[p] \in {"journal_open", "journal_rename"}

\* The phase a step works under; the journal steps write any of them.
PhaseOf(label) ==
  CASE label = "restore" -> {"recovered"}
    [] label = "recheck" -> {"prepared"}
    [] label = "stage"   -> {"prepared"}
    [] label = "swap"    -> {"replacing"}
    [] label = "verify"  -> {"replaced"}
    [] label = "purge"   -> {"committed"}
    [] OTHER -> Phases \ {"none"}

\* No note is the replacement of transaction t.
Unwritten(t) == \A n \in Note : writer[n] # t

\* A directory that does not exist has no journal.
DirInv == \A t \in Tx : t \notin dirs => journal[t] = NoRecord

\* The locals of a running process are defined when they are used.
LocalInv(p) ==
  /\ \A t \in todo[p] : journal[t] # NoRecord
  /\ pc[p] # "idle" => call[p] \in Call
  /\ pc[p] \in {"stat", "read", "backup"} => call[p].op = "apply"
  /\ pc[p] \in {"read", "backup"} => st[p] \in Inode
  /\ pc[p] \in Writing =>
       tx[p] \in dirs /\ rec[p] \in Record /\ rec[p].phase \in PhaseOf(pc[p])

\* Where a process is in its transaction, against what is on disk.
ProgressInv(p) ==
  /\ pc[p] \in Writing /\ rec[p].phase \in {"prepared", "replacing", "replaced"} =>
       backup[tx[p]].text = rec[p].preimage
  /\ pc[p] \in Writing /\ rec[p].phase \in {"prepared", "replacing"} => Unwritten(tx[p])
  /\ pc[p] \in Writing /\ rec[p].phase = "replacing" =>
       staged[tx[p]] = [ino |-> rec[p].replacement_ino, text |-> rec[p].postimage]
  /\ pc[p] \in {"swap", "verify", "purge"} => journal[tx[p]] = rec[p]
  /\ Journaling(p) /\ rec[p].phase = "replaced" =>
       journal[tx[p]] = [rec[p] EXCEPT !.phase = "replacing"]
  /\ pc[p] = "restore" =>
       /\ journal[tx[p]].target = rec[p].target
       /\ ~Finished(journal[tx[p]])
       /\ journal[tx[p]].preimage = rec[p].preimage
       /\ backup[tx[p]].text = rec[p].preimage
  /\ Journaling(p) /\ rec[p].phase = "recovered" => Unwritten(tx[p])

IInv ==
  /\ TypeOK
  /\ DirInv
  /\ WriteAhead
  /\ \A p \in Proc : LocalInv(p) /\ ProgressInv(p)

-----------------------------------------------------------------------------
(***************************************************************************)
(* Facts about values.                                                     *)
(***************************************************************************)
LEMMA NoFileFacts ==
  /\ NoFile \notin File
  /\ NoText \notin Text
  /\ \A f \in File \union {NoFile} : f.text \in Text => f \in File
  BY ConstantsAssumption DEF File, Text, NoFile, NoText

LEMMA NoRecordFacts ==
  /\ NoRecord \notin Record
  /\ NoRecord.phase = "none"
  BY ConstantsAssumption DEF Record, NoRecord

LEMMA RenderType ==
  ASSUME NEW c \in Text, NEW u \in Managed
  PROVE  Render(c, u) \in Text
  BY DEF Render, Text

LEMMA NewInodeType == NewInode \subseteq Inode
<1> DEFINE free == Inode \ InUse
           unmentioned == free \ Mentioned
<1>1. CASE unmentioned = {}
  BY <1>1 DEF NewInode
<1>2. CASE unmentioned # {}
  <2>1. (CHOOSE i \in unmentioned : TRUE) \in unmentioned
    BY <1>2
  <2>2. QED
    BY <1>2, <2>1 DEF NewInode
<1>3. QED
  BY <1>1, <1>2

\* A phase other than "none" belongs to a real record.
LEMMA JournalRecord ==
  ASSUME TypeOK, NEW t \in Tx, journal[t] # NoRecord
  PROVE  journal[t] \in Record
  BY DEF TypeOK

LEMMA InitIInv == Init => IInv
<1> SUFFICES ASSUME Init PROVE IInv
  OBVIOUS
<1>1. TypeOK
  BY ConstantsAssumption DEF Init, TypeOK, File, Labels, Results
<1>2. DirInv
  BY DEF Init, DirInv
<1>3. WriteAhead
  BY DEF Init, WriteAhead
<1>4. ASSUME NEW p \in Proc PROVE LocalInv(p) /\ ProgressInv(p)
  BY DEF Init, LocalInv, ProgressInv, Journaling, Writing
<1>5. QED
  BY <1>1, <1>2, <1>3, <1>4 DEF IInv

-----------------------------------------------------------------------------
(***************************************************************************)
(* Leaving a call.                                                         *)
(***************************************************************************)
\* One process at a time is past the lock.
LEMMA Exclusive ==
  ASSUME TypeOK, NEW p \in Proc, NEW q \in Proc, q # p,
         pc[p] \notin {"idle", "acquire"}
  PROVE  pc[q] \in {"idle", "acquire"}
  BY ConstantsAssumption DEF TypeOK

LEMMA ReturnKeeps ==
  ASSUME IInv, NEW p \in Proc, NEW how \in Results, Return(p, how), pc[p] # "idle",
         UNCHANGED <<note, dirs, journal, history>>,
         scratch' \in SUBSET Tx,
         backup' \in [Tx -> File \union {NoFile}],
         staged' \in [Tx -> File \union {NoFile}],
         \A t \in Tx : backup'[t] = backup[t] \/ journal[t].phase = "committed",
         pc[p] = "acquire" => UNCHANGED <<backup, staged>>
  PROVE  IInv'
<1> USE DEF Return, history
<1>1. TypeOK'
  BY ConstantsAssumption DEF IInv, TypeOK, Labels, NoCall
<1>2. DirInv'
  BY DEF IInv, DirInv
<1>3. WriteAhead'
  BY DEF IInv, TypeOK, WriteAhead, Undoable, IsReplacement
<1>4. ASSUME NEW q \in Proc PROVE LocalInv(q)' /\ ProgressInv(q)'
  <2>1. CASE q = p
    BY <2>1 DEF IInv, TypeOK, LocalInv, ProgressInv, Journaling, Writing
  <2>2. CASE q # p /\ pc[q] \in {"idle", "acquire"}
    BY <2>2 DEF IInv, TypeOK, LocalInv, ProgressInv, Journaling, Writing
  <2>3. CASE q # p /\ pc[p] = "acquire"
    BY <2>3 DEF IInv, TypeOK, LocalInv, ProgressInv, Journaling, Writing, Unwritten
  <2>4. QED
    BY <2>1, <2>2, <2>3, Exclusive DEF IInv
<1>5. QED
  BY <1>1, <1>2, <1>3, <1>4 DEF IInv

LEMMA RaiseKeeps ==
  ASSUME IInv, NEW p \in Proc, NEW how \in Results, Raise(p, how), pc[p] # "idle"
  PROVE  IInv'
<1>1. Return(p, how) /\ UNCHANGED <<note, dirs, journal, backup, history>>
  BY DEF Raise
<1>2. scratch' \in SUBSET Tx /\ staged' \in [Tx -> File \union {NoFile}]
  BY DEF Raise, IInv, TypeOK
<1>3. pc[p] = "acquire" => UNCHANGED staged
  BY DEF Raise, HoldsStaged
<1>4. backup' \in [Tx -> File \union {NoFile}]
  BY <1>1 DEF IInv, TypeOK
<1>5. QED
  BY <1>1, <1>2, <1>3, <1>4, ReturnKeeps

-----------------------------------------------------------------------------
(***************************************************************************)
(* Steps that move a running process on.  Each leaves the others idle or   *)
(* waiting for the lock, so only its own locals need an argument.          *)
(***************************************************************************)
\* A process that has not passed the lock does not mind what the one that has
\* does to the disk.
LEMMA OthersKeep ==
  ASSUME TypeOK, NEW p \in Proc, NEW q \in Proc, q # p,
         LocalInv(q), ProgressInv(q),
         pc[p] \notin {"idle", "acquire"},
         pc'[q] = pc[q], call'[q] = call[q], todo'[q] = todo[q],
         \A t \in Tx : journal[t] # NoRecord => journal'[t] # NoRecord
  PROVE  LocalInv(q)' /\ ProgressInv(q)'
<1>1. pc[q] \in {"idle", "acquire"}
  BY Exclusive
<1>2. QED
  BY <1>1 DEF TypeOK, LocalInv, ProgressInv, Journaling, Writing

\* What is left to show of a step of the process that holds the lock.
LEMMA RunningKeeps ==
  ASSUME IInv, NEW p \in Proc, pc[p] \notin {"idle", "acquire"},
         TypeOK', DirInv', WriteAhead', LocalInv(p)', ProgressInv(p)',
         \A q \in Proc : q # p => /\ pc'[q] = pc[q]
                                /\ call'[q] = call[q]
                                /\ todo'[q] = todo[q],
         \A t \in Tx : journal[t] # NoRecord => journal'[t] # NoRecord
  PROVE  IInv'
<1>1. ASSUME NEW q \in Proc, q # p PROVE LocalInv(q)' /\ ProgressInv(q)'
  BY <1>1, OthersKeep DEF IInv
<1>2. \A q \in Proc : LocalInv(q)' /\ ProgressInv(q)'
  BY <1>1
<1>3. QED
  BY <1>2 DEF IInv

\* ... of one that leaves the notes, the journals and the backups alone.
LEMMA QuietKeeps ==
  ASSUME IInv, NEW p \in Proc, pc[p] \notin {"idle", "acquire"},
         TypeOK', LocalInv(p)', ProgressInv(p)',
         UNCHANGED <<note, dirs, journal, backup, call, todo, writer>>,
         \A q \in Proc : q # p => pc'[q] = pc[q]
  PROVE  IInv'
<1>1. DirInv'
  BY DEF IInv, DirInv
<1>2. WriteAhead'
  BY DEF IInv, WriteAhead, Undoable, IsReplacement
<1>3. QED
  BY <1>1, <1>2, RunningKeeps

LEMMA CallKeeps ==
  ASSUME IInv, NEW p \in Proc, CallApply(p) \/ CallRecover(p)
  PROVE  IInv'
<1> USE DEF CallApply, CallRecover, Goto, files, history
<1>1. pc[p] = "idle" /\ call'[p] \in Call
  BY DEF IInv, TypeOK, Call, File
<1>2. TypeOK'
  BY <1>1 DEF IInv, TypeOK, Labels, Results
<1>3. DirInv'
  BY DEF IInv, DirInv
<1>4. WriteAhead'
  BY DEF IInv, TypeOK, WriteAhead, Undoable, IsReplacement
<1>5. ASSUME NEW q \in Proc PROVE LocalInv(q)' /\ ProgressInv(q)'
  <2>1. CASE q = p
    BY <1>1, <2>1 DEF IInv, TypeOK, LocalInv, ProgressInv, Journaling, Writing
  <2>2. CASE q # p
    BY <2>2 DEF IInv, TypeOK, LocalInv, ProgressInv, Journaling, Writing, Unwritten
  <2>3. QED
    BY <2>1, <2>2
<1>6. QED
  BY <1>2, <1>3, <1>4, <1>5 DEF IInv

LEMMA AcquireKeeps ==
  ASSUME IInv, NEW p \in Proc, Acquire(p)
  PROVE  IInv'
<1> USE DEF Acquire, Goto, files, history
<1>1. TypeOK'
  BY ConstantsAssumption DEF IInv, TypeOK, Labels
<1>2. DirInv'
  BY DEF IInv, DirInv
<1>3. WriteAhead'
  BY DEF IInv, TypeOK, WriteAhead, Undoable, IsReplacement
<1>4. ASSUME NEW q \in Proc PROVE LocalInv(q)' /\ ProgressInv(q)'
  <2>1. CASE q = p
    BY <2>1 DEF IInv, TypeOK, LocalInv, ProgressInv, Journaling, Writing
  <2>2. CASE q # p
    BY <2>2 DEF IInv, TypeOK, LocalInv, ProgressInv, Journaling, Writing, Unwritten
  <2>3. QED
    BY <2>1, <2>2
<1>5. QED
  BY <1>1, <1>2, <1>3, <1>4 DEF IInv

LEMMA SkipKeeps ==
  ASSUME IInv, NEW p \in Proc, NEW t \in Tx, RecoverSkips(p, t)
  PROVE  IInv'
<1> USE DEF RecoverSkips, history
<1>1. TypeOK'
  BY DEF IInv, TypeOK
<1>2. DirInv'
  BY DEF IInv, DirInv
<1>3. WriteAhead'
  BY DEF IInv, TypeOK, WriteAhead, Undoable, IsReplacement, Finished
<1>4. ASSUME NEW q \in Proc PROVE LocalInv(q)' /\ ProgressInv(q)'
  <2>1. CASE q = p
    BY <2>1 DEF IInv, TypeOK, LocalInv, ProgressInv, Journaling, Writing
  <2>2. CASE q # p
    BY <2>2, OthersKeep DEF IInv, TypeOK
  <2>3. QED
    BY <2>1, <2>2
<1>5. QED
  BY <1>1, <1>2, <1>3, <1>4 DEF IInv

LEMMA UndoKeeps ==
  ASSUME IInv, NEW p \in Proc, NEW t \in Tx, RecoverUndoes(p, t)
  PROVE  IInv'
<1> USE DEF RecoverUndoes, Goto, files, history
<1>1. t \in dirs /\ journal[t] \in Record
  BY DEF IInv, TypeOK, LocalInv, DirInv
<1>2. rec'[p] = [journal[t] EXCEPT !.phase = "recovered"] /\ rec'[p] \in Record
  BY <1>1 DEF IInv, TypeOK, Record, Phases
<1>3. TypeOK'
  BY <1>2 DEF IInv, TypeOK, Labels
<1>4. DirInv'
  BY DEF IInv, DirInv
<1>5. WriteAhead'
  BY DEF IInv, TypeOK, WriteAhead, Undoable, IsReplacement
<1>6. ASSUME NEW q \in Proc PROVE LocalInv(q)' /\ ProgressInv(q)'
  <2>1. CASE q = p
    <3>1. LocalInv(p)'
      BY <1>1, <1>2 DEF IInv, TypeOK, LocalInv, Writing, PhaseOf, Record
    <3>2. ProgressInv(p)'
      BY <1>1, <1>2 DEF IInv, TypeOK, ProgressInv, Writing, Journaling, Record,
                        NothingToUndo, Finished
    <3>3. QED
      BY <2>1, <3>1, <3>2
  <2>2. CASE q # p
    BY <2>2, OthersKeep DEF IInv, TypeOK
  <2>3. QED
    BY <2>1, <2>2
<1>7. QED
  BY <1>3, <1>4, <1>5, <1>6 DEF IInv

LEMMA RecoveredKeeps ==
  ASSUME IInv, NEW p \in Proc, Recovered(p), call[p].op = "apply"
  PROVE  IInv'
<1>1. /\ pc[p] = "recover" /\ pc' = [pc EXCEPT ![p] = "stat"]
      /\ UNCHANGED <<files, lock, locals, result, history>>
  BY DEF Recovered, Goto
<1>2. TypeOK'
  BY <1>1 DEF IInv, TypeOK, Labels, files, locals, history
<1>3. LocalInv(p)' /\ ProgressInv(p)'
  BY <1>1 DEF IInv, TypeOK, LocalInv, ProgressInv, Journaling, Writing, files, locals, history
<1>4. QED
  BY <1>1, <1>2, <1>3, QuietKeeps DEF IInv, TypeOK, files, locals, history

LEMMA RestoreKeeps ==
  ASSUME IInv, NEW p \in Proc, Restore(p)
  PROVE  IInv'
<1>1. /\ pc[p] = "restore" /\ pc' = [pc EXCEPT ![p] = "journal_open"]
      /\ note' = [note EXCEPT ![rec[p].target] = backup[tx[p]]]
      /\ backup' = [backup EXCEPT ![tx[p]] = NoFile]
      /\ writer' = [writer EXCEPT ![rec[p].target] = NoTx]
      /\ UNCHANGED <<dirs, journal, scratch, staged, lock, call, st, todo, tx, rec,
                     result, typed>>
  BY DEF Restore, Goto, locals
<1>2. TypeOK /\ LocalInv(p) /\ ProgressInv(p) /\ WriteAhead /\ DirInv
  BY DEF IInv
<1>3. /\ tx[p] \in dirs /\ tx[p] \in Tx
      /\ rec[p] \in Record /\ rec[p].phase = "recovered"
      /\ journal[tx[p]].target = rec[p].target /\ ~Finished(journal[tx[p]])
      /\ backup[tx[p]].text = rec[p].preimage
  BY <1>1, <1>2 DEF TypeOK, LocalInv, ProgressInv, Writing, PhaseOf
<1>4. rec[p].target \in Note /\ rec[p].preimage \in Text
  BY <1>3 DEF Record
<1>5. backup[tx[p]] \in File
  BY <1>2, <1>3, <1>4, NoFileFacts DEF TypeOK
<1>6. TypeOK'
  <2>1. note' \in [Note -> File] /\ writer' \in [Note -> Tx \union {NoTx}]
    BY <1>1, <1>2, <1>4, <1>5 DEF TypeOK
  <2>2. backup' \in [Tx -> File \union {NoFile}]
    BY <1>1, <1>2, <1>3 DEF TypeOK
  <2>3. /\ pc' \in [Proc -> Labels]
        /\ \A q \in Proc : lock' = q <=> pc'[q] \notin {"idle", "acquire"}
    BY <1>1, <1>2 DEF TypeOK, Labels
  <2>4. QED
    BY <1>1, <1>2, <2>1, <2>2, <2>3 DEF TypeOK
<1>7. DirInv'
  BY <1>1, <1>2 DEF DirInv
<1>8. Unwritten(tx[p])'
  <2>1. \A n \in Note : writer[n] = tx[p] => n = rec[p].target
    BY <1>2, <1>3, ConstantsAssumption DEF WriteAhead, Finished
  <2>2. QED
    BY <1>1, <1>2, <1>3, <1>4, <2>1, ConstantsAssumption DEF Unwritten, TypeOK
<1>9. WriteAhead'
  <2>1. ASSUME NEW n \in Note, writer'[n] # NoTx, journal'[writer'[n]].phase # "committed"
        PROVE  (journal[writer[n]].target = n /\ Undoable(writer[n]))'
    <3>1. n # rec[p].target /\ writer'[n] = writer[n] /\ writer[n] # tx[p]
      BY <1>1, <1>2, <1>4, <1>8, <2>1 DEF TypeOK, Unwritten
    <3>2. journal[writer[n]].target = n /\ Undoable(writer[n]) /\ writer[n] \in Tx
      BY <1>1, <1>2, <2>1, <3>1 DEF WriteAhead, TypeOK
    <3>3. note'[n] = note[n] /\ backup'[writer[n]] = backup[writer[n]]
      BY <1>1, <1>2, <3>1, <3>2 DEF TypeOK
    <3>4. QED
      BY <1>1, <3>1, <3>2, <3>3 DEF Undoable, IsReplacement
  <2>2. QED
    BY <2>1 DEF WriteAhead
<1>10. LocalInv(p)'
  BY <1>1, <1>2, <1>3 DEF TypeOK, LocalInv, Writing, PhaseOf, Phases
<1>11. ProgressInv(p)'
  BY <1>1, <1>2, <1>3, <1>8 DEF TypeOK, ProgressInv, Journaling
<1>12. QED
  BY <1>1, <1>2, <1>6, <1>7, <1>9, <1>10, <1>11, RunningKeeps DEF TypeOK

LEMMA OpenKeeps ==
  ASSUME IInv, NEW p \in Proc, JournalOpen(p), tx[p] \notin scratch
  PROVE  IInv'
<1>1. /\ pc[p] = "journal_open" /\ pc' = [pc EXCEPT ![p] = "journal_rename"]
      /\ scratch' = scratch \union {tx[p]}
      /\ UNCHANGED <<note, dirs, journal, backup, staged, lock, call, st, todo, tx, rec,
                     result, writer, typed>>
  BY DEF JournalOpen, Goto, locals, history
<1>2. TypeOK /\ LocalInv(p) /\ ProgressInv(p)
  BY DEF IInv
<1>3. tx[p] \in Tx
  BY <1>1, <1>2 DEF TypeOK, LocalInv, Writing
<1>4. TypeOK'
  BY <1>1, <1>2, <1>3 DEF TypeOK, Labels
<1>5. LocalInv(p)'
  BY <1>1, <1>2 DEF TypeOK, LocalInv, Writing, PhaseOf
<1>6. Journaling(p) /\ Journaling(p)' /\ pc[p] \in Writing /\ pc'[p] = "journal_rename"
  BY <1>1, <1>2 DEF TypeOK, Journaling, Writing
<1>7. ProgressInv(p)'
  BY <1>1, <1>2, <1>6 DEF ProgressInv, Unwritten
<1>8. QED
  BY <1>1, <1>2, <1>4, <1>5, <1>7, QuietKeeps DEF TypeOK

LEMMA RenameKeeps ==
  ASSUME IInv, NEW p \in Proc, JournalRename(p)
  PROVE  IInv'
<1>1. /\ pc[p] = "journal_rename"
      /\ pc' = [pc EXCEPT ![p] = Continuation(rec[p].phase)]
      /\ journal' = [journal EXCEPT ![tx[p]] = rec[p]]
      /\ scratch' = scratch \ {tx[p]}
      /\ UNCHANGED <<note, dirs, backup, staged, lock, call, st, todo, tx, rec, result,
                     writer, typed>>
  BY DEF JournalRename, Goto, locals, history
<1>2. TypeOK /\ LocalInv(p) /\ ProgressInv(p) /\ WriteAhead /\ DirInv
  BY DEF IInv
<1>3. /\ tx[p] \in dirs /\ tx[p] \in Tx
      /\ rec[p] \in Record /\ rec[p].phase \in Phases \ {"none"}
      /\ Journaling(p) /\ pc[p] \in Writing
  BY <1>1, <1>2 DEF TypeOK, LocalInv, Writing, PhaseOf, Journaling
<1>4. /\ pc'[p] = Continuation(rec[p].phase)
      /\ pc'[p] \in {"recheck", "swap", "verify", "purge", "recover"}
  BY <1>1, <1>2 DEF TypeOK, Continuation
<1>5. TypeOK'
  <2>1. /\ pc' \in [Proc -> Labels]
        /\ \A q \in Proc : lock' = q <=> pc'[q] \notin {"idle", "acquire"}
    BY <1>1, <1>2, <1>4 DEF TypeOK, Labels
  <2>2. QED
    BY <1>1, <1>2, <1>3, <2>1 DEF TypeOK
<1>6. DirInv'
  BY <1>1, <1>2, <1>3 DEF TypeOK, DirInv
<1>7. journal'[tx[p]] = rec[p] /\ \A t \in Tx : t # tx[p] => journal'[t] = journal[t]
  BY <1>1, <1>2, <1>3 DEF TypeOK
<1>8. WriteAhead'
  <2>1. ASSUME NEW n \in Note, writer[n] # NoTx, journal'[writer[n]].phase # "committed"
        PROVE  journal'[writer[n]].target = n /\ Undoable(writer[n])'
    <3>1. CASE writer[n] # tx[p]
      BY <1>1, <1>2, <1>7, <2>1, <3>1 DEF TypeOK, WriteAhead, Undoable, IsReplacement
    <3>2. CASE writer[n] = tx[p]
      <4>1. rec[p].phase = "replaced"
        BY <1>2, <1>3, <1>7, <2>1, <3>2 DEF ProgressInv, Unwritten, Phases
      <4>2. journal[tx[p]] = [rec[p] EXCEPT !.phase = "replacing"]
        BY <1>2, <1>3, <4>1 DEF ProgressInv
      <4>3. /\ journal[tx[p]].phase = "replacing"
            /\ journal[tx[p]].target = rec[p].target
            /\ journal[tx[p]].replacement_ino = rec[p].replacement_ino
            /\ journal[tx[p]].preimage = rec[p].preimage
            /\ journal[tx[p]].postimage = rec[p].postimage
        BY <1>3, <4>2 DEF Record
      <4>4. journal[tx[p]].target = n /\ Undoable(tx[p])
        BY <1>2, <2>1, <3>2, <4>3 DEF WriteAhead
      <4>5. QED
        BY <1>1, <1>7, <3>2, <4>1, <4>3, <4>4 DEF Undoable, IsReplacement
    <3>3. QED
      BY <3>1, <3>2
  <2>2. QED
    BY <1>1, <2>1 DEF WriteAhead
<1>9. LocalInv(p)'
  BY <1>1, <1>2, <1>3, <1>4, <1>7, NoRecordFacts
     DEF TypeOK, LocalInv, Writing, PhaseOf, Phases, Continuation
<1>10. ProgressInv(p)'
  BY <1>1, <1>2, <1>3, <1>4, <1>7
     DEF ProgressInv, Journaling, Writing, Unwritten, Phases, Continuation
<1>11. QED
  <2>1. \A t \in Tx : journal[t] # NoRecord => journal'[t] # NoRecord
    BY <1>3, <1>7, NoRecordFacts
  <2>2. QED
    BY <1>1, <1>2, <1>5, <1>6, <1>8, <1>9, <1>10, <2>1, RunningKeeps DEF TypeOK

LEMMA StatKeeps ==
  ASSUME IInv, NEW p \in Proc, Stat(p)
  PROVE  IInv'
<1>1. /\ pc[p] = "stat" /\ pc' = [pc EXCEPT ![p] = "read"]
      /\ st' = [st EXCEPT ![p] = note[call[p].target].ino]
      /\ UNCHANGED <<note, dirs, journal, scratch, backup, staged, lock, call, todo, tx,
                     rec, result, writer, typed>>
  BY DEF Stat, Goto, files, history
<1>2. TypeOK /\ LocalInv(p)
  BY DEF IInv
<1>3. call[p].op = "apply" /\ call[p] \in Call
  BY <1>1, <1>2 DEF LocalInv
<1>4. call[p].target \in Note
  BY <1>3 DEF Call, NoCall
<1>5. note[call[p].target].ino \in Inode
  BY <1>2, <1>4 DEF TypeOK, File
<1>6. TypeOK'
  BY <1>1, <1>2, <1>5 DEF TypeOK, Labels
<1>7. LocalInv(p)' /\ ProgressInv(p)'
  BY <1>1, <1>2, <1>5 DEF TypeOK, LocalInv, ProgressInv, Journaling, Writing
<1>8. QED
  BY <1>1, <1>2, <1>6, <1>7, QuietKeeps DEF TypeOK

LEMMA ReadKeeps ==
  ASSUME IInv, NEW p \in Proc, ReadPreimage(p)
  PROVE  IInv'
<1>1. CASE Raise(p, "failed")
  BY <1>1, RaiseKeeps DEF ReadPreimage, Results
<1>2. CASE ~Raise(p, "failed")
  <2>1. /\ pc[p] = "read" /\ pc' = [pc EXCEPT ![p] = "backup"]
        /\ UNCHANGED <<files, lock, locals, result, history>>
    BY <1>2 DEF ReadPreimage, Goto
  <2>2. TypeOK'
    BY <2>1 DEF IInv, TypeOK, Labels, files, locals, history
  <2>3. LocalInv(p)' /\ ProgressInv(p)'
    BY <2>1 DEF IInv, TypeOK, LocalInv, ProgressInv, Journaling, Writing, files, locals, history
  <2>4. QED
    BY <2>1, <2>2, <2>3, QuietKeeps DEF IInv, TypeOK, files, locals, history
<1>3. QED
  BY <1>1, <1>2

LEMMA BackupKeeps ==
  ASSUME IInv, NEW p \in Proc, MakeBackup(p)
  PROVE  IInv'
<1>1. PICK t \in Tx \ dirs, i \in NewInode :
        /\ dirs' = dirs \union {t}
        /\ backup' = [backup EXCEPT ![t] = [ino |-> i, text |-> call[p].expected]]
        /\ tx' = [tx EXCEPT ![p] = t]
  BY DEF MakeBackup
<1>2. /\ pc[p] = "backup" /\ pc' = [pc EXCEPT ![p] = "journal_open"]
      /\ rec' = [rec EXCEPT ![p] =
           [target |-> call[p].target, target_ino |-> st[p], replacement_ino |-> NoInode,
            preimage |-> call[p].expected,
            postimage |-> Render(call[p].expected, call[p].update), phase |-> "prepared"]]
      /\ UNCHANGED <<note, journal, scratch, staged, lock, call, st, todo, result,
                     writer, typed>>
  BY DEF MakeBackup, Goto, history
<1>3. TypeOK /\ LocalInv(p) /\ DirInv /\ WriteAhead
  BY DEF IInv
<1>4. call[p].op = "apply" /\ call[p] \in Call /\ st[p] \in Inode
  BY <1>2, <1>3 DEF LocalInv
<1>5. call[p].target \in Note /\ call[p].expected \in Text /\ call[p].update \in Managed
  BY <1>4 DEF Call, NoCall
<1>6. Render(call[p].expected, call[p].update) \in Text
  BY <1>5, RenderType
<1>7. i \in Inode
  BY NewInodeType
<1>8. rec'[p] \in Record /\ rec'[p].phase = "prepared" /\ rec'[p].preimage = call[p].expected
  BY <1>2, <1>3, <1>4, <1>5, <1>6 DEF TypeOK, Record, Phases
<1>9. TypeOK'
  <2>1. backup' \in [Tx -> File \union {NoFile}]
    BY <1>1, <1>3, <1>5, <1>7 DEF TypeOK, File
  <2>2. rec' \in [Proc -> Record \union {NoRecord}]
    BY <1>2, <1>3, <1>8 DEF TypeOK
  <2>3. QED
    BY <1>1, <1>2, <1>3, <2>1, <2>2 DEF TypeOK, Labels
<1>10. DirInv'
  BY <1>1, <1>2, <1>3 DEF DirInv
<1>11. journal[t] = NoRecord
  BY <1>1, <1>3 DEF DirInv
<1>12. Unwritten(t)
  <2>1. SUFFICES ASSUME NEW n \in Note, writer[n] = t PROVE FALSE
    BY DEF Unwritten
  <2>2. t # NoTx /\ journal[t].phase = "none"
    BY <1>1, <1>11, NoRecordFacts, ConstantsAssumption
  <2>3. Undoable(t)
    BY <1>3, <2>1, <2>2 DEF WriteAhead
  <2>4. QED
    BY <2>2, <2>3 DEF Undoable
<1>13. WriteAhead'
  BY <1>1, <1>2, <1>3, <1>12 DEF WriteAhead, Undoable, IsReplacement, Unwritten, TypeOK
<1>14. tx'[p] = t /\ backup'[t].text = call[p].expected /\ pc'[p] = "journal_open" /\ t \in dirs'
  BY <1>1, <1>2, <1>3 DEF TypeOK
<1>15. LocalInv(p)'
  BY <1>2, <1>3, <1>8, <1>14 DEF LocalInv, Writing, PhaseOf, Phases
<1>16. ProgressInv(p)'
  BY <1>2, <1>8, <1>12, <1>14 DEF ProgressInv, Journaling, Writing, Unwritten
<1>17. QED
  BY <1>2, <1>3, <1>9, <1>10, <1>13, <1>15, <1>16, RunningKeeps DEF TypeOK

LEMMA RecheckKeeps ==
  ASSUME IInv, NEW p \in Proc, Recheck(p)
  PROVE  IInv'
<1>1. CASE Raise(p, "failed")
  BY <1>1, RaiseKeeps DEF Recheck, Results
<1>2. CASE ~Raise(p, "failed")
  <2>1. /\ pc[p] = "recheck" /\ pc' = [pc EXCEPT ![p] = "stage"]
        /\ UNCHANGED <<files, lock, locals, result, history>>
    BY <1>2 DEF Recheck, Goto
  <2>2. TypeOK'
    BY <2>1 DEF IInv, TypeOK, Labels, files, locals, history
  <2>3. LocalInv(p)' /\ ProgressInv(p)'
    BY <2>1 DEF IInv, TypeOK, LocalInv, ProgressInv, Journaling, Writing, PhaseOf,
                Unwritten, files, locals, history
  <2>4. QED
    BY <2>1, <2>2, <2>3, QuietKeeps DEF IInv, TypeOK, files, locals, history
<1>3. QED
  BY <1>1, <1>2

LEMMA StageKeeps ==
  ASSUME IInv, NEW p \in Proc, Stage(p)
  PROVE  IInv'
<1>1. PICK i \in NewInode :
        /\ staged' = [staged EXCEPT ![tx[p]] = [ino |-> i, text |-> rec[p].postimage]]
        /\ rec' = [rec EXCEPT ![p].replacement_ino = i, ![p].phase = "replacing"]
  BY DEF Stage
<1>2. /\ pc[p] = "stage" /\ pc' = [pc EXCEPT ![p] = "journal_open"]
      /\ UNCHANGED <<note, dirs, journal, scratch, backup, lock, call, st, todo, tx,
                     result, writer, typed>>
  BY DEF Stage, Goto, history
<1>3. TypeOK /\ LocalInv(p) /\ ProgressInv(p)
  BY DEF IInv
<1>4. /\ tx[p] \in Tx /\ tx[p] \in dirs /\ rec[p] \in Record /\ rec[p].phase = "prepared"
      /\ backup[tx[p]].text = rec[p].preimage /\ Unwritten(tx[p])
  BY <1>2, <1>3 DEF TypeOK, LocalInv, ProgressInv, Writing, PhaseOf
<1>5. i \in Inode
  BY NewInodeType
<1>6. /\ rec'[p] \in Record /\ rec'[p].phase = "replacing" /\ rec'[p].replacement_ino = i
      /\ rec'[p].preimage = rec[p].preimage /\ rec'[p].postimage = rec[p].postimage
  BY <1>1, <1>3, <1>4, <1>5 DEF TypeOK, Record, Phases
<1>7. TypeOK'
  <2>1. staged' \in [Tx -> File \union {NoFile}]
    BY <1>1, <1>3, <1>4, <1>5 DEF TypeOK, File, Record
  <2>2. rec' \in [Proc -> Record \union {NoRecord}]
    BY <1>1, <1>3, <1>6 DEF TypeOK
  <2>3. QED
    BY <1>2, <1>3, <2>1, <2>2 DEF TypeOK, Labels
<1>8. pc'[p] = "journal_open" /\ staged'[tx[p]] = [ino |-> i, text |-> rec[p].postimage]
  BY <1>1, <1>2, <1>3, <1>4 DEF TypeOK
<1>9. LocalInv(p)'
  BY <1>2, <1>3, <1>4, <1>6, <1>8 DEF LocalInv, Writing, PhaseOf, Phases
<1>10. ProgressInv(p)'
  BY <1>2, <1>4, <1>6, <1>8 DEF ProgressInv, Journaling, Writing, Unwritten
<1>11. QED
  BY <1>2, <1>3, <1>7, <1>9, <1>10, QuietKeeps DEF TypeOK

LEMMA SwapKeeps ==
  ASSUME IInv, NEW p \in Proc, Swap(p)
  PROVE  IInv'
<1>1. /\ pc[p] = "swap" /\ pc' = [pc EXCEPT ![p] = "journal_open"]
      /\ note' = [note EXCEPT ![rec[p].target] = staged[tx[p]]]
      /\ staged' = [staged EXCEPT ![tx[p]] = NoFile]
      /\ writer' = [writer EXCEPT ![rec[p].target] = tx[p]]
      /\ rec' = [rec EXCEPT ![p].phase = "replaced"]
      /\ UNCHANGED <<dirs, journal, scratch, backup, lock, call, st, todo, tx, result, typed>>
  BY DEF Swap, Goto
<1>2. TypeOK /\ LocalInv(p) /\ ProgressInv(p) /\ WriteAhead /\ DirInv
  BY DEF IInv
<1>3. /\ tx[p] \in Tx /\ tx[p] \in dirs /\ rec[p] \in Record /\ rec[p].phase = "replacing"
      /\ journal[tx[p]] = rec[p] /\ Unwritten(tx[p])
      /\ backup[tx[p]].text = rec[p].preimage
      /\ staged[tx[p]] = [ino |-> rec[p].replacement_ino, text |-> rec[p].postimage]
  BY <1>1, <1>2 DEF TypeOK, LocalInv, ProgressInv, Writing, PhaseOf
<1>4. rec[p].target \in Note /\ rec[p].preimage \in Text /\ rec[p].postimage \in Text
  BY <1>3 DEF Record
<1>5. staged[tx[p]] \in File
  BY <1>2, <1>3, <1>4, NoFileFacts DEF TypeOK
<1>6. /\ rec'[p] \in Record /\ rec'[p].phase = "replaced"
      /\ rec[p] = [rec'[p] EXCEPT !.phase = "replacing"]
      /\ rec'[p].preimage = rec[p].preimage
  BY <1>1, <1>2, <1>3 DEF TypeOK, Record, Phases
<1>7. TypeOK'
  <2>1. note' \in [Note -> File] /\ writer' \in [Note -> Tx \union {NoTx}]
    BY <1>1, <1>2, <1>3, <1>4, <1>5 DEF TypeOK
  <2>2. staged' \in [Tx -> File \union {NoFile}]
    BY <1>1, <1>2, <1>3 DEF TypeOK
  <2>3. rec' \in [Proc -> Record \union {NoRecord}]
    BY <1>1, <1>2, <1>6 DEF TypeOK
  <2>4. /\ pc' \in [Proc -> Labels]
        /\ \A q \in Proc : lock' = q <=> pc'[q] \notin {"idle", "acquire"}
    BY <1>1, <1>2 DEF TypeOK, Labels
  <2>5. QED
    BY <1>1, <1>2, <2>1, <2>2, <2>3, <2>4 DEF TypeOK
<1>8. DirInv'
  BY <1>1, <1>2 DEF DirInv
<1>9. WriteAhead'
  <2>1. ASSUME NEW n \in Note, writer'[n] # NoTx, journal'[writer'[n]].phase # "committed"
        PROVE  (journal[writer[n]].target = n /\ Undoable(writer[n]))'
    <3>1. CASE n = rec[p].target
      <4>1. writer'[n] = tx[p] /\ note'[n] = staged[tx[p]]
        BY <1>1, <1>2, <1>4, <3>1 DEF TypeOK
      <4>2. QED
        BY <1>1, <1>3, <3>1, <4>1 DEF Undoable, IsReplacement
    <3>2. CASE n # rec[p].target
      <4>1. writer'[n] = writer[n] /\ writer[n] # tx[p] /\ note'[n] = note[n]
        BY <1>1, <1>2, <1>3, <3>2 DEF TypeOK, Unwritten
      <4>2. journal[writer[n]].target = n /\ Undoable(writer[n])
        BY <1>1, <1>2, <2>1, <4>1 DEF WriteAhead
      <4>3. QED
        BY <1>1, <4>1, <4>2 DEF Undoable, IsReplacement
    <3>3. QED
      BY <3>1, <3>2
  <2>2. QED
    BY <2>1 DEF WriteAhead
<1>10. pc'[p] = "journal_open"
  BY <1>1, <1>2 DEF TypeOK
<1>11. LocalInv(p)'
  BY <1>1, <1>2, <1>3, <1>6, <1>10 DEF LocalInv, Writing, PhaseOf, Phases
<1>12. ProgressInv(p)'
  BY <1>1, <1>3, <1>6, <1>10 DEF ProgressInv, Journaling, Writing
<1>13. QED
  BY <1>1, <1>2, <1>7, <1>8, <1>9, <1>11, <1>12, RunningKeeps DEF TypeOK

LEMMA VerifyKeeps ==
  ASSUME IInv, NEW p \in Proc, Verify(p)
  PROVE  IInv'
<1>1. CASE Raise(p, "failed")
  BY <1>1, RaiseKeeps DEF Verify, Results
<1>2. CASE ~Raise(p, "failed")
  <2>1. /\ pc[p] = "verify" /\ pc' = [pc EXCEPT ![p] = "journal_open"]
        /\ rec' = [rec EXCEPT ![p].phase = "committed"]
        /\ UNCHANGED <<note, dirs, journal, scratch, backup, staged, lock, call, st, todo,
                       tx, result, writer, typed>>
    BY <1>2 DEF Verify, Goto, files, history
  <2>2. TypeOK /\ LocalInv(p)
    BY DEF IInv
  <2>3. tx[p] \in dirs /\ rec[p] \in Record
    BY <2>1, <2>2 DEF LocalInv, Writing
  <2>4. rec'[p] \in Record /\ rec'[p].phase = "committed"
    BY <2>1, <2>2, <2>3 DEF TypeOK, Record, Phases
  <2>5. rec' \in [Proc -> Record \union {NoRecord}]
    BY <2>1, <2>2, <2>4 DEF TypeOK
  <2>6. TypeOK'
    BY <2>1, <2>2, <2>5 DEF TypeOK, Labels
  <2>7. pc'[p] = "journal_open"
    BY <2>1, <2>2 DEF TypeOK
  <2>8. LocalInv(p)'
    BY <2>1, <2>2, <2>3, <2>4, <2>7 DEF LocalInv, Writing, PhaseOf, Phases
  <2>9. ProgressInv(p)'
    BY <2>4, <2>7 DEF ProgressInv, Journaling, Writing
  <2>10. QED
    BY <2>1, <2>2, <2>6, <2>8, <2>9, QuietKeeps DEF TypeOK
<1>3. QED
  BY <1>1, <1>2

LEMMA PurgeKeeps ==
  ASSUME IInv, NEW p \in Proc, Purge(p)
  PROVE  IInv'
<1>1. /\ pc[p] = "purge" /\ \E how \in Results : Return(p, how)
      /\ backup' = [backup EXCEPT ![tx[p]] = NoFile]
      /\ UNCHANGED <<note, dirs, journal, scratch, staged, history>>
  BY DEF Purge, Results
<1>2. TypeOK /\ LocalInv(p) /\ ProgressInv(p)
  BY DEF IInv
<1>3. tx[p] \in Tx /\ journal[tx[p]].phase = "committed"
  BY <1>1, <1>2 DEF TypeOK, LocalInv, ProgressInv, Writing, PhaseOf
<1>4. /\ backup' \in [Tx -> File \union {NoFile}]
      /\ \A t \in Tx : backup'[t] = backup[t] \/ journal[t].phase = "committed"
      /\ scratch' \in SUBSET Tx /\ staged' \in [Tx -> File \union {NoFile}]
  BY <1>1, <1>2, <1>3 DEF TypeOK
<1>5. QED
  BY <1>1, <1>4, ReturnKeeps DEF Results

-----------------------------------------------------------------------------
(***************************************************************************)
(* The environment.                                                        *)
(***************************************************************************)
LEMMA CrashKeeps ==
  ASSUME IInv, NEW p \in Proc, Crash(p)
  PROVE  IInv'
<1>1. /\ pc[p] # "idle" /\ Return(p, "none")
      /\ UNCHANGED <<note, dirs, journal, scratch, backup, staged, history>>
  BY DEF Crash, files
<1>2. QED
  BY <1>1, ReturnKeeps DEF IInv, TypeOK, Results

LEMMA SaveKeeps ==
  ASSUME IInv, NEW n \in Note, Save(n)
  PROVE  IInv'
<1>1. PICK c \in Text, i \in {note[n].ino} \union NewInode :
        /\ note' = [note EXCEPT ![n] = [ino |-> i, text |-> c]]
        /\ typed' = [typed EXCEPT ![n] = c]
  BY DEF Save
<1>2. /\ writer' = [writer EXCEPT ![n] = NoTx]
      /\ UNCHANGED <<dirs, journal, scratch, backup, staged, lock, pc, call, st, todo, tx,
                     rec, result>>
  BY DEF Save, locals
<1>3. TypeOK /\ DirInv /\ WriteAhead
  BY DEF IInv
<1>4. i \in Inode
  BY <1>3, NewInodeType DEF TypeOK, File
<1>5. TypeOK'
  BY <1>1, <1>2, <1>3, <1>4 DEF TypeOK, File
<1>6. DirInv'
  BY <1>2, <1>3 DEF DirInv
<1>7. WriteAhead'
  BY <1>1, <1>2, <1>3 DEF WriteAhead, Undoable, IsReplacement, TypeOK
<1>8. ASSUME NEW p \in Proc PROVE LocalInv(p)' /\ ProgressInv(p)'
  <2>1. LocalInv(p) /\ ProgressInv(p)
    BY DEF IInv
  <2>2. LocalInv(p)'
    BY <1>2, <2>1 DEF LocalInv
  <2>3. \A t \in Tx : Unwritten(t) => Unwritten(t)'
    BY <1>2, <1>3, ConstantsAssumption DEF Unwritten, TypeOK
  <2>4. pc[p] \in Writing => tx[p] \in Tx
    BY <1>3, <2>1 DEF LocalInv, TypeOK
  <2>5. ProgressInv(p)'
    BY <1>2, <2>1, <2>3, <2>4 DEF ProgressInv, Journaling, Writing, Unwritten
  <2>6. QED
    BY <2>2, <2>5
<1>9. QED
  BY <1>5, <1>6, <1>7, <1>8 DEF IInv

-----------------------------------------------------------------------------
(***************************************************************************)
(* The invariant holds of every behaviour.                                 *)
(***************************************************************************)
LEMMA StepKeeps ==
  ASSUME IInv, NEW p \in Proc, Step(p)
  PROVE  IInv'
<1>1. CASE Acquire(p)
  BY <1>1, AcquireKeeps
<1>2. CASE Contend(p)
  BY <1>2, RaiseKeeps DEF Contend, Results
<1>3. ASSUME NEW t \in Tx, RecoverRefuses(p, t) PROVE IInv'
  BY <1>3, RaiseKeeps DEF RecoverRefuses, Results
<1>4. ASSUME NEW t \in Tx, RecoverSkips(p, t) PROVE IInv'
  BY <1>4, SkipKeeps
<1>5. ASSUME NEW t \in Tx, RecoverUndoes(p, t) PROVE IInv'
  BY <1>5, UndoKeeps
<1>6. CASE Restore(p)
  BY <1>6, RestoreKeeps
<1>7. CASE Recovered(p)
  <2>1. CASE call[p].op = "apply"
    BY <1>7, <2>1, RecoveredKeeps
  <2>2. CASE call[p].op # "apply"
    <3>1. /\ pc[p] # "idle" /\ pc[p] # "acquire" /\ Return(p, "ok")
          /\ UNCHANGED <<note, dirs, journal, scratch, backup, staged, history>>
      BY <1>7, <2>2 DEF Recovered, files
    <3>2. QED
      BY <3>1, ReturnKeeps DEF IInv, TypeOK, Results
  <2>3. QED
    BY <2>1, <2>2
<1>8. CASE JournalOpen(p)
  <2>1. CASE tx[p] \in scratch
    BY <1>8, <2>1, RaiseKeeps DEF JournalOpen, Results
  <2>2. CASE tx[p] \notin scratch
    BY <1>8, <2>2, OpenKeeps
  <2>3. QED
    BY <2>1, <2>2
<1>9. CASE JournalRename(p)
  BY <1>9, RenameKeeps
<1>10. CASE Stat(p)
  BY <1>10, StatKeeps
<1>11. CASE ReadPreimage(p)
  BY <1>11, ReadKeeps
<1>12. CASE MakeBackup(p)
  BY <1>12, BackupKeeps
<1>13. CASE Recheck(p)
  BY <1>13, RecheckKeeps
<1>14. CASE Stage(p)
  BY <1>14, StageKeeps
<1>15. CASE Swap(p)
  BY <1>15, SwapKeeps
<1>16. CASE Verify(p)
  BY <1>16, VerifyKeeps
<1>17. CASE Purge(p)
  BY <1>17, PurgeKeeps
<1>18. QED
  BY <1>1, <1>2, <1>3, <1>4, <1>5, <1>6, <1>7, <1>8, <1>9, <1>10, <1>11, <1>12, <1>13,
     <1>14, <1>15, <1>16, <1>17 DEF Step

LEMMA NextKeeps == IInv /\ [Next]_vars => IInv'
<1> SUFFICES ASSUME IInv, [Next]_vars PROVE IInv'
  OBVIOUS
<1>1. ASSUME NEW p \in Proc, CallApply(p) \/ CallRecover(p) PROVE IInv'
  BY <1>1, CallKeeps
<1>2. ASSUME NEW p \in Proc, Step(p) PROVE IInv'
  BY <1>2, StepKeeps
<1>3. ASSUME NEW p \in Proc, Crash(p) PROVE IInv'
  BY <1>3, CrashKeeps
<1>4. ASSUME NEW p \in Proc, SystemCallFails(p) PROVE IInv'
  BY <1>4, RaiseKeeps DEF SystemCallFails, Results
<1>5. ASSUME NEW n \in Note, Save(n) PROVE IInv'
  BY <1>5, SaveKeeps
<1>6. CASE UNCHANGED vars
  <2>1. TypeOK' /\ DirInv' /\ WriteAhead'
    BY <1>6 DEF IInv, TypeOK, DirInv, WriteAhead, Undoable, IsReplacement, vars
  <2>2. ASSUME NEW p \in Proc PROVE LocalInv(p)' /\ ProgressInv(p)'
    BY <1>6 DEF IInv, LocalInv, ProgressInv, Journaling, Unwritten, vars
  <2>3. QED
    BY <2>1, <2>2 DEF IInv
<1>7. QED
  BY <1>1, <1>2, <1>3, <1>4, <1>5, <1>6 DEF Next

\* The inductive invariant holds of every behaviour: what each process holds
\* in memory agrees with the journal, the backup and the staged file.
THEOREM Invariance == Spec => []IInv
<1>1. Init => IInv
  BY InitIInv
<1>2. IInv /\ [Next]_vars => IInv'
  BY NextKeeps
<1>3. QED
  BY <1>1, <1>2, PTL DEF Spec

\* Every variable keeps its type and the lock is held exactly from the
\* acquisition to the return.
THEOREM TypeCorrect == Spec => []TypeOK
<1>1. IInv => TypeOK
  BY DEF IInv
<1>2. QED
  BY <1>1, Invariance, PTL

\* Whatever is killed, fails or is saved meanwhile, a replacement that is in
\* place and not committed is described by its journal and has its backup.
THEOREM WriteAheadHolds == Spec => []WriteAhead
<1>1. IInv => WriteAhead
  BY DEF IInv
<1>2. QED
  BY <1>1, Invariance, PTL

-----------------------------------------------------------------------------
(***************************************************************************)
(* BackupKept: only Purge, Restore and the recovery walk drop a backup.    *)
(***************************************************************************)
LEMMA StepBackup ==
  ASSUME IInv, NEW p \in Proc, Step(p), NEW t \in Tx,
         backup[t] # NoFile, backup'[t] = NoFile
  PROVE  \/ Finished(journal[t])
         \/ note'[journal[t].target].text = journal[t].preimage
<1> USE DEF IInv
<1>1. CASE Purge(p)
  <2>1. tx[p] \in Tx /\ Finished(journal[tx[p]])
    BY <1>1 DEF Purge, TypeOK, LocalInv, ProgressInv, Writing, PhaseOf, Finished
  <2>2. t = tx[p]
    BY <1>1, <2>1 DEF Purge, TypeOK
  <2>3. QED
    BY <2>1, <2>2
<1>2. CASE Restore(p)
  <2>1. /\ tx[p] \in Tx /\ rec[p] \in Record
        /\ journal[tx[p]].target = rec[p].target
        /\ journal[tx[p]].preimage = rec[p].preimage
        /\ backup[tx[p]].text = rec[p].preimage
    BY <1>2 DEF Restore, TypeOK, LocalInv, ProgressInv, Writing
  <2>2. rec[p].target \in Note
    BY <2>1 DEF Record
  <2>3. t = tx[p]
    BY <1>2, <2>1 DEF Restore, TypeOK
  <2>4. QED
    BY <1>2, <2>1, <2>2, <2>3 DEF Restore, TypeOK
<1>3. ASSUME NEW u \in Tx, RecoverSkips(p, u)
      PROVE  Finished(journal[t])
  BY <1>3 DEF RecoverSkips, TypeOK
<1>4. CASE MakeBackup(p)
  <2>1. PICK u \in Tx, i \in NewInode :
          backup' = [backup EXCEPT ![u] = [ino |-> i, text |-> call[p].expected]]
    BY <1>4 DEF MakeBackup
  <2>2. i \in Inode
    BY NewInodeType
  <2>3. [ino |-> i, text |-> call[p].expected] # NoFile
    BY <2>2, ConstantsAssumption DEF NoFile
  <2>4. QED
    BY <2>1, <2>3 DEF TypeOK
<1>5. CASE UNCHANGED backup
  BY <1>5
<1>6. ASSUME NEW how \in Results, Raise(p, how) PROVE UNCHANGED backup
  BY <1>6 DEF Raise
<1>7. Recovered(p) => UNCHANGED backup
  BY DEF Recovered, files
<1>8. JournalOpen(p) \/ ReadPreimage(p) \/ Recheck(p) \/ Verify(p) \/ Contend(p)
        => UNCHANGED backup
  BY <1>6 DEF JournalOpen, ReadPreimage, Recheck, Verify, Contend, Results, files
<1>9. \A u \in Tx : RecoverRefuses(p, u) \/ RecoverUndoes(p, u) => UNCHANGED backup
  BY <1>6 DEF RecoverRefuses, RecoverUndoes, Results, files
<1>10. Acquire(p) \/ JournalRename(p) \/ Stat(p) \/ Stage(p) \/ Swap(p) => UNCHANGED backup
  BY DEF Acquire, JournalRename, Stat, Stage, Swap, files
<1>11. QED
  BY <1>1, <1>2, <1>3, <1>4, <1>5, <1>7, <1>8, <1>9, <1>10 DEF Step

LEMMA NextBackup ==
  ASSUME IInv, [Next]_vars, NEW t \in Tx, backup[t] # NoFile, backup'[t] = NoFile
  PROVE  \/ Finished(journal[t])
         \/ note'[journal[t].target].text = journal[t].preimage
<1>1. \A p \in Proc : CallApply(p) \/ CallRecover(p) \/ Crash(p) \/ SystemCallFails(p)
        => UNCHANGED backup
  BY DEF CallApply, CallRecover, Crash, SystemCallFails, Raise, files
<1>2. \A n \in Note : Save(n) => UNCHANGED backup
  BY DEF Save
<1>3. UNCHANGED vars => UNCHANGED backup
  BY DEF vars
<1>4. QED
  BY <1>1, <1>2, <1>3, StepBackup DEF Next

\* No step drops the preimage of a transaction while it may be needed: it is
\* recorded as finished, or the preimage goes back into the note.
THEOREM BackupKeptHolds == Spec => BackupKept
<1>1. IInv /\ [Next]_vars =>
        [\A t \in Tx : backup[t] # NoFile /\ backup'[t] = NoFile =>
           \/ Finished(journal[t])
           \/ note'[journal[t].target].text = journal[t].preimage]_vars
  BY NextBackup
<1>2. QED
  BY <1>1, Invariance, PTL DEF Spec, BackupKept

-----------------------------------------------------------------------------
(***************************************************************************)
(* ScratchStopsRecoveryOnly: the scratch file of a patch that goes on is   *)
(* there exactly while its journal is written, so one that was left behind *)
(* belongs to a transaction that only a recovery takes up again.           *)
(***************************************************************************)
ScratchLocal(p) ==
  pc[p] \in Writing /\ rec[p].phase # "recovered" /\ tx[p] \in scratch =>
    pc[p] = "journal_rename"

ScratchInv ==
  /\ scratch \subseteq dirs
  /\ \A p \in Proc : ScratchLocal(p)

\* A step that adds no scratch file, or only the one of the process it is of.
LEMMA ScratchKeeps ==
  ASSUME IInv, ScratchInv, NEW p \in Proc,
         scratch' \subseteq dirs', ScratchLocal(p)',
         scratch' \subseteq scratch \/ pc[p] \notin {"idle", "acquire"},
         \A q \in Proc : q # p => pc'[q] = pc[q] /\ tx'[q] = tx[q] /\ rec'[q] = rec[q]
  PROVE  ScratchInv'
<1>1. ASSUME NEW q \in Proc, q # p PROVE ScratchLocal(q)'
  <2>1. CASE scratch' \subseteq scratch
    BY <1>1, <2>1 DEF ScratchInv, ScratchLocal
  <2>2. CASE pc[p] \notin {"idle", "acquire"}
    <3>1. pc[q] \in {"idle", "acquire"}
      BY <1>1, <2>2, Exclusive DEF IInv
    <3>2. QED
      BY <1>1, <3>1 DEF ScratchLocal, Writing
  <2>3. QED
    BY <2>1, <2>2
<1>2. QED
  BY <1>1 DEF ScratchInv

LEMMA ReturnScratch ==
  ASSUME IInv, ScratchInv, NEW p \in Proc, NEW how \in Results, Return(p, how),
         scratch' \subseteq scratch, UNCHANGED dirs
  PROVE  ScratchInv'
<1>1. pc'[p] = "idle"
  BY DEF Return, IInv, TypeOK
<1>2. ScratchLocal(p)'
  BY <1>1 DEF ScratchLocal, Writing
<1>3. QED
  BY <1>2, ScratchKeeps DEF Return, IInv, TypeOK, ScratchInv

LEMMA RaiseScratch ==
  ASSUME IInv, ScratchInv, NEW p \in Proc, NEW how \in Results, Raise(p, how)
  PROVE  ScratchInv'
  BY ReturnScratch DEF Raise

LEMMA StepScratch ==
  ASSUME IInv, ScratchInv, NEW p \in Proc, Step(p)
  PROVE  ScratchInv'
<1>1. TypeOK /\ LocalInv(p) /\ scratch \subseteq dirs /\ ScratchLocal(p)
  BY DEF IInv, ScratchInv
<1>2. ASSUME NEW how \in Results, Raise(p, how) PROVE ScratchInv'
  BY <1>2, RaiseScratch
<1>3. CASE Acquire(p)
  <2>1. ScratchLocal(p)'
    BY <1>1, <1>3 DEF Acquire, Goto, TypeOK, ScratchLocal, Writing
  <2>2. QED
    BY <1>1, <1>3, <2>1, ScratchKeeps DEF Acquire, Goto, files, TypeOK
<1>4. CASE Contend(p)
  BY <1>2, <1>4 DEF Contend, Results
<1>5. ASSUME NEW t \in Tx, RecoverRefuses(p, t) PROVE ScratchInv'
  BY <1>2, <1>5 DEF RecoverRefuses, Results
<1>6. ASSUME NEW t \in Tx, RecoverSkips(p, t) PROVE ScratchInv'
  <2>1. ScratchLocal(p)'
    BY <1>1, <1>6 DEF RecoverSkips, ScratchLocal
  <2>2. QED
    BY <1>1, <1>6, <2>1, ScratchKeeps DEF RecoverSkips
<1>7. ASSUME NEW t \in Tx, RecoverUndoes(p, t) PROVE ScratchInv'
  <2>1. rec'[p].phase = "recovered"
    <3>1. journal[t] \in Record
      BY <1>1, <1>7 DEF RecoverUndoes, LocalInv, TypeOK
    <3>2. QED
      BY <1>1, <1>7, <3>1 DEF RecoverUndoes, TypeOK, Record
  <2>2. ScratchLocal(p)'
    BY <2>1 DEF ScratchLocal
  <2>3. QED
    BY <1>1, <1>7, <2>2, ScratchKeeps DEF RecoverUndoes, Goto, files, TypeOK
<1>8. CASE Restore(p)
  <2>1. rec'[p].phase = "recovered"
    BY <1>1, <1>8 DEF Restore, LocalInv, Writing, PhaseOf, locals
  <2>2. ScratchLocal(p)'
    BY <2>1 DEF ScratchLocal
  <2>3. QED
    BY <1>1, <1>8, <2>2, ScratchKeeps DEF Restore, Goto, locals, TypeOK
<1>9. CASE Recovered(p)
  <2>1. CASE Return(p, "ok") /\ UNCHANGED <<files, history>>
    BY <2>1, ReturnScratch DEF Results, files
  <2>2. CASE Goto(p, "stat") /\ UNCHANGED <<files, lock, locals, result, history>>
    <3>1. ScratchLocal(p)'
      BY <1>1, <2>2 DEF Goto, TypeOK, ScratchLocal, Writing
    <3>2. QED
      BY <1>1, <2>2, <3>1, ScratchKeeps DEF Goto, files, locals, TypeOK
  <2>3. QED
    BY <1>9, <2>1, <2>2 DEF Recovered
<1>10. CASE JournalOpen(p)
  <2>1. CASE Raise(p, "failed")
    BY <1>2, <2>1 DEF Results
  <2>2. CASE /\ scratch' = scratch \union {tx[p]}
             /\ Goto(p, "journal_rename")
             /\ UNCHANGED <<note, dirs, journal, backup, staged, lock, locals, result, history>>
    <3>1. tx[p] \in dirs
      BY <1>1, <1>10 DEF JournalOpen, LocalInv, Writing
    <3>2. pc'[p] = "journal_rename"
      BY <1>1, <2>2 DEF Goto, TypeOK
    <3>3. ScratchLocal(p)'
      BY <3>2 DEF ScratchLocal
    <3>4. pc[p] \notin {"idle", "acquire"}
      BY <1>10 DEF JournalOpen
    <3>5. QED
      BY <1>1, <2>2, <3>1, <3>3, <3>4, ScratchKeeps DEF Goto, locals, TypeOK
  <2>3. QED
    BY <1>10, <2>1, <2>2 DEF JournalOpen
<1>11. CASE JournalRename(p)
  <2>1. tx'[p] \notin scratch'
    BY <1>11 DEF JournalRename, locals
  <2>2. ScratchLocal(p)'
    BY <2>1 DEF ScratchLocal
  <2>3. QED
    BY <1>1, <1>11, <2>2, ScratchKeeps DEF JournalRename, Goto, locals, TypeOK
<1>12. CASE Stat(p)
  <2>1. ScratchLocal(p)'
    BY <1>1, <1>12 DEF Stat, Goto, TypeOK, ScratchLocal, Writing
  <2>2. QED
    BY <1>1, <1>12, <2>1, ScratchKeeps DEF Stat, Goto, files, TypeOK
<1>13. CASE ReadPreimage(p)
  <2>1. CASE Raise(p, "failed")
    BY <1>2, <2>1 DEF Results
  <2>2. CASE Goto(p, "backup") /\ UNCHANGED <<files, lock, locals, result, history>>
    <3>1. ScratchLocal(p)'
      BY <1>1, <2>2 DEF Goto, TypeOK, ScratchLocal, Writing
    <3>2. QED
      BY <1>1, <2>2, <3>1, ScratchKeeps DEF Goto, files, locals, TypeOK
  <2>3. QED
    BY <1>13, <2>1, <2>2 DEF ReadPreimage
<1>14. CASE MakeBackup(p)
  <2>1. PICK t \in Tx \ dirs : dirs' = dirs \union {t} /\ tx' = [tx EXCEPT ![p] = t]
    BY <1>14 DEF MakeBackup
  <2>2. tx'[p] \notin scratch'
    BY <1>1, <1>14, <2>1 DEF MakeBackup, TypeOK
  <2>3. ScratchLocal(p)'
    BY <2>2 DEF ScratchLocal
  <2>4. QED
    BY <1>1, <1>14, <2>1, <2>3, ScratchKeeps DEF MakeBackup, Goto, TypeOK
<1>15. CASE Recheck(p)
  <2>1. CASE Raise(p, "failed")
    BY <1>2, <2>1 DEF Results
  <2>2. CASE Goto(p, "stage") /\ UNCHANGED <<files, lock, locals, result, history>>
    <3>1. ScratchLocal(p)'
      BY <1>1, <1>15, <2>2 DEF Recheck, Goto, files, locals, TypeOK, ScratchLocal, Writing
    <3>2. QED
      BY <1>1, <2>2, <3>1, ScratchKeeps DEF Goto, files, locals, TypeOK
  <2>3. QED
    BY <1>15, <2>1, <2>2 DEF Recheck
<1>16. CASE Stage(p)
  <2>1. tx[p] \notin scratch
    BY <1>1, <1>16 DEF Stage, LocalInv, ScratchLocal, Writing, PhaseOf
  <2>2. ScratchLocal(p)'
    BY <1>16, <2>1 DEF Stage, ScratchLocal
  <2>3. QED
    BY <1>1, <1>16, <2>2, ScratchKeeps DEF Stage, Goto, TypeOK
<1>17. CASE Swap(p)
  <2>1. tx[p] \notin scratch
    BY <1>1, <1>17 DEF Swap, LocalInv, ScratchLocal, Writing, PhaseOf
  <2>2. ScratchLocal(p)'
    BY <1>17, <2>1 DEF Swap, ScratchLocal
  <2>3. QED
    BY <1>1, <1>17, <2>2, ScratchKeeps DEF Swap, Goto, TypeOK
<1>18. CASE Verify(p)
  <2>1. CASE Raise(p, "failed")
    BY <1>2, <2>1 DEF Results
  <2>2. CASE /\ rec' = [rec EXCEPT ![p].phase = "committed"]
             /\ Goto(p, "journal_open")
             /\ UNCHANGED <<files, lock, call, st, todo, tx, result, history>>
    <3>1. tx[p] \notin scratch
      BY <1>1, <1>18 DEF Verify, LocalInv, ScratchLocal, Writing, PhaseOf
    <3>2. ScratchLocal(p)'
      BY <2>2, <3>1 DEF files, ScratchLocal
    <3>3. QED
      BY <1>1, <2>2, <3>2, ScratchKeeps DEF Goto, files, TypeOK
  <2>3. QED
    BY <1>18, <2>1, <2>2 DEF Verify
<1>19. CASE Purge(p)
  BY <1>19, ReturnScratch DEF Purge, Results
<1>20. QED
  BY <1>3, <1>4, <1>5, <1>6, <1>7, <1>8, <1>9, <1>10, <1>11, <1>12, <1>13, <1>14, <1>15,
     <1>16, <1>17, <1>18, <1>19 DEF Step

LEMMA NextScratch == IInv /\ ScratchInv /\ [Next]_vars => ScratchInv'
<1> SUFFICES ASSUME IInv, ScratchInv, [Next]_vars PROVE ScratchInv'
  OBVIOUS
<1>1. ASSUME NEW p \in Proc, CallApply(p) \/ CallRecover(p) PROVE ScratchInv'
  <2>1. ScratchLocal(p)'
    BY <1>1 DEF CallApply, CallRecover, Goto, IInv, TypeOK, ScratchLocal, Writing
  <2>2. QED
    BY <1>1, <2>1, ScratchKeeps
    DEF CallApply, CallRecover, Goto, files, IInv, TypeOK, ScratchInv
<1>2. ASSUME NEW p \in Proc, Crash(p) PROVE ScratchInv'
  BY <1>2, ReturnScratch DEF Crash, Results, files
<1>3. ASSUME NEW p \in Proc, SystemCallFails(p) PROVE ScratchInv'
  BY <1>3, RaiseScratch DEF SystemCallFails, Results
<1>4. ASSUME NEW n \in Note, Save(n) PROVE ScratchInv'
  BY <1>4 DEF Save, locals, ScratchInv, ScratchLocal
<1>5. CASE UNCHANGED vars
  BY <1>5 DEF vars, ScratchInv, ScratchLocal
<1>6. QED
  BY <1>1, <1>2, <1>3, <1>4, <1>5, StepScratch DEF Next

\* A scratch file that a crash left behind never stops a patch, only the last
\* write of a recovery.
THEOREM ScratchStopsRecoveryOnlyHolds == Spec => []ScratchStopsRecoveryOnly
<1>1. Init => ScratchInv
  BY DEF Init, ScratchInv, ScratchLocal, Writing
<1>2. IInv /\ ScratchInv => ScratchStopsRecoveryOnly
  BY DEF ScratchInv, ScratchLocal, ScratchStopsRecoveryOnly, Writing
<1>3. QED
  BY <1>1, <1>2, NextScratch, Invariance, PTL DEF Spec

-----------------------------------------------------------------------------
(***************************************************************************)
(* SourcePreserved: as long as no user saves during a call, every record   *)
(* differs from what the user typed in the managed keys only.              *)
(***************************************************************************)
SourceLocal(p) ==
  /\ pc[p] \in Writing => rec[p].postimage.body = rec[p].preimage.body
  /\ pc[p] = "backup" => typed[call[p].target].body = call[p].expected.body
  /\ pc[p] = "restore" => typed[rec[p].target].body = rec[p].preimage.body
  /\ pc[p] \in Writing /\ rec[p].phase \in {"prepared", "replacing"} =>
       typed[rec[p].target].body = rec[p].preimage.body

SourceInv ==
  /\ SourcePreserved
  /\ \A t \in Tx : journal[t] # NoRecord => journal[t].postimage.body = journal[t].preimage.body
  /\ \A p \in Proc : SourceLocal(p)

LEMMA InitSource == Init => SourceInv
  BY DEF Init, SourceInv, SourcePreserved, SourceLocal, Writing

\* A step that leaves notes, records and the other processes alone.
LEMMA SourceKeeps ==
  ASSUME IInv, SourceInv, NEW p \in Proc,
         UNCHANGED <<note, journal, typed>>, SourceLocal(p)',
         \A q \in Proc : q # p => /\ pc'[q] = pc[q]
                                /\ call'[q] = call[q]
                                /\ rec'[q] = rec[q]
  PROVE  SourceInv'
<1>1. SourcePreserved'
  BY DEF SourceInv, SourcePreserved
<1>2. ASSUME NEW q \in Proc, q # p PROVE SourceLocal(q)'
  BY <1>2 DEF SourceInv, SourceLocal
<1>3. QED
  BY <1>1, <1>2 DEF SourceInv

LEMMA ReturnSource ==
  ASSUME IInv, SourceInv, NEW p \in Proc, NEW how \in Results, Return(p, how),
         UNCHANGED <<note, journal, typed>>
  PROVE  SourceInv'
<1>1. pc'[p] = "idle"
  BY DEF Return, IInv, TypeOK
<1>2. SourceLocal(p)'
  BY <1>1 DEF SourceLocal, Writing
<1>3. QED
  BY <1>2, SourceKeeps DEF Return, IInv, TypeOK

LEMMA RaiseSource ==
  ASSUME IInv, SourceInv, NEW p \in Proc, NEW how \in Results, Raise(p, how)
  PROVE  SourceInv'
  BY ReturnSource DEF Raise, history

LEMMA StepSource ==
  ASSUME IInv, SourceInv, NEW p \in Proc, Step(p)
  PROVE  SourceInv'
<1>1. TypeOK /\ LocalInv(p) /\ ProgressInv(p) /\ SourceLocal(p)
  BY DEF IInv, SourceInv
<1>2. CASE Acquire(p)
  <2>1. pc'[p] = "recover"
    BY <1>1, <1>2 DEF Acquire, Goto, TypeOK
  <2>2. SourceLocal(p)'
    BY <2>1 DEF SourceLocal, Writing
  <2>3. QED
    BY <1>1, <1>2, <2>2, SourceKeeps DEF Acquire, Goto, files, history, TypeOK
<1>3. ASSUME NEW how \in Results, Raise(p, how) PROVE SourceInv'
  BY <1>3, RaiseSource
<1>4. CASE Contend(p)
  BY <1>3, <1>4 DEF Contend, Results
<1>5. ASSUME NEW t \in Tx, RecoverRefuses(p, t) PROVE SourceInv'
  BY <1>3, <1>5 DEF RecoverRefuses, Results
<1>6. ASSUME NEW t \in Tx, RecoverSkips(p, t) PROVE SourceInv'
  <2>1. SourceLocal(p)'
    BY <1>1, <1>6 DEF RecoverSkips, SourceLocal, history, Writing
  <2>2. QED
    BY <1>6, <2>1, SourceKeeps DEF RecoverSkips, history
<1>7. ASSUME NEW t \in Tx, RecoverUndoes(p, t) PROVE SourceInv'
  <2>1. /\ journal[t] \in Record /\ t \in todo[p]
        /\ note[journal[t].target].text = journal[t].postimage
        /\ pc'[p] = "restore"
        /\ rec'[p] = [journal[t] EXCEPT !.phase = "recovered"]
        /\ UNCHANGED <<note, journal, typed>>
    BY <1>1, <1>7 DEF RecoverUndoes, Goto, TypeOK, LocalInv, Mismatch, NothingToUndo, files, history
  <2>2. /\ rec'[p].target = journal[t].target /\ rec'[p].preimage = journal[t].preimage
        /\ rec'[p].postimage = journal[t].postimage /\ rec'[p].phase = "recovered"
        /\ journal[t].target \in Note /\ journal[t] # NoRecord
    BY <2>1, NoRecordFacts DEF Record
  <2>3. typed[journal[t].target].body = journal[t].preimage.body
    BY <2>1, <2>2 DEF SourceInv, SourcePreserved
  <2>4. SourceLocal(p)'
    BY <2>1, <2>2, <2>3 DEF SourceInv, SourceLocal
  <2>5. QED
    BY <1>1, <1>7, <2>4, SourceKeeps DEF RecoverUndoes, Goto, TypeOK, files, history
<1>8. CASE Restore(p)
  <2>1. /\ pc[p] = "restore" /\ pc' = [pc EXCEPT ![p] = "journal_open"]
        /\ note' = [note EXCEPT ![rec[p].target] = backup[tx[p]]]
        /\ UNCHANGED <<journal, typed, call, rec, tx>>
    BY <1>8 DEF Restore, Goto, locals
  <2>2. /\ rec[p] \in Record /\ backup[tx[p]].text = rec[p].preimage
        /\ rec[p].phase = "recovered"
    BY <1>1, <2>1 DEF LocalInv, ProgressInv, Writing, PhaseOf
  <2>3. SourcePreserved'
    BY <1>1, <2>1, <2>2 DEF SourceInv, SourcePreserved, SourceLocal, TypeOK
  <2>4. SourceLocal(p)'
    BY <1>1, <2>1, <2>2 DEF SourceLocal, TypeOK, Writing
  <2>5. ASSUME NEW q \in Proc, q # p PROVE SourceLocal(q)'
    BY <1>1, <2>1, <2>5 DEF SourceInv, SourceLocal, TypeOK
  <2>6. QED
    BY <2>1, <2>3, <2>4, <2>5 DEF SourceInv
<1>9. CASE Recovered(p)
  <2>1. ASSUME Goto(p, "stat"), UNCHANGED <<files, lock, locals, result, history>>
        PROVE  SourceInv'
    <3>1. pc'[p] = "stat"
      BY <1>1, <2>1 DEF Goto, TypeOK
    <3>2. SourceLocal(p)'
      BY <3>1 DEF SourceLocal, Writing
    <3>3. QED
      BY <1>1, <2>1, <3>2, SourceKeeps DEF Goto, files, locals, history, TypeOK
  <2>2. ASSUME Return(p, "ok"), UNCHANGED <<files, history>> PROVE SourceInv'
    BY <2>2, ReturnSource DEF Results, files, history
  <2>3. QED
    BY <1>9, <2>1, <2>2 DEF Recovered
<1>10. CASE JournalOpen(p)
  <2>1. CASE tx[p] \in scratch
    BY <1>3, <1>10, <2>1 DEF JournalOpen, Results
  <2>2. CASE tx[p] \notin scratch
    <3>1. /\ pc[p] = "journal_open" /\ pc' = [pc EXCEPT ![p] = "journal_rename"]
          /\ UNCHANGED <<note, journal, typed, call, rec>>
      BY <1>10, <2>2 DEF JournalOpen, Goto, locals, history
    <3>2. SourceLocal(p)'
      BY <1>1, <3>1 DEF SourceLocal, TypeOK, Writing
    <3>3. QED
      BY <1>1, <3>1, <3>2, SourceKeeps DEF TypeOK
  <2>3. QED
    BY <2>1, <2>2
<1>11. CASE JournalRename(p)
  <2>1. /\ pc[p] = "journal_rename"
        /\ pc' = [pc EXCEPT ![p] = Continuation(rec[p].phase)]
        /\ journal' = [journal EXCEPT ![tx[p]] = rec[p]]
        /\ UNCHANGED <<note, typed, call, rec>>
    BY <1>11 DEF JournalRename, Goto, locals, history
  <2>2. /\ Continuation(rec[p].phase) \notin {"backup", "restore"}
        /\ tx[p] \in Tx /\ pc[p] \in Writing
    BY <1>1, <2>1 DEF Continuation, LocalInv, Writing, TypeOK
  <2>3. SourcePreserved'
    BY <2>1 DEF SourceInv, SourcePreserved
  <2>4. \A t \in Tx : journal'[t] # NoRecord =>
          journal'[t].postimage.body = journal'[t].preimage.body
    BY <1>1, <2>1, <2>2 DEF SourceInv, SourceLocal, TypeOK
  <2>5. SourceLocal(p)'
    BY <1>1, <2>1, <2>2 DEF SourceLocal, TypeOK
  <2>6. ASSUME NEW q \in Proc, q # p PROVE SourceLocal(q)'
    BY <1>1, <2>1, <2>6 DEF SourceInv, SourceLocal, TypeOK
  <2>7. QED
    BY <2>3, <2>4, <2>5, <2>6 DEF SourceInv
<1>12. CASE Stat(p)
  <2>1. pc'[p] = "read"
    BY <1>1, <1>12 DEF Stat, Goto, TypeOK
  <2>2. SourceLocal(p)'
    BY <2>1 DEF SourceLocal, Writing
  <2>3. QED
    BY <1>1, <1>12, <2>2, SourceKeeps DEF Stat, Goto, files, history, TypeOK
<1>13. CASE ReadPreimage(p)
  <2>1. CASE note[call[p].target].text # call[p].expected
    BY <1>3, <1>13, <2>1 DEF ReadPreimage, Results
  <2>2. CASE note[call[p].target].text = call[p].expected
    <3>1. /\ pc[p] = "read" /\ pc' = [pc EXCEPT ![p] = "backup"]
          /\ UNCHANGED <<note, journal, typed, call, rec>>
      BY <1>13, <2>2 DEF ReadPreimage, Goto, files, locals, history
    <3>2. call[p].target \in Note
      BY <1>1, <3>1 DEF LocalInv, Call, NoCall
    <3>3. SourceLocal(p)'
      BY <1>1, <2>2, <3>1, <3>2 DEF SourceInv, SourcePreserved, SourceLocal, TypeOK, Writing
    <3>4. QED
      BY <1>1, <3>1, <3>3, SourceKeeps DEF TypeOK
  <2>3. QED
    BY <2>1, <2>2
<1>14. CASE MakeBackup(p)
  <2>1. /\ pc[p] = "backup" /\ pc' = [pc EXCEPT ![p] = "journal_open"]
        /\ rec' = [rec EXCEPT ![p] =
             [target |-> call[p].target, target_ino |-> st[p], replacement_ino |-> NoInode,
              preimage |-> call[p].expected,
              postimage |-> Render(call[p].expected, call[p].update), phase |-> "prepared"]]
        /\ UNCHANGED <<note, journal, typed, call>>
    BY <1>14 DEF MakeBackup, Goto, history
  <2>2. call[p].expected \in Text
    BY <1>1, <2>1 DEF LocalInv, Call, NoCall
  <2>3. Render(call[p].expected, call[p].update).body = call[p].expected.body
    BY <2>2 DEF Render, Text
  <2>4. SourceLocal(p)'
    BY <1>1, <2>1, <2>3 DEF SourceLocal, TypeOK
  <2>5. QED
    BY <1>1, <2>1, <2>4, SourceKeeps DEF TypeOK
<1>15. CASE Recheck(p)
  <2>1. CASE Raise(p, "failed")
    BY <1>3, <2>1 DEF Results
  <2>2. CASE ~Raise(p, "failed")
    <3>1. /\ pc[p] = "recheck" /\ pc' = [pc EXCEPT ![p] = "stage"]
          /\ UNCHANGED <<note, journal, typed, call, rec>>
      BY <1>15, <2>2 DEF Recheck, Goto, files, locals, history
    <3>2. SourceLocal(p)'
      BY <1>1, <3>1 DEF SourceLocal, TypeOK, Writing
    <3>3. QED
      BY <1>1, <3>1, <3>2, SourceKeeps DEF TypeOK
  <2>3. QED
    BY <2>1, <2>2
<1>16. CASE Stage(p)
  <2>1. PICK i \in NewInode :
          rec' = [rec EXCEPT ![p].replacement_ino = i, ![p].phase = "replacing"]
    BY <1>16 DEF Stage
  <2>2. /\ pc[p] = "stage" /\ pc' = [pc EXCEPT ![p] = "journal_open"]
        /\ UNCHANGED <<note, journal, typed, call>>
    BY <1>16 DEF Stage, Goto, history
  <2>3. rec[p] \in Record /\ rec[p].phase = "prepared" /\ pc[p] \in Writing
    BY <1>1, <2>2 DEF LocalInv, Writing, PhaseOf
  <2>4. /\ rec'[p].target = rec[p].target /\ rec'[p].preimage = rec[p].preimage
        /\ rec'[p].postimage = rec[p].postimage
    BY <1>1, <2>1, <2>3 DEF TypeOK, Record
  <2>5. SourceLocal(p)'
    BY <1>1, <2>2, <2>3, <2>4 DEF SourceLocal, TypeOK
  <2>6. QED
    BY <1>1, <2>1, <2>2, <2>5, SourceKeeps DEF TypeOK
<1>17. CASE Swap(p)
  <2>1. /\ pc[p] = "swap" /\ pc' = [pc EXCEPT ![p] = "journal_open"]
        /\ note' = [note EXCEPT ![rec[p].target] = staged[tx[p]]]
        /\ rec' = [rec EXCEPT ![p].phase = "replaced"]
        /\ UNCHANGED <<journal, typed, call>>
    BY <1>17 DEF Swap, Goto
  <2>2. /\ rec[p] \in Record /\ rec[p].phase = "replacing" /\ pc[p] \in Writing
        /\ staged[tx[p]].text = rec[p].postimage
    BY <1>1, <2>1 DEF LocalInv, ProgressInv, Writing, PhaseOf
  <2>3. /\ rec'[p].target = rec[p].target /\ rec'[p].preimage = rec[p].preimage
        /\ rec'[p].postimage = rec[p].postimage /\ rec'[p].phase = "replaced"
    BY <1>1, <2>1, <2>2 DEF TypeOK, Record
  <2>4. SourcePreserved'
    BY <1>1, <2>1, <2>2 DEF SourceInv, SourcePreserved, SourceLocal, TypeOK
  <2>5. SourceLocal(p)'
    BY <1>1, <2>1, <2>2, <2>3 DEF SourceLocal, TypeOK
  <2>6. ASSUME NEW q \in Proc, q # p PROVE SourceLocal(q)'
    BY <1>1, <2>1, <2>6 DEF SourceInv, SourceLocal, TypeOK
  <2>7. QED
    BY <2>1, <2>4, <2>5, <2>6 DEF SourceInv
<1>18. CASE Verify(p)
  <2>1. CASE Raise(p, "failed")
    BY <1>3, <2>1 DEF Results
  <2>2. CASE ~Raise(p, "failed")
    <3>1. /\ pc[p] = "verify" /\ pc' = [pc EXCEPT ![p] = "journal_open"]
          /\ rec' = [rec EXCEPT ![p].phase = "committed"]
          /\ UNCHANGED <<note, journal, typed, call>>
      BY <1>18, <2>2 DEF Verify, Goto, files, history
    <3>2. rec[p] \in Record /\ pc[p] \in Writing
      BY <1>1, <3>1 DEF LocalInv, Writing
    <3>3. /\ rec'[p].preimage = rec[p].preimage /\ rec'[p].postimage = rec[p].postimage
          /\ rec'[p].phase = "committed"
      BY <1>1, <3>1, <3>2 DEF TypeOK, Record
    <3>4. SourceLocal(p)'
      BY <1>1, <3>1, <3>2, <3>3 DEF SourceLocal, TypeOK
    <3>5. QED
      BY <1>1, <3>1, <3>4, SourceKeeps DEF TypeOK
  <2>3. QED
    BY <2>1, <2>2
<1>19. CASE Purge(p)
  BY <1>19, ReturnSource DEF Purge, Results, history
<1>20. QED
  BY <1>2, <1>4, <1>5, <1>6, <1>7, <1>8, <1>9, <1>10, <1>11, <1>12, <1>13, <1>14, <1>15,
     <1>16, <1>17, <1>18, <1>19 DEF Step

LEMMA CallSource ==
  ASSUME IInv, SourceInv, NEW p \in Proc, CallApply(p) \/ CallRecover(p)
  PROVE  SourceInv'
<1>1. TypeOK
  BY DEF IInv
<1>2. pc'[p] = "acquire"
  BY <1>1 DEF CallApply, CallRecover, Goto, TypeOK
<1>3. SourceLocal(p)'
  BY <1>2 DEF SourceLocal, Writing
<1>4. QED
  BY <1>1, <1>3, SourceKeeps DEF CallApply, CallRecover, Goto, files, history, TypeOK

LEMMA SaveSource ==
  ASSUME IInv, SourceInv, "race" \notin Faults, NEW n \in Note, Save(n)
  PROVE  SourceInv'
<1>1. TypeOK /\ lock = NoProc
  BY DEF IInv, Save
<1>2. \A p \in Proc : pc[p] \in {"idle", "acquire"} /\ pc'[p] = pc[p]
  BY <1>1, ConstantsAssumption DEF TypeOK, Save
<1>3. PICK c \in Text, i \in {note[n].ino} \union NewInode :
        /\ note' = [note EXCEPT ![n] = [ino |-> i, text |-> c]]
        /\ typed' = [typed EXCEPT ![n] = c]
  BY DEF Save
<1>4. SourcePreserved'
  BY <1>1, <1>3 DEF SourceInv, SourcePreserved, TypeOK
<1>5. \A p \in Proc : SourceLocal(p)'
  BY <1>2 DEF SourceLocal, Writing
<1>6. UNCHANGED journal
  BY DEF Save
<1>7. QED
  BY <1>4, <1>5, <1>6 DEF SourceInv

\* With no user saving during a call, no byte of a note outside the managed
\* keys is ever anything but what its user last saved, under every other fault.
THEOREM SourcePreservedHolds ==
  ASSUME "race" \notin Faults
  PROVE  Spec => []SourcePreserved
<1>1. Init => SourceInv
  BY InitSource
<1>2. IInv /\ SourceInv /\ [Next]_vars => SourceInv'
  <2> SUFFICES ASSUME IInv, SourceInv, [Next]_vars PROVE SourceInv'
    OBVIOUS
  <2>1. ASSUME NEW p \in Proc, CallApply(p) \/ CallRecover(p) PROVE SourceInv'
    BY <2>1, CallSource
  <2>2. ASSUME NEW p \in Proc, Step(p) PROVE SourceInv'
    BY <2>2, StepSource
  <2>3. ASSUME NEW p \in Proc, Crash(p) PROVE SourceInv'
    BY <2>3, ReturnSource DEF Crash, Results, files, history
  <2>4. ASSUME NEW p \in Proc, SystemCallFails(p) PROVE SourceInv'
    BY <2>4, RaiseSource DEF SystemCallFails, Results
  <2>5. ASSUME NEW n \in Note, Save(n) PROVE SourceInv'
    BY <2>5, SaveSource
  <2>6. CASE UNCHANGED vars
    BY <2>6 DEF SourceInv, SourcePreserved, SourceLocal, vars
  <2>7. QED
    BY <2>1, <2>2, <2>3, <2>4, <2>5, <2>6 DEF Next
<1>3. SourceInv => SourcePreserved
  BY DEF SourceInv
<1>4. QED
  BY <1>1, <1>2, <1>3, Invariance, PTL DEF Spec

-----------------------------------------------------------------------------
(***************************************************************************)
(* CommittedStays: as long as inode numbers that a record or a process     *)
(* mentions are not handed out again, a record names its own files only.   *)
(***************************************************************************)
\* A note that a transaction wrote is the replacement its record names.
Placed == \A n \in Note : writer[n] # NoTx =>
  journal[writer[n]].target = n /\ IsReplacement(journal[writer[n]], note[n])

\* No two records name one replacement.
Distinct == \A t, u \in Tx :
  t # u /\ journal[t].replacement_ino = journal[u].replacement_ino =>
    journal[t].replacement_ino = NoInode

\* The target of a record that has no replacement still has its preimage, if
\* no user saved it.
UntriedOf(t) ==
  journal[t].phase = "prepared" =>
    LET n == journal[t].target IN
    writer[n] # NoTx /\ note[n].ino = journal[t].target_ino =>
      note[n].text = journal[t].preimage
Untried == \A t \in Tx : UntriedOf(t)

\* A written record has a phase.
Phased == \A t \in Tx : journal[t] \in Record => journal[t].phase # "none"

StayLocal(p) ==
  /\ pc[p] = "backup" /\ writer[call[p].target] # NoTx =>
       note[call[p].target].text = call[p].expected
  /\ pc[p] \in Writing /\ rec[p].phase = "prepared" =>
       /\ rec[p].replacement_ino = NoInode
       /\ writer[rec[p].target] # NoTx => note[rec[p].target].text = rec[p].preimage
  /\ pc[p] \in Writing /\ rec[p].phase = "replacing" => \A t \in Tx :
       /\ journal[t].phase = "prepared" => journal[t].target_ino # rec[p].replacement_ino
       /\ t # tx[p] => journal[t].replacement_ino # rec[p].replacement_ino
  /\ pc[p] \in Writing /\ rec[p].phase \in {"replaced", "committed", "recovered"} =>
       /\ journal[tx[p]].target = rec[p].target
       /\ journal[tx[p]].replacement_ino = rec[p].replacement_ino
       /\ journal[tx[p]].postimage = rec[p].postimage
  /\ pc[p] = "restore" => writer[rec[p].target] \in {NoTx, tx[p]}

StayInv == Placed /\ Distinct /\ Untried /\ Phased /\ \A p \in Proc : StayLocal(p)

LEMMA InitStay == Init => StayInv
<1>1. NoRecord \notin Record
  BY ConstantsAssumption DEF Record, NoRecord
<1> QED BY <1>1 DEF Init, StayInv, Placed, Distinct, Untried, UntriedOf, Phased, StayLocal,
                   Writing, NoRecord

\* A new file has a number that no record mentions.
LEMMA NewInodeFresh ==
  ASSUME "reuse" \notin Faults, NEW i \in NewInode, NEW t \in Tx
  PROVE  i # journal[t].target_ino /\ i # journal[t].replacement_ino
<1> DEFINE free == Inode \ InUse
           unmentioned == free \ Mentioned
<1>1. unmentioned # {} /\ i = CHOOSE j \in unmentioned : TRUE
  BY DEF NewInode
<1>2. i \in unmentioned
  BY <1>1
<1> QED BY <1>2 DEF Mentioned

\* A step that leaves notes, records and the other processes alone.
LEMMA StayKeeps ==
  ASSUME StayInv, NEW p \in Proc, UNCHANGED <<note, journal, writer>>, StayLocal(p)',
         \A q \in Proc : q # p => /\ pc'[q] = pc[q] /\ call'[q] = call[q]
                                /\ rec'[q] = rec[q] /\ tx'[q] = tx[q]
  PROVE  StayInv'
<1>1. Placed' /\ Distinct' /\ Untried' /\ Phased'
  BY DEF StayInv, Placed, IsReplacement, Distinct, Untried, UntriedOf, Phased
<1>2. ASSUME NEW q \in Proc, q # p PROVE StayLocal(q)'
  BY <1>2 DEF StayInv, StayLocal
<1> QED BY <1>1, <1>2 DEF StayInv

LEMMA ReturnStay ==
  ASSUME IInv, StayInv, NEW p \in Proc, NEW how, Return(p, how),
         UNCHANGED <<note, journal, writer>>
  PROVE  StayInv'
<1>1. pc'[p] = "idle"
  BY DEF Return, IInv, TypeOK
<1>2. StayLocal(p)'
  BY <1>1 DEF StayLocal, Writing
<1> QED BY <1>2, StayKeeps DEF Return, IInv, TypeOK

LEMMA RaiseStay ==
  ASSUME IInv, StayInv, NEW p \in Proc, NEW how, Raise(p, how)
  PROVE  StayInv'
  BY ReturnStay DEF Raise, history

\* A step of the process that holds the lock: the others are idle or wait.
LEMMA RunningStay ==
  ASSUME TypeOK, NEW p \in Proc, pc[p] \notin {"idle", "acquire"},
         Placed', Distinct', Untried', Phased', StayLocal(p)',
         \A q \in Proc : q # p => pc'[q] = pc[q]
  PROVE  StayInv'
<1>1. ASSUME NEW q \in Proc, q # p PROVE StayLocal(q)'
  <2>1. pc'[q] \in {"idle", "acquire"}
    BY <1>1, Exclusive
  <2> QED BY <2>1 DEF StayLocal, Writing
<1> QED BY <1>1 DEF StayInv

\* Recovery takes only a replacement of its own transaction for one.
LEMMA UndoesOwn ==
  ASSUME IInv, StayInv, NEW p \in Proc, NEW t \in Tx, RecoverUndoes(p, t)
  PROVE  writer[journal[t].target] \in {NoTx, t}
<1> DEFINE n == journal[t].target
           w == writer[n]
<1>1. journal[t] \in Record /\ n \in Note
  BY DEF IInv, TypeOK, LocalInv, RecoverUndoes, Record
<1>2. SUFFICES ASSUME w # NoTx, w # t PROVE FALSE
  OBVIOUS
<1>3. w \in Tx /\ IsReplacement(journal[w], note[n])
  BY <1>1, <1>2 DEF IInv, TypeOK, StayInv, Placed
<1>4. note[n].ino \in Inode
  BY <1>1 DEF IInv, TypeOK, File
<1>5. /\ ~Mismatch(journal[t], note[n]) /\ ~Finished(journal[t])
      /\ note[n].text # journal[t].preimage
  BY DEF RecoverUndoes, NothingToUndo
<1>6. journal[t].phase \in {"prepared", "replacing", "replaced"}
  BY <1>1, <1>5 DEF Finished, Record, Phases, StayInv, Phased
<1>7. CASE journal[t].phase = "prepared"
  <2>1. note[n].ino = journal[t].target_ino
    BY <1>5, <1>7 DEF Mismatch
  <2> QED BY <1>2, <1>5, <1>7, <2>1 DEF StayInv, Untried, UntriedOf
<1>8. CASE journal[t].phase \in {"replacing", "replaced"}
  <2>1. IsReplacement(journal[t], note[n])
    BY <1>5, <1>8 DEF Mismatch, IsOriginal
  <2>2. journal[t].replacement_ino = journal[w].replacement_ino
    BY <1>3, <2>1 DEF IsReplacement
  <2>3. journal[t].replacement_ino = NoInode
    BY <1>2, <1>3, <2>2 DEF StayInv, Distinct
  <2> QED BY <1>4, <2>1, <2>3, ConstantsAssumption DEF IsReplacement
<1> QED BY <1>6, <1>7, <1>8

LEMMA UndoStay ==
  ASSUME IInv, StayInv, NEW p \in Proc, NEW t \in Tx, RecoverUndoes(p, t)
  PROVE  StayInv'
<1>1. /\ journal[t] \in Record /\ pc'[p] = "restore" /\ tx'[p] = t
      /\ rec'[p] = [journal[t] EXCEPT !.phase = "recovered"]
      /\ UNCHANGED <<note, journal, writer>>
  BY DEF RecoverUndoes, Goto, IInv, TypeOK, LocalInv, files, history
<1>2. /\ rec'[p].target = journal[t].target /\ rec'[p].postimage = journal[t].postimage
      /\ rec'[p].replacement_ino = journal[t].replacement_ino /\ rec'[p].phase = "recovered"
  BY <1>1 DEF Record
<1>3. StayLocal(p)'
  BY <1>1, <1>2, UndoesOwn DEF StayLocal
<1> QED BY <1>1, <1>3, StayKeeps DEF RecoverUndoes, Goto, IInv, TypeOK, files, history

LEMMA RestoreStay ==
  ASSUME IInv, StayInv, NEW p \in Proc, Restore(p)
  PROVE  StayInv'
<1>1. /\ pc[p] = "restore" /\ pc' = [pc EXCEPT ![p] = "journal_open"]
      /\ note' = [note EXCEPT ![rec[p].target] = backup[tx[p]]]
      /\ writer' = [writer EXCEPT ![rec[p].target] = NoTx]
      /\ UNCHANGED <<journal, call, tx, rec>>
  BY DEF Restore, Goto, locals
<1>2. TypeOK /\ LocalInv(p) /\ StayLocal(p)
  BY DEF IInv, StayInv
<1>3. \A n \in Note : writer'[n] # NoTx => writer'[n] = writer[n] /\ note'[n] = note[n]
  BY <1>1, <1>2 DEF TypeOK
<1>4. Placed' /\ Distinct' /\ Phased'
  BY <1>1, <1>3 DEF StayInv, Placed, IsReplacement, Distinct, Phased
<1>5. Untried'
  <2> SUFFICES ASSUME NEW t \in Tx PROVE UntriedOf(t)'
    BY DEF Untried
  <2>1. journal[t].phase = "prepared" => journal[t].target \in Note
    BY <1>2 DEF TypeOK, Record, NoRecord
  <2> QED BY <1>1, <1>3, <2>1 DEF StayInv, Untried, UntriedOf
<1>6. rec[p].phase = "recovered" /\ pc[p] \in Writing
  BY <1>1, <1>2 DEF LocalInv, PhaseOf, Writing
<1>7. StayLocal(p)'
  BY <1>1, <1>2, <1>6 DEF TypeOK, StayLocal
<1> QED BY <1>1, <1>2, <1>4, <1>5, <1>7, RunningStay DEF TypeOK

LEMMA RenameStay ==
  ASSUME IInv, StayInv, NEW p \in Proc, JournalRename(p)
  PROVE  StayInv'
<1>1. /\ pc[p] = "journal_rename"
      /\ pc' = [pc EXCEPT ![p] = Continuation(rec[p].phase)]
      /\ journal' = [journal EXCEPT ![tx[p]] = rec[p]]
      /\ UNCHANGED <<note, writer, call, rec, tx>>
  BY DEF JournalRename, Goto, locals, history
<1>2. TypeOK /\ LocalInv(p) /\ ProgressInv(p) /\ StayLocal(p)
  BY DEF IInv, StayInv
<1>3. /\ tx[p] \in Tx /\ rec[p] \in Record /\ pc[p] \in Writing /\ Journaling(p)
      /\ rec[p].phase \in Phases \ {"none"}
  BY <1>1, <1>2 DEF TypeOK, LocalInv, Writing, PhaseOf, Journaling
<1>4. journal'[tx[p]] = rec[p] /\ \A t \in Tx : t # tx[p] => journal'[t] = journal[t]
  BY <1>1, <1>2, <1>3 DEF TypeOK
<1>5. Placed'
  <2> SUFFICES ASSUME NEW n \in Note, writer[n] # NoTx
               PROVE  journal'[writer[n]].target = n /\ IsReplacement(journal'[writer[n]], note[n])
    BY <1>1 DEF Placed, IsReplacement
  <2>1. /\ writer[n] \in Tx /\ journal[writer[n]].target = n
        /\ IsReplacement(journal[writer[n]], note[n])
    BY <1>2 DEF StayInv, Placed, TypeOK
  <2>2. CASE writer[n] # tx[p]
    BY <1>4, <2>1, <2>2
  <2>3. CASE writer[n] = tx[p]
    <3>1. rec[p].phase \in {"replaced", "committed", "recovered"}
      BY <1>2, <1>3, <2>3 DEF ProgressInv, Unwritten, Phases
    <3> QED BY <1>2, <1>3, <1>4, <2>1, <2>3, <3>1 DEF StayLocal, IsReplacement
  <2> QED BY <2>2, <2>3
<1>6. Distinct'
  <2>1. \A t \in Tx : t # tx[p] /\ journal[t].replacement_ino = rec[p].replacement_ino =>
          rec[p].replacement_ino = NoInode
    <3>1. CASE rec[p].phase = "prepared"
      BY <1>2, <1>3, <3>1 DEF StayLocal
    <3>2. CASE rec[p].phase = "replacing"
      BY <1>2, <1>3, <3>2 DEF StayLocal
    <3>3. CASE rec[p].phase \in {"replaced", "committed", "recovered"}
      BY <1>2, <1>3, <3>3 DEF StayInv, StayLocal, Distinct
    <3> QED BY <1>3, <3>1, <3>2, <3>3 DEF Phases
  <2> QED BY <1>3, <1>4, <2>1 DEF StayInv, Distinct
<1>7. Untried'
  <2> SUFFICES ASSUME NEW t \in Tx PROVE UntriedOf(t)'
    BY DEF Untried
  <2>1. CASE t # tx[p]
    BY <1>1, <1>4, <2>1 DEF StayInv, Untried, UntriedOf
  <2>2. CASE t = tx[p]
    BY <1>1, <1>2, <1>3, <1>4, <2>2 DEF UntriedOf, StayLocal
  <2> QED BY <2>1, <2>2
<1>8. StayLocal(p)'
  <2>1. pc'[p] = Continuation(rec[p].phase) /\ pc'[p] \notin {"backup", "restore"}
    BY <1>1, <1>2 DEF TypeOK, Continuation
  <2> QED BY <1>1, <1>2, <1>3, <1>4, <2>1 DEF StayLocal
<1>9. Phased'
  BY <1>3, <1>4 DEF StayInv, Phased
<1> QED BY <1>1, <1>2, <1>5, <1>6, <1>7, <1>8, <1>9, RunningStay DEF TypeOK

LEMMA SwapStay ==
  ASSUME IInv, StayInv, NEW p \in Proc, Swap(p)
  PROVE  StayInv' /\ Unwritten(tx[p]) /\ (\A n \in Note : note'[n] # note[n] => writer'[n] = tx[p])
<1>1. /\ pc[p] = "swap" /\ pc' = [pc EXCEPT ![p] = "journal_open"]
      /\ note' = [note EXCEPT ![rec[p].target] = staged[tx[p]]]
      /\ writer' = [writer EXCEPT ![rec[p].target] = tx[p]]
      /\ rec' = [rec EXCEPT ![p].phase = "replaced"]
      /\ UNCHANGED <<journal, call, tx>>
  BY DEF Swap, Goto
<1>2. TypeOK /\ LocalInv(p) /\ ProgressInv(p) /\ StayLocal(p)
  BY DEF IInv, StayInv
<1>3. /\ tx[p] \in Tx /\ rec[p] \in Record /\ rec[p].phase = "replacing" /\ pc[p] \in Writing
      /\ staged[tx[p]] = [ino |-> rec[p].replacement_ino, text |-> rec[p].postimage]
      /\ journal[tx[p]] = rec[p] /\ Unwritten(tx[p])
  BY <1>1, <1>2 DEF TypeOK, LocalInv, ProgressInv, Writing, PhaseOf
<1>4. /\ rec[p].target \in Note
      /\ rec'[p].target = rec[p].target /\ rec'[p].replacement_ino = rec[p].replacement_ino
      /\ rec'[p].postimage = rec[p].postimage /\ rec'[p].phase = "replaced"
  BY <1>1, <1>2, <1>3 DEF TypeOK, Record
<1>5. \A n \in Note : IF n = rec[p].target
        THEN writer'[n] = tx[p] /\ note'[n] = staged[tx[p]]
        ELSE writer'[n] = writer[n] /\ note'[n] = note[n]
  BY <1>1, <1>2 DEF TypeOK
<1>6. Placed' /\ Distinct' /\ Phased'
  BY <1>1, <1>3, <1>5 DEF StayInv, Placed, IsReplacement, Distinct, Phased
<1>7. Untried'
  <2> SUFFICES ASSUME NEW t \in Tx, journal[t].phase = "prepared" PROVE UntriedOf(t)'
    BY <1>1 DEF Untried, UntriedOf
  <2>1. journal[t].target \in Note
    BY <1>2 DEF TypeOK, Record, NoRecord
  <2>2. CASE journal[t].target = rec[p].target
    BY <1>1, <1>2, <1>3, <1>5, <2>1, <2>2 DEF UntriedOf, StayLocal
  <2>3. CASE journal[t].target # rec[p].target
    BY <1>1, <1>5, <2>1, <2>3 DEF StayInv, Untried, UntriedOf
  <2> QED BY <2>2, <2>3
<1>8. StayLocal(p)'
  BY <1>1, <1>2, <1>3, <1>4 DEF TypeOK, StayLocal
<1> QED BY <1>1, <1>2, <1>3, <1>5, <1>6, <1>7, <1>8, RunningStay DEF TypeOK

LEMMA StepStay ==
  ASSUME IInv, StayInv, "reuse" \notin Faults, NEW p \in Proc, Step(p)
  PROVE  StayInv'
<1>1. TypeOK /\ LocalInv(p) /\ ProgressInv(p) /\ StayLocal(p)
  BY DEF IInv, StayInv
<1>2. ASSUME NEW how, Raise(p, how) PROVE StayInv'
  BY <1>2, RaiseStay
<1>3. ASSUME NEW label, Goto(p, label), label \in {"recover", "stat", "read"},
             UNCHANGED <<note, journal, writer, call, rec, tx>>
      PROVE  StayInv'
  <2>1. pc'[p] = label /\ \A q \in Proc : q # p => pc'[q] = pc[q]
    BY <1>1, <1>3 DEF Goto, TypeOK
  <2>2. StayLocal(p)'
    BY <1>3, <2>1 DEF StayLocal, Writing
  <2> QED BY <1>3, <2>1, <2>2, StayKeeps
<1>4. CASE Acquire(p) \/ Stat(p)
  BY <1>3, <1>4 DEF Acquire, Stat, files, history
<1>5. ASSUME NEW t \in Tx, RecoverSkips(p, t) PROVE StayInv'
  <2>1. StayLocal(p)'
    BY <1>1, <1>5 DEF RecoverSkips, StayLocal, history, Writing
  <2> QED BY <1>5, <2>1, StayKeeps DEF RecoverSkips, history
<1>6. CASE Recovered(p)
  <2>1. CASE call[p].op = "apply" /\ Goto(p, "stat")
                /\ UNCHANGED <<files, lock, locals, result, history>>
    BY <1>3, <2>1 DEF files, locals, history
  <2>2. CASE Return(p, "ok") /\ UNCHANGED <<files, history>>
    BY <2>2, ReturnStay DEF files, history
  <2> QED BY <1>6, <2>1, <2>2 DEF Recovered
<1>7. CASE JournalOpen(p)
  <2>1. CASE tx[p] \in scratch
    BY <1>2, <1>7, <2>1 DEF JournalOpen
  <2>2. CASE tx[p] \notin scratch
    <3>1. /\ pc[p] = "journal_open" /\ pc' = [pc EXCEPT ![p] = "journal_rename"]
          /\ UNCHANGED <<note, journal, writer, call, rec, tx>>
      BY <1>7, <2>2 DEF JournalOpen, Goto, locals, history
    <3>2. StayLocal(p)'
      BY <1>1, <3>1 DEF StayLocal, TypeOK, Writing
    <3> QED BY <1>1, <3>1, <3>2, StayKeeps DEF TypeOK
  <2> QED BY <2>1, <2>2
<1>8. CASE ReadPreimage(p)
  <2>1. CASE note[call[p].target].text # call[p].expected
    BY <1>2, <1>8, <2>1 DEF ReadPreimage
  <2>2. CASE note[call[p].target].text = call[p].expected
    <3>1. /\ pc[p] = "read" /\ pc' = [pc EXCEPT ![p] = "backup"]
          /\ UNCHANGED <<note, journal, writer, call, rec, tx>>
      BY <1>8, <2>2 DEF ReadPreimage, Goto, files, locals, history
    <3>2. StayLocal(p)'
      BY <1>1, <2>2, <3>1 DEF StayLocal, TypeOK, Writing
    <3> QED BY <1>1, <3>1, <3>2, StayKeeps DEF TypeOK
  <2> QED BY <2>1, <2>2
<1>9. CASE MakeBackup(p)
  <2>1. /\ pc[p] = "backup" /\ pc' = [pc EXCEPT ![p] = "journal_open"]
        /\ rec' = [rec EXCEPT ![p] =
             [target |-> call[p].target, target_ino |-> st[p], replacement_ino |-> NoInode,
              preimage |-> call[p].expected,
              postimage |-> Render(call[p].expected, call[p].update), phase |-> "prepared"]]
        /\ UNCHANGED <<note, journal, writer, call>>
        /\ \A q \in Proc : q # p => tx'[q] = tx[q]
    BY <1>1, <1>9 DEF MakeBackup, Goto, history, TypeOK
  <2>2. StayLocal(p)'
    BY <1>1, <2>1 DEF StayLocal, TypeOK
  <2> QED BY <1>1, <2>1, <2>2, StayKeeps DEF TypeOK
<1>10. CASE Recheck(p)
  <2>1. CASE Raise(p, "failed")
    BY <1>2, <2>1
  <2>2. CASE ~Raise(p, "failed")
    <3>1. /\ pc[p] = "recheck" /\ pc' = [pc EXCEPT ![p] = "stage"]
          /\ UNCHANGED <<note, journal, writer, call, rec, tx>>
      BY <1>10, <2>2 DEF Recheck, Goto, files, locals, history
    <3>2. StayLocal(p)'
      BY <1>1, <3>1 DEF StayLocal, TypeOK, Writing
    <3> QED BY <1>1, <3>1, <3>2, StayKeeps DEF TypeOK
  <2> QED BY <2>1, <2>2
<1>11. CASE Stage(p)
  <2>1. PICK i \in NewInode :
          rec' = [rec EXCEPT ![p].replacement_ino = i, ![p].phase = "replacing"]
    BY <1>11 DEF Stage
  <2>2. /\ pc[p] = "stage" /\ pc' = [pc EXCEPT ![p] = "journal_open"]
        /\ UNCHANGED <<note, journal, writer, call, tx>>
    BY <1>11 DEF Stage, Goto, history
  <2>3. rec[p] \in Record
    BY <1>1, <2>2 DEF LocalInv, Writing
  <2>4. rec'[p].replacement_ino = i /\ rec'[p].phase = "replacing"
    BY <1>1, <2>1, <2>3 DEF TypeOK, Record
  <2>5. StayLocal(p)'
    BY <1>1, <2>2, <2>4, NewInodeFresh DEF StayLocal, TypeOK
  <2> QED BY <1>1, <2>1, <2>2, <2>5, StayKeeps DEF TypeOK
<1>12. CASE Verify(p)
  <2>1. CASE Raise(p, "failed")
    BY <1>2, <2>1
  <2>2. CASE ~Raise(p, "failed")
    <3>1. /\ pc[p] = "verify" /\ pc' = [pc EXCEPT ![p] = "journal_open"]
          /\ rec' = [rec EXCEPT ![p].phase = "committed"]
          /\ UNCHANGED <<note, journal, writer, call, tx>>
      BY <1>12, <2>2 DEF Verify, Goto, files, history
    <3>2. rec[p] \in Record /\ journal[tx[p]] = rec[p]
      BY <1>1, <3>1 DEF LocalInv, ProgressInv, Writing
    <3>3. /\ rec'[p].target = rec[p].target /\ rec'[p].postimage = rec[p].postimage
          /\ rec'[p].replacement_ino = rec[p].replacement_ino /\ rec'[p].phase = "committed"
      BY <1>1, <3>1, <3>2 DEF TypeOK, Record
    <3>4. StayLocal(p)'
      BY <1>1, <3>1, <3>2, <3>3 DEF StayLocal, TypeOK
    <3> QED BY <1>1, <3>1, <3>4, StayKeeps DEF TypeOK
  <2> QED BY <2>1, <2>2
<1>13. CASE Contend(p) \/ Purge(p) \/ \E t \in Tx : RecoverRefuses(p, t)
  BY <1>2, <1>13, ReturnStay DEF Contend, Purge, RecoverRefuses, history
<1> QED BY <1>4, <1>5, <1>6, <1>7, <1>8, <1>9, <1>10, <1>11, <1>12, <1>13,
           UndoStay, RestoreStay, RenameStay, SwapStay DEF Step

LEMMA CallStay ==
  ASSUME IInv, StayInv, NEW p \in Proc, CallApply(p) \/ CallRecover(p)
  PROVE  StayInv'
<1>1. pc'[p] = "acquire"
  BY DEF CallApply, CallRecover, Goto, IInv, TypeOK
<1>2. StayLocal(p)'
  BY <1>1 DEF StayLocal, Writing
<1> QED BY <1>2, StayKeeps DEF CallApply, CallRecover, Goto, files, history, IInv, TypeOK

\* After a save the note is nobody's replacement.
LEMMA SaveStay ==
  ASSUME IInv, StayInv, NEW n \in Note, Save(n)
  PROVE  StayInv'
<1>1. /\ writer' = [writer EXCEPT ![n] = NoTx]
      /\ \A m \in Note : m # n => note'[m] = note[m]
      /\ UNCHANGED <<journal, pc, call, rec, tx>>
  BY DEF Save, locals, IInv, TypeOK
<1>2. \A m \in Note : writer'[m] # NoTx => writer'[m] = writer[m] /\ note'[m] = note[m]
  BY <1>1 DEF IInv, TypeOK
<1>3. Placed' /\ Distinct' /\ Phased'
  BY <1>1, <1>2 DEF StayInv, Placed, IsReplacement, Distinct, Phased
<1>4. Untried'
  <2> SUFFICES ASSUME NEW t \in Tx PROVE UntriedOf(t)'
    BY DEF Untried
  <2>1. journal[t].phase = "prepared" => journal[t].target \in Note
    BY DEF IInv, TypeOK, Record, NoRecord
  <2> QED BY <1>1, <1>2, <2>1 DEF StayInv, Untried, UntriedOf
<1>5. ASSUME NEW p \in Proc PROVE StayLocal(p)'
  <2>1. LocalInv(p) /\ StayLocal(p) /\ TypeOK
    BY DEF IInv, StayInv
  <2>2. pc[p] = "backup" => call[p].target \in Note
    BY <2>1 DEF LocalInv, Call, NoCall
  <2>3. pc[p] \in Writing => rec[p].target \in Note
    BY <2>1 DEF LocalInv, Record
  <2>4. pc[p] = "restore" => pc[p] \in Writing
    BY DEF Writing
  <2> QED BY <1>1, <1>2, <2>1, <2>2, <2>3, <2>4 DEF StayLocal, TypeOK
<1> QED BY <1>3, <1>4, <1>5 DEF StayInv

LEMMA NextStay ==
  ASSUME IInv, StayInv, "reuse" \notin Faults, [Next]_vars
  PROVE  StayInv'
<1>1. ASSUME NEW p \in Proc, CallApply(p) \/ CallRecover(p) \/ Step(p) PROVE StayInv'
  BY <1>1, CallStay, StepStay
<1>2. ASSUME NEW p \in Proc, Crash(p) \/ SystemCallFails(p) PROVE StayInv'
  BY <1>2, ReturnStay, RaiseStay DEF Crash, SystemCallFails, files, history
<1>3. ASSUME NEW n \in Note, Save(n) PROVE StayInv'
  BY <1>3, SaveStay
<1>4. CASE UNCHANGED vars
  BY <1>4 DEF StayInv, Placed, IsReplacement, Distinct, Untried, UntriedOf, Phased, StayLocal,
              vars
<1> QED BY <1>1, <1>2, <1>3, <1>4 DEF Next

\* No process rolls a committed patch back, unless the file system hands a
\* number out again that a record mentions.
THEOREM CommittedStaysHolds ==
  ASSUME "reuse" \notin Faults
  PROVE  Spec => CommittedStays
<1> DEFINE Stays(n) == writer[n] # NoTx /\ journal[writer[n]].phase = "committed" =>
                         note'[n] = note[n] \/ pc' = pc \/ writer'[n] \notin {NoTx, writer[n]}
<1>1. ASSUME IInv, StayInv, [Next]_vars, NEW n \in Note PROVE Stays(n)
  <2>1. CASE UNCHANGED note \/ pc' = pc
    BY <2>1
  <2>2. CASE \E p \in Proc : Swap(p)
    <3>1. PICK p \in Proc : Swap(p)
      BY <2>2
    <3>2. tx[p] \in Tx /\ writer[n] # tx[p]
      BY <1>1, <3>1, SwapStay DEF Swap, IInv, TypeOK, LocalInv, Writing, Unwritten
    <3> QED BY <1>1, <3>1, <3>2, SwapStay, ConstantsAssumption
  <2>3. CASE \E p \in Proc : Restore(p)
    <3>1. PICK p \in Proc : Restore(p)
      BY <2>3
    <3>2. /\ note' = [note EXCEPT ![rec[p].target] = backup[tx[p]]]
          /\ writer[rec[p].target] \in {NoTx, tx[p]} /\ ~Finished(journal[tx[p]])
      BY <1>1, <3>1 DEF Restore, IInv, ProgressInv, StayInv, StayLocal
    <3>3. n # rec[p].target => note'[n] = note[n]
      BY <1>1, <3>2 DEF IInv, TypeOK
    <3> QED BY <3>2, <3>3 DEF Finished
  <2>4. UNCHANGED note \/ pc' = pc \/ (\E p \in Proc : Swap(p) \/ Restore(p))
    BY <1>1 DEF Next, Step, CallApply, CallRecover, Crash, SystemCallFails, Save, Acquire, Contend,
                RecoverRefuses, RecoverSkips, RecoverUndoes, Recovered, JournalOpen, JournalRename,
                Stat, ReadPreimage, MakeBackup, Recheck, Stage, Verify, Purge, Raise, files, vars
  <2> QED BY <2>1, <2>2, <2>3, <2>4
<1>2. IInv /\ StayInv /\ [Next]_vars => [\A n \in Note : Stays(n)]_vars
  BY <1>1
<1>3. IInv /\ StayInv /\ [Next]_vars => StayInv'
  BY NextStay
<1> QED BY <1>2, <1>3, InitStay, Invariance, PTL DEF Spec, CommittedStays
-----------------------------------------------------------------------------
(***************************************************************************)
(* ImplementsAtomicPatch: without saves during a call, texts that come     *)
(* back and numbers that come back, a patch is one step of AtomicPatch.    *)
(***************************************************************************)
\* What a reader of note n sees: the file, or the preimage of the uncommitted
\* patch in it.
Shown(n) ==
  IF writer[n] # NoTx /\ journal[writer[n]].phase # "committed"
  THEN journal[writer[n]].preimage ELSE note[n].text
Settled(n) == Shown(n) = note[n].text

\* No backup is a note, another backup, or a file that a record may still
\* meet in its note.
Apart ==
  /\ \A u \in Tx, n \in Note : backup[u].ino # note[n].ino
  /\ \A u, v \in Tx : u # v /\ backup[u].ino = backup[v].ino => backup[u].ino = NoInode
  /\ \A u, t \in Tx : backup[u].ino # NoInode =>
       /\ backup[u].ino # journal[t].replacement_ino
       /\ journal[t].phase = "prepared" => backup[u].ino # journal[t].target_ino

\* Only the swap of a transaction makes its note its replacement.
Own == \A t \in Tx :
  journal[t].phase \in {"replacing", "replaced"}
      /\ IsReplacement(journal[t], note[journal[t].target]) =>
    writer[journal[t].target] = t

\* A file that a prepared record found does not come to say its postimage.
Unmade == \A t \in Tx :
  LET r == journal[t] IN
  r.phase = "prepared" /\ note[r.target].ino = r.target_ino =>
    note[r.target].text = r.preimage \/ note[r.target].text # r.postimage

\* Every record's postimage differs from its preimage in the managed keys only.
Made(r) == \E u \in Managed : r.postimage = Render(r.preimage, u)
Rendered == \A t \in Tx : journal[t] # NoRecord => Made(journal[t])

\* Only notes that a transaction of T wrote are still to be undone.
Waiting(T) == \A n \in Note : Settled(n) \/ writer[n] \in T

ShowLocal(p) ==
  /\ pc[p] = "recover" => Waiting(todo[p])
  /\ pc[p] \in Writing /\ rec[p].phase = "recovered" => Waiting(todo[p] \union {tx[p]})
  /\ pc[p] \in {"stat", "read", "backup"} => Waiting({})
  /\ pc[p] \in {"read", "backup"} => st[p] = note[call[p].target].ino
  /\ pc[p] = "backup" => note[call[p].target].text = call[p].expected
  /\ pc[p] \in Writing => Made(rec[p])
  /\ pc[p] \in Writing \ {"purge"} => journal[tx[p]].phase # "committed"
  /\ pc[p] \in Writing \ {"purge"} /\ rec[p].phase = "committed" =>
       journal[tx[p]].preimage = rec[p].preimage
  /\ pc[p] \in Writing /\ rec[p].phase \in {"prepared", "replacing"} =>
       Waiting({}) /\ IsOriginal(rec[p], note[rec[p].target])
  /\ pc[p] \in Writing /\ rec[p].phase = "replacing" =>
       /\ \A u \in Tx : backup[u].ino # rec[p].replacement_ino
       /\ \A n \in Note : note[n].ino # rec[p].replacement_ino
  /\ pc[p] = "restore" => writer[rec[p].target] = tx[p]
  /\ pc[p] \in Writing /\ rec[p].phase \in {"replaced", "committed"} =>
       writer[rec[p].target] = tx[p]

ShowInv ==
  /\ Apart /\ Own /\ Unmade
  /\ Rendered
  /\ \A p \in Proc : ShowLocal(p)

\* The faults the refinement allows: crashes, I/O errors, saves between calls.
Calm == Faults \intersect {"race", "revisit", "reuse"} = {}

LEMMA InitShow == Init => ShowInv
<1> SUFFICES ASSUME Init PROVE ShowInv
  OBVIOUS
<1>1. Apart
  BY ConstantsAssumption DEF Init, Apart, File, NoFile
<1>2. Own /\ Unmade /\ Rendered
  BY DEF Init, Own, Unmade, Rendered, NoRecord
<1>3. ASSUME NEW p \in Proc PROVE ShowLocal(p)
  BY DEF Init, ShowLocal, Writing
<1> QED BY <1>1, <1>2, <1>3 DEF ShowInv

\* Notes, records and backups stay, so what is seen stays.
LEMMA QuietShow ==
  ASSUME ShowInv, UNCHANGED <<note, journal, writer, backup>>
  PROVE  /\ Apart' /\ Own' /\ Unmade' /\ Rendered'
         /\ \A n \in Note : Shown(n)' = Shown(n) /\ Settled(n)' = Settled(n)
<1>1. Apart' /\ Own' /\ Unmade' /\ Rendered'
  BY DEF ShowInv, Apart, Own, IsReplacement, Unmade, Rendered, Made
<1>2. \A n \in Note : Shown(n)' = Shown(n) /\ Settled(n)' = Settled(n)
  BY DEF Shown, Settled
<1> QED BY <1>1, <1>2

\* A step of p that leaves notes, records, backups and other processes alone.
LEMMA ShowKeeps ==
  ASSUME ShowInv, NEW p \in Proc, UNCHANGED <<note, journal, writer, backup>>, ShowLocal(p)',
         \A q \in Proc : q # p => /\ pc'[q] = pc[q] /\ call'[q] = call[q] /\ st'[q] = st[q]
                                /\ rec'[q] = rec[q] /\ tx'[q] = tx[q] /\ todo'[q] = todo[q]
  PROVE  ShowInv'
<1>1. ASSUME NEW q \in Proc, q # p PROVE ShowLocal(q)'
  <2>1. ShowLocal(q)
    BY DEF ShowInv
  <2>2. \A n \in Note : Settled(n)' = Settled(n)
    BY QuietShow
  <2>3. /\ pc'[q] = pc[q] /\ call'[q] = call[q] /\ st'[q] = st[q]
        /\ rec'[q] = rec[q] /\ tx'[q] = tx[q] /\ todo'[q] = todo[q]
    BY <1>1
  <2> QED BY <2>1, <2>2, <2>3 DEF ShowLocal, Waiting, Made, IsOriginal
<1> QED BY <1>1, QuietShow DEF ShowInv

LEMMA RunningShow ==
  ASSUME TypeOK, NEW p \in Proc, pc[p] \notin {"idle", "acquire"},
         Apart', Own', Unmade', Rendered', ShowLocal(p)',
         \A q \in Proc : q # p => pc'[q] = pc[q]
  PROVE  ShowInv'
<1>1. ASSUME NEW q \in Proc, q # p PROVE ShowLocal(q)'
  <2>1. pc'[q] \in {"idle", "acquire"}
    BY <1>1, Exclusive
  <2> QED BY <2>1 DEF ShowLocal, Writing
<1> QED BY <1>1 DEF ShowInv

LEMMA ReturnShow ==
  ASSUME IInv, ShowInv, NEW p \in Proc, NEW how, Return(p, how),
         UNCHANGED <<note, journal, writer, backup>>
  PROVE  ShowInv'
<1>1. pc'[p] = "idle"
  BY DEF Return, IInv, TypeOK
<1>2. ShowLocal(p)'
  BY <1>1 DEF ShowLocal, Writing
<1> QED BY <1>2, ShowKeeps DEF Return, IInv, TypeOK

LEMMA RaiseShow ==
  ASSUME IInv, ShowInv, NEW p \in Proc, NEW how, Raise(p, how)
  PROVE  ShowInv'
  BY ReturnShow DEF Raise, history

LEMMA CallShow ==
  ASSUME IInv, ShowInv, NEW p \in Proc, CallApply(p) \/ CallRecover(p)
  PROVE  ShowInv'
<1>1. pc'[p] = "acquire"
  BY DEF CallApply, CallRecover, Goto, IInv, TypeOK
<1>2. ShowLocal(p)'
  BY <1>1 DEF ShowLocal, Writing
<1> QED BY <1>2, ShowKeeps DEF CallApply, CallRecover, Goto, files, history, IInv, TypeOK

\* A note that is still to be undone names its transaction.
LEMMA UnsettledFacts ==
  ASSUME IInv, StayInv, NEW n \in Note, ~Settled(n)
  PROVE  /\ writer[n] \in Tx /\ writer[n] \in dirs /\ journal[writer[n]] # NoRecord
         /\ journal[writer[n]].target = n /\ ~Finished(journal[writer[n]])
         /\ note[n].text # journal[writer[n]].preimage
<1>1. writer[n] # NoTx /\ journal[writer[n]].phase # "committed"
  BY DEF Settled, Shown
<1>2. writer[n] \in Tx
  BY <1>1 DEF IInv, TypeOK
<1>3. journal[writer[n]].target = n /\ Undoable(writer[n])
  BY <1>1 DEF IInv, WriteAhead
<1>4. journal[writer[n]] # NoRecord /\ ~Finished(journal[writer[n]])
  BY <1>3, NoRecordFacts DEF Undoable, Finished
<1>5. writer[n] \in dirs
  BY <1>2, <1>4 DEF IInv, DirInv
<1> QED BY <1>1, <1>2, <1>3, <1>4, <1>5 DEF Settled, Shown

LEMMA AcquireShow ==
  ASSUME IInv, StayInv, ShowInv, NEW p \in Proc, Acquire(p)
  PROVE  ShowInv'
<1>1. /\ pc'[p] = "recover" /\ todo'[p] = {t \in dirs : journal[t] # NoRecord}
      /\ UNCHANGED <<note, journal, writer, backup>>
  BY DEF Acquire, Goto, IInv, TypeOK, files, history
<1>2. \A n \in Note : Settled(n)' \/ writer'[n] \in todo'[p]
  BY <1>1, QuietShow, UnsettledFacts
<1>3. ShowLocal(p)'
  BY <1>1, <1>2 DEF ShowLocal, Waiting, Writing
<1> QED BY <1>1, <1>3, ShowKeeps DEF Acquire, Goto, IInv, TypeOK

\* A backup goes; everything else that is seen stays.
LEMMA DropShow ==
  ASSUME IInv, ShowInv, UNCHANGED <<note, journal, writer>>,
         \A u \in Tx : backup'[u] \in {backup[u], NoFile}
  PROVE  /\ Apart' /\ Own' /\ Unmade' /\ Rendered'
         /\ \A n \in Note : Settled(n)' = Settled(n)
<1>1. \A n \in Note : note[n].ino # NoInode
  BY ConstantsAssumption DEF IInv, TypeOK, File
<1>2. Apart'
  BY <1>1 DEF ShowInv, Apart, NoFile
<1>3. Own' /\ Unmade' /\ Rendered'
  BY DEF ShowInv, Own, IsReplacement, Unmade, Rendered, Made
<1>4. \A n \in Note : Settled(n)' = Settled(n)
  BY DEF Settled, Shown
<1> QED BY <1>2, <1>3, <1>4

\* A finished record's backup is unlinked; the walk goes on.
LEMMA SkipShow ==
  ASSUME IInv, StayInv, ShowInv, NEW p \in Proc, NEW t \in Tx, RecoverSkips(p, t)
  PROVE  ShowInv'
<1>1. /\ pc[p] = "recover" /\ pc' = pc /\ todo'[p] = todo[p] \ {t}
      /\ NothingToUndo(journal[t], note[journal[t].target])
      /\ UNCHANGED <<note, journal, writer>>
      /\ backup' \in {backup, [backup EXCEPT ![t] = NoFile]}
  BY DEF RecoverSkips, history, IInv, TypeOK
<1>2. \A u \in Tx : backup'[u] = backup[u] \/ backup'[u] = NoFile
  BY <1>1 DEF IInv, TypeOK
<1>3. Apart' /\ Own' /\ Unmade' /\ Rendered'
  BY <1>1, <1>2, DropShow
<1>4. \A n \in Note : Settled(n)' \/ writer'[n] \in todo'[p]
  <2> SUFFICES ASSUME NEW n \in Note, ~Settled(n) PROVE writer[n] \in todo[p] \ {t}
    BY <1>1 DEF Settled, Shown
  <2>1. writer[n] # t
    BY <1>1, UnsettledFacts DEF NothingToUndo
  <2>2. writer[n] \in todo[p]
    BY <1>1 DEF ShowInv, ShowLocal, Waiting
  <2> QED BY <2>1, <2>2
<1>5. ShowLocal(p)'
  BY <1>1, <1>4 DEF ShowLocal, Waiting, Writing
<1> QED BY <1>1, <1>3, <1>5, RunningShow DEF IInv

\* What recovery undoes is the replacement of the transaction it undoes.
LEMMA UndoesWriter ==
  ASSUME IInv, StayInv, ShowInv, NEW p \in Proc, NEW t \in Tx, RecoverUndoes(p, t)
  PROVE  writer[journal[t].target] = t
<1> DEFINE f == note[journal[t].target]
<1>1. journal[t] \in Record
  BY DEF IInv, TypeOK, LocalInv, RecoverUndoes
<1>2. ~Mismatch(journal[t], f) /\ ~Finished(journal[t]) /\ f.text # journal[t].preimage
  BY DEF RecoverUndoes, NothingToUndo
<1>3. journal[t].phase \in {"prepared", "replacing", "replaced"}
  BY <1>1, <1>2 DEF Finished, Record, Phases, StayInv, Phased
<1>4. journal[t].phase # "prepared"
  BY <1>2 DEF Mismatch, ShowInv, Unmade
<1>5. IsReplacement(journal[t], f)
  BY <1>2, <1>3, <1>4 DEF Mismatch, IsOriginal
<1> QED BY <1>3, <1>4, <1>5 DEF ShowInv, Own

LEMMA UndoShow ==
  ASSUME IInv, StayInv, ShowInv, NEW p \in Proc, NEW t \in Tx, RecoverUndoes(p, t)
  PROVE  ShowInv'
<1>1. /\ journal[t] \in Record /\ pc[p] = "recover" /\ pc'[p] = "restore" /\ tx'[p] = t
      /\ rec'[p] = [journal[t] EXCEPT !.phase = "recovered"]
      /\ todo'[p] = todo[p] \ {t}
      /\ ~Finished(journal[t])
      /\ UNCHANGED <<note, journal, writer, backup>>
  BY DEF RecoverUndoes, NothingToUndo, Goto, IInv, TypeOK, LocalInv, files, history
<1>2. /\ rec'[p].target = journal[t].target /\ rec'[p].postimage = journal[t].postimage
      /\ rec'[p].preimage = journal[t].preimage /\ rec'[p].phase = "recovered"
  BY <1>1 DEF Record
<1>3. \A n \in Note : Settled(n)' \/ writer'[n] \in todo'[p] \union {tx'[p]}
  BY <1>1, QuietShow DEF ShowInv, ShowLocal, Waiting
<1>4. Made(rec[p])'
  BY <1>1, <1>2, NoRecordFacts DEF ShowInv, Rendered, Made
<1>5. writer'[rec'[p].target] = tx'[p] /\ journal'[tx'[p]].phase # "committed"
  BY <1>1, <1>2, UndoesWriter DEF Finished
<1>6. ShowLocal(p)'
  BY <1>1, <1>2, <1>3, <1>4, <1>5 DEF ShowLocal, Waiting
<1> QED BY <1>1, <1>6, ShowKeeps DEF RecoverUndoes, Goto, IInv, TypeOK

LEMMA RestoreShow ==
  ASSUME IInv, StayInv, ShowInv, NEW p \in Proc, Restore(p)
  PROVE  ShowInv' /\ \A n \in Note : Shown(n)' = Shown(n)
<1>1. /\ pc[p] = "restore" /\ pc' = [pc EXCEPT ![p] = "journal_open"]
      /\ note' = [note EXCEPT ![rec[p].target] = backup[tx[p]]]
      /\ backup' = [backup EXCEPT ![tx[p]] = NoFile]
      /\ writer' = [writer EXCEPT ![rec[p].target] = NoTx]
      /\ UNCHANGED <<journal, call, st, todo, tx, rec>>
  BY DEF Restore, Goto, locals
<1>2. TypeOK /\ LocalInv(p) /\ ProgressInv(p) /\ ShowLocal(p)
  BY DEF IInv, ShowInv
<1>3. /\ tx[p] \in Tx /\ rec[p] \in Record /\ rec[p].phase = "recovered" /\ pc[p] \in Writing
      /\ rec[p].target \in Note
  BY <1>1, <1>2 DEF TypeOK, LocalInv, PhaseOf, Writing, Record
<1>4. /\ backup[tx[p]].text = rec[p].preimage /\ journal[tx[p]].preimage = rec[p].preimage
      /\ writer[rec[p].target] = tx[p] /\ journal[tx[p]].phase # "committed"
  BY <1>1, <1>2 DEF ProgressInv, ShowLocal, Finished
<1>5. backup[tx[p]] \in File /\ backup[tx[p]].ino # NoInode
  <2>1. backup[tx[p]] \in File
    BY <1>2, <1>3, <1>4, NoFileFacts DEF TypeOK, Record
  <2> QED BY <2>1, ConstantsAssumption DEF File
<1>6. \A n \in Note : IF n = rec[p].target
        THEN note'[n] = backup[tx[p]] /\ writer'[n] = NoTx
        ELSE note'[n] = note[n] /\ writer'[n] = writer[n]
  BY <1>1, <1>2 DEF TypeOK
<1>7. \A u \in Tx : backup'[u] = IF u = tx[p] THEN NoFile ELSE backup[u]
  BY <1>1, <1>2 DEF TypeOK
<1>8. Apart'
  <2>1. \A n \in Note : note[n].ino # NoInode
    BY <1>2, ConstantsAssumption DEF TypeOK, File
  <2>2. NoFile.ino = NoInode
    BY DEF NoFile
  <2>3. Apart
    BY DEF ShowInv
  <2>4. \A u \in Tx, n \in Note : backup'[u].ino # note'[n].ino
    BY <1>3, <1>5, <1>6, <1>7, <2>1, <2>2, <2>3 DEF Apart
  <2>5. \A u, v \in Tx : u # v /\ backup'[u].ino = backup'[v].ino => backup'[u].ino = NoInode
    BY <1>7, <2>2, <2>3 DEF Apart
  <2>6. \A u, t \in Tx : backup'[u].ino # NoInode =>
          /\ backup'[u].ino # journal[t].replacement_ino
          /\ journal[t].phase = "prepared" => backup'[u].ino # journal[t].target_ino
    BY <1>7, <2>2, <2>3 DEF Apart
  <2> QED BY <1>1, <2>4, <2>5, <2>6 DEF Apart
<1>9. \A t \in Tx : journal[t].phase # "none" => journal[t].target \in Note
  BY <1>2, NoRecordFacts DEF TypeOK, Record
<1>10. Own'
  <2> SUFFICES ASSUME NEW t \in Tx, journal[t].phase \in {"replacing", "replaced"},
                      IsReplacement(journal[t], note'[journal[t].target])
               PROVE  writer'[journal[t].target] = t
    BY <1>1 DEF Own, IsReplacement
  <2>1. journal[t].target # rec[p].target
    BY <1>3, <1>5, <1>6, <1>9 DEF ShowInv, Apart, IsReplacement
  <2> QED BY <1>6, <1>9, <2>1 DEF ShowInv, Own
<1>11. Unmade'
  <2> SUFFICES ASSUME NEW t \in Tx, journal[t].phase = "prepared",
                      note'[journal[t].target].ino = journal[t].target_ino
               PROVE  \/ note'[journal[t].target].text = journal[t].preimage
                      \/ note'[journal[t].target].text # journal[t].postimage
    BY <1>1 DEF Unmade
  <2>1. journal[t].target # rec[p].target
    BY <1>3, <1>5, <1>6, <1>9 DEF ShowInv, Apart
  <2> QED BY <1>6, <1>9, <2>1 DEF ShowInv, Unmade
<1>12. Rendered'
  BY <1>1 DEF ShowInv, Rendered, Made
<1>13. \A n \in Note : Shown(n)' = Shown(n)
  <2>1. tx[p] # NoTx
    BY <1>3, ConstantsAssumption
  <2>2. ASSUME NEW n \in Note, n = rec[p].target PROVE Shown(n)' = Shown(n)
    <3>1. Shown(n) = rec[p].preimage
      BY <1>4, <2>1, <2>2 DEF Shown
    <3>2. Shown(n)' = rec[p].preimage
      BY <1>1, <1>3, <1>4, <1>6, <2>2 DEF Shown
    <3> QED BY <3>1, <3>2
  <2>3. ASSUME NEW n \in Note, n # rec[p].target PROVE Shown(n)' = Shown(n)
    BY <1>1, <1>6, <2>3 DEF Shown
  <2> QED BY <2>2, <2>3
<1>14. \A n \in Note : Settled(n)' \/ writer'[n] \in todo'[p] \union {tx'[p]}
  <2> SUFFICES ASSUME NEW n \in Note, n # rec[p].target
               PROVE  Settled(n)' \/ writer'[n] \in todo'[p] \union {tx'[p]}
    BY <1>6 DEF Settled, Shown
  <2>1. Settled(n) \/ writer[n] \in todo[p] \union {tx[p]}
    BY <1>2, <1>3 DEF ShowLocal, Waiting
  <2> QED BY <1>1, <1>6, <1>13, <2>1 DEF Settled
<1>15. pc'[p] = "journal_open" /\ Made(rec[p])' /\ journal'[tx'[p]].phase # "committed"
  BY <1>1, <1>2, <1>3, <1>4 DEF TypeOK, ShowLocal, Made
<1>16. ShowLocal(p)'
  BY <1>1, <1>3, <1>14, <1>15 DEF ShowLocal, Waiting
<1>17. ShowInv'
  BY <1>1, <1>2, <1>8, <1>10, <1>11, <1>12, <1>16, RunningShow DEF TypeOK
<1> QED BY <1>13, <1>17

LEMMA RenameShow ==
  ASSUME IInv, StayInv, ShowInv, NEW p \in Proc, JournalRename(p)
  PROVE  /\ ShowInv'
         /\ rec[p].phase # "committed" => \A n \in Note : Shown(n)' = Shown(n)
<1>1. /\ pc[p] = "journal_rename"
      /\ pc' = [pc EXCEPT ![p] = Continuation(rec[p].phase)]
      /\ journal' = [journal EXCEPT ![tx[p]] = rec[p]]
      /\ UNCHANGED <<note, backup, writer, call, st, todo, rec, tx>>
  BY DEF JournalRename, Goto, locals, history
<1>2. TypeOK /\ LocalInv(p) /\ ProgressInv(p) /\ StayLocal(p) /\ ShowLocal(p)
  BY DEF IInv, StayInv, ShowInv
<1>3. /\ tx[p] \in Tx /\ rec[p] \in Record /\ pc[p] \in Writing \ {"purge"} /\ Journaling(p)
      /\ rec[p].phase \in Phases \ {"none"} /\ rec[p].target \in Note
  BY <1>1, <1>2 DEF TypeOK, LocalInv, Writing, PhaseOf, Journaling, Record
<1>4. \A t \in Tx : journal'[t] = IF t = tx[p] THEN rec[p] ELSE journal[t]
  BY <1>1, <1>2, <1>3 DEF TypeOK
<1>5. Apart'
  <2> SUFFICES ASSUME NEW u \in Tx, backup[u].ino # NoInode
               PROVE  /\ backup[u].ino # rec[p].replacement_ino
                      /\ rec[p].phase = "prepared" => backup[u].ino # rec[p].target_ino
    BY <1>1, <1>4 DEF ShowInv, Apart
  <2>1. CASE rec[p].phase = "prepared"
    <3>1. rec[p].replacement_ino = NoInode /\ note[rec[p].target].ino = rec[p].target_ino
      BY <1>2, <1>3, <2>1 DEF StayLocal, ShowLocal, IsOriginal
    <3> QED BY <1>3, <3>1 DEF ShowInv, Apart
  <2>2. CASE rec[p].phase = "replacing"
    BY <1>2, <1>3, <2>2 DEF ShowLocal
  <2>3. CASE rec[p].phase \in {"replaced", "committed", "recovered"}
    BY <1>2, <1>3, <2>3 DEF StayLocal, ShowInv, Apart
  <2> QED BY <1>3, <2>1, <2>2, <2>3 DEF Phases
<1>6. Own'
  <2> SUFFICES ASSUME rec[p].phase \in {"replacing", "replaced"},
                      IsReplacement(rec[p], note[rec[p].target])
               PROVE  writer[rec[p].target] = tx[p]
    BY <1>1, <1>4 DEF ShowInv, Own, IsReplacement
  <2>1. rec[p].phase = "replaced"
    BY <1>2, <1>3 DEF ShowLocal, IsReplacement
  <2> QED BY <1>2, <1>3, <2>1 DEF ShowLocal
<1>7. Unmade'
  <2>1. rec[p].phase = "prepared" => note[rec[p].target].text = rec[p].preimage
    BY <1>2, <1>3 DEF ShowLocal, IsOriginal
  <2> QED BY <1>1, <1>4, <2>1 DEF ShowInv, Unmade
<1>8. Rendered'
  <2>1. Made(rec[p])
    BY <1>2, <1>3 DEF ShowLocal
  <2> QED BY <1>4, <2>1 DEF ShowInv, Rendered, Made
<1>9. ASSUME rec[p].phase # "committed", NEW n \in Note PROVE Shown(n)' = Shown(n)
  <2>1. CASE writer[n] # tx[p]
    <3>1. writer[n] # NoTx => writer[n] \in Tx
      BY <1>2 DEF TypeOK
    <3> QED BY <1>1, <1>4, <2>1, <3>1 DEF Shown
  <2>2. CASE writer[n] = tx[p]
    <3>1. rec[p].phase = "replaced"
      BY <1>2, <1>3, <1>9, <2>2 DEF ProgressInv, Unwritten, Phases
    <3>2. journal[tx[p]].preimage = rec[p].preimage /\ journal[tx[p]].phase # "committed"
      BY <1>2, <1>3, <3>1 DEF ProgressInv, ShowLocal, Record
    <3> QED BY <1>1, <1>3, <1>4, <1>9, <2>2, <3>2 DEF Shown
  <2> QED BY <2>1, <2>2
<1>10. rec[p].phase # "committed" => \A n \in Note : Settled(n)' = Settled(n)
  BY <1>1, <1>9 DEF Settled
<1>11. pc'[p] = Continuation(rec[p].phase)
  BY <1>1, <1>2 DEF TypeOK
<1>12. Made(rec[p])'
  BY <1>1, <1>2, <1>3 DEF ShowLocal, Made
<1>13. ShowLocal(p)'
  <2>1. CASE rec[p].phase \in {"prepared", "replacing"}
    <3>1. pc'[p] \in {"recheck", "swap"} /\ journal'[tx'[p]].phase # "committed"
      BY <1>1, <1>3, <1>4, <1>11, <2>1 DEF Continuation
    <3>2. (Waiting({}) /\ IsOriginal(rec[p], note[rec[p].target]))'
      BY <1>1, <1>2, <1>3, <1>10, <2>1 DEF ShowLocal, Waiting, IsOriginal
    <3> QED BY <1>1, <1>2, <1>3, <1>12, <2>1, <3>1, <3>2 DEF ShowLocal
  <2>2. CASE rec[p].phase \in {"replaced", "committed"}
    <3>1. pc'[p] = (IF rec[p].phase = "replaced" THEN "verify" ELSE "purge")
      BY <1>11, <2>2 DEF Continuation
    <3> QED BY <1>1, <1>2, <1>3, <1>4, <1>12, <2>2, <3>1 DEF ShowLocal
  <2>3. CASE rec[p].phase = "recovered"
    <3>1. pc'[p] = "recover"
      BY <1>11, <2>3 DEF Continuation
    <3>2. \A n \in Note : writer[n] # tx[p]
      BY <1>2, <1>3, <2>3 DEF ProgressInv, Unwritten
    <3>3. Waiting(todo[p])'
      BY <1>1, <1>2, <1>3, <1>10, <2>3, <3>2 DEF ShowLocal, Waiting
    <3> QED BY <3>1, <3>3 DEF ShowLocal, Writing
  <2> QED BY <1>3, <2>1, <2>2, <2>3 DEF Phases
<1>14. ShowInv'
  BY <1>1, <1>2, <1>5, <1>6, <1>7, <1>8, <1>13, RunningShow DEF TypeOK
<1> QED BY <1>9, <1>14

LEMMA SwapShow ==
  ASSUME IInv, StayInv, ShowInv, NEW p \in Proc, Swap(p)
  PROVE  ShowInv' /\ \A n \in Note : Shown(n)' = Shown(n)
<1>1. /\ pc[p] = "swap" /\ pc' = [pc EXCEPT ![p] = "journal_open"]
      /\ note' = [note EXCEPT ![rec[p].target] = staged[tx[p]]]
      /\ writer' = [writer EXCEPT ![rec[p].target] = tx[p]]
      /\ rec' = [rec EXCEPT ![p].phase = "replaced"]
      /\ UNCHANGED <<journal, backup, call, st, todo, tx>>
  BY DEF Swap, Goto
<1>2. TypeOK /\ LocalInv(p) /\ ProgressInv(p) /\ StayLocal(p) /\ ShowLocal(p)
  BY DEF IInv, StayInv, ShowInv
<1>3. /\ tx[p] \in Tx /\ rec[p] \in Record /\ rec[p].phase = "replacing" /\ pc[p] \in Writing
      /\ staged[tx[p]].ino = rec[p].replacement_ino
      /\ journal[tx[p]] = rec[p] /\ rec[p].target \in Note
  BY <1>1, <1>2 DEF TypeOK, LocalInv, ProgressInv, Writing, PhaseOf, Record
<1>4. rec'[p] = [rec[p] EXCEPT !.phase = "replaced"] /\ pc'[p] = "journal_open"
  BY <1>1, <1>2 DEF TypeOK
<1>5. /\ rec'[p].target = rec[p].target /\ rec'[p].preimage = rec[p].preimage
      /\ rec'[p].postimage = rec[p].postimage /\ rec'[p].phase = "replaced"
  BY <1>3, <1>4 DEF Record
<1>6. \A n \in Note : IF n = rec[p].target
        THEN writer'[n] = tx[p] /\ note'[n] = staged[tx[p]]
        ELSE writer'[n] = writer[n] /\ note'[n] = note[n]
  BY <1>1, <1>2 DEF TypeOK
<1>7. Apart'
  <2>1. \A u \in Tx : backup[u].ino # rec[p].replacement_ino
    BY <1>2, <1>3 DEF ShowLocal
  <2>2. \A u \in Tx, n \in Note : backup[u].ino # note'[n].ino
    BY <1>3, <1>6, <2>1 DEF ShowInv, Apart
  <2> QED BY <1>1, <2>2 DEF ShowInv, Apart
<1>8. \A t \in Tx : journal[t].phase # "none" => journal[t].target \in Note
  BY <1>2, NoRecordFacts DEF TypeOK, Record
<1>9. Own'
  <2> SUFFICES ASSUME NEW t \in Tx, t # tx[p], journal[t].phase \in {"replacing", "replaced"},
                      IsReplacement(journal[t], note'[journal[t].target])
               PROVE  writer'[journal[t].target] = t
    BY <1>1, <1>3, <1>6 DEF Own, IsReplacement
  <2>1. journal[t].replacement_ino # rec[p].replacement_ino
    BY <1>2, <1>3 DEF StayLocal
  <2>2. journal[t].target # rec[p].target
    BY <1>3, <1>6, <1>8, <2>1 DEF IsReplacement
  <2> QED BY <1>6, <1>8, <2>2 DEF ShowInv, Own
<1>10. Unmade'
  <2> SUFFICES ASSUME NEW t \in Tx, journal[t].phase = "prepared",
                      note'[journal[t].target].ino = journal[t].target_ino
               PROVE  \/ note'[journal[t].target].text = journal[t].preimage
                      \/ note'[journal[t].target].text # journal[t].postimage
    BY <1>1 DEF Unmade
  <2>1. journal[t].target_ino # rec[p].replacement_ino
    BY <1>2, <1>3 DEF StayLocal
  <2>2. journal[t].target # rec[p].target
    BY <1>3, <1>6, <1>8, <2>1
  <2> QED BY <1>6, <1>8, <2>2 DEF ShowInv, Unmade
<1>11. Rendered'
  BY <1>1 DEF ShowInv, Rendered, Made
<1>12. ASSUME NEW n \in Note PROVE Shown(n)' = Shown(n)
  <2>1. CASE n = rec[p].target
    <3>1. Shown(n) = rec[p].preimage
      BY <1>2, <1>3, <2>1 DEF ShowLocal, Waiting, Settled, IsOriginal
    <3>2. Shown(n)' = rec[p].preimage
      BY <1>1, <1>3, <1>6, <2>1, ConstantsAssumption DEF Shown
    <3> QED BY <3>1, <3>2
  <2>2. CASE n # rec[p].target
    BY <1>1, <1>6, <2>2 DEF Shown
  <2> QED BY <2>1, <2>2
<1>13. Made(rec[p])'
  BY <1>2, <1>3, <1>5 DEF ShowLocal, Made
<1>14. writer'[rec'[p].target] = tx'[p] /\ journal'[tx'[p]].phase = "replacing"
  BY <1>1, <1>3, <1>5, <1>6
<1>15. ShowLocal(p)'
  BY <1>4, <1>5, <1>13, <1>14 DEF ShowLocal
<1>16. ShowInv'
  BY <1>1, <1>2, <1>7, <1>9, <1>10, <1>11, <1>15, RunningShow DEF TypeOK
<1> QED BY <1>12, <1>16

LEMMA NewInodeUnused ==
  ASSUME NEW i \in NewInode
  PROVE  /\ i # NoInode
         /\ \A n \in Note : i # note[n].ino
         /\ \A t \in Tx : i # backup[t].ino
<1> DEFINE free == Inode \ InUse
           unmentioned == free \ Mentioned
<1>1. unmentioned # {} => (CHOOSE j \in unmentioned : TRUE) \in unmentioned
  OBVIOUS
<1>2. i \in free
  BY <1>1 DEF NewInode
<1> QED BY <1>2, ConstantsAssumption DEF InUse

LEMMA BackupShow ==
  ASSUME IInv, StayInv, ShowInv, "reuse" \notin Faults, NEW p \in Proc, MakeBackup(p)
  PROVE  ShowInv'
<1>1. PICK t \in Tx \ dirs, i \in NewInode :
        /\ backup' = [backup EXCEPT ![t] = [ino |-> i, text |-> call[p].expected]]
        /\ tx' = [tx EXCEPT ![p] = t]
  BY DEF MakeBackup
<1>2. /\ pc[p] = "backup" /\ pc' = [pc EXCEPT ![p] = "journal_open"]
      /\ rec' = [rec EXCEPT ![p] =
           [target |-> call[p].target, target_ino |-> st[p], replacement_ino |-> NoInode,
            preimage |-> call[p].expected,
            postimage |-> Render(call[p].expected, call[p].update), phase |-> "prepared"]]
      /\ UNCHANGED <<note, journal, writer>>
  BY DEF MakeBackup, Goto, history
<1>3. TypeOK /\ LocalInv(p) /\ ShowLocal(p)
  BY DEF IInv, ShowInv
<1>4. \A u \in Tx : backup'[u].ino = IF u = t THEN i ELSE backup[u].ino
  BY <1>1, <1>3 DEF TypeOK
<1>5. \A u \in Tx : i # journal[u].target_ino /\ i # journal[u].replacement_ino
  BY NewInodeFresh
<1>6. Apart'
  BY <1>2, <1>4, <1>5, NewInodeUnused DEF ShowInv, Apart
<1>7. Own' /\ Unmade' /\ Rendered'
  BY <1>2 DEF ShowInv, Own, IsReplacement, Unmade, Rendered, Made
<1>8. /\ pc'[p] = "journal_open" /\ tx'[p] = t
      /\ rec'[p].target = call[p].target /\ rec'[p].target_ino = st[p]
      /\ rec'[p].preimage = call[p].expected
      /\ rec'[p].postimage = Render(call[p].expected, call[p].update)
      /\ rec'[p].phase = "prepared"
  BY <1>1, <1>2, <1>3 DEF TypeOK
<1>9. call[p].update \in Managed
  BY <1>2, <1>3 DEF LocalInv, Call, NoCall
<1>10. Made(rec[p])'
  BY <1>8, <1>9 DEF Made
<1>11. journal'[tx'[p]].phase = "none"
  BY <1>1, <1>2, <1>8, NoRecordFacts DEF IInv, DirInv
<1>12. \A n \in Note : Settled(n)'
  BY <1>2, <1>3 DEF ShowLocal, Waiting, Settled, Shown
<1>13. IsOriginal(rec[p], note[rec[p].target])'
  BY <1>2, <1>3, <1>8 DEF ShowLocal, IsOriginal
<1>14. ShowLocal(p)'
  BY <1>8, <1>10, <1>11, <1>12, <1>13 DEF ShowLocal, Waiting
<1> QED BY <1>2, <1>3, <1>6, <1>7, <1>14, RunningShow DEF TypeOK

LEMMA StageShow ==
  ASSUME IInv, StayInv, ShowInv, NEW p \in Proc, Stage(p)
  PROVE  ShowInv'
<1>1. PICK i \in NewInode :
        rec' = [rec EXCEPT ![p].replacement_ino = i, ![p].phase = "replacing"]
  BY DEF Stage
<1>2. /\ pc[p] = "stage" /\ pc' = [pc EXCEPT ![p] = "journal_open"]
      /\ UNCHANGED <<note, journal, writer, backup, call, st, todo, tx>>
  BY DEF Stage, Goto, history
<1>3. TypeOK /\ LocalInv(p) /\ ShowLocal(p)
  BY DEF IInv, ShowInv
<1>4. rec[p] \in Record /\ rec[p].phase = "prepared"
  BY <1>2, <1>3 DEF LocalInv, Writing, PhaseOf
<1>5. /\ rec'[p].target = rec[p].target /\ rec'[p].target_ino = rec[p].target_ino
      /\ rec'[p].preimage = rec[p].preimage /\ rec'[p].postimage = rec[p].postimage
      /\ rec'[p].replacement_ino = i /\ rec'[p].phase = "replacing" /\ pc'[p] = "journal_open"
  BY <1>1, <1>2, <1>3, <1>4 DEF TypeOK, Record
<1>6. Made(rec[p])' /\ IsOriginal(rec[p], note[rec[p].target])' /\ \A n \in Note : Settled(n)'
  BY <1>2, <1>3, <1>4, <1>5, QuietShow DEF ShowLocal, Writing, Waiting, Made, IsOriginal
<1>7. journal'[tx'[p]].phase # "committed"
  BY <1>2, <1>3 DEF ShowLocal, Writing
<1>8. ShowLocal(p)'
  BY <1>2, <1>5, <1>6, <1>7, NewInodeUnused DEF ShowLocal, Waiting
<1> QED BY <1>2, <1>3, <1>8, ShowKeeps DEF TypeOK, Stage, Goto

LEMMA VerifyShow ==
  ASSUME IInv, StayInv, ShowInv, NEW p \in Proc, Verify(p)
  PROVE  ShowInv'
<1>1. CASE Raise(p, "failed")
  BY <1>1, RaiseShow
<1>2. CASE ~Raise(p, "failed")
  <2>1. /\ pc[p] = "verify" /\ pc' = [pc EXCEPT ![p] = "journal_open"]
        /\ rec' = [rec EXCEPT ![p].phase = "committed"]
        /\ UNCHANGED <<note, journal, writer, backup, call, st, todo, tx>>
    BY <1>2 DEF Verify, Goto, files, history
  <2>2. TypeOK /\ LocalInv(p) /\ ProgressInv(p) /\ ShowLocal(p)
    BY DEF IInv, ShowInv
  <2>3. rec[p] \in Record /\ journal[tx[p]] = rec[p] /\ rec[p].phase = "replaced"
    BY <2>1, <2>2 DEF LocalInv, ProgressInv, Writing, PhaseOf
  <2>4. /\ rec'[p].target = rec[p].target /\ rec'[p].preimage = rec[p].preimage
        /\ rec'[p].postimage = rec[p].postimage /\ rec'[p].phase = "committed"
        /\ pc'[p] = "journal_open"
    BY <2>1, <2>2, <2>3 DEF TypeOK, Record
  <2>5. Made(rec[p])' /\ journal'[tx'[p]].phase # "committed"
    BY <2>1, <2>2, <2>3, <2>4 DEF ShowLocal, Writing, Made
  <2>6. writer'[rec'[p].target] = tx'[p] /\ journal'[tx'[p]].preimage = rec'[p].preimage
    BY <2>1, <2>2, <2>3, <2>4 DEF ShowLocal, Writing
  <2>7. ShowLocal(p)'
    BY <2>4, <2>5, <2>6 DEF ShowLocal
  <2> QED BY <2>1, <2>2, <2>7, ShowKeeps DEF TypeOK
<1> QED BY <1>1, <1>2

\* Steps that only look, or open the scratch file.
LEMMA LookShow ==
  ASSUME IInv, ShowInv, NEW p \in Proc,
         Stat(p) \/ ReadPreimage(p) \/ Recovered(p) \/ JournalOpen(p) \/ Recheck(p)
  PROVE  ShowInv'
<1>1. TypeOK /\ LocalInv(p) /\ ShowLocal(p)
  BY DEF IInv, ShowInv
<1>2. CASE Raise(p, "failed")
  BY <1>2, RaiseShow
<1>3. CASE Return(p, "ok") /\ UNCHANGED <<files, history>>
  BY <1>3, ReturnShow DEF files, history
<1>4. CASE Stat(p)
  <2>1. /\ pc[p] = "stat" /\ pc'[p] = "read" /\ st'[p] = note[call[p].target].ino
        /\ UNCHANGED <<note, journal, writer, backup, call, rec, tx, todo>>
        /\ \A q \in Proc : q # p => pc'[q] = pc[q] /\ st'[q] = st[q]
    BY <1>1, <1>4 DEF Stat, Goto, files, history, TypeOK
  <2>2. ShowLocal(p)'
    BY <1>1, <2>1, QuietShow DEF ShowLocal, Waiting, Writing
  <2> QED BY <2>1, <2>2, ShowKeeps
<1>5. ASSUME NEW label, Goto(p, label), UNCHANGED <<note, journal, writer, backup, locals>>,
             \/ pc[p] = "read" /\ label = "backup" /\ note[call[p].target].text = call[p].expected
             \/ pc[p] = "recover" /\ label = "stat" /\ todo[p] = {}
             \/ pc[p] = "journal_open" /\ label = "journal_rename"
             \/ pc[p] = "recheck" /\ label = "stage"
      PROVE  ShowInv'
  <2>1. /\ pc'[p] = label /\ \A q \in Proc : q # p => pc'[q] = pc[q]
        /\ UNCHANGED <<call, st, todo, tx, rec>>
    BY <1>1, <1>5 DEF Goto, TypeOK, locals
  <2>2. \A n \in Note : Settled(n)' = Settled(n)
    BY <1>5, QuietShow
  <2>3. ShowLocal(p)'
    BY <1>1, <1>5, <2>1, <2>2 DEF ShowLocal, Waiting, Writing, Made, IsOriginal
  <2> QED BY <1>5, <2>1, <2>3, ShowKeeps
<1>6. CASE ReadPreimage(p)
  BY <1>2, <1>5, <1>6 DEF ReadPreimage, files, history
<1>7. CASE Recovered(p)
  BY <1>3, <1>5, <1>7 DEF Recovered, files, history
<1>8. CASE JournalOpen(p)
  BY <1>2, <1>5, <1>8 DEF JournalOpen, history
<1>9. CASE Recheck(p)
  BY <1>2, <1>5, <1>9 DEF Recheck, files, history
<1> QED BY <1>4, <1>6, <1>7, <1>8, <1>9

LEMMA StepShow ==
  ASSUME IInv, StayInv, ShowInv, "reuse" \notin Faults, NEW p \in Proc, Step(p)
  PROVE  ShowInv'
<1>1. CASE Purge(p)
  <2>1. /\ pc[p] = "purge" /\ pc'[p] = "idle" /\ \A q \in Proc : q # p => pc'[q] = pc[q]
        /\ UNCHANGED <<note, journal, writer>>
        /\ \A u \in Tx : backup'[u] \in {backup[u], NoFile}
    BY <1>1 DEF Purge, Return, history, IInv, TypeOK
  <2>2. ShowLocal(p)'
    BY <2>1 DEF ShowLocal, Writing
  <2> QED BY <2>1, <2>2, DropShow, RunningShow DEF IInv
<1>2. CASE Contend(p) \/ \E t \in Tx : RecoverRefuses(p, t)
  BY <1>2, RaiseShow DEF Contend, RecoverRefuses
<1> QED BY <1>1, <1>2, AcquireShow, SkipShow, UndoShow, RestoreShow, RenameShow, SwapShow,
           BackupShow, StageShow, VerifyShow, LookShow DEF Step

\* A save finds no process at work.
LEMMA SaveShow ==
  ASSUME IInv, ShowInv, Calm, NEW n \in Note, Save(n)
  PROVE  /\ ShowInv'
         /\ \A m \in Note : m # n => Shown(m)' = Shown(m)
         /\ \E c \in Text : Shown(n)' = c /\ typed' = [typed EXCEPT ![n] = c]
<1>1. PICK c \in Text, i \in {note[n].ino} \union NewInode :
        /\ \A t \in Tx : Unfinished(t) /\ journal[t].target = n => c # journal[t].postimage
        /\ note' = [note EXCEPT ![n] = [ino |-> i, text |-> c]]
        /\ typed' = [typed EXCEPT ![n] = c]
  BY DEF Save, Calm
<1>2. /\ writer' = [writer EXCEPT ![n] = NoTx] /\ lock = NoProc
      /\ UNCHANGED <<journal, backup, pc>>
  BY DEF Save, Calm
<1>3. TypeOK
  BY DEF IInv
<1>4. \A m \in Note : IF m = n
        THEN note'[m] = [ino |-> i, text |-> c] /\ writer'[m] = NoTx
        ELSE note'[m] = note[m] /\ writer'[m] = writer[m]
  BY <1>1, <1>2, <1>3 DEF TypeOK
<1>5. Apart'
  <2>1. \A u \in Tx : backup[u].ino # i
    BY NewInodeUnused DEF ShowInv, Apart
  <2>2. \A u \in Tx, m \in Note : backup[u].ino # note'[m].ino
    BY <1>4, <2>1 DEF ShowInv, Apart
  <2> QED BY <1>2, <2>2 DEF ShowInv, Apart
<1>6. \A t \in Tx : journal[t].phase # "none" => journal[t].target \in Note /\ journal[t] # NoRecord
  BY <1>3, NoRecordFacts DEF TypeOK, Record
<1>7. Own'
  <2> SUFFICES ASSUME NEW t \in Tx, journal[t].phase \in {"replacing", "replaced"},
                      IsReplacement(journal[t], note'[journal[t].target])
               PROVE  writer'[journal[t].target] = t
    BY <1>2 DEF Own, IsReplacement
  <2>1. journal[t].target # n
    BY <1>1, <1>4, <1>6 DEF IsReplacement, Unfinished, Finished
  <2> QED BY <1>4, <1>6, <2>1 DEF ShowInv, Own
<1>8. Unmade'
  <2> SUFFICES ASSUME NEW t \in Tx, journal[t].phase = "prepared",
                      note'[journal[t].target].ino = journal[t].target_ino
               PROVE  \/ note'[journal[t].target].text = journal[t].preimage
                      \/ note'[journal[t].target].text # journal[t].postimage
    BY <1>2 DEF Unmade
  <2>1. CASE journal[t].target = n
    BY <1>1, <1>4, <1>6, <2>1 DEF Unfinished, Finished
  <2>2. CASE journal[t].target # n
    BY <1>4, <1>6, <2>2 DEF ShowInv, Unmade
  <2> QED BY <2>1, <2>2
<1>9. Rendered'
  BY <1>2 DEF ShowInv, Rendered, Made
<1>10. ASSUME NEW p \in Proc PROVE ShowLocal(p)'
  <2>1. pc'[p] \in {"idle", "acquire"}
    BY <1>2, <1>3, ConstantsAssumption DEF TypeOK
  <2> QED BY <2>1 DEF ShowLocal, Writing
<1>11. ASSUME NEW m \in Note, m # n PROVE Shown(m)' = Shown(m)
  BY <1>2, <1>4, <1>11 DEF Shown
<1>12. Shown(n)' = c
  BY <1>4 DEF Shown
<1> QED BY <1>1, <1>5, <1>7, <1>8, <1>9, <1>10, <1>11, <1>12 DEF ShowInv

LEMMA NextShow ==
  ASSUME IInv, StayInv, ShowInv, Calm, [Next]_vars
  PROVE  ShowInv'
<1>1. ASSUME NEW p \in Proc, CallApply(p) \/ CallRecover(p) \/ Step(p) PROVE ShowInv'
  BY <1>1, CallShow, StepShow DEF Calm
<1>2. ASSUME NEW p \in Proc, Crash(p) \/ SystemCallFails(p) PROVE ShowInv'
  BY <1>2, ReturnShow, RaiseShow DEF Crash, SystemCallFails, files, history
<1>3. ASSUME NEW n \in Note, Save(n) PROVE ShowInv'
  BY <1>3, SaveShow
<1>4. CASE UNCHANGED vars
  BY <1>4, QuietShow DEF ShowInv, ShowLocal, Waiting, Made, IsOriginal, vars
<1> QED BY <1>1, <1>2, <1>3, <1>4 DEF Next

\* What recovery would make of a note is what a reader is shown.
LEMMA SaysShown == IInv /\ ShowInv => \A n \in Note : Says(n) = Shown(n)
<1> SUFFICES ASSUME IInv, ShowInv, NEW n \in Note PROVE Says(n) = Shown(n)
  OBVIOUS
<1> DEFINE undo == {t \in Tx : journal[t].target = n /\ Undoable(t)}
<1>1. ASSUME NEW t \in undo PROVE t = writer[n] /\ journal[t].phase # "committed"
  BY DEF ShowInv, Own, Undoable
<1>2. CASE writer[n] # NoTx /\ journal[writer[n]].phase # "committed"
  <2>1. writer[n] \in undo
    BY <1>2 DEF IInv, TypeOK, WriteAhead
  <2>2. (CHOOSE t \in undo : TRUE) \in undo
    BY <2>1
  <2>3. (CHOOSE t \in undo : TRUE) = writer[n]
    BY <1>1, <2>2
  <2> HIDE DEF undo
  <2>4. undo # {}
    BY <2>1
  <2>5. Says(n) = journal[CHOOSE t \in undo : TRUE].preimage
    BY <2>4 DEF Says, undo
  <2> QED BY <1>2, <2>3, <2>5 DEF Shown
<1>3. CASE ~(writer[n] # NoTx /\ journal[writer[n]].phase # "committed")
  <2>1. undo = {}
    BY <1>1, <1>3, ConstantsAssumption
  <2>2. Says(n) = note[n].text
    BY <2>1 DEF Says
  <2> QED BY <1>3, <2>2 DEF Shown
<1> QED BY <1>2, <1>3

LEMMA SaysShownNext == (IInv /\ ShowInv => \A n \in Note : Says(n) = Shown(n))'
  BY SaysShown, PTL

\* A step that shows the same notes and commits nothing is a stutter.
LEMMA Stutters ==
  ASSUME IInv, IInv', ShowInv, ShowInv', UNCHANGED typed,
         \A n \in Note : Shown(n)' = Shown(n),
         \A t \in Tx : journal'[t].phase = "committed" <=> journal[t].phase = "committed"
  PROVE  UNCHANGED Abstract!vars
<1>1. \A n \in Note : Says(n)' = Says(n)
  <2>1. \A n \in Note : Says(n) = Shown(n)
    BY SaysShown
  <2>2. \A n \in Note : Says(n)' = Shown(n)'
    BY SaysShownNext
  <2> QED BY <2>1, <2>2
<1>2. [n \in Note |-> Says(n)]' = [n \in Note |-> Says(n)]
  BY <1>1
<1>3. {t \in Tx : journal[t].phase = "committed"}' = {t \in Tx : journal[t].phase = "committed"}
  OBVIOUS
<1> QED BY <1>2, <1>3 DEF Abstract!vars

LEMMA InitAbstract == Init => Abstract!Init
<1> SUFFICES ASSUME Init PROVE Abstract!Init
  OBVIOUS
<1>1. \A n \in Note : Says(n) = Vault[n].text
  <2> SUFFICES ASSUME NEW n \in Note PROVE Says(n) = Vault[n].text
    OBVIOUS
  <2>1. {t \in Tx : journal[t].target = n /\ Undoable(t)} = {}
    BY DEF Init, NoRecord, Undoable
  <2> QED BY <2>1 DEF Init, Says
<1>2. \A n \in Note : Vault[n].text \in Text
  BY ConstantsAssumption DEF File
<1>3. {t \in Tx : journal[t].phase = "committed"} = {}
  BY DEF Init, NoRecord
<1>4. typed = [n \in Note |-> Says(n)]
  BY <1>1 DEF Init
<1> QED BY <1>1, <1>2, <1>3, <1>4 DEF Abstract!Init, Abstract!Text, Text

\* The record that says "committed" is the patch.
LEMMA CommitPatches ==
  ASSUME IInv, IInv', StayInv, StayInv', ShowInv, ShowInv', NEW p \in Proc, JournalRename(p),
         rec[p].phase = "committed"
  PROVE  Abstract!Next
<1> DEFINE m == rec[p].target
           says == [n \in Note |-> Says(n)]
<1>1. /\ pc[p] = "journal_rename" /\ journal' = [journal EXCEPT ![tx[p]] = rec[p]]
      /\ UNCHANGED <<note, writer, typed>>
  BY DEF JournalRename, Goto, locals, history
<1>2. TypeOK /\ LocalInv(p) /\ StayLocal(p) /\ ShowLocal(p)
  BY DEF IInv, StayInv, ShowInv
<1>3. tx[p] \in Tx /\ rec[p] \in Record /\ pc[p] \in Writing \ {"purge"} /\ m \in Note
  BY <1>1, <1>2 DEF TypeOK, LocalInv, Writing, Record
<1>4. \A t \in Tx : journal'[t] = IF t = tx[p] THEN rec[p] ELSE journal[t]
  BY <1>1, <1>2, <1>3 DEF TypeOK
<1>5. /\ writer[m] = tx[p] /\ tx[p] # NoTx /\ journal[tx[p]].phase # "committed"
      /\ journal[tx[p]].target = m /\ journal[tx[p]].preimage = rec[p].preimage
  BY <1>2, <1>3, ConstantsAssumption DEF ShowLocal, StayLocal
<1>6. PICK u \in Managed : rec[p].postimage = Render(rec[p].preimage, u)
  BY <1>2, <1>3 DEF ShowLocal, Made
<1>7. Shown(m) = rec[p].preimage
  BY <1>5 DEF Shown
<1>8. \A n \in Note : n = m => Shown(n)' = rec[p].postimage
  <2>1. note[m].text = rec[p].postimage
    BY <1>1, <1>3, <1>4, <1>5 DEF StayInv, Placed, IsReplacement
  <2> QED BY <1>1, <1>3, <1>4, <1>5, <2>1 DEF Shown
<1>9. ASSUME NEW n \in Note, n # m PROVE Shown(n)' = Shown(n)
  <2>1. writer[n] # tx[p]
    BY <1>5, <1>9 DEF StayInv, Placed
  <2>2. writer[n] # NoTx => journal'[writer[n]] = journal[writer[n]]
    BY <1>2, <1>4, <2>1 DEF TypeOK
  <2> QED BY <1>1, <2>2 DEF Shown
<1>10. \A n \in Note : Says(n) = Shown(n)
  BY SaysShown
<1>11. \A n \in Note : Says(n)' = Shown(n)'
  BY SaysShownNext
<1>12. says' = [says EXCEPT ![m] = Abstract!Render(says[m], u)]
  BY <1>3, <1>6, <1>7, <1>8, <1>9, <1>10, <1>11 DEF Abstract!Render, Render
<1>13. /\ tx[p] \notin {t \in Tx : journal[t].phase = "committed"}
       /\ {t \in Tx : journal[t].phase = "committed"}' =
            {t \in Tx : journal[t].phase = "committed"} \union {tx[p]}
  BY <1>3, <1>4, <1>5
<1>14. Abstract!Patch(tx[p], m, u)
  BY <1>1, <1>12, <1>13 DEF Abstract!Patch
<1> QED BY <1>3, <1>14 DEF Abstract!Next

LEMMA SaveSaves ==
  ASSUME IInv, IInv', ShowInv, ShowInv', Calm, NEW n \in Note, Save(n)
  PROVE  Abstract!Next
<1> DEFINE says == [k \in Note |-> Says(k)]
<1>1. PICK c \in Text : Shown(n)' = c /\ typed' = [typed EXCEPT ![n] = c]
  BY SaveShow
<1>2. \A m \in Note : m # n => Shown(m)' = Shown(m)
  BY SaveShow
<1>3. \A m \in Note : Says(m) = Shown(m)
  BY SaysShown
<1>4. \A m \in Note : Says(m)' = Shown(m)'
  BY SaysShownNext
<1>5. says' = [says EXCEPT ![n] = c]
  BY <1>1, <1>2, <1>3, <1>4
<1>6. {t \in Tx : journal[t].phase = "committed"}' = {t \in Tx : journal[t].phase = "committed"}
  BY DEF Save
<1>7. Abstract!Save(n, c)
  BY <1>1, <1>5, <1>6 DEF Abstract!Save
<1> QED BY <1>1, <1>7 DEF Abstract!Next, Abstract!Text, Text

LEMMA NextAbstract ==
  ASSUME IInv, IInv', StayInv, StayInv', ShowInv, ShowInv', Calm, [Next]_vars
  PROVE  [Abstract!Next]_(Abstract!vars)
<1>1. ASSUME NEW n \in Note, Save(n) PROVE Abstract!Next
  BY <1>1, SaveSaves
<1>2. CASE UNCHANGED <<note, journal, writer, typed>>
  BY <1>2, Stutters DEF Shown
<1>3. ASSUME NEW p \in Proc, Restore(p) PROVE UNCHANGED Abstract!vars
  BY <1>3, RestoreShow, Stutters DEF Restore
<1>4. ASSUME NEW p \in Proc, Swap(p) PROVE UNCHANGED Abstract!vars
  BY <1>4, SwapShow, Stutters DEF Swap
<1>5. ASSUME NEW p \in Proc, JournalRename(p), rec[p].phase # "committed"
      PROVE  UNCHANGED Abstract!vars
  <2>1. pc[p] \in Writing \ {"purge"} /\ LocalInv(p) /\ ShowLocal(p) /\ TypeOK
    BY <1>5 DEF JournalRename, Writing, IInv, ShowInv
  <2>2. \A t \in Tx : journal'[t].phase = "committed" <=> journal[t].phase = "committed"
    BY <1>5, <2>1 DEF JournalRename, ShowLocal, TypeOK
  <2> QED BY <1>5, <2>2, RenameShow, Stutters DEF JournalRename, history
<1>6. ASSUME NEW p \in Proc, JournalRename(p), rec[p].phase = "committed" PROVE Abstract!Next
  BY <1>6, CommitPatches
<1>7. \/ UNCHANGED <<note, journal, writer, typed>>
      \/ \E n \in Note : Save(n)
      \/ \E p \in Proc : Restore(p) \/ Swap(p) \/ JournalRename(p)
  BY DEF Next, Step, CallApply, CallRecover, Crash, SystemCallFails, Acquire, Contend,
         RecoverRefuses, RecoverSkips, RecoverUndoes, Recovered, JournalOpen,
         Stat, ReadPreimage, MakeBackup, Recheck, Stage, Verify, Purge, Raise, files, history, vars
<1> QED BY <1>1, <1>2, <1>3, <1>4, <1>5, <1>6, <1>7

\* Every behaviour is one of AtomicPatch, for any number of processes, notes
\* and transactions, when no user saves during a call, no saved text is the
\* postimage of an unfinished record and no number a record names comes back.
THEOREM AtomicPatchImplemented ==
  ASSUME Calm
  PROVE  Spec => ImplementsAtomicPatch
<1>1. IInv /\ StayInv /\ [Next]_vars => StayInv'
  BY NextStay DEF Calm
<1>2. IInv /\ StayInv /\ ShowInv /\ [Next]_vars => ShowInv'
  BY NextShow
<1>3. IInv /\ IInv' /\ StayInv /\ StayInv' /\ ShowInv /\ ShowInv' /\ [Next]_vars =>
        [Abstract!Next]_(Abstract!vars)
  BY NextAbstract
<1> QED BY <1>1, <1>2, <1>3, InitStay, InitShow, InitAbstract, Invariance,
           PTL DEF Spec, ImplementsAtomicPatch, Abstract!Spec

=============================================================================
