----------------------- MODULE LifecycleUpdateProofs -----------------------
(***************************************************************************)
(* Proofs about LifecycleUpdate, for any versions and components: types,   *)
(* whole snapshots among them, for any processes and faults; what the      *)
(* pointer leads to, for one process, as no lock keeps two of them apart,  *)
(* and any faults; and the rest of its safety for one process that is not  *)
(* killed while it undoes an update, and updates of an install that has a  *)
(* pointer.                                                                *)
(***************************************************************************)
EXTENDS LifecycleUpdate, TLAPS

\* A call that is under way has a job, and a snapshot once it took or read one.
Snapped == {"place", "trust", "aside", "copy", "undo", "rb_point", "rb_undo",
            "rb_unpoint", "rb_repoint"}

TInv ==
  /\ TypeOK
  /\ \A p \in Proc : /\ pc[p] # "idle" => job[p] \in Job
                     /\ pc[p] \in Snapped => job[p].snap \in Snapshot
                     /\ pc[p] \in {"unpack", "snapshot"} => job[p].old \in Version \union {Self}

LEMMA Constants ==
  /\ First \in Version /\ Config \in Component /\ NoSnap \notin Snapshot
  /\ NoVersion \notin Version /\ Self \notin Version
  /\ Missing \notin Part /\ Partial \notin Version
  /\ NoState \notin Trusted /\ Torn \notin Trusted /\ NoState # Torn
  /\ Trusted = [snap : Snapshot, version : Version]
BY ConstantsAssumption DEF Trusted

LEMMA Values ==
  /\ Version \subseteq Content /\ Missing \in Content /\ Partial \in Content
  /\ Trusted \subseteq State /\ NoState \in State /\ Torn \in State
  /\ NothingAside \in [Component -> Content]
  /\ \A s \in Snapshot :
       /\ s.files \in [Component -> Content] /\ s.current \in Version \union {Self}
       /\ \A c \in Component : s.files[c] # Missing
  /\ NoJob \notin Job /\ "idle" \in Labels /\ "idle" \notin Snapped
BY Constants DEF Content, Part, State, NothingAside, Snapshot, NoJob, Job, Labels, Snapped

LEMMA InitType == Init => TInv
<1> SUFFICES ASSUME Init PROVE TInv
  OBVIOUS
<1>1. Here \in Install
  BY Constants, Values DEF Init, Here, Install
<1>2. TypeOK
  BY <1>1, Constants, Values DEF Init, TypeOK, Results
<1> QED BY <1>2, Values DEF Init, TInv

\* The type invariant after a step of process p that leads to label l with job r.
LEMMA TypeStep ==
  ASSUME TInv, NEW p \in Proc, NEW l \in Labels, NEW r \in Job \union {NoJob},
         pc' = [pc EXCEPT ![p] = l], job' = [job EXCEPT ![p] = r],
         l # "idle" => r \in Job, l \in Snapped => r.snap \in Snapshot,
         l \in {"unpack", "snapshot"} => r.old \in Version \union {Self},
         installed' \subseteq Version, current' \in Version \union {NoVersion},
         files' \in [Component -> Content], state' \in State,
         result' \in [Proc -> Results],
         start' \in [install : Install, state : State], goal' \in Install,
         pulled' \subseteq Version
  PROVE  TInv'
<1>1. pc' \in [Proc -> Labels] /\ job' \in [Proc -> Job \union {NoJob}]
  BY DEF TInv, TypeOK
<1>2. TypeOK'
  BY <1>1 DEF TypeOK
<1>3. \A q \in Proc : pc'[q] = (IF q = p THEN l ELSE pc[q]) /\ job'[q] = (IF q = p THEN r ELSE job[q])
  BY DEF TInv, TypeOK
<1> QED BY <1>2, <1>3 DEF TInv

\* A step that changes nothing but what a process is at.
LEMMA StayStep ==
  ASSUME TInv, NEW p \in Proc, NEW l \in Labels, NEW r \in Job \union {NoJob},
         pc' = [pc EXCEPT ![p] = l], job' = [job EXCEPT ![p] = r],
         l # "idle" => r \in Job, l \in Snapped => r.snap \in Snapshot,
         l \in {"unpack", "snapshot"} => r.old \in Version \union {Self},
         result' \in [Proc -> Results], UNCHANGED <<disk, history>>
  PROVE  TInv'
<1>1. UNCHANGED <<installed, current, files, state, start, goal, pulled>>
  BY DEF disk, history
<1> QED BY <1>1, TypeStep DEF TInv, TypeOK

\* A call that ends leaves its process idle.
LEMMA ReturnStep ==
  ASSUME TInv, NEW p \in Proc, NEW how \in Results, Return(p, how)
  PROVE  /\ pc' = [pc EXCEPT ![p] = "idle"] /\ job' = [job EXCEPT ![p] = NoJob]
         /\ result' \in [Proc -> Results]
BY DEF Return, Goto, TInv, TypeOK

LEMMA ResolvedType ==
  ASSUME TInv, NEW t \in Version \union {NoVersion, Self}
  PROVE  Resolved(t) \in Version \union {NoVersion}
BY DEF Resolved, TInv, TypeOK

LEMMA HereType == TInv => Here \in Install
BY DEF TInv, TypeOK, Here, Install

LEMMA UpdateType ==
  ASSUME TInv, NEW p \in Proc, NEW v \in Version, Update(p, v)
  PROVE  TInv'
<1> DEFINE r == [NoJob EXCEPT !.op = "update", !.version = v, !.prev = state,
                              !.old = IF current = NoVersion THEN Self ELSE current]
<1>1. r \in Job /\ r.old \in Version \union {Self}
  BY Values DEF NoJob, Job, TInv, TypeOK
<1>2. /\ pc' = [pc EXCEPT ![p] = "unpack"] /\ job' = [job EXCEPT ![p] = r]
      /\ result' = [result EXCEPT ![p] = "none"]
      /\ start' = [install |-> Here, state |-> state]
      /\ goal' = [files |-> [files EXCEPT ![Config] = v], current |-> v]
      /\ UNCHANGED <<installed, current, files, state, pulled>>
  BY DEF Update, Goto, disk
<1>3. start' \in [install : Install, state : State] /\ goal' \in Install
  BY <1>2, HereType, Values DEF TInv, TypeOK, Install
<1>4. result' \in [Proc -> Results] /\ "unpack" \in Labels /\ "unpack" \notin Snapped
  BY <1>2 DEF TInv, TypeOK, Results, Labels, Snapped
<1> HIDE DEF r
<1> QED BY <1>1, <1>2, <1>3, <1>4, TypeStep DEF TInv, TypeOK

LEMMA RollbackType ==
  ASSUME TInv, NEW p \in Proc, Rollback(p)
  PROVE  TInv'
<1> DEFINE r == [NoJob EXCEPT !.op = "rollback", !.version = state.version, !.snap = state.snap]
<1>1. state.snap \in Snapshot /\ state.version \in Version
  BY DEF Rollback, Trusted
<1>2. r \in Job /\ r.snap \in Snapshot
  BY <1>1, Values DEF NoJob, Job
<1>3. /\ pc' = [pc EXCEPT ![p] = "aside"] /\ job' = [job EXCEPT ![p] = r]
      /\ result' = [result EXCEPT ![p] = "none"]
      /\ start' = [install |-> Here, state |-> state]
      /\ goal' = [files |-> state.snap.files, current |-> Resolved(state.snap.current)]
      /\ UNCHANGED <<installed, current, files, state, pulled>>
  BY DEF Rollback, Goto, disk
<1>4. state.snap.files \in [Component -> Content] /\ state.snap.current \in Version \union {Self}
  BY <1>1, Values DEF TInv, TypeOK
<1>5. goal' \in Install
  <2>1. Resolved(state.snap.current) \in Version \union {NoVersion}
    BY <1>4, ResolvedType
  <2> QED BY <1>3, <1>4, <2>1 DEF Install
<1>6. start' \in [install : Install, state : State]
  BY <1>3, HereType DEF TInv, TypeOK
<1>7. result' \in [Proc -> Results] /\ "aside" \in Labels
  BY <1>3 DEF TInv, TypeOK, Results, Labels
<1>8. /\ installed' \subseteq Version /\ current' \in Version \union {NoVersion}
      /\ files' \in [Component -> Content] /\ state' \in State /\ pulled' \subseteq Version
  BY <1>3 DEF TInv, TypeOK
<1> HIDE DEF r
<1> QED BY <1>2, <1>3, <1>5, <1>6, <1>7, <1>8, TypeStep

\* The steps of an update.
LEMMA UpdatingType ==
  ASSUME TInv, NEW p \in Proc,
         \/ Unpack(p) \/ TakeSnapshot(p) \/ Place(p) \/ Trust(p) \/ Switch(p)
         \/ Migrate(p) \/ Validate(p) \/ UpdateFails(p)
  PROVE  TInv'
<1> USE DEF history
<1>1. job[p] \in Job /\ result \in [Proc -> Results]
  BY DEF TInv, TypeOK, Unpack, TakeSnapshot, Place, Trust, Switch, Migrate, Validate, UpdateFails, Updating
<1>2. CASE Unpack(p)
  <2> DEFINE r == [job[p] EXCEPT !.unpacked = TRUE]
  <2>1. /\ r \in Job /\ job' = [job EXCEPT ![p] = r] /\ pc' = [pc EXCEPT ![p] = "snapshot"]
        /\ r.old \in Version \union {Self}
    BY <1>1, <1>2 DEF Unpack, Goto, Job, TInv
  <2>2. "snapshot" \in Labels /\ "snapshot" \notin Snapped /\ UNCHANGED <<disk, result, history>>
    BY <1>2 DEF Labels, Snapped, Unpack
  <2> HIDE DEF r
  <2> QED BY <1>1, <2>1, <2>2, StayStep
<1>3. CASE TakeSnapshot(p)
  <2> DEFINE s == [files |-> files, current |-> job[p].old]
             r == [job[p] EXCEPT !.snap = s]
  <2>1. job' = [job EXCEPT ![p] = r] /\ pc' = [pc EXCEPT ![p] = "place"]
    BY <1>3 DEF TakeSnapshot, Goto
  <2>2. s \in Snapshot
    <3>1. files \in [Component -> Part] /\ job[p].old \in Version \union {Self}
      BY <1>3 DEF TakeSnapshot, TInv, TypeOK, Content
    <3> QED BY <3>1 DEF Snapshot
  <2> HIDE DEF s
  <2>3. r \in Job /\ r.snap \in Snapshot
    BY <1>1, <2>2 DEF Job
  <2>4. "place" \in Labels /\ UNCHANGED <<installed, current, files, state, result, history>>
    BY <1>3 DEF Labels, TakeSnapshot
  <2> HIDE DEF r
  <2> QED BY <2>1, <2>3, <2>4, TypeStep DEF TInv, TypeOK
<1>4. ASSUME NEW l \in Labels, l \in Snapped => job[p].snap \in Snapshot, l \notin {"unpack", "snapshot"},
             pc' = [pc EXCEPT ![p] = l], job' = job, UNCHANGED <<result, history>>,
             installed' \subseteq Version, current' \in Version \union {NoVersion},
             files' \in [Component -> Content], state' \in State
      PROVE  TInv'
  <2>1. job' = [job EXCEPT ![p] = job[p]]
    BY <1>4 DEF TInv, TypeOK
  <2> QED BY <1>1, <1>4, <2>1, TypeStep DEF TInv, TypeOK
<1>5. job[p].version \in Version
  BY <1>1 DEF Job
<1>6. CASE Place(p)
  <2>1. job[p].snap \in Snapshot /\ "trust" \in Labels
    BY <1>6 DEF Place, TInv, Snapped, Labels
  <2>2. /\ pc' = [pc EXCEPT ![p] = "trust"] /\ installed' = installed \union {job[p].version}
        /\ UNCHANGED <<current, files, state, job, result, history>>
    BY <1>6 DEF Place, Goto
  <2> QED BY <1>4, <1>5, <2>1, <2>2 DEF TInv, TypeOK
<1>7. CASE Trust(p)
  <2>1. job[p].snap \in Snapshot /\ "switch" \in Labels /\ "switch" \notin Snapped
    BY <1>7 DEF Trust, TInv, Snapped, Labels
  <2>2. /\ pc' = [pc EXCEPT ![p] = "switch"]
        /\ state' = [snap |-> job[p].snap, version |-> job[p].version]
        /\ UNCHANGED <<installed, current, files, job, result, history>>
    BY <1>7 DEF Trust, Goto
  <2>3. state' \in State
    BY <1>5, <2>1, <2>2, Values DEF Trusted
  <2> QED BY <1>4, <2>1, <2>2, <2>3 DEF TInv, TypeOK
<1>8. CASE Switch(p)
  <2> DEFINE r == [job[p] EXCEPT !.switched = TRUE]
  <2>1. /\ r \in Job /\ job' = [job EXCEPT ![p] = r] /\ pc' = [pc EXCEPT ![p] = "migrate"]
    BY <1>1, <1>8 DEF Switch, Goto, Job
  <2>2. /\ "migrate" \in Labels /\ "migrate" \notin Snapped /\ current' = job[p].version
        /\ UNCHANGED <<installed, files, state, result, history>>
    BY <1>8 DEF Labels, Snapped, Switch
  <2> HIDE DEF r
  <2> QED BY <1>1, <1>5, <2>1, <2>2, TypeStep DEF TInv, TypeOK
<1>9. CASE Migrate(p)
  <2>1. /\ pc' = [pc EXCEPT ![p] = "validate"] /\ files' = [files EXCEPT ![Config] = job[p].version]
        /\ UNCHANGED <<installed, current, state, job, result, history>>
    BY <1>9 DEF Migrate, Goto
  <2>2. "validate" \in Labels /\ "validate" \notin Snapped
    BY DEF Labels, Snapped
  <2>3. files' \in [Component -> Content]
    BY <1>5, <2>1, Values DEF TInv, TypeOK
  <2> QED BY <1>4, <2>1, <2>2, <2>3 DEF TInv, TypeOK
<1>10. CASE Validate(p)
  <2>1. /\ Return(p, "ok") /\ "ok" \in Results /\ UNCHANGED <<disk, start, goal>>
        /\ pulled' \subseteq pulled
    BY <1>10 DEF Validate, Results
  <2> QED BY <2>1, ReturnStep, TypeStep, Values DEF TInv, TypeOK, disk
<1>11. CASE UpdateFails(p)
  <2>1. PICK l \in {"aside", "repoint", "remove"} :
          pc' = [pc EXCEPT ![p] = l] /\ (l = "aside" => job[p].snap # NoSnap)
    BY <1>11 DEF UpdateFails, AfterRestore, Goto
  <2>2. UNCHANGED <<installed, current, files, state, job, result, history>>
    BY <1>11 DEF UpdateFails, disk
  <2>3. l \in Labels /\ (l \in Snapped => job[p].snap \in Snapshot) /\ l \notin {"unpack", "snapshot"}
    BY <1>1, <2>1 DEF Labels, Snapped, Job
  <2> QED BY <1>4, <2>1, <2>2, <2>3 DEF TInv, TypeOK
<1> QED BY <1>2, <1>3, <1>6, <1>7, <1>8, <1>9, <1>10, <1>11

\* The steps of the except clause, of the transaction and of a rollback.
LEMMA RestoringType ==
  ASSUME TInv, NEW p \in Proc,
         \/ Repoint(p) \/ RemoveVersion(p) \/ RewriteState(p)
         \/ StateRewritten(p) \/ RestorationFails(p)
         \/ \E c \in Component : \/ MoveAside(p, c) \/ BeginCopy(p, c) \/ CopyBack(p, c)
                               \/ RemoveCopy(p, c) \/ PutBack(p, c)
         \/ AllAside(p) \/ AllBack(p) \/ TransactionFails(p)
         \/ Reinstated(p) \/ ReinstatingFails(p)
         \/ RollbackPoint(p) \/ RollbackFails(p)
         \/ RemovePointer(p) \/ RestorePointer(p) \/ RestorePointerFails(p)
         \/ Crash(p)
  PROVE  TInv'
<1> USE DEF history
<1>1. /\ pc[p] # "idle" /\ job[p] \in Job /\ result \in [Proc -> Results]
      /\ job[p].prev \in State /\ job[p].version \in Version
  <2>1. pc[p] # "idle"
    BY DEF Repoint, RemoveVersion, RewriteState, StateRewritten, RestorationFails, MoveAside,
       BeginCopy, CopyBack, RemoveCopy, PutBack, BeingUndone, AllAside, AllBack, TransactionFails,
       Reinstated, ReinstatingFails, RollbackPoint, RollbackFails,
       RemovePointer, RestorePointer, RestorePointerFails, Crash
  <2> QED BY <2>1 DEF TInv, TypeOK, Job
<1>2. /\ installed \subseteq Version /\ current \in Version \union {NoVersion}
      /\ files \in [Component -> Content] /\ state \in State
      /\ pulled \subseteq Version
      /\ start \in [install : Install, state : State] /\ goal \in Install
      /\ job = [job EXCEPT ![p] = job[p]] /\ pc = [pc EXCEPT ![p] = pc[p]] /\ pc[p] \in Labels
  BY DEF TInv, TypeOK
<1>3. pc[p] \in Snapped => job[p].snap \in Snapshot
  BY DEF TInv
\* A step that goes on with the same job.
<1>4. ASSUME NEW l \in Labels, l \in Snapped => job[p].snap \in Snapshot, l \notin {"unpack", "snapshot"},
             pc' = [pc EXCEPT ![p] = l], job' = job, UNCHANGED <<result, history>>,
             installed' \subseteq Version, current' \in Version \union {NoVersion},
             files' \in [Component -> Content], state' \in State
      PROVE  TInv'
  BY <1>1, <1>2, <1>4, TypeStep
\* A step that returns.
<1>5. ASSUME NEW how \in Results, Return(p, how), UNCHANGED history,
             installed' \subseteq Version, current' \in Version \union {NoVersion},
             files' \in [Component -> Content], state' \in State
      PROVE  TInv'
  BY <1>2, <1>5, ReturnStep, TypeStep, Values
<1>6. {"none", "ok", "undone", "broken", "lost", "failed"} \subseteq Results
  BY DEF Results
<1>7. CASE Repoint(p)
  <2>1. /\ pc' = [pc EXCEPT ![p] = "remove"] /\ current' \in installed
        /\ UNCHANGED <<installed, files, state, job, result, history>>
    BY <1>7 DEF Repoint, Goto
  <2>2. "remove" \in Labels /\ "remove" \notin Snapped
    BY DEF Labels, Snapped
  <2> QED BY <1>2, <1>4, <2>1, <2>2
<1>8. CASE RemoveVersion(p)
  <2>1. /\ pc' = [pc EXCEPT ![p] = "rewrite"] /\ installed' \subseteq installed
        /\ pulled' \subseteq pulled \union installed
        /\ UNCHANGED <<current, files, state, job, result, start, goal>>
    BY <1>8 DEF RemoveVersion, Goto
  <2>2. "rewrite" \in Labels /\ "rewrite" \notin Snapped
    BY DEF Labels, Snapped
  <2> QED BY <1>1, <1>2, <2>1, <2>2, TypeStep
<1>9. CASE RewriteState(p)
  <2>1. /\ UNCHANGED <<installed, current, files, history>> /\ state' \in {NoState, Torn}
        /\ \/ Return(p, "undone")
           \/ pc' = [pc EXCEPT ![p] = "rewritten"] /\ UNCHANGED <<job, result>>
    BY <1>9 DEF RewriteState, Goto
  <2>2. "rewritten" \in Labels /\ "rewritten" \notin Snapped
    BY DEF Labels, Snapped
  <2> QED BY <1>2, <1>4, <1>5, <1>6, <2>1, <2>2, Values
<1>10. CASE StateRewritten(p)
  BY <1>1, <1>2, <1>5, <1>6, <1>10 DEF StateRewritten
<1>11. CASE RestorationFails(p) \/ RestorePointerFails(p) \/ ReinstatingFails(p) \/ Crash(p)
  <2>1. PICK how \in {"broken", "failed", "lost", "none"} : Return(p, how)
    BY <1>11 DEF RestorationFails, RestorePointerFails, ReinstatingFails, Crash
  <2>2. UNCHANGED <<installed, current, files, state, history>>
    BY <1>11 DEF RestorationFails, RestorePointerFails, ReinstatingFails, Crash, disk
  <2> QED BY <1>2, <1>5, <1>6, <2>1, <2>2
\* A step of the transaction over one component, or of its undoing.
<1>12. ASSUME NEW r \in Job, job' = [job EXCEPT ![p] = r], r.snap = job[p].snap,
              pc[p] \notin {"idle", "unpack", "snapshot"}, UNCHANGED <<pc, result, history>>,
              UNCHANGED <<installed, current, state>>, files' \in [Component -> Content]
       PROVE  TInv'
  BY <1>1, <1>2, <1>3, <1>12, TypeStep
<1>13. ASSUME NEW c \in Component,
              \/ MoveAside(p, c) \/ BeginCopy(p, c) \/ CopyBack(p, c)
              \/ RemoveCopy(p, c) \/ PutBack(p, c)
       PROVE  TInv'
  <2>1. /\ pc[p] \in {"aside", "copy", "undo", "rb_undo"} /\ UNCHANGED <<pc, result, history>>
        /\ UNCHANGED <<installed, current, state>>
    BY <1>13 DEF MoveAside, BeginCopy, CopyBack, RemoveCopy, PutBack, BeingUndone
  <2>2. CASE MoveAside(p, c)
    <3> DEFINE r == [job[p] EXCEPT !.aside[c] = files[c]]
    <3>1. job' = [job EXCEPT ![p] = r] /\ r \in Job /\ r.snap = job[p].snap
      BY <1>1, <1>2, <2>2 DEF MoveAside, Job
    <3>2. files' \in [Component -> Content]
      BY <1>2, <2>2, Values DEF MoveAside
    <3> HIDE DEF r
    <3> QED BY <1>12, <2>1, <3>1, <3>2
  <2>3. CASE BeginCopy(p, c)
    <3>1. job' = [job EXCEPT ![p] = job[p]] /\ files' \in [Component -> Content]
      BY <1>2, <2>3, Values DEF BeginCopy
    <3> QED BY <1>1, <1>12, <2>1, <3>1
  <2>4. CASE CopyBack(p, c)
    <3> DEFINE r == [job[p] EXCEPT !.created = @ \union {c}]
    <3>1. job' = [job EXCEPT ![p] = r] /\ r \in Job /\ r.snap = job[p].snap
      BY <1>1, <2>4 DEF CopyBack, Job
    <3>2. job[p].snap \in Snapshot
      BY <1>3, <2>4 DEF CopyBack, Snapped
    <3>3. job[p].snap.files \in [Component -> Content]
      BY <3>2, Values
    <3>4. files' \in [Component -> Content]
      BY <1>2, <2>4, <3>3 DEF CopyBack
    <3> HIDE DEF r
    <3> QED BY <1>12, <2>1, <3>1, <3>4
  <2>5. CASE RemoveCopy(p, c)
    <3> DEFINE r == [job[p] EXCEPT !.created = @ \ {c}]
    <3>1. job' = [job EXCEPT ![p] = r] /\ r \in Job /\ r.snap = job[p].snap
      BY <1>1, <2>5 DEF RemoveCopy, Job
    <3>2. files' \in [Component -> Content]
      BY <1>2, <2>5, Values DEF RemoveCopy
    <3> HIDE DEF r
    <3> QED BY <1>12, <2>1, <3>1, <3>2
  <2>6. CASE PutBack(p, c)
    <3> DEFINE r == [job[p] EXCEPT !.aside[c] = Missing]
    <3>1. job' = [job EXCEPT ![p] = r] /\ r \in Job /\ r.snap = job[p].snap
      BY <1>1, <2>6, Values DEF PutBack, Job
    <3>2. job[p].aside[c] \in Content
      BY <1>1 DEF Job
    <3>3. files' \in [Component -> Content]
      BY <1>2, <2>6, <3>2 DEF PutBack
    <3> HIDE DEF r
    <3> QED BY <1>12, <2>1, <3>1, <3>3
  <2> QED BY <1>13, <2>2, <2>3, <2>4, <2>5, <2>6
<1>14. CASE AllAside(p) \/ AllBack(p) \/ TransactionFails(p)
  <2>1. PICK l \in {"copy", "repoint", "remove", "rb_point", "undo"} : pc' = [pc EXCEPT ![p] = l]
    BY <1>14 DEF AllAside, AllBack, TransactionFails, AfterRestore, Goto
  <2>2. /\ UNCHANGED <<installed, current, files, state, job, result, history>>
        /\ pc[p] \in {"aside", "copy"}
    BY <1>14 DEF AllAside, AllBack, TransactionFails, disk
  <2>3. l \in Labels /\ job[p].snap \in Snapshot
    BY <1>3, <2>1, <2>2 DEF Labels, Snapped
  <2> QED BY <1>2, <1>4, <2>1, <2>2, <2>3
<1>15. CASE Reinstated(p)
  <2>1. CASE pc[p] = "rb_undo"
    <3>1. pc' = [pc EXCEPT ![p] = "rb_unpoint"] /\ UNCHANGED <<disk, job, result, history>>
      BY <1>15, <2>1 DEF Reinstated, Goto
    <3>2. "rb_unpoint" \in Labels /\ job[p].snap \in Snapshot
      BY <1>3, <2>1 DEF Labels, Snapped
    <3> QED BY <1>2, <1>4, <3>1, <3>2 DEF disk
  <2>2. CASE pc[p] # "rb_undo"
    <3>1. PICK how \in {"broken", "failed"} : Return(p, how)
      BY <1>15, <2>2 DEF Reinstated
    <3>2. UNCHANGED <<disk, history>>
      BY <1>15 DEF Reinstated
    <3> QED BY <1>2, <1>5, <1>6, <3>1, <3>2 DEF disk
  <2> QED BY <2>1, <2>2
<1>16. CASE RollbackPoint(p)
  <2>1. Return(p, "ok") /\ current' \in installed /\ UNCHANGED <<installed, files, state, history>>
    BY <1>16 DEF RollbackPoint
  <2> QED BY <1>2, <1>5, <1>6, <2>1
<1>17. CASE RollbackFails(p)
  <2> DEFINE r == [job[p] EXCEPT !.old = current]
  <2>1. /\ job' = [job EXCEPT ![p] = r] /\ pc' = [pc EXCEPT ![p] = "rb_undo"]
        /\ pc[p] = "rb_point" /\ UNCHANGED <<disk, result, history>>
    BY <1>17 DEF RollbackFails, Goto
  <2>2. r \in Job /\ r.snap = job[p].snap
    BY <1>1, <1>2 DEF Job
  <2>3. "rb_undo" \in Labels /\ job[p].snap \in Snapshot
    BY <1>3, <2>1 DEF Labels, Snapped
  <2> HIDE DEF r
  <2> QED BY <1>1, <1>2, <2>1, <2>2, <2>3, StayStep
<1>18. CASE RemovePointer(p)
  <2>1. /\ pc' = [pc EXCEPT ![p] = "rb_repoint"] /\ current' = NoVersion /\ pc[p] = "rb_unpoint"
        /\ UNCHANGED <<installed, files, state, job, result, history>>
    BY <1>18 DEF RemovePointer, Goto
  <2>2. "rb_repoint" \in Labels /\ job[p].snap \in Snapshot
    BY <1>3, <2>1 DEF Labels, Snapped
  <2> QED BY <1>2, <1>4, <2>1, <2>2
<1>19. CASE RestorePointer(p)
  <2>1. /\ Return(p, "failed") /\ current' \in installed
        /\ UNCHANGED <<installed, files, state, history>>
    BY <1>19 DEF RestorePointer
  <2> QED BY <1>2, <1>5, <1>6, <2>1
<1> QED BY <1>7, <1>8, <1>9, <1>10, <1>11, <1>13, <1>14, <1>15, <1>16, <1>17, <1>18, <1>19

LEMMA TypeInv ==
  ASSUME TInv, [Next]_vars
  PROVE  TInv'
<1>1. CASE UNCHANGED vars
  BY <1>1 DEF vars, TInv, TypeOK
<1>2. CASE Next
  BY <1>2, UpdateType, RollbackType, UpdatingType, RestoringType DEF Next
<1> QED BY <1>1, <1>2

\* Every variable of updates and rollbacks keeps its type, however many run at
\* once; no snapshot, recorded or held, has a hole where a component was missing.
THEOREM TypeCorrect == Spec => []TypeOK
<1>1. TInv /\ [Next]_vars => TInv'
  BY TypeInv
<1>2. TInv => TypeOK
  BY DEF TInv
<1> QED BY <1>1, <1>2, InitType, PTL DEF Spec

-----------------------------------------------------------------------------
(***************************************************************************)
(* What the pointer leads to, for one process and any faults.              *)
(***************************************************************************)
\* A call that has not moved the pointer, and an update that is about to remove
\* its version, find the pointer where they began.
Held(p) ==
  /\ pc[p] \notin {"idle", "rb_unpoint", "rb_repoint"}
  /\ ~job[p].switched \/ pc[p] = "remove"
  /\ job[p].old # Self
  => current = job[p].old

PInv(p) == TInv /\ PointerLives /\ Held(p)

LEMMA InitPointer ==
  ASSUME NEW p, Proc = {p}, Init
  PROVE  PInv(p)
BY InitType DEF Init, PInv, PointerLives, Held

\* A step that leaves the pointer and the versions alone.
LEMMA SamePointer ==
  ASSUME NEW p, Proc = {p}, PInv(p), TInv', UNCHANGED <<installed, current, pulled>>, Held(p)'
  PROVE  PInv(p)'
BY DEF PInv, PointerLives

LEMMA ReturnPointer ==
  ASSUME NEW p, Proc = {p}, PInv(p), TInv', NEW how, Return(p, how), PointerLives'
  PROVE  PInv(p)'
<1>1. pc'[p] = "idle"
  BY DEF PInv, TInv, TypeOK, Return, Goto
<1> QED BY <1>1 DEF PInv, Held

LEMMA PointerStep ==
  ASSUME NEW p, Proc = {p}, PInv(p), [Next]_vars
  PROVE  PInv(p)'
<1>1. TInv' /\ p \in Proc
  BY TypeInv DEF PInv
<1>2. /\ pc \in [Proc -> Labels] /\ job \in [Proc -> Job \union {NoJob}]
      /\ current \in Version \union {NoVersion} /\ installed \subseteq Version
      /\ pc[p] # "idle" => job[p] \in Job
  BY <1>1 DEF PInv, TInv, TypeOK
<1>3. CASE UNCHANGED vars
  BY <1>1, <1>3 DEF vars, PInv, PointerLives, Held
<1>4. CASE Next
  <2>1. CASE \E v \in Version : Update(p, v)
    <3>1. /\ job'[p].old = IF current = NoVersion THEN Self ELSE current
          /\ pc'[p] = "unpack" /\ UNCHANGED <<installed, current, pulled>>
      BY <1>1, <1>2, <2>1 DEF Update, Goto, NoJob, disk
    <3> QED BY <1>1, <3>1, SamePointer DEF Held
  <2>2. CASE Rollback(p)
    <3>1. job'[p].old = Self /\ UNCHANGED <<installed, current, pulled>>
      BY <1>1, <1>2, <2>2 DEF Rollback, NoJob, disk
    <3> QED BY <1>1, <3>1, SamePointer DEF Held
  <2>3. CASE Unpack(p) \/ TakeSnapshot(p) \/ (\E c \in Component :
               \/ MoveAside(p, c) \/ BeginCopy(p, c) \/ CopyBack(p, c)
               \/ RemoveCopy(p, c) \/ PutBack(p, c))
    <3>1. /\ job'[p].old = job[p].old /\ job'[p].switched = job[p].switched
          /\ pc[p] \notin {"idle", "rb_unpoint", "rb_repoint"} /\ pc'[p] # "remove"
          /\ UNCHANGED <<installed, current, pulled>>
      BY <1>1, <1>2, <2>3 DEF Unpack, TakeSnapshot, MoveAside, BeginCopy, CopyBack, RemoveCopy,
         PutBack, BeingUndone, Goto, Job, disk, history
    <3> QED BY <1>1, <3>1, SamePointer DEF PInv, Held
  <2>4. CASE Trust(p) \/ Migrate(p) \/ UpdateFails(p)
             \/ AllAside(p) \/ AllBack(p) \/ TransactionFails(p)
    <3>1. /\ job' = job /\ pc[p] \notin {"idle", "rb_unpoint", "rb_repoint"}
          /\ pc'[p] = "remove" => ~job[p].switched
          /\ UNCHANGED <<installed, current, pulled>>
      BY <1>1, <1>2, <2>4 DEF Trust, Migrate, UpdateFails, AllAside, AllBack, TransactionFails,
         AfterRestore, Updating, Goto, disk, history
    <3> QED BY <1>1, <3>1, SamePointer DEF PInv, Held
  <2>5. CASE Place(p)
    <3>1. /\ pc[p] = "place" /\ pc'[p] = "trust" /\ installed \subseteq installed'
          /\ UNCHANGED <<current, job, pulled>>
      BY <1>1, <1>2, <2>5 DEF Place, Goto, history
    <3> QED BY <1>1, <3>1 DEF PInv, PointerLives, Held
  <2>6. CASE Switch(p)
    <3>1. /\ pc'[p] = "migrate" /\ current' \in installed /\ job'[p].switched
          /\ UNCHANGED installed
      BY <1>1, <1>2, <2>6 DEF Switch, Goto, Job
    <3> QED BY <1>1, <3>1 DEF PInv, PointerLives, Held
  <2>7. CASE Validate(p)
    <3>1. current \in installed /\ Return(p, "ok") /\ UNCHANGED <<installed, current>>
      BY <2>7 DEF Validate, disk
    <3> QED BY <1>1, <3>1, ReturnPointer DEF PointerLives
  <2>8. CASE Repoint(p)
    <3>1. /\ current' = Resolved(job[p].old) /\ current' \in installed
          /\ UNCHANGED <<installed, job>>
      BY <2>8 DEF Repoint
    <3>2. PointerLives' /\ Held(p)'
      BY <3>1 DEF PointerLives, Held, Resolved
    <3> QED BY <1>1, <3>2 DEF PInv
  <2>9. CASE RemoveVersion(p)
    <3>1. /\ pc[p] = "remove" /\ pc'[p] = "rewrite" /\ UNCHANGED <<current, job>>
          /\ installed \ {job[p].version} \subseteq installed' /\ pulled \subseteq pulled'
          /\ Pulls(p) => installed \subseteq installed' \union pulled'
      BY <1>1, <1>2, <2>9 DEF RemoveVersion, Goto
    <3>2. ~Pulls(p) => current # job[p].version
      BY <3>1 DEF PInv, Held, Pulls
    <3> QED BY <1>1, <3>1, <3>2 DEF PInv, PointerLives, Held
  <2>10. CASE RewriteState(p)
    <3>1. /\ pc[p] = "rewrite" /\ UNCHANGED <<installed, current, pulled>>
          /\ Return(p, "undone") \/ (Goto(p, "rewritten") /\ UNCHANGED job)
      BY <2>10 DEF RewriteState, history
    <3>2. CASE Return(p, "undone")
      BY <1>1, <3>1, <3>2, ReturnPointer DEF PInv, PointerLives
    <3>3. CASE Goto(p, "rewritten") /\ UNCHANGED job
      BY <1>1, <1>2, <3>1, <3>3, SamePointer DEF PInv, Held, Goto
    <3> QED BY <3>1, <3>2, <3>3
  <2>11. CASE StateRewritten(p) \/ RestorationFails(p) \/ RestorePointerFails(p)
              \/ ReinstatingFails(p) \/ Crash(p)
    <3>1. PICK how : Return(p, how)
      BY <2>11 DEF StateRewritten, RestorationFails, RestorePointerFails, ReinstatingFails, Crash
    <3>2. UNCHANGED <<installed, current, pulled>>
      BY <2>11 DEF StateRewritten, RestorationFails, RestorePointerFails, ReinstatingFails, Crash,
         disk, history
    <3> QED BY <1>1, <3>1, <3>2, ReturnPointer DEF PInv, PointerLives
  <2>12. CASE Reinstated(p)
    <3>1. /\ UNCHANGED <<installed, current, pulled>>
          /\ \/ \E how : Return(p, how)
             \/ pc'[p] = "rb_unpoint"
      BY <1>1, <1>2, <2>12 DEF Reinstated, Goto, disk, history
    <3>2. CASE \E how : Return(p, how)
      BY <1>1, <3>1, <3>2, ReturnPointer DEF PInv, PointerLives
    <3>3. CASE pc'[p] = "rb_unpoint"
      BY <1>1, <3>1, <3>3, SamePointer DEF Held
    <3> QED BY <3>1, <3>2, <3>3
  <2>13. CASE RollbackFails(p)
    <3>1. job'[p].old = current /\ UNCHANGED <<installed, current, pulled>>
      BY <1>1, <1>2, <2>13 DEF RollbackFails, Job, disk, history
    <3> QED BY <1>1, <3>1, SamePointer DEF Held
  <2>14. CASE RollbackPoint(p) \/ RestorePointer(p)
    <3>1. PICK how : Return(p, how)
      BY <2>14 DEF RollbackPoint, RestorePointer
    <3>2. current' \in installed /\ UNCHANGED installed
      BY <2>14 DEF RollbackPoint, RestorePointer
    <3> QED BY <1>1, <3>1, <3>2, ReturnPointer DEF PointerLives
  <2>15. CASE RemovePointer(p)
    <3>1. pc'[p] = "rb_repoint" /\ current' = NoVersion
      BY <1>1, <1>2, <2>15 DEF RemovePointer, Goto
    <3> QED BY <1>1, <3>1 DEF PInv, PointerLives, Held
  <2> QED BY <1>4, <2>1, <2>2, <2>3, <2>4, <2>5, <2>6, <2>7, <2>8, <2>9, <2>10, <2>11, <2>12,
             <2>13, <2>14, <2>15 DEF Next
<1> QED BY <1>3, <1>4

LEMMA PointerInvariance ==
  ASSUME NEW p, Proc = {p}
  PROVE  Spec => []PInv(p)
<1>1. Init => PInv(p)
  BY InitPointer
<1>2. PInv(p) /\ [Next]_vars => PInv(p)'
  BY PointerStep
<1> QED BY <1>1, <1>2, PTL DEF Spec

\* Whatever fails and wherever a process is killed, as long as one runs at a
\* time: the pointer leads to no version that has been removed, save where an
\* update to a version that was installed already, or one of an install without
\* a pointer, failed (update.py:313 and 342).
THEOREM PointerLivesHolds ==
  ASSUME NEW p, Proc = {p}
  PROVE  Spec => []PointerLives
<1>1. PInv(p) => PointerLives
  BY DEF PInv
<1> QED BY <1>1, PointerInvariance, PTL
-----------------------------------------------------------------------------
(***************************************************************************)
(* One process that fails and is killed, except while it undoes an update, *)
(* and updates an install that has a pointer.                              *)
(***************************************************************************)
Alone(p) == Proc = {p} /\ Faults \cap {"recrash", "unlinked"} = {}

\* The components and the pointer are what they were when the call started.
Restored == files = start.install.files /\ current = start.install.current

Transaction == {"aside", "copy", "undo"}
Pointing == {"rb_point", "rb_undo", "rb_unpoint", "rb_repoint"}
Cleaning == {"remove", "rewrite", "rewritten"}

\* Versions that are there, or that an update pulled away.
Known == installed \union pulled

\* What an update knows of the install it started from: until it switched
\* nothing has changed but what it added; once it switched state-v1.json names
\* its snapshot; and it removes its version only when all is restored.
UpdateInv(p) ==
  pc[p] # "idle" /\ job[p].op = "update" =>
    /\ pc[p] \notin Pointing
    /\ job[p].prev = start.state /\ job[p].old = start.install.current
    /\ job[p].old \in Known
    /\ job[p].snap # NoSnap =>
         /\ job[p].snap.files = start.install.files
         /\ job[p].snap.current = start.install.current
    /\ pc[p] \in {"unpack", "snapshot"} => job[p].snap = NoSnap
    /\ pc[p] \in {"unpack", "snapshot", "place", "trust"} => state = job[p].prev
    /\ pc[p] \in {"unpack", "snapshot", "place", "trust", "switch"} => Restored /\ ~job[p].switched
    /\ pc[p] \in {"migrate", "validate", "repoint"} => job[p].switched
    /\ pc[p] \in {"migrate", "validate"} => current = job[p].version /\ current \in installed
    /\ pc[p] = "switch" \/ (job[p].switched /\ pc[p] # "rewritten") =>
         job[p].snap # NoSnap /\ state \in Trusted /\ state.snap = job[p].snap
    /\ state \in Trusted =>
         state = job[p].prev \/ (job[p].snap # NoSnap /\ state.snap = job[p].snap)
    /\ job[p].prev \in Trusted =>
         /\ job[p].prev.snap.current \in Known
         /\ job[p].prev.snap.current = job[p].version => job[p].version \in pulled \/ Pulls(p)
    /\ ~job[p].switched => current = job[p].old
    /\ pc[p] \in Transaction => job[p].snap # NoSnap
    /\ pc[p] = "repoint" => files = start.install.files
    /\ pc[p] \in Cleaning => Restored

\* A rollback is to the recorded snapshot from its first step to its last.
RollbackInv(p) ==
  pc[p] # "idle" /\ job[p].op = "rollback" =>
    /\ pc[p] \in Transaction \union Pointing
    /\ state \in Trusted /\ job[p].snap = state.snap
    /\ goal.files = state.snap.files /\ goal.current = state.snap.current

\* A component is where it was, aside, being copied or copied back.
TransactionInv(p) ==
  /\ pc[p] \in Updating => job[p].created = {} /\ job[p].aside = NothingAside
  /\ pc[p] = "aside" =>
       /\ job[p].created = {}
       /\ \A c \in Component : job[p].aside[c] # Missing => files[c] = Missing
  /\ pc[p] = "copy" =>
       \A c \in Component :
         IF c \in job[p].created THEN files[c] = job[p].snap.files[c]
                                 ELSE files[c] \in {Missing, Partial}
  /\ pc[p] = "rb_point" => job[p].created = Component /\ files = job[p].snap.files

\* The components are those the call found; one that was missing may be part of
\* a copy.
Near == \A c \in Component : files[c] # start.install.files[c] =>
          start.install.files[c] = Missing /\ files[c] = Partial

\* A component that the call found is aside until its copy is removed and it
\* comes back.  An update that migrated the configuration found another.
StashInv(p) ==
  job[p].op = "rollback" \/ ~job[p].switched =>
    /\ pc[p] = "aside" => \A c \in Component :
         start.install.files[c] = IF job[p].aside[c] # Missing THEN job[p].aside[c] ELSE files[c]
    /\ pc[p] \in {"copy", "rb_point"} => job[p].aside = start.install.files
    /\ pc[p] \in BeingUndone => \A c \in Component :
         \/ job[p].aside[c] = start.install.files[c] /\ (job[p].aside[c] # Missing \/ c \in job[p].created)
         \/ /\ job[p].aside[c] = Missing /\ c \notin job[p].created
            /\ files[c] # start.install.files[c] =>
                 start.install.files[c] = Missing /\ files[c] = Partial

\* The install is what the call started from or was to make, or the recorded
\* snapshot is that.
Recorded ==
  \/ Here \in {start.install, goal}
  \/ /\ state \in Trusted
     /\ Behind \in {start.install, goal} /\ Behind.current \in Known

SoundState == state \in Trusted => state.snap.current \in Known

IdleInv(p) ==
  pc[p] = "idle" =>
    /\ result[p] # "lost" => Recorded
    /\ result[p] = "undone" => start = [install |-> Here, state |-> state]

IInv(p) ==
  /\ PInv(p) /\ SoundState
  /\ UpdateInv(p) /\ RollbackInv(p) /\ TransactionInv(p) /\ StashInv(p) /\ IdleInv(p)

LEMMA Facts ==
  ASSUME NEW p, Alone(p), PInv(p)
  PROVE  /\ p \in Proc /\ installed \subseteq Version /\ Self \notin Version /\ NoVersion \notin Version
         /\ pulled \subseteq Version /\ Known \subseteq Version
         /\ current \in Version \union {NoVersion} /\ files \in [Component -> Content]
         /\ pc \in [Proc -> Labels] /\ job \in [Proc -> Job \union {NoJob}]
         /\ result \in [Proc -> Results] /\ start.install \in Install /\ start.state \in State
         /\ start.install.files \in [Component -> Content]
         /\ goal \in Install /\ state \in State
         /\ state \in Trusted => state.snap \in Snapshot
         /\ pc[p] # "idle" =>
              /\ job[p] \in Job /\ job[p].op \in {"update", "rollback"} /\ job[p].version \in Version
              /\ job[p].snap \in Snapshot \union {NoSnap} /\ job[p].prev \in State
              /\ job[p].aside \in [Component -> Content] /\ job[p].created \subseteq Component
              /\ job[p].switched \in BOOLEAN
         /\ pc[p] \in Snapped => job[p].snap \in Snapshot
BY Constants DEF Alone, PInv, TInv, TypeOK, Job, Install, Known

LEMMA InstallIs ==
  \A x \in Install : x = [files |-> x.files, current |-> x.current]
BY DEF Install

\* When a recorded snapshot is sound it is what a rollback makes.
LEMMA MakesRecorded ==
  ASSUME NEW p, PInv(p)', SoundState',
         \/ Restored'
         \/ /\ state' \in Trusted
            /\ \/ /\ state'.snap.files = start'.install.files
                  /\ state'.snap.current = start'.install.current
               \/ /\ state'.snap.files = goal'.files
                  /\ state'.snap.current = goal'.current
  PROVE  Recorded'
<1>1. /\ start'.install \in Install /\ goal' \in Install
      /\ Known' \subseteq Version /\ Self \notin Version
  BY Constants DEF PInv, TInv, TypeOK, Known
<1>2. CASE Restored'
  BY <1>1, <1>2, InstallIs DEF Restored, Recorded, Here
<1>3. CASE /\ state' \in Trusted
           /\ \/ /\ state'.snap.files = start'.install.files
                 /\ state'.snap.current = start'.install.current
              \/ /\ state'.snap.files = goal'.files
                 /\ state'.snap.current = goal'.current
  <2>1. state'.snap.current \in Known' /\ state'.snap.current # Self
    BY <1>1, <1>3 DEF SoundState
  <2>2. Behind' = [files |-> state'.snap.files, current |-> state'.snap.current]
    BY <2>1 DEF Behind, Resolved
  <2>3. Behind' \in {start'.install, goal'}
    BY <1>1, <1>3, <2>2, InstallIs
  <2>4. Behind'.current \in Known'
    BY <2>1, <2>2
  <2> QED BY <1>3, <2>3, <2>4 DEF Recorded
<1> QED BY <1>2, <1>3

LEMMA ReturnInv ==
  ASSUME NEW p, Alone(p), IInv(p), PInv(p)', NEW how, Return(p, how), SoundState',
         how # "lost" => Recorded', how = "undone" => start' = [install |-> Here', state |-> state']
  PROVE  IInv(p)'
<1>1. pc'[p] = "idle" /\ result'[p] = how
  BY Facts DEF IInv, Return, Goto
<1> QED BY <1>1 DEF IInv, UpdateInv, RollbackInv, TransactionInv, StashInv, IdleInv, Updating, BeingUndone

\* A call that stops where it is leaves a way back.
LEMMA StopInv ==
  ASSUME NEW p, Alone(p), IInv(p), PInv(p)', NEW how, Return(p, how), UNCHANGED <<disk, history>>,
         pc[p] # "idle", how # "undone", job[p].op = "update" => pc[p] \notin Transaction
  PROVE  IInv(p)'
<1>1. UNCHANGED <<installed, current, files, state, start, goal, pulled>>
  BY DEF disk, history
<1>2. SoundState'
  BY <1>1 DEF IInv, SoundState, Known
<1>3. CASE job[p].op = "rollback"
  <2>1. Recorded'
    BY <1>1, <1>2, <1>3, MakesRecorded DEF IInv, RollbackInv
  <2> QED BY <1>2, <2>1, ReturnInv
<1>4. CASE job[p].op = "update"
  <2>1. \/ Restored
        \/ /\ state \in Trusted /\ state.snap = job[p].snap /\ job[p].snap # NoSnap
    <3>1. pc[p] \in Labels \ {"idle"}
      BY Facts DEF IInv
    <3>2. \/ pc[p] \in {"unpack", "snapshot", "place", "trust", "switch"} \union Cleaning
          \/ pc[p] \in {"migrate", "validate", "repoint"}
      <4>1. pc[p] \notin Pointing /\ pc[p] \notin Transaction
        BY <1>4 DEF IInv, UpdateInv
      <4> QED BY <3>1, <4>1 DEF Labels, Transaction, Pointing, Cleaning
    <3>3. CASE pc[p] \in {"unpack", "snapshot", "place", "trust", "switch"} \union Cleaning
      BY <1>4, <3>3 DEF IInv, UpdateInv
    <3>4. CASE pc[p] \in {"migrate", "validate", "repoint"}
      <4>1. job[p].switched /\ pc[p] # "rewritten"
        BY <1>4, <3>4 DEF IInv, UpdateInv
      <4> QED BY <1>4, <4>1 DEF IInv, UpdateInv
    <3> QED BY <3>2, <3>3, <3>4
  <2>2. state \in Trusted /\ state.snap = job[p].snap /\ job[p].snap # NoSnap =>
          /\ state.snap.files = start.install.files
          /\ state.snap.current = start.install.current
    BY <1>4 DEF IInv, UpdateInv
  <2>3. Recorded'
    BY <1>1, <1>2, <2>1, <2>2, MakesRecorded DEF Restored
  <2> QED BY <1>2, <2>3, ReturnInv
<1> QED BY <1>3, <1>4, Facts DEF IInv

\* What a step that leaves the disk alone leaves as it is.
LEMMA SameDisk ==
  ASSUME NEW p, Alone(p), IInv(p), UNCHANGED <<installed, state, pulled>>
  PROVE  SoundState' /\ Known' = Known
BY DEF IInv, SoundState, Known

LEMMA UpdateSafe ==
  ASSUME NEW p, Alone(p), IInv(p), PInv(p)', NEW v \in Version, Update(p, v)
  PROVE  IInv(p)'
<1>1. current # NoVersion
  BY DEF Update, Sensible, Alone
<1>2. current \in Known
  BY <1>1 DEF IInv, PInv, PointerLives, Known
<1>3. /\ pc'[p] = "unpack" /\ job'[p].op = "update" /\ job'[p].version = v /\ job'[p].prev = state
      /\ job'[p].old = current /\ job'[p].snap = NoSnap /\ job'[p].switched = FALSE
      /\ job'[p].created = {} /\ job'[p].aside = NothingAside
      /\ start' = [install |-> Here, state |-> state]
      /\ UNCHANGED <<installed, current, files, state, pulled>>
  BY <1>1, Facts DEF IInv, Update, Goto, NoJob, disk
<1>4. start'.install.files = files /\ start'.install.current = current /\ start'.state = state
  BY <1>3 DEF Here
<1>5. SoundState' /\ Known' = Known
  BY <1>3, SameDisk
<1>6. UpdateInv(p)'
  BY <1>1, <1>2, <1>3, <1>4, <1>5 DEF IInv, SoundState, UpdateInv, Pointing, Transaction, Cleaning, Restored, Pulls
<1>7. RollbackInv(p)' /\ TransactionInv(p)' /\ StashInv(p)' /\ IdleInv(p)'
  BY <1>3 DEF RollbackInv, TransactionInv, StashInv, IdleInv, BeingUndone
<1> QED BY <1>5, <1>6, <1>7 DEF IInv

LEMMA RollbackSafe ==
  ASSUME NEW p, Alone(p), IInv(p), PInv(p)', Rollback(p)
  PROVE  IInv(p)'
<1>1. /\ state \in Trusted
      /\ pc'[p] = "aside" /\ job'[p].op = "rollback" /\ job'[p].snap = state.snap
      /\ job'[p].created = {} /\ job'[p].aside = NothingAside
      /\ goal'.files = state.snap.files
      /\ goal'.current = Resolved(state.snap.current)
      /\ start' = [install |-> Here, state |-> state]
      /\ UNCHANGED <<installed, current, files, state, pulled>>
  BY Facts DEF IInv, Rollback, Goto, NoJob, disk
<1>2. SoundState' /\ Known' = Known /\ start'.install.files = files
  BY <1>1, SameDisk DEF Here
<1>3. goal'.current = state.snap.current
  BY <1>1, Facts DEF IInv, SoundState, Resolved
<1>4. RollbackInv(p)' /\ UpdateInv(p)' /\ IdleInv(p)'
  BY <1>1, <1>3 DEF RollbackInv, UpdateInv, IdleInv, Transaction
<1>5. TransactionInv(p)' /\ StashInv(p)'
  BY <1>1, <1>2 DEF TransactionInv, StashInv, NothingAside, Updating, BeingUndone
<1> QED BY <1>2, <1>4, <1>5 DEF IInv

-----------------------------------------------------------------------------
\* The steps of an update.

LEMMA UnpackSafe ==
  ASSUME NEW p, Alone(p), IInv(p), PInv(p)', Unpack(p)
  PROVE  IInv(p)'
<1>1. /\ pc[p] = "unpack" /\ pc'[p] = "snapshot" /\ job[p] \in Job
      /\ job'[p] = [job[p] EXCEPT !.unpacked = TRUE]
      /\ UNCHANGED <<installed, current, files, state, start, goal, pulled>>
  BY Facts DEF IInv, Unpack, Goto, disk, history
<1>2. /\ job'[p].op = job[p].op /\ job'[p].version = job[p].version /\ job'[p].prev = job[p].prev
      /\ job'[p].old = job[p].old /\ job'[p].snap = job[p].snap /\ job'[p].switched = job[p].switched
      /\ job'[p].created = job[p].created /\ job'[p].aside = job[p].aside
  BY <1>1 DEF Job
<1>3. SoundState' /\ Known' = Known
  BY <1>1, SameDisk
<1>4. IdleInv(p)' /\ TransactionInv(p)' /\ StashInv(p)'
  BY <1>1, <1>2 DEF IInv, IdleInv, TransactionInv, StashInv, Updating, BeingUndone
<1>5. UpdateInv(p)' /\ RollbackInv(p)'
  BY <1>1, <1>2, <1>3 DEF IInv, UpdateInv, RollbackInv, Pointing, Transaction, Cleaning, Restored, Pulls
<1> QED BY <1>3, <1>4, <1>5 DEF IInv

LEMMA TakeSnapshotSafe ==
  ASSUME NEW p, Alone(p), IInv(p), PInv(p)', TakeSnapshot(p)
  PROVE  IInv(p)'
<1> DEFINE s == [files |-> files, current |-> job[p].old]
<1>1. /\ pc[p] = "snapshot" /\ pc'[p] = "place" /\ job[p] \in Job
      /\ job'[p] = [job[p] EXCEPT !.snap = s] /\ job[p].version \notin installed
      /\ UNCHANGED <<installed, current, files, state, start, goal, pulled>>
  BY Facts DEF IInv, TakeSnapshot, Goto, history
<1>2. s.files = files /\ s.current = job[p].old
  OBVIOUS
<1>3. /\ job'[p].op = job[p].op /\ job'[p].version = job[p].version /\ job'[p].prev = job[p].prev
      /\ job'[p].old = job[p].old /\ job'[p].snap = s /\ job'[p].switched = job[p].switched
      /\ job'[p].created = job[p].created /\ job'[p].aside = job[p].aside
  BY <1>1 DEF Job
<1> HIDE DEF s
<1>4. s # NoSnap
  BY <1>1, <1>3, Constants DEF PInv, TInv, Alone, Snapped
<1>5. job[p].op = "update"
  BY <1>1, Facts DEF IInv, RollbackInv, Transaction, Pointing
<1>6. SoundState' /\ Known' = Known
  BY <1>1, SameDisk
<1>7. IdleInv(p)' /\ TransactionInv(p)' /\ StashInv(p)' /\ RollbackInv(p)'
  BY <1>1, <1>3, <1>5 DEF IInv, IdleInv, TransactionInv, StashInv, RollbackInv, Updating, BeingUndone
<1>8. job[p].prev \in Trusted /\ job[p].prev.snap.current = job[p].version =>
        job[p].version \in pulled
  BY <1>1, <1>5 DEF IInv, UpdateInv, Known
<1>9. UpdateInv(p)'
  BY <1>1, <1>2, <1>3, <1>4, <1>5, <1>6, <1>8 DEF IInv, UpdateInv, Pointing, Transaction, Cleaning, Restored
<1> QED BY <1>6, <1>7, <1>9 DEF IInv

LEMMA PlaceSafe ==
  ASSUME NEW p, Alone(p), IInv(p), PInv(p)', Place(p)
  PROVE  IInv(p)'
<1>1. /\ pc[p] = "place" /\ pc'[p] = "trust"
      /\ installed' = installed \union {job[p].version} /\ job[p].snap \in Snapshot
      /\ UNCHANGED <<current, files, state, job, start, goal, pulled>>
  BY Facts DEF IInv, Place, Goto, history, Snapped
<1>2. Known \subseteq Known'
  BY <1>1 DEF Known
<1>3. SoundState' /\ IdleInv(p)' /\ TransactionInv(p)' /\ StashInv(p)' /\ RollbackInv(p)'
  BY <1>1, <1>2 DEF IInv, SoundState, IdleInv, TransactionInv, StashInv, RollbackInv, Updating,
     Transaction, Pointing, BeingUndone
<1>4. UpdateInv(p)'
  BY <1>1, <1>2 DEF IInv, UpdateInv, Pointing, Transaction, Cleaning, Restored, Pulls
<1> QED BY <1>3, <1>4 DEF IInv

LEMMA TrustSafe ==
  ASSUME NEW p, Alone(p), IInv(p), PInv(p)', Trust(p)
  PROVE  IInv(p)'
<1>1. /\ pc[p] = "trust" /\ pc'[p] = "switch" /\ job[p].snap \in Snapshot /\ job[p].snap # NoSnap
      /\ state' = [snap |-> job[p].snap, version |-> job[p].version] /\ job[p].version \in Version
      /\ UNCHANGED <<installed, current, files, job, start, goal, pulled>>
  BY Constants, Facts DEF IInv, Trust, Goto, history, Snapped
<1>2. state' \in Trusted /\ state'.snap = job[p].snap /\ Known' = Known
  BY <1>1 DEF Trusted, Known
<1>3. job[p].op = "update"
  BY <1>1, Facts DEF IInv, RollbackInv, Transaction, Pointing
<1>4. SoundState'
  BY <1>1, <1>2, <1>3 DEF IInv, UpdateInv, SoundState
<1>5. IdleInv(p)' /\ TransactionInv(p)' /\ StashInv(p)' /\ RollbackInv(p)'
  BY <1>1, <1>3 DEF IInv, IdleInv, TransactionInv, StashInv, RollbackInv, Updating, BeingUndone
<1>6. UpdateInv(p)'
  BY <1>1, <1>2, <1>3 DEF IInv, UpdateInv, Pointing, Transaction, Cleaning, Restored, Pulls
<1> QED BY <1>4, <1>5, <1>6 DEF IInv

LEMMA SwitchSafe ==
  ASSUME NEW p, Alone(p), IInv(p), PInv(p)', Switch(p)
  PROVE  IInv(p)'
<1>1. /\ pc[p] = "switch" /\ pc'[p] = "migrate" /\ job[p] \in Job
      /\ job'[p] = [job[p] EXCEPT !.switched = TRUE]
      /\ job[p].version \in installed /\ current' = job[p].version
      /\ UNCHANGED <<installed, files, state, start, goal, pulled>>
  BY Facts DEF IInv, Switch, Goto, history
<1>2. /\ job'[p].op = job[p].op /\ job'[p].version = job[p].version /\ job'[p].prev = job[p].prev
      /\ job'[p].old = job[p].old /\ job'[p].snap = job[p].snap /\ job'[p].switched = TRUE
      /\ job'[p].created = job[p].created /\ job'[p].aside = job[p].aside
  BY <1>1 DEF Job
<1>3. job[p].op = "update"
  BY <1>1, Facts DEF IInv, RollbackInv, Transaction, Pointing
<1>4. SoundState' /\ Known' = Known
  BY <1>1, SameDisk
<1>5. IdleInv(p)' /\ TransactionInv(p)' /\ StashInv(p)' /\ RollbackInv(p)'
  BY <1>1, <1>2, <1>3 DEF IInv, IdleInv, TransactionInv, StashInv, RollbackInv, Updating, BeingUndone
<1>6. UpdateInv(p)'
  BY <1>1, <1>2, <1>3, <1>4 DEF IInv, UpdateInv, Pointing, Transaction, Cleaning, Restored, Pulls
<1> QED BY <1>4, <1>5, <1>6 DEF IInv

LEMMA MigrateSafe ==
  ASSUME NEW p, Alone(p), IInv(p), PInv(p)', Migrate(p)
  PROVE  IInv(p)'
<1>1. /\ pc[p] = "migrate" /\ pc'[p] = "validate"
      /\ UNCHANGED <<installed, current, state, job, start, goal, pulled>>
  BY Facts DEF IInv, Migrate, Goto, history
<1>2. SoundState' /\ Known' = Known
  BY <1>1, SameDisk
<1>3. IdleInv(p)' /\ TransactionInv(p)' /\ StashInv(p)' /\ RollbackInv(p)'
  BY <1>1 DEF IInv, IdleInv, TransactionInv, StashInv, RollbackInv, Updating, Transaction, Pointing, BeingUndone
<1>4. UpdateInv(p)'
  BY <1>1, <1>2 DEF IInv, UpdateInv, Pointing, Transaction, Cleaning, Restored, Pulls
<1> QED BY <1>2, <1>3, <1>4 DEF IInv

\* An update that succeeds has its version installed, pulled away before or not.
LEMMA ValidateSafe ==
  ASSUME NEW p, Alone(p), IInv(p), PInv(p)', Validate(p)
  PROVE  IInv(p)'
<1>1. /\ pc[p] = "validate" /\ Return(p, "ok") /\ pulled' = pulled \ {job[p].version}
      /\ UNCHANGED <<installed, current, files, state, start, goal>>
  BY DEF Validate, disk
<1>2. job[p].op = "update"
  BY <1>1, Facts DEF IInv, RollbackInv, Transaction, Pointing
<1>3. job[p].switched
  BY <1>1, <1>2 DEF IInv, UpdateInv
<1>4. /\ job[p].version \in installed
      /\ state \in Trusted /\ state.snap.files = start.install.files
      /\ state.snap.current = start.install.current
  BY <1>1, <1>2, <1>3 DEF IInv, UpdateInv
<1>5. Known' = Known
  BY <1>1, <1>4 DEF Known
<1>6. SoundState'
  BY <1>1, <1>5 DEF IInv, SoundState
<1>7. Recorded'
  BY <1>1, <1>4, <1>6, MakesRecorded
<1> QED BY <1>1, <1>6, <1>7, ReturnInv

LEMMA UpdateFailsSafe ==
  ASSUME NEW p, Alone(p), IInv(p), PInv(p)', UpdateFails(p)
  PROVE  IInv(p)'
<1>1. /\ pc[p] \in Updating
      /\ pc'[p] = IF job[p].snap # NoSnap THEN "aside" ELSE IF job[p].switched THEN "repoint" ELSE "remove"
      /\ UNCHANGED <<installed, current, files, state, job, start, goal, pulled>>
  BY Facts DEF IInv, UpdateFails, AfterRestore, Goto, disk, history
<1>2. job[p].op = "update" /\ job[p].switched \in BOOLEAN /\ pc[p] # "idle"
  BY <1>1, Facts DEF IInv, RollbackInv, Transaction, Pointing, Updating
<1>3. job[p].switched => job[p].snap # NoSnap /\ state \in Trusted /\ state.snap = job[p].snap
  BY <1>1, <1>2 DEF IInv, UpdateInv, Updating
<1>4. job[p].created = {} /\ job[p].aside = NothingAside
  BY <1>1 DEF IInv, TransactionInv
<1>5. ~job[p].switched => Restored
  BY <1>1, <1>2 DEF IInv, UpdateInv, Updating
<1>6. SoundState' /\ Known' = Known
  BY <1>1, SameDisk
<1>7. pc'[p] \in {"aside", "remove"} /\ (pc'[p] = "remove" => ~job[p].switched)
       /\ (pc'[p] = "aside" => job[p].snap # NoSnap)
  BY <1>1, <1>3
<1>8. IdleInv(p)' /\ RollbackInv(p)' /\ TransactionInv(p)'
  BY <1>1, <1>2, <1>4, <1>7 DEF IInv, IdleInv, RollbackInv, TransactionInv, NothingAside, Updating
<1>9. StashInv(p)'
  BY <1>1, <1>2, <1>4, <1>5, <1>7 DEF StashInv, NothingAside, Restored, BeingUndone
<1>10. UpdateInv(p)'
  BY <1>1, <1>2, <1>3, <1>5, <1>6, <1>7
     DEF IInv, UpdateInv, Pointing, Transaction, Cleaning, Restored, Pulls
<1> QED BY <1>6, <1>8, <1>9, <1>10 DEF IInv

-----------------------------------------------------------------------------
\* The steps of the except clause.

LEMMA RepointSafe ==
  ASSUME NEW p, Alone(p), IInv(p), PInv(p)', Repoint(p)
  PROVE  IInv(p)'
<1>1. /\ pc[p] = "repoint" /\ pc'[p] = "remove"
      /\ current' = Resolved(job[p].old)
      /\ UNCHANGED <<installed, files, state, job, start, goal, pulled>>
  BY Facts DEF IInv, Repoint, Goto, history
<1>2. job[p].op = "update"
  BY <1>1, Facts DEF IInv, RollbackInv, Transaction, Pointing
<1>3. job[p].old \in Known /\ job[p].old = start.install.current /\ files = start.install.files
  BY <1>1, <1>2 DEF IInv, UpdateInv
<1>4. current' = start.install.current
  BY <1>1, <1>3, Facts DEF IInv, Resolved
<1>5. SoundState' /\ Known' = Known
  BY <1>1, SameDisk
<1>6. IdleInv(p)' /\ RollbackInv(p)' /\ TransactionInv(p)' /\ StashInv(p)'
  BY <1>1, <1>2 DEF IInv, IdleInv, RollbackInv, TransactionInv, StashInv, Updating, BeingUndone
<1>7. UpdateInv(p)'
  BY <1>1, <1>2, <1>3, <1>4, <1>5 DEF IInv, UpdateInv, Pointing, Transaction, Cleaning, Restored, Pulls
<1> QED BY <1>5, <1>6, <1>7 DEF IInv

\* A version that goes was not the one to go back to, or was pulled away.
LEMMA RemoveVersionSafe ==
  ASSUME NEW p, Alone(p), IInv(p), PInv(p)', RemoveVersion(p)
  PROVE  IInv(p)'
<1>1. /\ pc[p] = "remove" /\ pc'[p] = "rewrite"
      /\ installed \ {job[p].version} \subseteq installed' /\ pulled \subseteq pulled'
      /\ Pulls(p) => Known \subseteq Known'
      /\ UNCHANGED <<current, files, state, job, start, goal>>
  BY Facts DEF IInv, RemoveVersion, Goto, Known
<1>2. job[p].op = "update"
  BY <1>1, Facts DEF IInv, RollbackInv, Transaction, Pointing
<1>3. Restored /\ job[p].old = start.install.current /\ job[p].old \in Known
  BY <1>1, <1>2 DEF IInv, UpdateInv, Cleaning
<1>4. \A v \in Known : (v = job[p].version => job[p].version \in pulled \/ Pulls(p)) => v \in Known'
  BY <1>1 DEF Known
<1>5. job[p].old \in Known'
  BY <1>3, <1>4 DEF Pulls
<1>6. job[p].prev \in Trusted =>
         /\ job[p].prev.snap.current \in Known'
         /\ job[p].prev.snap.current = job[p].version => job[p].version \in pulled' \/ Pulls(p)
  BY <1>1, <1>2, <1>4 DEF IInv, UpdateInv
<1>7. job[p].snap # NoSnap => job[p].snap.current = job[p].old
  BY <1>1, <1>2, <1>3 DEF IInv, UpdateInv
<1>8. SoundState'
  <2>1. state \in Trusted => state = job[p].prev \/ (job[p].snap # NoSnap /\ state.snap = job[p].snap)
    BY <1>1, <1>2 DEF IInv, UpdateInv
  <2> QED BY <1>1, <1>5, <1>6, <1>7, <2>1 DEF SoundState
<1>9. IdleInv(p)' /\ RollbackInv(p)' /\ TransactionInv(p)' /\ StashInv(p)'
  BY <1>1, <1>2 DEF IInv, IdleInv, RollbackInv, TransactionInv, StashInv, Updating, BeingUndone
<1>10. UpdateInv(p)'
  BY <1>1, <1>2, <1>3, <1>5, <1>6 DEF IInv, UpdateInv, Pointing, Transaction, Cleaning, Restored, Pulls
<1> QED BY <1>8, <1>9, <1>10 DEF IInv

\* An update whose trusted state is what it found is undone.
LEMMA UndoneReturn ==
  ASSUME NEW p, Alone(p), IInv(p), PInv(p)', pc[p] \in {"rewrite", "rewritten"}, Return(p, "undone"),
         state' = job[p].prev, UNCHANGED <<installed, current, files, history>>
  PROVE  IInv(p)'
<1>1. UNCHANGED <<start, goal, pulled>> /\ pc[p] # "idle"
  BY DEF history
<1>2. job[p].op = "update"
  BY <1>1, Facts DEF IInv, RollbackInv, Transaction, Pointing
<1>3. Restored /\ job[p].prev = start.state
  BY <1>1, <1>2 DEF IInv, UpdateInv, Cleaning
<1>4. SoundState'
  BY <1>1, <1>2 DEF IInv, UpdateInv, SoundState, Known
<1>5. Recorded'
  BY <1>1, <1>3, <1>4, MakesRecorded DEF Restored
<1>6. start' = [install |-> Here', state |-> state']
  <2>1. Here' = start.install
    BY <1>3, Facts, InstallIs DEF IInv, Here, Restored
  <2>2. start \in [install : Install, state : State]
    BY DEF IInv, PInv, TInv, TypeOK
  <2>3. start = [install |-> start.install, state |-> start.state]
    BY <2>2
  <2> QED BY <1>1, <1>3, <2>1, <2>3
<1> QED BY <1>4, <1>5, <1>6, ReturnInv

LEMMA RewriteStateSafe ==
  ASSUME NEW p, Alone(p), IInv(p), PInv(p)', RewriteState(p) \/ StateRewritten(p)
  PROVE  IInv(p)'
<1>1. CASE Return(p, "undone")
  <2>1. /\ pc[p] \in {"rewrite", "rewritten"} /\ UNCHANGED <<installed, current, files, history>>
        /\ state' = job[p].prev
    <3>1. CASE StateRewritten(p)
      BY <3>1 DEF StateRewritten
    <3>2. CASE RewriteState(p)
      <4>1. pc[p] = "rewrite" /\ pc'[p] = "idle"
        BY <1>1, <3>2, Facts DEF IInv, RewriteState, Return, Goto
      <4>2. ~(pc' = [pc EXCEPT ![p] = "rewritten"])
        BY <4>1, Facts DEF IInv
      <4> QED BY <3>2, <4>1, <4>2 DEF RewriteState, Goto
    <3> QED BY <3>1, <3>2
  <2> QED BY <1>1, <2>1, UndoneReturn
<1>2. CASE ~Return(p, "undone")
  <2>1. /\ pc[p] = "rewrite" /\ pc'[p] = "rewritten" /\ state' = Torn
        /\ UNCHANGED <<installed, current, files, job, start, goal, pulled>>
    BY <1>2, Facts DEF IInv, RewriteState, StateRewritten, Goto, history
  <2>2. job[p].op = "update" /\ state' \notin Trusted
    BY <2>1, Constants, Facts DEF IInv, RollbackInv, Transaction, Pointing
  <2>3. SoundState' /\ IdleInv(p)' /\ RollbackInv(p)' /\ TransactionInv(p)' /\ StashInv(p)'
    BY <2>1, <2>2 DEF IInv, SoundState, IdleInv, RollbackInv, TransactionInv, StashInv, Updating, BeingUndone
  <2>4. UpdateInv(p)'
    BY <2>1, <2>2 DEF IInv, UpdateInv, Pointing, Transaction, Cleaning, Restored, Known, Pulls
  <2> QED BY <2>3, <2>4 DEF IInv
<1> QED BY <1>1, <1>2

-----------------------------------------------------------------------------
\* The transaction.

\* The record of a component that is moved, copied or put back.
LEMMA ComponentStep ==
  ASSUME NEW p, Alone(p), IInv(p), PInv(p)', NEW c \in Component,
         \/ MoveAside(p, c) \/ BeginCopy(p, c) \/ CopyBack(p, c)
         \/ RemoveCopy(p, c) \/ PutBack(p, c)
  PROVE  /\ pc[p] \in {"aside", "copy", "undo", "rb_undo"} /\ pc' = pc /\ job[p] \in Job
         /\ UNCHANGED <<installed, current, state, start, goal, pulled, result>>
         /\ job'[p].op = job[p].op /\ job'[p].version = job[p].version /\ job'[p].prev = job[p].prev
         /\ job'[p].old = job[p].old /\ job'[p].snap = job[p].snap
         /\ job'[p].switched = job[p].switched
BY Facts DEF IInv, MoveAside, BeginCopy, CopyBack, RemoveCopy, PutBack, BeingUndone, history, Job

LEMMA ComponentSafe ==
  ASSUME NEW p, Alone(p), IInv(p), PInv(p)', NEW c \in Component,
         \/ MoveAside(p, c) \/ BeginCopy(p, c) \/ CopyBack(p, c)
         \/ RemoveCopy(p, c) \/ PutBack(p, c)
  PROVE  IInv(p)'
<1>1. /\ pc[p] \in {"aside", "copy", "undo", "rb_undo"} /\ pc' = pc /\ job[p] \in Job
      /\ UNCHANGED <<installed, current, state, start, goal, pulled, result>>
      /\ job'[p].op = job[p].op /\ job'[p].version = job[p].version /\ job'[p].prev = job[p].prev
      /\ job'[p].old = job[p].old /\ job'[p].snap = job[p].snap
      /\ job'[p].switched = job[p].switched
  BY ComponentStep
<1>2. SoundState' /\ Known' = Known
  BY <1>1, SameDisk
<1>3. IdleInv(p)' /\ RollbackInv(p)'
  BY <1>1 DEF IInv, IdleInv, RollbackInv
<1>4. UpdateInv(p)'
  BY <1>1, <1>2 DEF IInv, UpdateInv, Pointing, Transaction, Cleaning, Restored, Pulls
<1>5. /\ job[p].aside \in [Component -> Content] /\ files \in [Component -> Content]
      /\ start.install.files \in [Component -> Content] /\ job[p].created \subseteq Component
      /\ files' \in [Component -> Content] /\ job'[p].aside \in [Component -> Content]
      /\ job[p] \in Job
  <2>1. /\ p \in Proc /\ job'[p] \in Job /\ files' \in [Component -> Content]
    BY <1>1, Facts DEF Alone, PInv, TInv, TypeOK
  <2> QED BY <1>1, <2>1, Facts DEF IInv, Job
<1>6. TransactionInv(p)' /\ StashInv(p)'
  <2>1. CASE MoveAside(p, c)
    <3>1. /\ pc[p] = "aside" /\ files[c] # Missing
          /\ job'[p].aside = [job[p].aside EXCEPT ![c] = files[c]] /\ job'[p].created = job[p].created
          /\ files' = [files EXCEPT ![c] = Missing]
      BY <1>1, <2>1, Facts DEF IInv, MoveAside, Job
    <3> QED BY <1>1, <1>5, <3>1 DEF IInv, TransactionInv, StashInv, Updating, BeingUndone
  <2>2. CASE BeginCopy(p, c)
    <3>1. /\ pc[p] = "copy" /\ c \notin job[p].created /\ job' = job
          /\ files' = [files EXCEPT ![c] = Partial]
      BY <1>1, <2>2 DEF BeginCopy
    <3> QED BY <1>1, <1>5, <3>1 DEF IInv, TransactionInv, StashInv, Updating, BeingUndone
  <2>3. CASE CopyBack(p, c)
    <3>1. /\ pc[p] = "copy" /\ c \notin job[p].created
          /\ job'[p].aside = job[p].aside /\ job'[p].created = job[p].created \union {c}
          /\ files' = [files EXCEPT ![c] = job[p].snap.files[c]]
      BY <1>1, <2>3, Facts DEF IInv, CopyBack, Job
    <3> QED BY <1>1, <1>5, <3>1 DEF IInv, TransactionInv, StashInv, Updating, BeingUndone
  <2>4. CASE RemoveCopy(p, c)
    <3>1. /\ pc[p] \in BeingUndone /\ c \in job[p].created
          /\ job'[p].aside = job[p].aside /\ job'[p].created = job[p].created \ {c}
          /\ files' = [files EXCEPT ![c] = Missing]
      BY <1>1, <2>4, Facts DEF IInv, RemoveCopy, Job
    <3> QED BY <1>1, <1>5, <3>1 DEF IInv, TransactionInv, StashInv, Updating, BeingUndone
  <2>5. CASE PutBack(p, c)
    <3>1. /\ pc[p] \in BeingUndone /\ job[p].created = {} /\ job[p].aside[c] # Missing
          /\ job'[p].aside = [job[p].aside EXCEPT ![c] = Missing] /\ job'[p].created = {}
          /\ files' = [files EXCEPT ![c] = job[p].aside[c]]
      BY <1>1, <2>5, Facts DEF IInv, PutBack, Job
    <3> QED BY <1>1, <1>5, <3>1 DEF IInv, TransactionInv, StashInv, Updating, BeingUndone
  <2> QED BY <2>1, <2>2, <2>3, <2>4, <2>5
<1> QED BY <1>2, <1>3, <1>4, <1>6 DEF IInv

\* The transaction goes on to its next part, or to be undone.
LEMMA TransactionSafe ==
  ASSUME NEW p, Alone(p), IInv(p), PInv(p)', AllAside(p) \/ AllBack(p) \/ TransactionFails(p)
  PROVE  IInv(p)'
<1>1. /\ pc[p] \in {"aside", "copy"}
      /\ UNCHANGED <<installed, current, files, state, job, start, goal, pulled>>
  BY DEF AllAside, AllBack, TransactionFails, disk, history
<1>2. SoundState' /\ Known' = Known /\ (Restored' <=> Restored)
  BY <1>1, SameDisk DEF Restored
<1>3. /\ pc[p] # "idle" /\ job[p].op \in {"update", "rollback"} /\ job[p].switched \in BOOLEAN
      /\ job[p].snap \in Snapshot /\ files \in [Component -> Content]
      /\ job[p].snap.files \in [Component -> Content] /\ job[p].aside \in [Component -> Content]
      /\ start.install.files \in [Component -> Content]
  BY <1>1, Facts, Values DEF IInv, Snapped
<1>4. CASE AllAside(p) \/ TransactionFails(p)
  <2>1. /\ pc'[p] \in {"copy", "undo"}
        /\ pc'[p] = "copy" => pc[p] = "aside" /\ \A c \in Component : files[c] = Missing
    BY <1>4, Facts DEF IInv, AllAside, TransactionFails, Goto
  <2>2. TransactionInv(p)'
    BY <1>1, <2>1 DEF IInv, TransactionInv, Updating
  <2>3. StashInv(p)'
    <3>1. CASE pc'[p] = "copy"
      <4>1. job[p].op = "rollback" \/ ~job[p].switched =>
              \A c \in Component : job[p].aside[c] = start.install.files[c]
        BY <2>1, <3>1 DEF IInv, StashInv
      <4> QED BY <1>1, <1>3, <3>1, <4>1 DEF StashInv, BeingUndone
    <3>2. CASE pc'[p] = "undo"
      BY <1>1, <1>3, <3>2 DEF IInv, TransactionInv, StashInv, BeingUndone
    <3> QED BY <2>1, <3>1, <3>2
  <2>4. IdleInv(p)' /\ RollbackInv(p)'
    BY <1>1, <1>3, <2>1 DEF IInv, IdleInv, RollbackInv, Transaction
  <2>5. UpdateInv(p)'
    BY <1>1, <1>2, <1>3, <2>1 DEF IInv, UpdateInv, Pointing, Transaction, Cleaning, Pulls
  <2> QED BY <1>2, <2>2, <2>3, <2>4, <2>5 DEF IInv
<1>5. CASE AllBack(p)
  <2>1. /\ pc[p] = "copy" /\ job[p].created = Component
        /\ pc'[p] = IF job[p].op = "update" THEN IF job[p].switched THEN "repoint" ELSE "remove"
                    ELSE "rb_point"
    BY <1>5, Facts DEF IInv, AllBack, AfterRestore, Goto
  <2>2. files = job[p].snap.files
    BY <1>3, <2>1 DEF IInv, TransactionInv
  <2>3. TransactionInv(p)' /\ StashInv(p)' /\ IdleInv(p)'
    BY <1>1, <1>3, <2>1, <2>2 DEF IInv, TransactionInv, StashInv, IdleInv, Updating, BeingUndone
  <2>4. CASE job[p].op = "rollback"
    <3>1. pc'[p] = "rb_point"
      BY <2>1, <2>4
    <3>2. RollbackInv(p)' /\ UpdateInv(p)'
      BY <1>1, <1>3, <2>4, <3>1 DEF IInv, RollbackInv, UpdateInv, Pointing
    <3> QED BY <1>2, <2>3, <3>2 DEF IInv
  <2>5. CASE job[p].op = "update"
    <3>1. /\ pc'[p] \in {"repoint", "remove"} /\ (pc'[p] = "repoint" <=> job[p].switched)
      BY <1>3, <2>1, <2>5
    <3>2. files = start.install.files /\ (~job[p].switched => Restored)
      BY <1>1, <1>3, <2>2, <2>5, Constants DEF IInv, UpdateInv, Restored
    <3>3. RollbackInv(p)'
      BY <1>1, <2>5 DEF RollbackInv
    <3>4. UpdateInv(p)'
      BY <1>1, <1>2, <1>3, <2>5, <3>1, <3>2 DEF IInv, UpdateInv, Pointing, Transaction, Cleaning, Pulls
    <3> QED BY <1>2, <2>3, <3>3, <3>4 DEF IInv
  <2> QED BY <1>3, <2>4, <2>5
<1> QED BY <1>4, <1>5

\* A restoration that is undone leaves the components as the call found them,
\* or, once the update had switched, as its recorded snapshot can make them.
LEMMA UndoneFiles ==
  ASSUME NEW p, Alone(p), IInv(p), pc[p] \in BeingUndone,
         job[p].created = {}, job[p].aside = NothingAside,
         job[p].op = "rollback" \/ ~job[p].switched
  PROVE  Near
BY DEF IInv, StashInv, Near, NothingAside

LEMMA ReinstatedSafe ==
  ASSUME NEW p, Alone(p), IInv(p), PInv(p)', Reinstated(p)
  PROVE  IInv(p)'
<1>1. /\ pc[p] \in BeingUndone /\ job[p].created = {} /\ job[p].aside = NothingAside
      /\ UNCHANGED <<installed, current, files, state, start, goal, pulled>>
      /\ pc[p] # "idle" /\ job[p].op \in {"update", "rollback"} /\ job[p].switched \in BOOLEAN
  BY Facts DEF IInv, Reinstated, disk, history, BeingUndone
<1>2. SoundState' /\ Known' = Known
  BY <1>1, SameDisk
<1>3. CASE pc[p] = "rb_undo"
  <2>1. pc'[p] = "rb_unpoint" /\ UNCHANGED job
    BY <1>3, Facts DEF IInv, Reinstated, Goto
  <2>2. job[p].op = "rollback"
    BY <1>1, <1>3 DEF IInv, UpdateInv, Pointing
  <2>3. RollbackInv(p)' /\ UpdateInv(p)' /\ TransactionInv(p)' /\ StashInv(p)' /\ IdleInv(p)'
    BY <1>1, <2>1, <2>2 DEF IInv, RollbackInv, UpdateInv, TransactionInv, StashInv, IdleInv, Updating,
       Pointing, BeingUndone
  <2> QED BY <1>2, <2>3 DEF IInv
<1>4. CASE pc[p] = "undo"
  <2>1. PICK how \in {"broken", "failed"} : Return(p, how)
    BY <1>4 DEF Reinstated
  <2>2. CASE job[p].op = "rollback"
    <3>1. Recorded'
      BY <1>1, <1>2, <2>2, MakesRecorded DEF IInv, RollbackInv
    <3> QED BY <1>2, <2>1, <3>1, ReturnInv
  <2>3. CASE job[p].op = "update" /\ job[p].switched
    <3>1. /\ state \in Trusted /\ state.snap.files = start.install.files
          /\ state.snap.current = start.install.current
      BY <1>1, <1>4, <2>3 DEF IInv, UpdateInv
    <3>2. Recorded'
      BY <1>1, <1>2, <3>1, MakesRecorded
    <3> QED BY <1>2, <2>1, <3>2, ReturnInv
  <2>4. CASE job[p].op = "update" /\ ~job[p].switched
    <3>1. /\ job[p].snap \in Snapshot /\ job[p].snap.files = start.install.files
          /\ current = start.install.current
      BY <1>1, <1>4, <2>4, Facts DEF IInv, UpdateInv, Snapped, Transaction
    <3>2. \A c \in Component : start.install.files[c] # Missing
      BY <3>1, Values
    <3>3. files = start.install.files
      BY <1>1, <2>4, <3>2, UndoneFiles, Facts DEF IInv, Near
    <3>4. Restored'
      BY <1>1, <3>1, <3>3 DEF Restored
    <3>5. Recorded'
      BY <1>2, <3>4, MakesRecorded
    <3> QED BY <1>2, <2>1, <3>5, ReturnInv
  <2> QED BY <1>1, <2>2, <2>3, <2>4
<1> QED BY <1>1, <1>3, <1>4 DEF BeingUndone

LEMMA ReinstatingFailsSafe ==
  ASSUME NEW p, Alone(p), IInv(p), PInv(p)', ReinstatingFails(p)
  PROVE  IInv(p)'
<1>1. /\ pc[p] \in BeingUndone /\ pc[p] # "idle" /\ job[p].op \in {"update", "rollback"}
      /\ UNCHANGED <<disk, history>>
      /\ Return(p, IF job[p].op = "update" THEN "lost" ELSE "broken")
  BY Facts DEF IInv, ReinstatingFails, BeingUndone
<1>2. CASE job[p].op = "rollback"
  BY <1>1, <1>2, StopInv
<1>3. CASE job[p].op = "update"
  <2>1. SoundState'
    BY <1>1, SameDisk DEF disk, history
  <2> QED BY <1>1, <1>3, <2>1, ReturnInv
<1> QED BY <1>1, <1>2, <1>3

-----------------------------------------------------------------------------
\* The steps of a rollback.

LEMMA RollbackStepsSafe ==
  ASSUME NEW p, Alone(p), IInv(p), PInv(p)',
         RollbackPoint(p) \/ RollbackFails(p) \/ RemovePointer(p) \/ RestorePointer(p)
  PROVE  IInv(p)'
<1>1. /\ pc[p] \in Pointing /\ UNCHANGED <<installed, files, state, start, goal, pulled>>
  BY DEF RollbackPoint, RollbackFails, RemovePointer, RestorePointer, disk, history, Pointing
<1>2. job[p].op = "rollback" /\ pc[p] # "idle"
  BY <1>1, Facts DEF IInv, UpdateInv, Pointing
<1>3. SoundState'
  BY <1>1, SameDisk
<1>4. CASE RollbackPoint(p) \/ RestorePointer(p)
  <2>1. PICK how \in {"ok", "failed"} : Return(p, how)
    BY <1>4 DEF RollbackPoint, RestorePointer
  <2>2. Recorded'
    BY <1>1, <1>2, <1>3, MakesRecorded DEF IInv, RollbackInv
  <2> QED BY <1>3, <2>1, <2>2, ReturnInv
<1>5. CASE RollbackFails(p)
  <2>1. /\ pc[p] = "rb_point" /\ pc'[p] = "rb_undo"
        /\ job'[p].op = job[p].op /\ job'[p].snap = job[p].snap
        /\ job'[p].aside = job[p].aside /\ job'[p].created = job[p].created
    BY <1>2, <1>5, Facts DEF IInv, RollbackFails, Goto, Job
  <2>2. RollbackInv(p)' /\ UpdateInv(p)' /\ TransactionInv(p)' /\ IdleInv(p)'
    BY <1>1, <1>2, <2>1 DEF IInv, RollbackInv, UpdateInv, TransactionInv, IdleInv, Updating, Pointing
  <2>3. job[p].created = Component /\ job[p].aside = start.install.files
    BY <1>2, <2>1 DEF IInv, TransactionInv, StashInv
  <2>4. StashInv(p)'
    BY <1>1, <2>1, <2>3 DEF StashInv, BeingUndone
  <2> QED BY <1>3, <2>2, <2>4 DEF IInv
<1>6. CASE RemovePointer(p)
  <2>1. pc'[p] = "rb_repoint" /\ UNCHANGED job
    BY <1>6, Facts DEF IInv, RemovePointer, Goto
  <2>2. RollbackInv(p)' /\ UpdateInv(p)' /\ TransactionInv(p)' /\ StashInv(p)' /\ IdleInv(p)'
    BY <1>1, <1>2, <2>1 DEF IInv, RollbackInv, UpdateInv, TransactionInv, StashInv, IdleInv, Updating,
       Pointing, BeingUndone
  <2> QED BY <1>3, <2>2 DEF IInv
<1> QED BY <1>4, <1>5, <1>6

-----------------------------------------------------------------------------

LEMMA InitSafe ==
  ASSUME NEW p, Alone(p), Init
  PROVE  IInv(p)
<1>1. PInv(p)
  BY InitPointer DEF Alone
<1>2. pc[p] = "idle" /\ result[p] = "none"
  BY DEF Init, Alone
<1>3. SoundState /\ Recorded
  BY Constants DEF Init, SoundState, Recorded
<1> QED BY <1>1, <1>2, <1>3 DEF IInv, UpdateInv, RollbackInv, TransactionInv, StashInv, IdleInv, Updating, BeingUndone

LEMMA StepSafe ==
  ASSUME NEW p, Alone(p), IInv(p), [Next]_vars
  PROVE  IInv(p)'
<1>1. PInv(p)' /\ Proc = {p}
  BY PointerStep DEF IInv, Alone
<1>2. CASE UNCHANGED vars
  BY <1>1, <1>2 DEF vars, IInv, SoundState, UpdateInv, RollbackInv, TransactionInv, StashInv,
     IdleInv, Recorded, Restored, Here, Behind, Resolved, Known, Pulls
<1>3. CASE Next
  <2>1. CASE \E v \in Version : Update(p, v)
    BY <1>1, <2>1, UpdateSafe
  <2>2. CASE Unpack(p) \/ TakeSnapshot(p) \/ Place(p) \/ Trust(p) \/ Switch(p)
    BY <1>1, <2>2, UnpackSafe, TakeSnapshotSafe, PlaceSafe, TrustSafe, SwitchSafe
  <2>3. CASE Migrate(p) \/ Validate(p)
    BY <1>1, <2>3, MigrateSafe, ValidateSafe
  <2>4. CASE UpdateFails(p) \/ Repoint(p) \/ RemoveVersion(p) \/ RewriteState(p) \/ StateRewritten(p)
    BY <1>1, <2>4, UpdateFailsSafe, RepointSafe, RemoveVersionSafe, RewriteStateSafe
  <2>5. CASE \E c \in Component : \/ MoveAside(p, c) \/ BeginCopy(p, c) \/ CopyBack(p, c)
                                 \/ RemoveCopy(p, c) \/ PutBack(p, c)
    BY <1>1, <2>5, ComponentSafe
  <2>6. CASE AllAside(p) \/ AllBack(p) \/ TransactionFails(p)
    BY <1>1, <2>6, TransactionSafe
  <2>7. CASE Reinstated(p) \/ ReinstatingFails(p)
    BY <1>1, <2>7, ReinstatedSafe, ReinstatingFailsSafe
  <2>8. CASE Rollback(p)
    BY <1>1, <2>8, RollbackSafe
  <2>9. CASE RollbackPoint(p) \/ RollbackFails(p) \/ RemovePointer(p) \/ RestorePointer(p)
    BY <1>1, <2>9, RollbackStepsSafe
  <2>10. CASE RestorationFails(p) \/ RestorePointerFails(p)
    <3>1. PICK how \in {"broken", "failed"} : Return(p, how)
      BY <2>10 DEF RestorationFails, RestorePointerFails
    <3>2. UNCHANGED <<disk, history>> /\ pc[p] \in {"repoint", "rb_unpoint", "rb_repoint"} \union Cleaning
      BY <2>10 DEF RestorationFails, RestorePointerFails, Cleaning
    <3> QED BY <1>1, <3>1, <3>2, StopInv DEF Transaction, Cleaning
  <2>11. CASE Crash(p)
    <3>1. pc[p] # "idle" /\ Return(p, "none") /\ UNCHANGED <<disk, history>> /\ ~Undoing(p)
      BY <2>11 DEF Crash, Alone
    <3>2. job[p].op = "update" => pc[p] \notin Transaction
      BY <3>1 DEF Undoing, Updating, Transaction
    <3> QED BY <1>1, <3>1, <3>2, StopInv
  <2> QED BY <1>1, <1>3, <2>1, <2>2, <2>3, <2>4, <2>5, <2>6, <2>7, <2>8, <2>9, <2>10, <2>11 DEF Next
<1> QED BY <1>2, <1>3

THEOREM Invariance ==
  ASSUME NEW p, Alone(p)
  PROVE  Spec => []IInv(p)
<1>1. Init => IInv(p)
  BY InitSafe
<1>2. IInv(p) /\ [Next]_vars => IInv(p)'
  BY StepSafe
<1> QED BY <1>1, <1>2, PTL DEF Spec

-----------------------------------------------------------------------------
\* What a call reports.

\* What an update is to make, and how much of it there is; what a rollback
\* leaves alone.
GoalInv(p) ==
  /\ pc[p] # "idle" /\ job[p].op = "update" =>
       /\ goal.files = [start.install.files EXCEPT ![Config] = job[p].version]
       /\ goal.current = job[p].version
       /\ pc[p] = "migrate" => files = start.install.files /\ current = goal.current
       /\ pc[p] = "validate" => files = goal.files /\ current = goal.current
  /\ pc[p] # "idle" /\ job[p].op = "rollback" =>
       /\ state = start.state
       /\ pc[p] \in Transaction \union {"rb_point", "rb_undo"} => current = start.install.current
       /\ pc[p] \in {"rb_undo", "rb_unpoint", "rb_repoint"} => job[p].old = start.install.current
       /\ pc[p] \in {"rb_unpoint", "rb_repoint"} =>
            Near /\ current \in {start.install.current, NoVersion}

\* A call that ended ended as it says.
Outcome(p) == pc[p] = "idle" =>
  /\ result[p] = "ok" =>
       /\ Here = goal /\ state \in Trusted
       /\ Behind = start.install \/ state = start.state
  /\ result[p] = "failed" =>
       /\ Near /\ state = start.state
       /\ current \in {start.install.current, NoVersion}

\* An update that leaves goal and start alone and is not between its switch
\* and its end.
LEMMA UpdateGoes ==
  ASSUME NEW p, Alone(p), IInv(p), GoalInv(p), pc[p] # "idle", job[p].op = "update",
         job'[p].op = "update", job'[p].version = job[p].version, UNCHANGED <<start, goal>>,
         pc'[p] \notin {"idle", "migrate", "validate"}
  PROVE  GoalInv(p)' /\ Outcome(p)'
BY DEF GoalInv, Outcome

LEMMA ReturnGoal ==
  ASSUME NEW p, Alone(p), IInv(p), NEW how, Return(p, how),
         how = "ok" => /\ Here' = goal' /\ state' \in Trusted
                       /\ Behind' = start'.install \/ state' = start'.state,
         how = "failed" => /\ Near' /\ state' = start'.state
                           /\ current' \in {start'.install.current, NoVersion}
  PROVE  GoalInv(p)' /\ Outcome(p)'
<1>1. pc'[p] = "idle" /\ result'[p] = how
  BY Facts DEF IInv, Return, Goto
<1> QED BY <1>1 DEF GoalInv, Outcome

LEMMA CallGoal ==
  ASSUME NEW p, Alone(p), IInv(p), PInv(p)', (\E v \in Version : Update(p, v)) \/ Rollback(p)
  PROVE  GoalInv(p)' /\ Outcome(p)'
<1>1. CASE \E v \in Version : Update(p, v)
  <2>1. PICK v \in Version : Update(p, v)
    BY <1>1
  <2>2. /\ pc'[p] = "unpack" /\ job'[p].op = "update" /\ job'[p].version = v
        /\ start'.install.files = files /\ goal'.files = [files EXCEPT ![Config] = v]
        /\ goal'.current = v
    BY <2>1, Facts DEF IInv, Update, Goto, NoJob, Here
  <2> QED BY <2>2 DEF GoalInv, Outcome
<1>2. CASE Rollback(p)
  <2>1. /\ pc'[p] = "aside" /\ job'[p].op = "rollback"
        /\ start'.install = Here /\ start'.state = state /\ UNCHANGED <<current, state>>
    BY <1>2, Facts DEF IInv, Rollback, Goto, NoJob, disk
  <2> QED BY <2>1 DEF GoalInv, Outcome, Here, Transaction
<1> QED BY <1>1, <1>2

LEMMA UpdateGoal ==
  ASSUME NEW p, Alone(p), IInv(p), PInv(p)', GoalInv(p),
         \/ Unpack(p) \/ TakeSnapshot(p) \/ Place(p) \/ Trust(p) \/ Switch(p)
         \/ Migrate(p) \/ Validate(p) \/ UpdateFails(p)
  PROVE  GoalInv(p)' /\ Outcome(p)'
<1>1. /\ pc[p] \in Updating /\ UNCHANGED <<start, goal>> /\ p \in Proc
      /\ \E l \in Labels : pc' = [pc EXCEPT ![p] = l]
  BY Facts DEF IInv, Unpack, TakeSnapshot, Place, Trust, Switch, Migrate, Validate, UpdateFails,
     Updating, history, Goto, Return, AfterRestore, Labels
<1>2. pc[p] # "idle" /\ job[p].op = "update"
  BY <1>1, Facts DEF IInv, RollbackInv, Transaction, Pointing, Updating
<1>3. CASE Unpack(p) \/ TakeSnapshot(p) \/ Place(p) \/ Trust(p) \/ UpdateFails(p)
  <2>1. job'[p].op = job[p].op /\ job'[p].version = job[p].version
    BY <1>3, Facts DEF IInv, Unpack, TakeSnapshot, Place, Trust, UpdateFails, Job
  <2>2. pc'[p] \notin {"idle", "migrate", "validate"}
    BY <1>1, <1>3, Facts DEF IInv, Unpack, TakeSnapshot, Place, Trust, UpdateFails, Goto, AfterRestore
  <2> QED BY <1>1, <1>2, <2>1, <2>2, UpdateGoes
<1>4. CASE Switch(p)
  <2>1. /\ pc[p] = "switch" /\ pc'[p] = "migrate" /\ files' = files /\ current' = job[p].version
        /\ job'[p].op = job[p].op /\ job'[p].version = job[p].version
    BY <1>4, Facts DEF IInv, Switch, Goto, Job
  <2>2. files = start.install.files /\ goal.current = job[p].version
        /\ goal.files = [start.install.files EXCEPT ![Config] = job[p].version]
    BY <1>2, <2>1 DEF IInv, UpdateInv, Restored, GoalInv
  <2> QED BY <1>1, <1>2, <2>1, <2>2 DEF GoalInv, Outcome
<1>5. CASE Migrate(p)
  <2>1. /\ pc[p] = "migrate" /\ pc'[p] = "validate" /\ current' = current /\ job' = job
        /\ files' = [files EXCEPT ![Config] = job[p].version]
    BY <1>5, Facts DEF IInv, Migrate, Goto
  <2>2. files = start.install.files /\ current = goal.current /\ goal.current = job[p].version
        /\ goal.files = [start.install.files EXCEPT ![Config] = job[p].version]
    BY <1>2, <2>1 DEF GoalInv
  <2> QED BY <1>1, <1>2, <2>1, <2>2 DEF GoalInv, Outcome
<1>6. CASE Validate(p)
  <2>1. /\ pc[p] = "validate" /\ Return(p, "ok") /\ UNCHANGED <<current, files, state>>
    BY <1>6 DEF Validate, disk
  <2>2. Here' = goal'
    BY <1>1, <1>2, <2>1, Facts, InstallIs DEF IInv, GoalInv, Here
  <2>3. job[p].switched
    BY <1>2, <2>1 DEF IInv, UpdateInv
  <2>4. state \in Trusted /\ state.snap.files = start.install.files
        /\ state.snap.current = start.install.current
    BY <1>2, <2>1, <2>3 DEF IInv, UpdateInv
  <2>5. state.snap.current # Self
    BY <2>4, Facts DEF IInv, SoundState
  <2>6. Behind' = [files |-> start.install.files, current |-> start.install.current]
    BY <1>1, <2>1, <2>4, <2>5 DEF Behind, Resolved
  <2>7. Behind' = start'.install
    BY <1>1, <2>6, Facts, InstallIs DEF IInv
  <2> QED BY <2>1, <2>2, <2>4, <2>7, ReturnGoal
<1> QED BY <1>3, <1>4, <1>5, <1>6

\* The steps of the except clause.
LEMMA UndoGoal ==
  ASSUME NEW p, Alone(p), IInv(p), PInv(p)', GoalInv(p),
         \/ Repoint(p) \/ RemoveVersion(p) \/ RewriteState(p) \/ StateRewritten(p)
         \/ RestorationFails(p) \/ Crash(p)
  PROVE  GoalInv(p)' /\ Outcome(p)'
<1>1. CASE RestorationFails(p) \/ Crash(p) \/ Return(p, "undone")
  BY <1>1, ReturnGoal DEF RestorationFails, Crash
<1>2. CASE Repoint(p) \/ RemoveVersion(p) \/ (RewriteState(p) /\ ~Return(p, "undone"))
  <2>1. /\ pc[p] \in {"repoint"} \union Cleaning /\ job' = job /\ UNCHANGED <<start, goal>>
        /\ pc'[p] \in {"remove", "rewrite", "rewritten"}
    BY <1>2, Facts DEF IInv, Repoint, RemoveVersion, RewriteState, Goto, history, Cleaning
  <2>2. pc[p] # "idle" /\ job[p].op = "update"
    BY <2>1, Facts DEF IInv, RollbackInv, Transaction, Pointing, Cleaning
  <2> QED BY <2>1, <2>2, UpdateGoes
<1> QED BY <1>1, <1>2 DEF StateRewritten

LEMMA TransactionGoal ==
  ASSUME NEW p, Alone(p), IInv(p), PInv(p)', GoalInv(p),
         \/ \E c \in Component : \/ MoveAside(p, c) \/ BeginCopy(p, c) \/ CopyBack(p, c)
                               \/ RemoveCopy(p, c) \/ PutBack(p, c)
         \/ AllAside(p) \/ AllBack(p) \/ TransactionFails(p)
         \/ Reinstated(p) \/ ReinstatingFails(p)
  PROVE  GoalInv(p)' /\ Outcome(p)'
<1>1. /\ pc[p] \in Transaction \union {"rb_undo"} /\ UNCHANGED <<current, state, start, goal>>
  BY DEF MoveAside, BeginCopy, CopyBack, RemoveCopy, PutBack, BeingUndone, AllAside, AllBack,
     TransactionFails, Reinstated, ReinstatingFails, disk, history, Transaction
<1>2. pc[p] # "idle" /\ job[p].op \in {"update", "rollback"} /\ p \in Proc
  BY <1>1, Facts DEF IInv, Transaction
<1>3. job[p].op = "update" => pc[p] # "rb_undo"
  BY <1>2 DEF IInv, UpdateInv, Pointing
<1>4. CASE ReinstatingFails(p)
  <2>1. PICK how \in {"broken", "lost"} : Return(p, how)
    BY <1>4 DEF ReinstatingFails
  <2> QED BY <2>1, ReturnGoal
<1>5. CASE Reinstated(p)
  <2>1. /\ pc[p] \in BeingUndone /\ job[p].created = {} /\ job[p].aside = NothingAside
        /\ UNCHANGED files
    BY <1>5 DEF Reinstated, disk
  <2>2. job[p].op = "rollback" => Near'
    BY <1>1, <2>1, UndoneFiles DEF Near
  <2>3. CASE pc[p] = "rb_undo"
    <3>1. pc'[p] = "rb_unpoint" /\ UNCHANGED job
      BY <1>5, <2>3, Facts DEF IInv, Reinstated, Goto
    <3> QED BY <1>1, <1>2, <1>3, <2>2, <2>3, <3>1 DEF GoalInv, Outcome, Transaction
  <2>4. CASE pc[p] = "undo"
    <3>1. PICK how \in {"broken", "failed"} : Return(p, how) /\ (how = "failed" => job[p].op = "rollback")
      BY <1>2, <1>5, <2>4 DEF Reinstated
    <3>2. job[p].op = "rollback" => state = start.state /\ current = start.install.current
      BY <1>2, <2>4 DEF GoalInv, Transaction
    <3> QED BY <1>1, <2>2, <3>1, <3>2, ReturnGoal
  <2> QED BY <2>1, <2>3, <2>4 DEF BeingUndone
<1>6. ASSUME job'[p].op = job[p].op, job'[p].version = job[p].version, job'[p].old = job[p].old,
             pc'[p] \in Transaction \union {"repoint", "remove", "rb_point", "rb_undo"},
             pc'[p] = "rb_undo" => pc[p] = "rb_undo"
      PROVE  GoalInv(p)' /\ Outcome(p)'
  <2>1. pc'[p] \notin {"idle", "migrate", "validate", "rb_unpoint", "rb_repoint"}
    BY <1>6 DEF Transaction
  <2>2. CASE job[p].op = "update"
    BY <1>1, <1>2, <1>6, <2>1, <2>2, UpdateGoes
  <2>3. CASE job[p].op = "rollback"
    BY <1>1, <1>2, <1>6, <2>1, <2>3 DEF GoalInv, Outcome
  <2> QED BY <1>2, <2>2, <2>3
<1>7. ASSUME NEW c \in Component,
             \/ MoveAside(p, c) \/ BeginCopy(p, c) \/ CopyBack(p, c)
             \/ RemoveCopy(p, c) \/ PutBack(p, c)
      PROVE  GoalInv(p)' /\ Outcome(p)'
  <2>1. /\ pc' = pc /\ job'[p].op = job[p].op /\ job'[p].version = job[p].version
        /\ job'[p].old = job[p].old
    BY <1>7, ComponentStep
  <2> QED BY <1>1, <1>6, <2>1
<1>8. CASE AllAside(p) \/ AllBack(p) \/ TransactionFails(p)
  <2>1. job' = job /\ pc'[p] \in Transaction \union {"repoint", "remove", "rb_point"}
    BY <1>2, <1>8, Facts DEF IInv, AllAside, AllBack, TransactionFails, Goto, AfterRestore, Transaction
  <2> QED BY <1>6, <2>1 DEF Transaction
<1> QED BY <1>4, <1>5, <1>7, <1>8

LEMMA RollbackGoal ==
  ASSUME NEW p, Alone(p), IInv(p), PInv(p)', GoalInv(p),
         \/ RollbackPoint(p) \/ RollbackFails(p) \/ RemovePointer(p) \/ RestorePointer(p)
         \/ RestorePointerFails(p)
  PROVE  GoalInv(p)' /\ Outcome(p)'
<1>1. /\ pc[p] \in {"rb_point", "rb_unpoint", "rb_repoint"} /\ UNCHANGED <<files, state, start, goal>>
  BY DEF RollbackPoint, RollbackFails, RemovePointer, RestorePointer, RestorePointerFails, disk, history
<1>2. job[p].op = "rollback" /\ pc[p] # "idle"
  BY <1>1, Facts DEF IInv, UpdateInv, Pointing
<1>3. /\ state = start.state /\ state \in Trusted /\ job[p].snap = state.snap
      /\ goal.files = state.snap.files /\ goal.current = state.snap.current
  BY <1>2 DEF IInv, RollbackInv, GoalInv
<1>4. CASE RollbackPoint(p)
  <2>1. /\ pc[p] = "rb_point" /\ Return(p, "ok")
        /\ current' = Resolved(job[p].snap.current)
    BY <1>4 DEF RollbackPoint
  <2>2. current' = goal.current
    BY <1>3, <2>1, Facts DEF IInv, SoundState, Resolved
  <2>3. files = goal.files
    BY <1>3, <2>1 DEF IInv, TransactionInv
  <2>4. Here' = goal'
    BY <1>1, <2>2, <2>3, Facts, InstallIs DEF IInv, Here
  <2> QED BY <1>1, <1>3, <2>1, <2>4, ReturnGoal
<1>5. CASE RollbackFails(p)
  <2>1. /\ pc[p] = "rb_point" /\ pc'[p] = "rb_undo"
        /\ current' = current /\ job'[p].op = job[p].op /\ job'[p].old = current
    BY <1>2, <1>5, Facts DEF IInv, RollbackFails, Goto, Job, disk
  <2> QED BY <1>1, <1>2, <2>1 DEF GoalInv, Outcome, Transaction
<1>6. CASE RemovePointer(p)
  <2>1. /\ pc[p] = "rb_unpoint" /\ pc'[p] = "rb_repoint"
        /\ current' = NoVersion /\ job' = job
    BY <1>6, Facts DEF IInv, RemovePointer, Goto
  <2>2. Near'
    BY <1>1, <1>2, <2>1 DEF GoalInv, Near
  <2> QED BY <1>1, <1>2, <2>1, <2>2 DEF GoalInv, Outcome, Transaction
<1>7. CASE RestorePointer(p) \/ RestorePointerFails(p)
  <2>1. /\ pc[p] \in {"rb_unpoint", "rb_repoint"} /\ Return(p, "failed")
        /\ current' \in {current, job[p].old}
    BY <1>7 DEF RestorePointer, RestorePointerFails, disk
  <2>2. /\ Near' /\ job[p].old = start.install.current
        /\ current \in {start.install.current, NoVersion}
    BY <1>1, <1>2, <2>1 DEF GoalInv, Near
  <2> QED BY <1>1, <1>3, <2>1, <2>2, ReturnGoal
<1> QED BY <1>4, <1>5, <1>6, <1>7

LEMMA OutcomeStep ==
  ASSUME NEW p, Alone(p), IInv(p), GoalInv(p), Outcome(p), [Next]_vars
  PROVE  GoalInv(p)' /\ Outcome(p)'
<1>1. PInv(p)' /\ Proc = {p}
  BY PointerStep DEF IInv, Alone
<1>2. CASE UNCHANGED vars
  BY <1>2 DEF vars, GoalInv, Outcome, Here, Behind, Resolved, Near
<1>3. CASE Next
  <2>1. \/ (\E v \in Version : Update(p, v)) \/ Rollback(p)
        \/ Unpack(p) \/ TakeSnapshot(p) \/ Place(p) \/ Trust(p) \/ Switch(p)
        \/ Migrate(p) \/ Validate(p) \/ UpdateFails(p)
        \/ Repoint(p) \/ RemoveVersion(p) \/ RewriteState(p) \/ StateRewritten(p)
        \/ RestorationFails(p) \/ Crash(p)
        \/ (\E c \in Component : \/ MoveAside(p, c) \/ BeginCopy(p, c) \/ CopyBack(p, c)
                                \/ RemoveCopy(p, c) \/ PutBack(p, c))
        \/ AllAside(p) \/ AllBack(p) \/ TransactionFails(p)
        \/ Reinstated(p) \/ ReinstatingFails(p)
        \/ RollbackPoint(p) \/ RollbackFails(p) \/ RemovePointer(p) \/ RestorePointer(p)
        \/ RestorePointerFails(p)
    BY <1>1, <1>3 DEF Next
  <2> QED BY <1>1, <2>1, CallGoal, UpdateGoal, UndoGoal, TransactionGoal, RollbackGoal
<1> QED BY <1>2, <1>3

\* What an update or a rollback reports is so: "ok" made the install asked for,
\* and after an update a rollback goes back to the one before; "undone" left
\* everything as it was; a failed rollback left the components it found.
THEOREM OutcomeIsTrueHolds ==
  ASSUME NEW p, Alone(p)
  PROVE  Spec => []OutcomeIsTrue
<1>1. Init => GoalInv(p) /\ Outcome(p)
  BY DEF Init, Alone, GoalInv, Outcome
<1>2. IInv(p) /\ GoalInv(p) /\ Outcome(p) /\ [Next]_vars => (GoalInv(p) /\ Outcome(p))'
  BY OutcomeStep
<1>3. IInv(p) /\ Outcome(p) => OutcomeIsTrue
  BY DEF IInv, IdleInv, Outcome, OutcomeIsTrue, Near, Alone
<1> QED BY <1>1, <1>2, <1>3, Invariance, PTL DEF Spec

LEMMA Recoverability ==
  ASSUME NEW p, Alone(p), IInv(p)
  PROVE  Recoverable
<1> SUFFICES ASSUME ~Undoing(p), result[p] # "lost" PROVE Recorded
  BY DEF Recoverable, Recorded, Known, Alone
<1>1. start.install \in Install /\ goal \in Install /\ Known \subseteq Version /\ Self \notin Version
  BY Facts DEF IInv
<1>2. Restored => Recorded
  BY <1>1, InstallIs DEF Restored, Recorded, Here
<1>3. ASSUME state \in Trusted, NEW x \in {start.install, goal},
             state.snap.files = x.files, state.snap.current = x.current
      PROVE  Recorded
  <2>1. state.snap.current \in Known /\ state.snap.current # Self
    BY <1>1, <1>3 DEF IInv, SoundState
  <2>2. Behind = [files |-> x.files, current |-> x.current] /\ Behind.current \in Known
    BY <1>3, <2>1 DEF Behind, Resolved
  <2>3. Behind = x
    BY <1>1, <2>2, InstallIs
  <2> QED BY <1>3, <2>2, <2>3 DEF Recorded
<1>4. CASE pc[p] = "idle"
  BY <1>4 DEF IInv, IdleInv
<1>5. CASE pc[p] # "idle" /\ job[p].op = "rollback"
  BY <1>3, <1>5 DEF IInv, RollbackInv
<1>6. CASE pc[p] # "idle" /\ job[p].op = "update"
  <2>1. pc[p] \in Updating
    BY <1>6 DEF Undoing
  <2>2. CASE pc[p] \in {"migrate", "validate"}
    <3>1. job[p].switched /\ pc[p] # "rewritten"
      BY <1>6, <2>2 DEF IInv, UpdateInv
    <3>2. state \in Trusted /\ state.snap = job[p].snap /\ job[p].snap # NoSnap
      BY <1>6, <3>1 DEF IInv, UpdateInv
    <3>3. /\ state.snap.files = start.install.files
          /\ state.snap.current = start.install.current
      BY <1>6, <3>2 DEF IInv, UpdateInv
    <3> QED BY <1>3, <3>2, <3>3
  <2>3. CASE pc[p] \notin {"migrate", "validate"}
    BY <1>2, <1>6, <2>1, <2>3 DEF IInv, UpdateInv, Updating
  <2> QED BY <2>2, <2>3
<1> QED BY <1>4, <1>5, <1>6, Facts DEF IInv

\* Wherever an update or a rollback fails or is cut short, the install is what it
\* was, or what the call was to make, or a rollback can be had that makes it so;
\* save an update that is being undone, or could not put back what it had moved.
THEOREM RecoverableHolds ==
  ASSUME NEW p, Alone(p)
  PROVE  Spec => []Recoverable
<1>1. IInv(p) => Recoverable
  BY Recoverability
<1> QED BY <1>1, Invariance, PTL
=============================================================================
