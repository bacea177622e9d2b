----------------------------- MODULE JobsProofs -----------------------------
(***************************************************************************)
(* Proofs about SlotRunner, for every calendar, catch-up window and time a *)
(* user names, and every number of runs, lock files and jobs.              *)
(***************************************************************************)
EXTENDS SlotRunner, SchedulerReinstall, TLAPS

Inside == {"load", "start", "execute", "save"}

\* What the program counter says of the locks, the slot and the loaded state.
RunInv(r) ==
  /\ pc[r] # "idle" => userlock[LockOf[r]] = r
  /\ pc[r] \in Inside <=> slotlock = r
  /\ pc[r] \in Inside \union {"flock"} => slot[r] \in Slot
  /\ pc[r] = "start" => state[r] = completed /\ slot[r] \notin completed
  /\ pc[r] \in {"execute", "save"} => /\ completed \subseteq state[r]
                                    /\ state[r] \subseteq completed \union {slot[r]}
  /\ pc[r] = "execute" => child[r] = slot[r]
  /\ pc[r] \notin {"idle", "execute"} => child[r] = NoSlot

\* A slot whose job was started is completed, or about to be, unless its run
\* ended too early.
Remembered == \A s \in ran \ lost :
  \/ s \in completed
  \/ \E r \in Run : pc[r] = "execute" /\ slot[r] = s
  \/ \E r \in Run : pc[r] = "save" /\ s \in state[r]

IInv == TypeOK /\ (\A r \in Run : RunInv(r)) /\ Remembered

-----------------------------------------------------------------------------
USE DEF Inside

LEMMA Assumptions ==
  /\ MaxTime \in Nat /\ Named \subseteq Int \X Int
  /\ \A r \in Run : LockOf[r] \in LockFile
  /\ Nobody \notin Run
  /\ NoSlot \notin Slot
  BY ConstantsAssumption, NoSlotAssumption

LEMMA NamedSlots == \A j \in Job, n \in Named : <<j, n[1]>> \in Slot
<1> TAKE j \in Job, n \in Named
<1> DEFINE day == n[1]
<1>1. day \in NamedDays
  <2>1. \E m \in Named : m[1] = day
    OBVIOUS
  <2> HIDE DEF day
  <2> QED BY <2>1 DEF NamedDays
<1> HIDE DEF day
<1>2. <<j, day>> \in Slot
  BY <1>1 DEF Slot
<1> QED BY <1>2 DEF day

\* The slot a run sets out for exists, and was due at some time.
LEMMA Targets ==
  ASSUME TypeOK, NEW r \in Run, ByTimer(r) \/ ByHand(r)
  PROVE  \E s \in Slot, t \in Int :
           slot' = [slot EXCEPT ![r] = s] /\ due' = [due EXCEPT ![r] = t]
<1>1. \A j \in Job : \A o \in Calendar[j] : <<j, o>> \in Slot /\ o \in Int
  BY ConstantsAssumption DEF Slot, CalendarDays
<1>2. CASE ByTimer(r)
  <2>1. PICK j \in Job : For(r, j, LatestOccurrence(j, clock), LatestOccurrence(j, clock))
    BY <1>2 DEF ByTimer
  <2>2. LatestOccurrence(j, clock) \in Calendar[j]
    <3>1. \E o \in Calendar[j] : o <= clock /\ \A u \in Calendar[j] : u <= clock => u <= o
      BY CalendarAssumption DEF TypeOK
    <3>2. QED
      BY <3>1 DEF LatestOccurrence
  <2>3. QED
    BY <1>1, <2>1, <2>2 DEF For
<1>3. CASE ByHand(r)
  <2>1. PICK j \in Job, n \in Named : For(r, j, n[1], n[2])
    BY <1>3 DEF ByHand
  <2>2. <<j, n[1]>> \in Slot
    BY NamedSlots
  <2>3. n[2] \in Int
    BY Assumptions
  <2>4. QED
    BY <2>1, <2>2, <2>3 DEF For
<1>4. QED
  BY <1>2, <1>3

LEMMA InitIInv == Init => IInv
<1> SUFFICES ASSUME Init PROVE IInv
  OBVIOUS
<1>1. TypeOK
  BY Assumptions DEF Init, TypeOK, Time, Labels
<1>2. ASSUME NEW r \in Run PROVE RunInv(r)
  BY Assumptions DEF Init, RunInv
<1>3. Remembered
  BY DEF Init, Remembered
<1>4. QED
  BY <1>1, <1>2, <1>3 DEF IInv

-----------------------------------------------------------------------------
(***************************************************************************)
(* The end of a run, whatever ended it, keeps the invariant of the others. *)
(***************************************************************************)
LEMMA ExitTypes ==
  ASSUME TypeOK, NEW r \in Run, Exit(r)
  PROVE  /\ userlock' \in [LockFile -> Run \union {Nobody}]
         /\ slotlock' \in Run \union {Nobody}
         /\ pc' \in [Run -> Labels]
         /\ slot' \in [Run -> Slot \union {NoSlot}]
         /\ due' \in [Run -> Int]
         /\ now' \in [Run -> Time]
         /\ state' \in [Run -> SUBSET Slot]
<1>1. 0 \in Time /\ "idle" \in Labels
  BY Assumptions DEF Time, Labels
<1>2. QED
  BY <1>1 DEF TypeOK, Exit, Goto, Forget, Dropped

LEMMA ExitOthers ==
  ASSUME TypeOK, NEW r \in Run, Exit(r), \A q \in Run : RunInv(q)
  PROVE  /\ pc'[r] = "idle" /\ slotlock' # r
         /\ \A q \in Run \ {r} :
              /\ pc'[q] = pc[q] /\ slot'[q] = slot[q] /\ due'[q] = due[q]
              /\ now'[q] = now[q] /\ state'[q] = state[q]
              /\ slotlock' = q <=> slotlock = q
              /\ userlock[LockOf[q]] = q => userlock'[LockOf[q]] = q
  BY Assumptions DEF TypeOK, Exit, Goto, Forget, Dropped

\* A run that ends without saving.
LEMMA DiesIInv ==
  ASSUME IInv, NEW r \in Run, Dies(r),
         \/ child' = child
         \/ child' = [child EXCEPT ![r] = NoSlot]
  PROVE  IInv'
<1> USE DEF IInv
<1>1. Exit(r) /\ UNCHANGED <<clock, completed, ran>>
  BY DEF Dies
<1>2. pc[r] \in {"execute", "save"} => slot[r] \in Slot
  BY DEF RunInv
<1>3. TypeOK'
  <2>1. lost' \subseteq Slot
    BY <1>2 DEF Dies, TypeOK
  <2>2. QED
    BY <1>1, <2>1, ExitTypes DEF TypeOK
<1>4. ASSUME NEW q \in Run PROVE RunInv(q)'
  <2>1. CASE q = r
    BY <1>1, <2>1, ExitOthers DEF RunInv, TypeOK
  <2>2. CASE q # r
    BY <1>1, <2>2, ExitOthers DEF RunInv, TypeOK
  <2>3. QED
    BY <2>1, <2>2
<1>5. Remembered'
  <2> SUFFICES ASSUME NEW s \in ran \ lost', s \notin completed
               PROVE  \E q \in Run : \/ pc'[q] = "execute" /\ slot'[q] = s
                                     \/ pc'[q] = "save" /\ s \in state'[q]
    BY <1>1 DEF Remembered
  <2>1. s \notin lost
    BY DEF Dies
  <2>2. PICK q \in Run : \/ pc[q] = "execute" /\ slot[q] = s
                         \/ pc[q] = "save" /\ s \in state[q]
    BY <2>1 DEF Remembered
  <2>3. q # r
    BY <2>2 DEF Dies, RunInv
  <2>4. QED
    BY <1>1, <2>2, <2>3, ExitOthers
<1>6. QED
  BY <1>3, <1>4, <1>5

-----------------------------------------------------------------------------
(***************************************************************************)
(* Every step keeps the invariant: an action of a run at a time.           *)
(***************************************************************************)
LEMMA StartIInv == ASSUME IInv, NEW r \in Run, Start(r) PROVE IInv'
<1> USE DEF IInv, Start, Goto, locks, target, history
<1>1. TypeOK'
  BY Assumptions DEF TypeOK, Labels
<1>2. ASSUME NEW q \in Run PROVE RunInv(q)'
  BY Assumptions DEF RunInv, TypeOK
<1>3. Remembered'
  BY DEF Remembered, TypeOK
<1>4. QED
  BY <1>1, <1>2, <1>3

LEMMA ReadClockIInv == ASSUME IInv, NEW r \in Run, ReadClock(r) PROVE IInv'
<1> USE DEF IInv
<1>1. PICK s \in Slot, t \in Int :
        slot' = [slot EXCEPT ![r] = s] /\ due' = [due EXCEPT ![r] = t]
  BY Targets DEF ReadClock
<1>2. /\ pc[r] = "clock" /\ pc' = [pc EXCEPT ![r] = "flock"]
      /\ now' = [now EXCEPT ![r] = clock]
      /\ UNCHANGED <<clock, completed, userlock, slotlock, state, child, ran, lost>>
  BY DEF ReadClock, Goto, locks, history
<1>3. TypeOK'
  BY <1>1, <1>2 DEF TypeOK, Labels
<1>4. ASSUME NEW q \in Run PROVE RunInv(q)'
  BY <1>1, <1>2 DEF RunInv, TypeOK
<1>5. Remembered'
  BY <1>1, <1>2 DEF Remembered, TypeOK
<1>6. QED
  BY <1>3, <1>4, <1>5

LEMMA TakeSlotLockIInv == ASSUME IInv, NEW r \in Run, TakeSlotLock(r) PROVE IInv'
<1> USE DEF IInv, TakeSlotLock, Goto, target, history
<1>1. TypeOK'
  BY DEF TypeOK, Labels
<1>2. ASSUME NEW q \in Run PROVE RunInv(q)'
  BY Assumptions DEF RunInv, TypeOK
<1>3. Remembered'
  BY DEF Remembered, TypeOK
<1>4. QED
  BY <1>1, <1>2, <1>3

LEMMA LoadIInv == ASSUME IInv, NEW r \in Run, Load(r) PROVE IInv'
<1> USE DEF IInv, Load, Goto, target, locks, history
<1>1. TypeOK'
  BY DEF TypeOK, Labels
<1>2. ASSUME NEW q \in Run PROVE RunInv(q)'
  BY DEF ShouldRun, RunInv, TypeOK
<1>3. Remembered'
  BY DEF Remembered, TypeOK
<1>4. QED
  BY <1>1, <1>2, <1>3

\* Only the holder of the slot lock is between load and save.
LEMMA OneInside ==
  ASSUME IInv, NEW r \in Run, NEW q \in Run, pc[r] \in Inside, q # r
  PROVE  pc[q] \notin Inside
  BY DEF IInv, RunInv

LEMMA StartJobIInv == ASSUME IInv, NEW r \in Run, StartJob(r) PROVE IInv'
<1> USE DEF IInv, StartJob, Goto, target, locks, history
<1>1. slot[r] \in Slot
  BY DEF RunInv
<1>2. TypeOK'
  BY <1>1 DEF TypeOK, Labels
<1>3. ASSUME NEW q \in Run PROVE RunInv(q)'
  BY DEF RunInv, TypeOK
<1>4. Remembered'
  BY DEF Remembered, TypeOK
<1>5. QED
  BY <1>2, <1>3, <1>4

LEMMA JobEndsIInv == ASSUME IInv, NEW r \in Run, JobEnds(r) PROVE IInv'
<1> USE DEF IInv, JobEnds, Goto, target, locks, history
<1>1. slot[r] \in Slot
  BY DEF RunInv
<1>2. TypeOK'
  BY <1>1 DEF TypeOK, Labels
<1>3. ASSUME NEW q \in Run PROVE RunInv(q)'
  BY DEF RunInv, TypeOK
<1>4. Remembered'
  BY DEF Remembered, TypeOK
<1>5. QED
  BY <1>2, <1>3, <1>4

\* The saved state holds everything that was completed, and nobody else has
\* loaded an older one.
LEMMA SaveIInv == ASSUME IInv, NEW r \in Run, Save(r) PROVE IInv' /\ completed \subseteq completed'
<1> USE DEF IInv
<1>1. pc[r] = "save" /\ completed' = state[r] /\ Exit(r) /\ UNCHANGED <<clock, child, ran, lost>>
  BY DEF Save, history
<1>2. completed \subseteq completed'
  BY <1>1 DEF RunInv
<1>3. TypeOK'
  BY <1>1, ExitTypes DEF TypeOK
<1>4. ASSUME NEW q \in Run PROVE RunInv(q)'
  <2>1. CASE q = r
    BY <1>1, <2>1, ExitOthers DEF RunInv, TypeOK
  <2>2. CASE q # r
    BY <1>1, <2>2, ExitOthers, OneInside DEF RunInv, TypeOK
  <2>3. QED
    BY <2>1, <2>2
<1>5. Remembered'
  BY <1>1, <1>2, ExitOthers, OneInside DEF Remembered
<1>6. QED
  BY <1>2, <1>3, <1>4, <1>5

LEMMA FaultsIInv ==
  ASSUME IInv, NEW r \in Run, Raises(r) \/ Stopped(r) \/ Killed(r)
  PROVE  IInv'
<1>1. CASE Raises(r)
  BY <1>1, DiesIInv DEF Raises
<1>2. CASE Stopped(r)
  BY <1>2, DiesIInv DEF Stopped
<1>3. CASE Killed(r)
  BY <1>3, DiesIInv DEF Killed
<1>4. QED
  BY <1>1, <1>2, <1>3

LEMMA OrphanEndsIInv == ASSUME IInv, NEW r \in Run, OrphanEnds(r) PROVE IInv'
<1> USE DEF IInv, OrphanEnds, target, locks, history
<1>1. TypeOK'
  BY DEF TypeOK
<1>2. ASSUME NEW q \in Run PROVE RunInv(q)'
  BY DEF RunInv, TypeOK
<1>3. Remembered'
  BY DEF Remembered, TypeOK
<1>4. QED
  BY <1>1, <1>2, <1>3

LEMMA TickIInv == ASSUME IInv, Tick PROVE IInv'
<1> USE DEF IInv, Tick, target, locks, history
<1>1. TypeOK'
  BY Assumptions DEF TypeOK, Time
<1>2. ASSUME NEW q \in Run PROVE RunInv(q)'
  BY DEF RunInv
<1>3. Remembered'
  BY DEF Remembered
<1>4. QED
  BY <1>1, <1>2, <1>3

LEMMA StepIInv == ASSUME IInv, [Next]_vars PROVE IInv'
<1>1. CASE UNCHANGED vars
  BY <1>1 DEF vars, IInv, TypeOK, RunInv, Remembered
<1>2. CASE Tick
  BY <1>2, TickIInv
<1>3. ASSUME NEW r \in Run, Step(r) PROVE IInv'
  BY <1>3, StartIInv, ReadClockIInv, TakeSlotLockIInv, LoadIInv, StartJobIInv,
     JobEndsIInv, SaveIInv, FaultsIInv, OrphanEndsIInv DEF Step, Script
<1>4. QED
  BY <1>1, <1>2, <1>3 DEF Next

-----------------------------------------------------------------------------
\* The inductive invariant holds in every behaviour.
THEOREM Invariance == Spec => []IInv
<1>1. Init => IInv
  BY InitIInv
<1>2. IInv /\ [Next]_vars => IInv'
  BY StepIInv
<1>3. QED
  BY <1>1, <1>2, PTL DEF Spec

\* Every variable keeps its type.
THEOREM TypeCorrect == Spec => []TypeOK
<1>1. IInv => TypeOK
  BY DEF IInv
<1>2. QED
  BY <1>1, Invariance, PTL

\* No two jobs execute at once, but for one a killed run left behind, whatever
\* per-user lock files the runs open (jobs.py, run_persisted_slot).
THEOREM NoOverlapHolds == Spec => []NoOverlap
<1>1. IInv => NoOverlap
  <2> SUFFICES ASSUME IInv, NEW r \in Run, NEW q \in Run, r # q,
                      child[r] # NoSlot, child[q] # NoSlot,
                      pc[r] # "idle", pc[q] # "idle"
               PROVE  FALSE
    BY DEF NoOverlap
  <2>1. pc[r] = "execute" /\ pc[q] = "execute"
    BY DEF IInv, RunInv
  <2>2. QED
    BY <2>1, OneInside
<1>2. QED
  BY <1>1, Invariance, PTL

\* No failure and no interleaving makes slots.json forget a completed slot.
THEOREM CompletedStaysHolds == Spec => CompletedStays
<1>1. IInv /\ [Next]_vars => [completed \subseteq completed']_vars
  <2> SUFFICES ASSUME IInv, Next PROVE completed \subseteq completed'
    BY DEF vars
  <2>1. CASE Tick
    BY <2>1 DEF Tick
  <2>2. ASSUME NEW r \in Run, Step(r) PROVE completed \subseteq completed'
    BY <2>2, SaveIInv
       DEF Step, Script, Start, ReadClock, TakeSlotLock, Load, StartJob, JobEnds,
           Raises, Stopped, Killed, OrphanEnds, Dies
  <2>3. QED
    BY <2>1, <2>2 DEF Next
<1>2. QED
  BY <1>1, Invariance, PTL DEF Spec, CompletedStays

\* Only StartJob starts a job, and with the child's slot.
LEMMA Starting ==
  ASSUME IInv, Next, NEW r \in Run, JobStarts(r)
  PROVE  pc[r] = "start" /\ child'[r] = slot[r] /\ slot[r] \in Slot
<1>1. child' # child
  BY DEF JobStarts
<1>2. PICK q \in Run : StartJob(q) \/ JobEnds(q) \/ Stopped(q) \/ OrphanEnds(q)
  BY <1>1 DEF Next, Step, Script, Tick, Start, ReadClock, TakeSlotLock, Load, Save,
              Raises, Killed, Dies
<1>3. StartJob(q) /\ q = r
  BY <1>2 DEF JobStarts, StartJob, JobEnds, Stopped, OrphanEnds, IInv, TypeOK
<1>4. QED
  BY <1>3 DEF StartJob, IInv, TypeOK, RunInv

\* The job of a slot is started again only when an earlier run of it ended
\* before it could save, whatever fails (jobs.py, run_persisted_slot).
THEOREM OncePerSlotHolds == Spec => OncePerSlot
<1>1. IInv /\ [Next]_vars
        => [\A r \in Run : JobStarts(r) => child'[r] \notin ran \ lost]_vars
  <2> SUFFICES ASSUME IInv, Next, NEW r \in Run, JobStarts(r)
               PROVE  child'[r] \notin ran \ lost
    BY DEF vars
  <2>1. pc[r] = "start" /\ child'[r] = slot[r]
    BY Starting
  <2>2. slot[r] \notin completed
    BY <2>1 DEF IInv, RunInv
  <2>3. \A q \in Run : pc[q] \notin {"execute", "save"}
    BY <2>1, OneInside
  <2>4. QED
    BY <2>1, <2>2, <2>3 DEF IInv, Remembered
<1>2. QED
  BY <1>1, Invariance, PTL DEF Spec, OncePerSlot

(***************************************************************************)
(* What RunsEnd rests on: a run passes its steps once, and one that waits  *)
(* for slots.json.lock waits for a run that needs no lock any more.        *)
(***************************************************************************)
StepsLeft(r) ==
  CASE pc[r] = "clock" -> 6
    [] pc[r] = "flock" -> 5
    [] pc[r] = "load" -> 4
    [] pc[r] = "start" -> 3
    [] pc[r] = "execute" -> 2
    [] pc[r] = "save" -> 1
    [] OTHER -> 0

\* No step, of whatever run, of a job or of a fault, takes a run back.
RunsMoveOn ==
  [][\A r \in Run : pc'[r] # pc[r] => StepsLeft(r)' < StepsLeft(r) \/ Start(r)]_vars

Blocked(r) == pc[r] = "flock" /\ slotlock # Nobody

\* Waiting for slots.json.lock can be no circle, whatever per-user locks the
\* runs hold: who has it is past both locks.
WaitsForOneInside == \A r \in Run : Blocked(r) => slotlock \in Run /\ pc[slotlock] \in Inside

\* A run of the script goes through each of its steps at most once, whatever
\* fails.
THEOREM RunsMoveOnHolds == Spec => RunsMoveOn
<1>1. ASSUME IInv, [Next]_vars
      PROVE  [\A r \in Run : pc'[r] # pc[r] => StepsLeft(r)' < StepsLeft(r) \/ Start(r)]_vars
  <2> SUFFICES ASSUME Next, NEW r \in Run, pc'[r] # pc[r], ~Start(r)
               PROVE  StepsLeft(r)' < StepsLeft(r)
    BY <1>1
  <2>1. PICK q \in Run : Step(q)
    BY DEF Next, Tick
  <2>2. q = r
    BY <1>1, <2>1 DEF IInv, TypeOK, Step, Script, Start, ReadClock, TakeSlotLock, Load, StartJob,
       JobEnds, Save, Raises, Stopped, Killed, OrphanEnds, Dies, Exit, Goto
  <2>3. CASE ReadClock(r) \/ TakeSlotLock(r) \/ Load(r) \/ StartJob(r) \/ JobEnds(r)
    BY <1>1, <2>3 DEF IInv, TypeOK, StepsLeft, ReadClock, TakeSlotLock, Load, StartJob, JobEnds, Goto
  <2>4. CASE Save(r) \/ Raises(r) \/ Stopped(r) \/ Killed(r)
    <3>1. pc'[r] = "idle" /\ pc[r] \in Labels \ {"idle"}
      BY <1>1, <2>4 DEF IInv, TypeOK, Save, Raises, Stopped, Killed, Dies, Exit, Goto
    <3> QED BY <3>1 DEF StepsLeft, Labels
  <2>5. CASE OrphanEnds(r)
    BY <2>5 DEF OrphanEnds
  <2> QED BY <2>1, <2>2, <2>3, <2>4, <2>5 DEF Step, Script
<1> QED BY <1>1, Invariance, PTL DEF Spec, RunsMoveOn

\* Whoever waits in flock waits for a run that goes on by itself.
THEOREM WaitsForOneInsideHolds == Spec => []WaitsForOneInside
<1>1. IInv => WaitsForOneInside
  BY Assumptions DEF IInv, TypeOK, RunInv, WaitsForOneInside, Blocked
<1> QED BY <1>1, Invariance, PTL

-----------------------------------------------------------------------------
(***************************************************************************)
(* SchedulerReinstall, for every export of distinct units.                 *)
(***************************************************************************)
Wanted(k) == IF export.jobs[k].enabled THEN "rendered" ELSE "absent"
Replaced(k) == unit[export.jobs[k].unit] = "rendered"
Scheduled(k) == loaded[export.jobs[k].unit] = Wanted(k)
Activating == phase \in {"bootout", "bootstrap", "verify"}

\* What the program counter says, whatever users and faults do.
Course ==
  /\ phase \in {"bootstrap", "verify"} => More
  /\ phase = "bootstrap" => At.enabled
  /\ phase = "prepare" /\ export.digests => entry = 1
  /\ Activating /\ export.digests => export.jobs = <<>>
  /\ result # "none" => phase = "idle"
  /\ phase = "idle" => entry = 1

\* A reinstall whose export carries digests of its units does not succeed.
DigestsRefused == result = "true" /\ export.digests => export.jobs = <<>>

\* While no user interferes, the units before the entry are done.
Undisturbed ==
  /\ phase = "prepare" => \A k \in 1 .. entry - 1 : Replaced(k)
  /\ Activating => /\ \A k \in DOMAIN export.jobs : Replaced(k)
                   /\ \A k \in 1 .. entry - 1 : Scheduled(k)
  /\ phase = "verify" /\ At.enabled => Scheduled(entry)

\* While launchctl does what it is told, the unit at the entry is done too.
Obeyed ==
  /\ phase = "bootstrap" => loaded[At.unit] = "absent"
  /\ phase = "verify" => Scheduled(entry)

Quiet == "busy" \notin ReinstallFaults
Sound == "fail" \notin ReinstallFaults

ReinstallIInv ==
  /\ ReinstallTypeOK /\ Course /\ DigestsRefused
  /\ Quiet => Undisturbed /\ TrueMeansScheduled
  /\ Quiet /\ Sound => Obeyed /\ RaisedForCause

\* What the assumptions say of an export.
LEMMA ExportShape ==
  ASSUME ReinstallTypeOK
  PROVE  /\ export.jobs \in Seq(Entry) /\ export.digests \in BOOLEAN
         /\ Len(export.jobs) \in Nat /\ entry \in Nat /\ entry >= 1
         /\ DOMAIN export.jobs = 1 .. Len(export.jobs)
         /\ \A k \in 1 .. Len(export.jobs) :
              /\ export.jobs[k].unit \in Unit /\ export.jobs[k].enabled \in BOOLEAN
              /\ \A j \in 1 .. Len(export.jobs) :
                   export.jobs[j].unit = export.jobs[k].unit => j = k
<1>1. export.jobs \in Seq(Entry) /\ export.digests \in BOOLEAN
  BY ReinstallAssumption DEF ReinstallTypeOK
<1>2. /\ Len(export.jobs) \in Nat /\ DOMAIN export.jobs = 1 .. Len(export.jobs)
      /\ \A k \in 1 .. Len(export.jobs) : export.jobs[k] \in Entry
  BY <1>1
<1>3. entry \in Nat /\ entry >= 1
  BY <1>2 DEF ReinstallTypeOK
<1>4. \A j, k \in DOMAIN export.jobs : export.jobs[j].unit = export.jobs[k].unit => j = k
  BY OneEntryPerUnit DEF ReinstallTypeOK
<1>5. QED
  BY <1>1, <1>2, <1>3, <1>4 DEF Entry

LEMMA InitReinstallIInv == ReinstallInit => ReinstallIInv
<1> SUFFICES ASSUME ReinstallInit PROVE ReinstallIInv
  OBVIOUS
<1>1. ReinstallTypeOK
  <2>1. Len(export.jobs) \in Nat
    BY ReinstallAssumption DEF ReinstallInit
  <2>2. QED
    BY <2>1 DEF ReinstallInit, ReinstallTypeOK, Text
<1>2. QED
  BY <1>1 DEF ReinstallInit, ReinstallIInv, Course, DigestsRefused, Undisturbed, Obeyed,
    Activating, TrueMeansScheduled, RaisedForCause

\* A call that ends leaves the units as they are.
LEMMA EndKeeps ==
  ASSUME ReinstallIInv, NEW r \in {"true", "raised", "failed"}, End(r),
         UNCHANGED <<export, unit, loaded>>,
         r = "true" => /\ export.digests => export.jobs = <<>>
                       /\ Quiet => TrueMeansScheduled',
         r = "raised" /\ Quiet /\ Sound => RaisedForCause'
  PROVE  ReinstallIInv'
<1>1. ReinstallTypeOK'
  BY ExportShape DEF ReinstallIInv, ReinstallTypeOK, End
<1>2. QED
  BY <1>1 DEF ReinstallIInv, End, Course, DigestsRefused, Undisturbed, Obeyed,
    Activating, TrueMeansScheduled, RaisedForCause

LEMMA NextReinstallIInv ==
  ReinstallIInv /\ [ReinstallNext]_reinstallVars => ReinstallIInv'
<1> SUFFICES ASSUME ReinstallIInv, [ReinstallNext]_reinstallVars PROVE ReinstallIInv'
  OBVIOUS
<1> DEFINE jobs == export.jobs
<1>t. ReinstallTypeOK /\ Course /\ DigestsRefused
  BY DEF ReinstallIInv
<1>s. /\ jobs \in Seq(Entry) /\ export.digests \in BOOLEAN
      /\ Len(jobs) \in Nat /\ entry \in Nat /\ entry >= 1
      /\ DOMAIN jobs = 1 .. Len(jobs)
      /\ \A k \in 1 .. Len(jobs) :
           /\ jobs[k].unit \in Unit /\ jobs[k].enabled \in BOOLEAN
           /\ \A j \in 1 .. Len(jobs) : jobs[j].unit = jobs[k].unit => j = k
  BY <1>t, ExportShape
<1>at. More => /\ At.unit \in Unit /\ At.enabled \in BOOLEAN /\ At = jobs[entry]
               /\ \A k \in 1 .. entry - 1 : jobs[k].unit # At.unit
               /\ entry \in DOMAIN jobs
  <2> SUFFICES ASSUME More
               PROVE  /\ At.unit \in Unit /\ At.enabled \in BOOLEAN
                      /\ \A k \in 1 .. entry - 1 : jobs[k].unit # At.unit
                      /\ entry \in DOMAIN jobs
    BY DEF At
  <2>1. entry \in 1 .. Len(jobs)
    BY <1>s DEF More
  <2>2. \A k \in 1 .. entry - 1 : k \in 1 .. Len(jobs) /\ k # entry
    BY <1>s, <2>1
  <2>3. At = jobs[entry]
    BY DEF At
  <2>4. QED
    BY <1>s, <2>1, <2>2, <2>3
<1>1. CASE Begin
  <2>1. entry = 1 /\ 1 .. entry - 1 = {}
    BY <1>1, <1>t DEF Begin, Course
  <2>2. QED
    BY <1>1, <1>t, <2>1 DEF Begin, ReinstallIInv, ReinstallTypeOK, Course, DigestsRefused,
      Undisturbed, Obeyed, Activating, TrueMeansScheduled, RaisedForCause
<1>2. CASE Collides
  <2>1. RaisedForCause'
    BY <1>2, <1>at DEF Collides, RaisedForCause
  <2>2. QED
    BY <1>2, <2>1, EndKeeps DEF Collides
<1>3. CASE Replace
  <2>1. unit' \in [Unit -> Text] /\ unit'[At.unit] = "rendered"
        /\ \A u \in Unit : unit'[u] = unit[u] \/ unit'[u] = "rendered"
    BY <1>3, <1>t, <1>at DEF Replace, ReinstallTypeOK, Text
  <2>2. CASE export.digests
    BY <1>3, <1>t, <1>s, <2>1, <2>2 DEF Replace, End, ReinstallIInv, ReinstallTypeOK, Course,
      DigestsRefused, Undisturbed, Obeyed, Activating, TrueMeansScheduled, RaisedForCause
  <2>3. CASE ~export.digests
    <3>1. ReinstallTypeOK'
      BY <1>3, <1>t, <1>s, <2>1, <2>3 DEF Replace, More, ReinstallTypeOK
    <3>2. Course' /\ DigestsRefused'
      BY <1>3, <1>t, <2>3 DEF Replace, Course, DigestsRefused, Activating
    <3>3. ASSUME Quiet PROVE Undisturbed'
      <4>1. \A k \in 1 .. entry - 1 : Replaced(k)
        BY <1>3, <3>3 DEF Replace, ReinstallIInv, Undisturbed
      <4>2. \A k \in 1 .. entry : k \in DOMAIN jobs /\ (k = entry \/ k \in 1 .. entry - 1)
        BY <1>3, <1>s DEF Replace, More
      <4>3. \A k \in 1 .. entry : Replaced(k)'
        BY <1>3, <1>s, <1>at, <2>1, <4>1, <4>2 DEF Replace, Replaced
      <4>4. QED
        BY <1>3, <1>s, <2>3, <4>3 DEF Replace, Undisturbed, Activating
    <3>4. result' # "true" /\ result' # "raised" /\ phase' = "prepare"
      BY <1>3, <1>t, <2>3 DEF Replace, Course
    <3>5. QED
      BY <3>1, <3>2, <3>3, <3>4 DEF ReinstallIInv, TrueMeansScheduled, RaisedForCause, Obeyed
  <2>4. QED
    BY <2>2, <2>3
<1>4. CASE Prepared
  <2>1. ReinstallTypeOK'
    BY <1>4, <1>t, <1>s DEF Prepared, ReinstallTypeOK
  <2>2. export.digests => jobs = <<>>
    BY <1>4, <1>t, <1>s DEF Prepared, Course, More
  <2>3. Course' /\ DigestsRefused'
    BY <1>4, <1>t, <2>2 DEF Prepared, Course, DigestsRefused, Activating
  <2>4. ASSUME Quiet PROVE Undisturbed'
    <3>1. \A k \in DOMAIN jobs : Replaced(k)
      BY <1>4, <1>s, <2>4 DEF Prepared, More, ReinstallIInv, Undisturbed
    <3>2. QED
      BY <1>4, <3>1 DEF Prepared, Undisturbed, Activating, Replaced
  <2>5. result' # "true" /\ result' # "raised" /\ phase' = "bootout"
    BY <1>4, <1>t DEF Prepared, Course
  <2>6. QED
    BY <2>1, <2>3, <2>4, <2>5 DEF ReinstallIInv, TrueMeansScheduled, RaisedForCause, Obeyed
<1>5. CASE Bootout
  <2>1. /\ loaded' \in [Unit -> Text]
        /\ \A u \in Unit : u # At.unit => loaded'[u] = loaded[u]
        /\ Sound => loaded'[At.unit] = "absent"
    BY <1>5, <1>t, <1>at DEF Bootout, ReinstallTypeOK, Text, Sound
  <2>2. ReinstallTypeOK'
    BY <1>5, <1>t, <2>1 DEF Bootout, ReinstallTypeOK
  <2>3. Course' /\ DigestsRefused'
    BY <1>5, <1>t DEF Bootout, Course, DigestsRefused, Activating, More, At
  <2>4. ASSUME Quiet PROVE Undisturbed'
    <3>1. \A k \in DOMAIN jobs : Replaced(k)
      BY <1>5, <2>4 DEF Bootout, ReinstallIInv, Undisturbed, Activating
    <3>2. \A k \in 1 .. entry - 1 : Scheduled(k)
      BY <1>5, <2>4 DEF Bootout, ReinstallIInv, Undisturbed, Activating
    <3>3. \A k \in 1 .. entry - 1 : Scheduled(k)'
      <4>1. \A k \in 1 .. entry - 1 : k \in 1 .. Len(jobs)
        BY <1>5, <1>s DEF Bootout, More
      <4>2. QED
        BY <1>5, <1>s, <1>at, <2>1, <3>2, <4>1 DEF Bootout, Scheduled, Wanted
    <3>4. phase' = "verify" => ~At.enabled
      BY <1>5 DEF Bootout
    <3>5. QED
      BY <1>5, <3>1, <3>3, <3>4 DEF Bootout, Undisturbed, Activating, Replaced, At
  <2>5. Sound => Obeyed'
    BY <1>5, <2>1, <1>at DEF Bootout, Obeyed, At, Scheduled, Wanted
  <2>6. result' # "true" /\ result' # "raised"
    BY <1>5, <1>t DEF Bootout, Course
  <2>7. QED
    BY <2>2, <2>3, <2>4, <2>5, <2>6 DEF ReinstallIInv, TrueMeansScheduled, RaisedForCause
<1>6. CASE Bootstrap
  <2>1. More /\ At.enabled
    BY <1>6, <1>t DEF Bootstrap, Course
  <2>2. /\ loaded' \in [Unit -> Text]
        /\ \A u \in Unit : u # At.unit => loaded'[u] = loaded[u]
        /\ loaded'[At.unit] = unit[At.unit]
    BY <1>6, <1>t, <1>at, <2>1 DEF Bootstrap, ReinstallTypeOK
  <2>3. ReinstallTypeOK'
    BY <1>6, <1>t, <2>2 DEF Bootstrap, ReinstallTypeOK
  <2>4. Course' /\ DigestsRefused'
    BY <1>6, <1>t, <2>1 DEF Bootstrap, Course, DigestsRefused, Activating, More, At
  <2>5. ASSUME Quiet PROVE Undisturbed' /\ Scheduled(entry)'
    <3>1. \A k \in DOMAIN jobs : Replaced(k)
      BY <1>6, <2>5 DEF Bootstrap, ReinstallIInv, Undisturbed, Activating
    <3>2. \A k \in 1 .. entry - 1 : Scheduled(k)
      BY <1>6, <2>5 DEF Bootstrap, ReinstallIInv, Undisturbed, Activating
    <3>3. \A k \in 1 .. entry - 1 : Scheduled(k)'
      <4>1. \A k \in 1 .. entry - 1 : k \in 1 .. Len(jobs)
        BY <1>s, <2>1 DEF More
      <4>2. QED
        BY <1>6, <1>s, <1>at, <2>1, <2>2, <3>2, <4>1 DEF Bootstrap, Scheduled, Wanted
    <3>4. Scheduled(entry)'
      BY <1>6, <1>s, <1>at, <2>1, <2>2, <3>1 DEF Bootstrap, Scheduled, Wanted, Replaced, At
    <3>5. QED
      BY <1>6, <3>1, <3>3, <3>4 DEF Bootstrap, Undisturbed, Activating, Replaced
  <2>6. result' # "true" /\ result' # "raised" /\ phase' = "verify"
    BY <1>6, <1>t DEF Bootstrap, Course
  <2>7. QED
    BY <2>3, <2>4, <2>5, <2>6 DEF ReinstallIInv, TrueMeansScheduled, RaisedForCause, Obeyed
<1>7. CASE BootstrapRefused
  <2>1. ASSUME Quiet, Sound PROVE FALSE
    <3>1. loaded[At.unit] = "absent"
      BY <1>7, <2>1 DEF BootstrapRefused, ReinstallIInv, Obeyed
    <3>2. unit[At.unit] = "rendered"
      BY <1>7, <1>t, <1>at, <2>1
        DEF BootstrapRefused, Course, ReinstallIInv, Undisturbed, Activating, Replaced
    <3>3. QED
      BY <1>7, <3>1, <3>2 DEF BootstrapRefused
  <2>2. QED
    BY <1>7, <2>1, EndKeeps DEF BootstrapRefused
<1>8. CASE Verify
  <2>1. More
    BY <1>8, <1>t DEF Verify, Course
  <2>2. CASE (loaded[At.unit] # "absent") = At.enabled
    <3>1. ReinstallTypeOK'
      BY <1>8, <1>t, <1>s, <2>1, <2>2 DEF Verify, ReinstallTypeOK, More
    <3>2. Course' /\ DigestsRefused'
      BY <1>8, <1>t, <2>2 DEF Verify, Course, DigestsRefused, Activating
    <3>3. ASSUME Quiet PROVE Undisturbed'
      <4>1. /\ \A k \in DOMAIN jobs : Replaced(k)
            /\ \A k \in 1 .. entry - 1 : Scheduled(k)
            /\ At.enabled => Scheduled(entry)
        BY <1>8, <3>3 DEF Verify, ReinstallIInv, Undisturbed, Activating
      <4>2. Scheduled(entry)
        BY <1>at, <2>1, <2>2, <4>1 DEF Scheduled, Wanted
      <4>3. \A k \in 1 .. entry : Scheduled(k)
        BY <1>s, <4>1, <4>2
      <4>4. QED
        BY <1>8, <1>s, <2>2, <4>1, <4>3
          DEF Verify, Undisturbed, Activating, Replaced, Scheduled, Wanted
    <3>4. result' # "true" /\ result' # "raised" /\ phase' = "bootout"
      BY <1>8, <1>t, <2>2 DEF Verify, Course
    <3>5. QED
      BY <3>1, <3>2, <3>3, <3>4 DEF ReinstallIInv, TrueMeansScheduled, RaisedForCause, Obeyed
  <2>3. CASE (loaded[At.unit] # "absent") # At.enabled
    <3>1. ASSUME Quiet, Sound PROVE FALSE
      <4>1. Scheduled(entry)
        BY <1>8, <3>1 DEF Verify, ReinstallIInv, Obeyed
      <4>2. QED
        BY <1>at, <2>1, <2>3, <4>1 DEF Scheduled, Wanted
    <3>2. QED
      BY <1>8, <2>3, <3>1, EndKeeps DEF Verify
  <2>4. QED
    BY <2>2, <2>3
<1>9. CASE Return
  <2>1. export.digests => jobs = <<>>
    BY <1>9, <1>t DEF Return, Course, Activating
  <2>2. ASSUME Quiet PROVE TrueMeansScheduled'
    <3>1. /\ \A k \in DOMAIN jobs : Replaced(k)
          /\ \A k \in 1 .. entry - 1 : Scheduled(k)
      BY <1>9, <2>2 DEF Return, ReinstallIInv, Undisturbed, Activating
    <3>2. \A k \in DOMAIN jobs : Scheduled(k)
      BY <1>9, <1>s, <3>1 DEF Return, More
    <3>3. QED
      BY <1>9, <3>1, <3>2 DEF Return, TrueMeansScheduled, Replaced, Scheduled, Wanted
  <2>3. QED
    BY <1>9, <2>1, <2>2, EndKeeps DEF Return
<1>10. CASE Stops
  BY <1>10, EndKeeps DEF Stops
<1>11. CASE UserActs
  <2>1. ReinstallTypeOK'
    BY <1>11, <1>t DEF UserActs, ReinstallTypeOK, Text
  <2>2. Course' /\ DigestsRefused'
    BY <1>11, <1>t DEF UserActs, Course, DigestsRefused, Activating, More, At
  <2>3. Quiet => phase' = "idle"
    BY <1>11 DEF UserActs, Quiet
  <2>4. result' = "none"
    BY <1>11 DEF UserActs
  <2>5. QED
    BY <2>1, <2>2, <2>3, <2>4
      DEF ReinstallIInv, Undisturbed, Activating, Obeyed, TrueMeansScheduled, RaisedForCause
<1>12. CASE UNCHANGED reinstallVars
  BY <1>12, <1>t DEF reinstallVars, ReinstallIInv, ReinstallTypeOK, Course, DigestsRefused,
    Undisturbed, Obeyed, Activating, TrueMeansScheduled, RaisedForCause, More, At, Replaced,
    Scheduled, Wanted
<1>13. QED
  BY <1>1, <1>2, <1>3, <1>4, <1>5, <1>6, <1>7, <1>8, <1>9, <1>10, <1>11, <1>12
    DEF ReinstallNext, Reinstall

LEMMA ReinstallInvariant == ReinstallSpec => []ReinstallIInv
  BY InitReinstallIInv, NextReinstallIInv, PTL DEF ReinstallSpec

\* The variables of SchedulerReinstall keep their types.
THEOREM ReinstallTypes == ReinstallSpec => []ReinstallTypeOK
<1>1. ReinstallIInv => ReinstallTypeOK
  BY DEF ReinstallIInv
<1>2. QED
  BY <1>1, ReinstallInvariant, PTL

\* When reinstall_owned_jobs returns True and no user wrote or loaded a unit
\* meanwhile, every unit of the export is scheduled as it says, in the text
\* this version renders, whatever commands failed and however often it was
\* killed before.
THEOREM SuccessIsScheduled ==
  ASSUME Quiet PROVE ReinstallSpec => []TrueMeansScheduled
<1>1. ReinstallIInv => TrueMeansScheduled
  BY DEF ReinstallIInv
<1>2. QED
  BY <1>1, ReinstallInvariant, PTL

\* An export that carries digests of its units, as the systemd installer's
\* does, is never reinstalled with success: the digest is of the installer's
\* text and is compared with the library's.
THEOREM NoDigestSucceeds == ReinstallSpec => []DigestsRefused
<1>1. ReinstallIInv => DigestsRefused
  BY DEF ReinstallIInv
<1>2. QED
  BY <1>1, ReinstallInvariant, PTL

\* Digests apart, a reinstall in which no command fails raises only over a
\* unit that is not owned.
THEOREM RaisesForCause ==
  ASSUME Quiet, Sound PROVE ReinstallSpec => []RaisedForCause
<1>1. ReinstallIInv => RaisedForCause
  BY DEF ReinstallIInv
<1>2. QED
  BY <1>1, ReinstallInvariant, PTL

=============================================================================
