----------------------------- MODULE SlotRunner -----------------------------
(***************************************************************************)
(* bin/latticemind-maintain over latticemind_core/jobs.py: runs of the     *)
(* maintenance script, started by timers and by hand, each execute at most *)
(* one job for one slot.  The script holds a per-user lock for its         *)
(* lifetime; run_persisted_slot holds a lock next to slots.json while it   *)
(* loads the slot state, runs the job in a child process and saves.        *)
(***************************************************************************)
EXTENDS Integers

CONSTANTS
  Job,       \* job definitions
  Calendar,  \* the occurrences of each job, as the local wall clock reads
  Named,     \* what users name with --scheduled-at: its date, and it in UTC
  Offset,    \* what the local wall clock is ahead of UTC
  Window,    \* catch-up window
  MaxTime,   \* bound on the clock
  Run,       \* runs of the maintenance script (a process each)
  LockFile,  \* paths $XDG_RUNTIME_DIR gives the per-user lock
  LockOf,    \* the one each run opens
  Faults,    \* what the environment does in this instance
  Nobody,    \* a lock is free
  NoSlot     \* a run has no slot, or no child

FaultKinds == {
  "raise",  \* slots.json cannot be opened or read, or no process started
  "disk",   \* slots.json cannot be written
  "stop",   \* a run is killed with its child, as systemd does on a timeout
  "kill"}   \* a run alone is killed

ASSUME ConstantsAssumption ==
  /\ Faults \subseteq FaultKinds
  /\ MaxTime \in Nat /\ Window \in Nat /\ Offset \in Int
  /\ Calendar \in [Job -> SUBSET Int] /\ Named \subseteq Int \X Int
  /\ LockOf \in [Run -> LockFile]
  /\ Nobody \notin Run

Time == 0 .. MaxTime

\* scheduled_occurrence finds one for every time.
ASSUME CalendarAssumption == \A j \in Job, t \in Time : \E o \in Calendar[j] :
  o <= t /\ \A u \in Calendar[j] : u <= t => u <= o

\* slot_identity: a job and a date, that of an occurrence or one a user named.
CalendarDays == UNION {Calendar[j] : j \in Job}
NamedDays == {n[1] : n \in Named}
Slot == Job \X (CalendarDays \union NamedDays)

ASSUME NoSlotAssumption == NoSlot \notin Slot

VARIABLES
  clock,      \* the time, in UTC
  completed,  \* slots.json: completed slots (its "running" is always empty)
  userlock,   \* holders of the per-user locks
  slotlock,   \* holder of slots.json.lock
  pc,         \* next step of each run
  slot,       \* the slot it is for
  due,        \* the time that was scheduled for, in UTC
  now,        \* the time it read
  state,      \* the completed slots it loaded
  child,      \* the slot its child process executes, or NoSlot
  ran,        \* history: slots whose job was ever started
  lost        \* history: slots whose run ended before it could save them

history == <<ran, lost>>
locks == <<userlock, slotlock>>
target == <<slot, due, now>>
vars == <<clock, completed, userlock, slotlock, pc, slot, due, now, state,
          child, ran, lost>>

Labels == {"idle", "clock", "flock", "load", "start", "execute", "save"}

Init ==
  /\ clock = 0
  /\ completed = {}
  /\ userlock = [f \in LockFile |-> Nobody]
  /\ slotlock = Nobody
  /\ pc = [r \in Run |-> "idle"]
  /\ slot = [r \in Run |-> NoSlot]
  /\ due = [r \in Run |-> 0]
  /\ now = [r \in Run |-> 0]
  /\ state = [r \in Run |-> {}]
  /\ child = [r \in Run |-> NoSlot]
  /\ ran = {}
  /\ lost = {}

Goto(r, label) == pc' = [pc EXCEPT ![r] = label]

Forget(r) ==
  /\ slot' = [slot EXCEPT ![r] = NoSlot]
  /\ due' = [due EXCEPT ![r] = 0]
  /\ now' = [now EXCEPT ![r] = 0]
  /\ state' = [state EXCEPT ![r] = {}]

Dropped(r) == [f \in LockFile |-> IF userlock[f] = r THEN Nobody ELSE userlock[f]]

\* Mutant: the lock next to slots.json survives the run that held it.
ExitKeepingSlotLock(r) ==
  /\ Goto(r, "idle")
  /\ userlock' = Dropped(r)
  /\ UNCHANGED slotlock
  /\ Forget(r)

\* The process ends, and the kernel drops the locks it held.
Exit(r) ==
  /\ Goto(r, "idle")
  /\ userlock' = Dropped(r)
  /\ slotlock' = IF slotlock = r THEN Nobody ELSE slotlock
  /\ Forget(r)

(***************************************************************************)
(* The script.  A run that finds the per-user lock held exits with 75 and  *)
(* changes nothing: it has no step here.                                   *)
(***************************************************************************)
Start(r) ==
  /\ pc[r] = "idle" /\ child[r] = NoSlot
  /\ userlock[LockOf[r]] = Nobody
  /\ userlock' = [userlock EXCEPT ![LockOf[r]] = r]
  /\ Goto(r, "clock")
  /\ UNCHANGED <<clock, completed, slotlock, target, state, child, history>>

\* scheduled_occurrence, at or before a time.
LatestOccurrence(j, t) ==
  CHOOSE o \in Calendar[j] : o <= t /\ \A u \in Calendar[j] : u <= t => u <= o

For(r, j, o, t) ==
  /\ slot' = [slot EXCEPT ![r] = <<j, o>>]
  /\ due' = [due EXCEPT ![r] = t]

\* Timers name no occurrence.  datetime.now().astimezone() carries a fixed
\* offset and no zone name, so scheduled_occurrence falls back to UTC.
ByTimer(r) == \E j \in Job :
  LET o == LatestOccurrence(j, clock) IN For(r, j, o, o)

\* --scheduled-at takes any time that has a zone, due or not.
ByHand(r) == \E j \in Job, n \in Named : For(r, j, n[1], n[2])

ReadClock(r) ==
  /\ pc[r] = "clock"
  /\ now' = [now EXCEPT ![r] = clock]
  /\ ByTimer(r) \/ ByHand(r)
  /\ Goto(r, "flock")
  /\ UNCHANGED <<clock, completed, locks, state, child, history>>

(***************************************************************************)
(* run_persisted_slot, run_slot.                                           *)
(***************************************************************************)
\* Mutant: the lock next to slots.json excludes nobody.
TakeSlotLockAnyway(r) ==
  /\ pc[r] = "flock"
  /\ slotlock' = r
  /\ Goto(r, "load")
  /\ UNCHANGED <<clock, completed, userlock, target, state, child, history>>

\* A blocking flock.
TakeSlotLock(r) ==
  /\ pc[r] = "flock"
  /\ slotlock = Nobody
  /\ slotlock' = r
  /\ Goto(r, "load")
  /\ UNCHANGED <<clock, completed, userlock, target, state, child, history>>

\* catch_up_expired.
Expired(scheduled, t) == t - scheduled > Window

ShouldRun(r, done) ==
  /\ slot[r] \notin done
  /\ ~Expired(due[r], now[r])

Load(r) ==
  /\ pc[r] = "load"
  /\ state' = [state EXCEPT ![r] = completed]
  /\ Goto(r, IF ShouldRun(r, completed) THEN "start" ELSE "save")
  /\ UNCHANGED <<clock, completed, locks, target, child, history>>

\* execute() starts the job as a child process and waits for it.
StartJob(r) ==
  /\ pc[r] = "start"
  /\ child' = [child EXCEPT ![r] = slot[r]]
  /\ ran' = ran \union {slot[r]}
  /\ Goto(r, "execute")
  /\ UNCHANGED <<clock, completed, locks, target, state, lost>>

\* Mutant: only a job that succeeded completes its slot.
JobEndsOrFails(r) ==
  /\ pc[r] = "execute"
  /\ child' = [child EXCEPT ![r] = NoSlot]
  /\ \E done \in SUBSET {slot[r]} : state' = [state EXCEPT ![r] = @ \union done]
  /\ Goto(r, "save")
  /\ UNCHANGED <<clock, completed, locks, target, history>>

\* Mutant: the child is forgotten before its slot is recorded.
JobEndsForgetful(r) ==
  /\ pc[r] = "execute"
  /\ child' = [child EXCEPT ![r] = NoSlot]
  /\ state' = [state EXCEPT ![r] = @ \union {child'[r]}]
  /\ Goto(r, "save")
  /\ UNCHANGED <<clock, completed, locks, target, history>>

\* result_mapping: every exit code is a result, and every result completes
\* the slot.
JobEnds(r) ==
  /\ pc[r] = "execute"
  /\ child' = [child EXCEPT ![r] = NoSlot]
  /\ state' = [state EXCEPT ![r] = @ \union {slot[r]}]
  /\ Goto(r, "save")
  /\ UNCHANGED <<clock, completed, locks, target, history>>

\* SlotState.save replaces the file; the run unlocks it and exits.
Save(r) ==
  /\ pc[r] = "save"
  /\ completed' = state[r]
  /\ Exit(r)
  /\ UNCHANGED <<clock, child, history>>

(***************************************************************************)
(* The environment.                                                        *)
(***************************************************************************)
\* The run ends as it is, without a save.
Dies(r) ==
  /\ Exit(r)
  /\ lost' = IF pc[r] = "execute" \/ (pc[r] = "save" /\ slot[r] \in state[r] \ completed)
               THEN lost \union {slot[r]} ELSE lost
  /\ UNCHANGED <<clock, completed, ran>>

\* An exception leaves the with block.
Raises(r) ==
  /\ \/ "raise" \in Faults /\ pc[r] \in {"flock", "load", "start"}
     \/ "disk" \in Faults /\ pc[r] = "save"
  /\ Dies(r)
  /\ UNCHANGED child

Stopped(r) ==
  /\ "stop" \in Faults
  /\ pc[r] # "idle"
  /\ child' = [child EXCEPT ![r] = NoSlot]
  /\ Dies(r)

\* The job goes on without its parent, whose locks it did not inherit.
Killed(r) ==
  /\ "kill" \in Faults
  /\ pc[r] # "idle"
  /\ Dies(r)
  /\ UNCHANGED child

OrphanEnds(r) ==
  /\ pc[r] = "idle" /\ child[r] # NoSlot
  /\ child' = [child EXCEPT ![r] = NoSlot]
  /\ UNCHANGED <<clock, completed, locks, pc, target, state, history>>

Tick ==
  /\ clock < MaxTime
  /\ clock' = clock + 1
  /\ UNCHANGED <<completed, locks, pc, target, state, child, history>>

Script(r) == ReadClock(r) \/ Load(r) \/ StartJob(r) \/ JobEnds(r) \/ Save(r)

Step(r) ==
  \/ Start(r) \/ TakeSlotLock(r) \/ Script(r)
  \/ Raises(r) \/ Stopped(r) \/ Killed(r) \/ OrphanEnds(r)

Next == Tick \/ \E r \in Run : Step(r)

Spec == Init /\ [][Next]_vars

\* A run that can take a step takes one; its job ends, a timer's within the
\* unit's time limit.  A run blocked in flock may be overtaken by another, but
\* not for ever.
FairSpec ==
  /\ Spec
  /\ \A r \in Run : WF_vars(Script(r)) /\ SF_vars(TakeSlotLock(r))

(***************************************************************************)
(* Properties.                                                             *)
(***************************************************************************)
\* Each variable keeps its type.
TypeOK ==
  /\ clock \in Time
  /\ completed \subseteq Slot
  /\ userlock \in [LockFile -> Run \union {Nobody}]
  /\ slotlock \in Run \union {Nobody}
  /\ pc \in [Run -> Labels]
  /\ slot \in [Run -> Slot \union {NoSlot}]
  /\ due \in [Run -> Int]
  /\ now \in [Run -> Time]
  /\ state \in [Run -> SUBSET Slot]
  /\ child \in [Run -> Slot \union {NoSlot}]
  /\ ran \subseteq Slot /\ lost \subseteq Slot

\* No two jobs of a user execute at once, even when two runs of the script
\* open different per-user lock files, unless one is the job that a run killed
\* alone left behind.
NoOverlap == \A r, q \in Run :
  child[r] # NoSlot /\ child[q] # NoSlot /\ r # q => "idle" \in {pc[r], pc[q]}

JobStarts(r) == child[r] = NoSlot /\ child'[r] # NoSlot

\* The job of a slot is started again only when an earlier run of it ended
\* before it could save slots.json.
OncePerSlot == [][\A r \in Run : JobStarts(r) => child'[r] \notin ran \ lost]_vars

\* slots.json never forgets a completed slot, whoever saves it, whatever
\* fails.
CompletedStays == [][completed \subseteq completed']_vars

\* "Schedules use local time, one run per slot, bounded catch-up"
\* (README.md:124): a run that a timer starts within the catch-up window of an
\* occurrence on the local calendar is not turned away as expired.  Where local
\* time is not UTC it may be (Offset # 0): a week late, as the code counts.
FiresInTime == \A r \in Run : pc[r] = "load" =>
  LET occurrences == Calendar[slot[r][1]]
      unnamed == slot[r][2] = due[r] /\ due[r] = LatestOccurrence(slot[r][1], now[r])
      punctual == \E o \in occurrences : now[r] - (o - Offset) \in 0 .. Window
  IN  unnamed /\ punctual => ~Expired(due[r], now[r])

\* Every run of the script ends.
RunsEnd == \A r \in Run : pc[r] # "idle" ~> pc[r] = "idle"

=============================================================================
