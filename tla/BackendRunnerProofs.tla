------------------------ MODULE BackendRunnerProofs ------------------------
(***************************************************************************)
(* Proofs about BackendRunner, for any processes and streams, any limit,   *)
(* timeout and grace, and any faults.                                      *)
(***************************************************************************)
EXTENDS BackendRunner, TLAPS

Dead(p) == process[p] \in {"doomed", "gone"}

\* The leader is there once it was started, and dead once it was signalled or
\* reaped unless it may not be signalled; and so is what else the signal reached.
LeaderInv ==
  /\ pc = "start" => \A p \in Process : process[p] = "unborn"
  /\ pc \notin {"start", "clean", "done"} => process[Leader] # "unborn"
  /\ process[Leader] = "unborn" => \A p \in Process : process[p] = "unborn"
  /\ code # "none" => process[Leader] = "gone"
  /\ pc \in {"evidence", "clean", "done"} /\ process[Leader] = "runs" => signalled # {}
  /\ pc \in {"reap", "collect"} => Dead(Leader) \/ signalled # {}
  /\ signalled # {} => Dead(Leader) \/ Leader \in beyond
  /\ "group" \in signalled => \A p \in Process : process[p] = "runs" => p \in beyond

\* A stream the runner stopped reading before time was up is at its limit, or
\* nobody can write to it.
Closed(s) == captured[s] = Limit \/ writers[s] = {}

\* Nothing is signalled before time is up.
LateInv ==
  /\ pc \in {"start", "loop"} => ~timedOut
  /\ pc \in {"poll", "kill", "reap", "collect"} => timedOut
  /\ signalled # {} => timedOut
  /\ ~timedOut /\ pc \in {"loop", "wait", "evidence"} => \A s \in Stream \ reading : Closed(s)
  /\ ~timedOut /\ pc \in {"wait", "evidence"} => reading = {}

\* What is asked before evidence is accepted still holds after.
AcceptInv ==
  /\ pc \notin {"clean", "done"} => result = "none"
  /\ result = "evidence" => code = "zero" /\ ~timedOut /\ \A s \in Stream : Closed(s)

IInv == TypeOK /\ LeaderInv /\ LateInv /\ AcceptInv

LEMMA Constants ==
  /\ Leader \in Process
  /\ Buffer \in Nat /\ Limit \in Nat /\ Timeout \in Nat /\ Grace \in Nat
  /\ Buffer > 0 /\ Limit > 0 /\ Timeout > 0
BY ConstantsAssumption

LEMMA InitInv == Init => IInv
<1> SUFFICES ASSUME Init PROVE IInv
  OBVIOUS
<1>1. TypeOK
  <2>1. /\ process \in [Process -> {"unborn", "runs", "doomed", "gone"}]
        /\ writers \in [Stream -> SUBSET Process] /\ reading \subseteq Stream
        /\ beyond \subseteq Process /\ signalled \subseteq {"leader", "group"}
    BY DEF Init
  <2>2. pipe \in [Stream -> 0 .. Buffer] /\ captured \in [Stream -> 0 .. Limit]
    BY Constants DEF Init
  <2>3. left \in 0 .. Timeout /\ grace \in 0 .. Grace
    BY Constants DEF Init
  <2> QED BY <2>1, <2>2, <2>3 DEF Init, TypeOK
<1>2. LeaderInv
  BY DEF Init, LeaderInv
<1>3. LateInv
  BY DEF Init, LateInv
<1>4. AcceptInv
  BY DEF Init, AcceptInv
<1> QED BY <1>1, <1>2, <1>3, <1>4 DEF IInv

-----------------------------------------------------------------------------
\* The backend.

LEMMA ForkInv ==
  ASSUME IInv, NEW q \in Process, NEW p \in Process, Fork(q, p)
  PROVE  IInv'
<1>1. /\ process[p] = "unborn" /\ process[q] = "runs"
      /\ process' = [process EXCEPT ![p] = "runs"]
      /\ beyond' = IF q \in beyond THEN beyond \union {p} ELSE beyond
      /\ writers' = [s \in Stream |->
           IF q \in writers[s] THEN writers[s] \union {p} ELSE writers[s]]
      /\ UNCHANGED <<pipe, code, file, left, grace, reading, captured, pc, then, timedOut, signalled, result>>
  BY DEF Fork, clock, runner
<1>2. TypeOK'
  BY <1>1 DEF IInv, TypeOK
<1>3. LeaderInv'
  <2>1. p # Leader /\ pc # "start" /\ process[Leader] # "unborn"
    BY <1>1, Constants DEF IInv, LeaderInv
  <2>2. process'[Leader] = process[Leader] /\ (Dead(Leader) => Dead(Leader)')
    BY <1>1, <2>1, Constants DEF IInv, TypeOK, Dead
  <2>3. "group" \in signalled => \A r \in Process : process'[r] = "runs" => r \in beyond'
    BY <1>1 DEF IInv, TypeOK, LeaderInv
  <2> QED BY <1>1, <2>1, <2>2, <2>3 DEF IInv, LeaderInv
<1>4. \A s \in Stream : Closed(s) => Closed(s)'
  BY <1>1 DEF Closed
<1>5. LateInv'
  BY <1>1, <1>4 DEF IInv, LateInv
<1>6. AcceptInv'
  BY <1>1, <1>4 DEF IInv, AcceptInv
<1> QED BY <1>2, <1>3, <1>5, <1>6 DEF IInv

\* A process that writes, closes an output, leaves a file, or leaves the reach of
\* a signal.
LEMMA OutputInv ==
  ASSUME IInv,
         \/ \E p \in Process : WriteEvidence(p) \/ Leave(p) \/ ChangeUser(p)
         \/ \E p \in Process, s \in Stream : Write(p, s) \/ CloseOutput(p, s)
  PROVE  IInv'
<1>1. /\ UNCHANGED <<process, code, left, grace, reading, captured, pc, then, timedOut, signalled, result>>
      /\ \A s \in Stream : writers[s] = {} => writers'[s] = {}
      /\ beyond \subseteq beyond' /\ beyond' \subseteq Process
  BY DEF Write, CloseOutput, WriteEvidence, Leave, ChangeUser, clock, runner, IInv, TypeOK
<1>2. TypeOK'
  <2>1. writers' \in [Stream -> SUBSET Process]
    BY DEF Write, CloseOutput, WriteEvidence, Leave, ChangeUser, IInv, TypeOK
  <2>2. pipe' \in [Stream -> 0 .. Buffer]
    BY Constants DEF Write, CloseOutput, WriteEvidence, Leave, ChangeUser, IInv, TypeOK
  <2>3. file' \in {"none", "bad", "good"}
    BY DEF Write, CloseOutput, WriteEvidence, Leave, ChangeUser, IInv, TypeOK
  <2> QED BY <1>1, <2>1, <2>2, <2>3 DEF IInv, TypeOK
<1>3. LeaderInv'
  BY <1>1 DEF IInv, LeaderInv, Dead
<1>4. \A s \in Stream : Closed(s) => Closed(s)'
  BY <1>1 DEF Closed
<1>5. LateInv'
  BY <1>1, <1>4 DEF IInv, LateInv
<1>6. AcceptInv'
  BY <1>1, <1>4 DEF IInv, AcceptInv
<1> QED BY <1>2, <1>3, <1>5, <1>6 DEF IInv

LEMMA EndsInv ==
  ASSUME IInv, NEW p \in Process, Ends(p)
  PROVE  IInv'
<1>1. /\ process[p] \in {"runs", "doomed"} /\ process' = [process EXCEPT ![p] = "gone"]
      /\ writers' = [s \in Stream |-> writers[s] \ {p}]
      /\ UNCHANGED <<beyond, pipe, file, left, grace, reading, captured, pc, then, timedOut, signalled, result>>
  BY DEF Ends, clock, runner
<1>2. /\ p # Leader => code' = code
      /\ p = Leader => code' \in {"killed", "zero", "other"}
  BY DEF Ends
<1>3. TypeOK'
  BY <1>1, <1>2 DEF IInv, TypeOK
<1>4. LeaderInv'
  BY <1>1, <1>2, Constants DEF IInv, TypeOK, LeaderInv, Dead
<1>5. \A s \in Stream : Closed(s) => Closed(s)'
  BY <1>1 DEF Closed
<1>6. LateInv'
  BY <1>1, <1>5 DEF IInv, LateInv
<1>7. AcceptInv'
  <2>1. result = "evidence" => p # Leader
    BY <1>1 DEF IInv, AcceptInv, LeaderInv
  <2> QED BY <1>1, <1>2, <1>5, <2>1 DEF IInv, AcceptInv
<1> QED BY <1>3, <1>4, <1>6, <1>7 DEF IInv

LEMMA TickInv ==
  ASSUME IInv, Tick
  PROVE  IInv'
<1>1. /\ UNCHANGED <<process, beyond, writers, pipe, code, file, reading, captured, pc, then, timedOut, signalled, result>>
      /\ left' \in 0 .. Timeout /\ grace' \in 0 .. Grace
  BY Constants DEF Tick, child, runner, IInv, TypeOK
<1> QED BY <1>1 DEF IInv, TypeOK, LeaderInv, Dead, LateInv, Closed, AcceptInv

-----------------------------------------------------------------------------
\* The runner.

LEMMA StartInv ==
  ASSUME IInv, Refuse \/ Start
  PROVE  IInv'
<1>1. CASE Refuse
  BY <1>1, Constants DEF Refuse, child, clock, IInv, TypeOK, LeaderInv, Dead, LateInv, Closed, AcceptInv
<1>2. CASE Start
  <2>1. /\ pc = "start" /\ pc' = "loop" /\ process' = [process EXCEPT ![Leader] = "runs"]
        /\ writers' = [s \in Stream |-> {Leader}] /\ reading' = Stream
        /\ UNCHANGED <<beyond, pipe, code, file, left, grace, captured, then, timedOut, signalled, result>>
    BY <1>2 DEF Start, clock
  <2>2. TypeOK'
    BY <2>1, Constants DEF IInv, TypeOK
  <2>3. LeaderInv'
    BY <2>1, Constants DEF IInv, TypeOK, LeaderInv, Dead
  <2>4. LateInv' /\ AcceptInv'
    BY <2>1 DEF IInv, LeaderInv, LateInv, AcceptInv
  <2> QED BY <2>2, <2>3, <2>4 DEF IInv
<1> QED BY <1>1, <1>2

LEMMA TurnInv ==
  ASSUME IInv, Turn
  PROVE  IInv'
<1> DEFINE expired == left = 0
           ready == {s \in reading : pipe[s] > 0}
           rest == {s \in reading : ~Full(s) /\ ~EndOfFile(s)}
<1>1. /\ pc = "loop"
      /\ pipe' = [s \in Stream |-> IF s \in ready THEN pipe[s] - 1 ELSE pipe[s]]
      /\ captured' = [s \in Stream |->
           IF s \in ready /\ captured[s] < Limit THEN captured[s] + 1 ELSE captured[s]]
      /\ reading' = IF expired THEN {} ELSE rest
      /\ then' = "wait"
      /\ pc' = IF expired THEN "poll" ELSE IF rest = {} THEN "wait" ELSE "loop"
      /\ grace' = IF pc' = "wait" THEN Grace ELSE grace
      /\ UNCHANGED <<process, beyond, writers, code, file, left, signalled, result>>
  BY DEF Turn, TurnUntil
<1>2. timedOut' = expired
  BY DEF Turn, TurnUntil
<1>3. pipe' \in [Stream -> 0 .. Buffer]
  BY <1>1, Constants DEF IInv, TypeOK
<1>4. captured' \in [Stream -> 0 .. Limit]
  BY <1>1, Constants DEF IInv, TypeOK
<1>5. expired \in BOOLEAN /\ rest \subseteq Stream /\ reading \subseteq Stream
  BY DEF IInv, TypeOK
<1>6. \A s \in Stream : s \notin reading => Closed(s) /\ captured'[s] = captured[s]
  BY <1>1 DEF IInv, LateInv
<1>7. \A s \in reading : s \notin rest => captured'[s] = Limit \/ writers[s] = {}
  <2> SUFFICES ASSUME NEW s \in reading, s \notin rest
               PROVE  captured'[s] = Limit \/ writers[s] = {}
    OBVIOUS
  <2>1. CASE Full(s)
    <3>1. captured[s] = Limit /\ ~(captured[s] < Limit)
      BY <2>1, Constants DEF Full
    <3> QED BY <1>1, <1>5, <3>1
  <2>2. CASE EndOfFile(s)
    BY <2>2 DEF EndOfFile
  <2> QED BY <2>1, <2>2
<1> HIDE DEF expired, ready, rest
<1>8. TypeOK'
  BY <1>1, <1>2, <1>3, <1>4, <1>5, Constants DEF IInv, TypeOK
<1>9. LeaderInv'
  BY <1>1 DEF IInv, LeaderInv, Dead
<1>10. LateInv'
  <2>1. signalled = {}
    BY <1>1 DEF IInv, TypeOK, LateInv
  <2>2. CASE expired
    <3>1. timedOut'
      BY <1>2, <2>2
    <3>2. pc' = "poll"
      BY <1>1, <2>2
    <3> QED BY <3>1, <3>2 DEF LateInv
  <2>3. CASE ~expired
    <3>1. ~timedOut'
      BY <1>2, <2>3
    <3>2. reading' = rest /\ pc' \in {"wait", "loop"} /\ (pc' = "wait" => rest = {})
      BY <1>1, <2>3
    <3>3. \A s \in Stream \ rest : Closed(s)'
      BY <1>1, <1>6, <1>7 DEF Closed
    <3>4. signalled' = {}
      BY <1>1, <2>1
    <3> QED BY <3>1, <3>2, <3>3, <3>4 DEF LateInv
  <2> QED BY <2>2, <2>3
<1>11. AcceptInv'
  BY <1>1 DEF IInv, AcceptInv
<1> QED BY <1>8, <1>9, <1>10, <1>11 DEF IInv

LEMMA SignalInv ==
  ASSUME IInv, NEW ps \in SUBSET Process, Leader \in ps \union beyond,
         NEW what \in {"leader", "group"}, what = "group" => ps = Process \ beyond,
         Signal(ps, what)
  PROVE  IInv'
<1>1. /\ pc = "kill" /\ pc' = then /\ grace' = Grace /\ signalled' = signalled \union {what}
      /\ process' = [p \in Process |-> IF p \in ps /\ process[p] = "runs" THEN "doomed" ELSE process[p]]
      /\ UNCHANGED <<beyond, writers, pipe, code, file, left, reading, captured, then, timedOut, result>>
  BY DEF Signal
<1>2. TypeOK'
  BY <1>1, Constants DEF IInv, TypeOK
<1>3. LeaderInv'
  <2>1. process[Leader] \in {"runs", "doomed", "gone"}
    BY <1>1, Constants DEF IInv, TypeOK, LeaderInv
  <2>2. /\ process'[Leader] \in {"runs", "doomed", "gone"}
        /\ process'[Leader] = "runs" => Leader \in beyond
        /\ code # "none" => process'[Leader] = "gone"
    BY <1>1, <2>1, Constants DEF IInv, LeaderInv
  <2>3. "group" \in signalled' => \A p \in Process : process'[p] = "runs" => p \in beyond
    BY <1>1 DEF IInv, LeaderInv
  <2>4. pc' \in {"wait", "reap", "collect"}
    BY <1>1 DEF IInv, TypeOK
  <2>5. signalled' # {} /\ (Dead(Leader)' \/ Leader \in beyond')
    BY <1>1, <2>2 DEF Dead
  <2>6. UNCHANGED <<code, beyond>>
    BY <1>1
  <2> QED BY <2>2, <2>3, <2>4, <2>5, <2>6 DEF LeaderInv
<1>4. LateInv'
  BY <1>1 DEF IInv, TypeOK, LateInv
<1>5. AcceptInv'
  BY <1>1 DEF IInv, TypeOK, AcceptInv
<1> QED BY <1>2, <1>3, <1>4, <1>5 DEF IInv

\* A step that looks at the leader or the clock, and changes neither the
\* backend nor what is captured.
LEMMA WaitInv ==
  ASSUME IInv, Poll \/ Reap \/ WaitExpires \/ RunnerError \/ CollectExpires
  PROVE  IInv'
<1>1. CASE Poll
  <2>1. /\ pc = "poll" /\ pc' \in {then, "kill"} /\ (pc' \in {"reap", "collect"} => process[Leader] = "gone")
        /\ UNCHANGED <<process, beyond, writers, pipe, code, file, left, reading, captured, then,
                       timedOut, signalled, result>>
    BY <1>1 DEF Poll, Ended, child
  <2>2. grace' \in 0 .. Grace
    BY <1>1, Constants DEF Poll, IInv, TypeOK
  <2>3. TypeOK'
    BY <2>1, <2>2 DEF IInv, TypeOK
  <2>4. pc' \in {"wait", "reap", "collect", "kill"}
    BY <2>1 DEF IInv, TypeOK
  <2>5. LeaderInv'
    BY <2>1, <2>4 DEF IInv, LeaderInv, Dead
  <2>6. LateInv' /\ AcceptInv'
    BY <2>1, <2>4 DEF IInv, LateInv, AcceptInv
  <2> QED BY <2>3, <2>5, <2>6 DEF IInv
<1>2. CASE Reap
  <2>1. /\ pc \in {"wait", "reap"} /\ process[Leader] = "gone" /\ pc' = "evidence"
        /\ UNCHANGED <<process, beyond, writers, pipe, code, file, left, grace, reading, captured, then,
                       timedOut, signalled, result>>
    BY <1>2 DEF Reap, Ended, child, clock
  <2> QED BY <2>1 DEF IInv, TypeOK, LeaderInv, Dead, LateInv, Closed, AcceptInv
<1>3. CASE WaitExpires \/ RunnerError
  <2>1. /\ pc \in {"wait", "loop"} /\ pc' = "poll" /\ then' \in {"reap", "collect"} /\ timedOut' = TRUE
        /\ UNCHANGED <<process, beyond, writers, pipe, code, file, left, grace, reading, captured,
                       signalled, result>>
    BY <1>3 DEF WaitExpires, RunnerError, child, clock
  <2> QED BY <2>1 DEF IInv, TypeOK, LeaderInv, Dead, LateInv, Closed, AcceptInv
<1>4. CASE CollectExpires
  <2>1. /\ pc = "collect" /\ pc' = "evidence" /\ reading' = {}
        /\ UNCHANGED <<process, beyond, writers, pipe, code, file, left, grace, captured, then,
                       timedOut, signalled, result>>
    BY <1>4 DEF CollectExpires, child, clock
  <2> QED BY <2>1 DEF IInv, TypeOK, LeaderInv, Dead, LateInv, Closed, AcceptInv
<1> QED BY <1>1, <1>2, <1>3, <1>4

LEMMA CollectInv ==
  ASSUME IInv, Collect
  PROVE  IInv'
<1>1. /\ pc = "collect" /\ pc' = "evidence" /\ reading' = {}
      /\ captured' = [s \in Stream |->
           IF s \notin reading THEN 0 ELSE IF pipe[s] < Limit THEN pipe[s] ELSE Limit]
      /\ UNCHANGED <<process, beyond, writers, pipe, code, file, left, grace, then, timedOut, signalled, result>>
  BY DEF Collect, child, clock
<1>2. captured' \in [Stream -> 0 .. Limit]
  BY <1>1, Constants DEF IInv, TypeOK
<1>3. TypeOK'
  BY <1>1, <1>2 DEF IInv, TypeOK
<1>4. LeaderInv'
  BY <1>1 DEF IInv, LeaderInv, Dead
<1>5. LateInv' /\ AcceptInv'
  BY <1>1 DEF IInv, LateInv, AcceptInv
<1> QED BY <1>3, <1>4, <1>5 DEF IInv

LEMMA FinishInv ==
  ASSUME IInv, ReadEvidence \/ Clean
  PROVE  IInv'
<1>1. CASE ReadEvidence
  <2>1. /\ pc = "evidence" /\ pc' = "clean" /\ result' \in {"plain", "evidence", "raised"}
        /\ result' = "evidence" => code = "zero" /\ ~timedOut
        /\ UNCHANGED <<process, beyond, writers, pipe, code, file, left, grace, reading, captured, then,
                       timedOut, signalled>>
    BY <1>1 DEF ReadEvidence, Conclude, child, clock
  <2>2. TypeOK' /\ LeaderInv' /\ LateInv'
    BY <2>1 DEF IInv, TypeOK, LeaderInv, Dead, LateInv, Closed
  <2>3. AcceptInv'
    BY <2>1 DEF IInv, LateInv, Closed, AcceptInv
  <2> QED BY <2>2, <2>3 DEF IInv
<1>2. CASE Clean
  <2>1. /\ pc = "clean" /\ pc' = "done" /\ result' = result
        /\ UNCHANGED <<process, beyond, writers, pipe, code, file, left, grace, reading, captured, then,
                       timedOut, signalled>>
    BY <1>2 DEF Clean, child, clock
  <2> QED BY <2>1 DEF IInv, TypeOK, LeaderInv, Dead, LateInv, Closed, AcceptInv
<1> QED BY <1>1, <1>2

LEMMA StepInv ==
  ASSUME IInv, [Next]_vars
  PROVE  IInv'
<1>1. CASE Run
  <2>1. ASSUME KillGroup PROVE IInv'
    BY <2>1, SignalInv, Constants, Process \ beyond \in SUBSET Process DEF KillGroup
  <2>2. ASSUME KillLeader PROVE IInv'
    BY <2>2, SignalInv, Constants, {Leader} \ beyond \in SUBSET Process DEF KillLeader
  <2> QED BY <1>1, <2>1, <2>2, StartInv, TurnInv, WaitInv, CollectInv, FinishInv DEF Run
<1>2. CASE RunnerError
  BY <1>2, WaitInv
<1>3. CASE Backend
  BY <1>3, ForkInv, OutputInv, EndsInv DEF Backend
<1>4. CASE Tick
  BY <1>4, TickInv
<1>5. CASE UNCHANGED vars
  BY <1>5 DEF vars, child, clock, runner, IInv, TypeOK, LeaderInv, Dead, LateInv, Closed, AcceptInv
<1> QED BY <1>1, <1>2, <1>3, <1>4, <1>5 DEF Next, Stop

THEOREM Invariance == Spec => []IInv
<1>1. IInv /\ [Next]_vars => IInv'
  BY StepInv
<1> QED BY <1>1, InitInv, PTL DEF Spec

\* Every variable of the runner keeps its type; no stream, however much the
\* backend writes, is captured beyond output_limit.
THEOREM TypeCorrect == Spec => []TypeOK
<1>1. IInv => TypeOK
  BY DEF IInv
<1> QED BY <1>1, Invariance, PTL

\* A run that returned, or raised, leaves nothing at work that a signal it sent
\* could have reached.
THEOREM ContainedHolds == Spec => []Contained
<1>1. IInv => Contained
  BY DEF IInv, LeaderInv, Dead, Contained
<1> QED BY <1>1, Invariance, PTL

\* Accepted evidence is of a leader that ended well, in time and by itself.
THEOREM AcceptedIsFinalHolds == Spec => []AcceptedIsFinal
<1>1. IInv => AcceptedIsFinal
  BY DEF IInv, LateInv, Closed, AcceptInv, AcceptedIsFinal
<1> QED BY <1>1, Invariance, PTL

-----------------------------------------------------------------------------
(***************************************************************************)
(* What RunEnds rests on.  That a run ends needs fairness; that it cannot  *)
(* go round in circles, and waits without a timeout for a leader that may  *)
(* work on only when that leader may not be signalled, does not.           *)
(***************************************************************************)
\* How many steps are left at most, turns of the loop apart.
Stage ==
  CASE pc = "start" -> 10
    [] pc = "loop" -> 9
    [] pc = "poll" /\ then = "wait" -> 8
    [] pc = "kill" /\ then = "wait" -> 7
    [] pc = "wait" -> 6
    [] pc = "poll" /\ then # "wait" -> 5
    [] pc = "kill" /\ then # "wait" -> 4
    [] pc \in {"reap", "collect"} -> 3
    [] pc = "evidence" -> 2
    [] pc = "clean" -> 1
    [] OTHER -> 0

\* No step takes the runner back or puts a deadline off, whatever the backend
\* does, and every step of the runner but a turn before the deadline takes it on.
MovesOn ==
  [][/\ Stage' <= Stage
     /\ Stage' = Stage => left' <= left /\ grace' <= grace
     /\ Run => Stage' < Stage \/ (pc = "loop" /\ left > 0)]_vars

\* proc.wait() without a timeout (line 115) is only ever for a leader that was
\* killed, is gone, or works on because it may not be killed.
WaitsForTheDead == pc = "reap" => Dead(Leader) \/ AtItsMercy

LEMMA Lower ==
  ASSUME IInv, Run
  PROVE  Stage' < Stage \/ (Stage' = Stage /\ pc = "loop" /\ left > 0 /\ UNCHANGED <<left, grace>>)
<1> USE DEF IInv, TypeOK, Stage
<1>1. then \in {"wait", "reap", "collect"} /\ left \in Nat
  BY Constants
<1>2. CASE Refuse \/ Start
  BY <1>2 DEF Refuse, Start
<1>3. CASE Turn
  <2>1. /\ pc = "loop" /\ UNCHANGED left /\ then' = "wait"
        /\ \/ pc' \in {"poll", "wait"}
           \/ pc' = "loop" /\ left # 0 /\ UNCHANGED grace
    BY <1>3 DEF Turn, TurnUntil
  <2> QED BY <1>1, <2>1
<1>4. CASE Poll
  <2>1. pc = "poll" /\ pc' \in {then, "kill"} /\ then' = then
    BY <1>4 DEF Poll
  <2> QED BY <1>1, <2>1
<1>5. CASE KillGroup \/ KillLeader
  <2>1. pc = "kill" /\ pc' = then /\ then' = then
    BY <1>5 DEF KillGroup, KillLeader, Signal
  <2> QED BY <1>1, <2>1
<1>6. CASE Reap \/ WaitExpires
  BY <1>6 DEF Reap, WaitExpires
<1>7. CASE Collect \/ CollectExpires
  BY <1>7 DEF Collect, CollectExpires
<1>8. CASE ReadEvidence \/ Clean
  BY <1>8 DEF ReadEvidence, Conclude, Clean
<1> QED BY <1>2, <1>3, <1>4, <1>5, <1>6, <1>7, <1>8 DEF Run

LEMMA Elsewhere ==
  ASSUME IInv, RunnerError \/ Backend \/ Tick \/ UNCHANGED vars
  PROVE  Stage' < Stage \/ (Stage' = Stage /\ left' <= left /\ grace' <= grace /\ pc' = pc)
<1>1. left \in Nat /\ grace \in Nat
  BY Constants DEF IInv, TypeOK
<1>2. CASE RunnerError
  BY <1>2 DEF RunnerError, Stage
<1>3. CASE Backend \/ UNCHANGED vars
  <2>1. UNCHANGED <<pc, then, left, grace>>
    BY <1>3 DEF Backend, Fork, Leave, ChangeUser, Write, CloseOutput, WriteEvidence, Ends, vars, clock, runner
  <2> QED BY <1>1, <2>1 DEF Stage
<1>4. CASE Tick
  <2>1. UNCHANGED <<pc, then>> /\ left' <= left /\ grace' <= grace
    BY <1>1, <1>4 DEF Tick, runner
  <2> QED BY <2>1 DEF Stage
<1> QED BY <1>2, <1>3, <1>4

\* A run passes through each stage once, whatever the backend and the system do.
THEOREM MovesOnHolds == Spec => MovesOn
<1>1. ASSUME IInv, [Next]_vars
      PROVE  [/\ Stage' <= Stage
              /\ Stage' = Stage => left' <= left /\ grace' <= grace
              /\ Run => Stage' < Stage \/ (pc = "loop" /\ left > 0)]_vars
  <2>1. Stage \in Nat /\ Stage' \in Nat /\ left \in Nat /\ grace \in Nat
    BY <1>1, Constants DEF IInv, TypeOK, Stage
  <2>2. CASE Run
    BY <1>1, <2>1, <2>2, Lower
  <2>3. CASE ~Run
    BY <1>1, <2>1, <2>3, Elsewhere DEF Next, Stop
  <2> QED BY <2>2, <2>3
<1> QED BY <1>1, Invariance, PTL DEF Spec, MovesOn

\* The wait without a timeout is for a leader that SIGKILL was sent to, that is
\* gone, or that changed its user.
THEOREM WaitsForTheDeadHolds == Spec => []WaitsForTheDead
<1>1. IInv => WaitsForTheDead
  BY Constants DEF IInv, TypeOK, LeaderInv, WaitsForTheDead, AtItsMercy, Dead
<1> QED BY <1>1, Invariance, PTL
=============================================================================
