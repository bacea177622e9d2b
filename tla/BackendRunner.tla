---------------------------- MODULE BackendRunner ----------------------------
(***************************************************************************)
(* latticemind_core/backend_runner.py on Unix: BackendRunner.run starts a  *)
(* backend as the leader of a new session and process group, reads its two *)
(* output pipes up to a limit and until a deadline, kills the group when   *)
(* time is up, and reads evidence.json when the leader succeeded in time.  *)
(*                                                                         *)
(* Output is counted in chunks and time in ticks of two countdowns: the    *)
(* deadline of the read loop and the five seconds given to wait().         *)
(***************************************************************************)
EXTENDS Integers, FiniteSets

CONSTANTS
  Process,  \* the backend and what it forks
  Leader,   \* the process Popen starts
  Stream,   \* stdout and stderr
  Buffer,   \* bound: chunks a pipe holds
  Limit,    \* output_limit, in chunks
  Timeout,  \* timeout, in ticks
  Grace,    \* the timeout of proc.wait, in ticks
  Faults    \* what the environment does in this instance

FaultKinds == {
  "fork",     \* the backend starts other processes
  "leave",    \* what it starts leaves its process group (setpgid, setsid)
  "user",     \* a process changes its user
  "quiet",    \* a process closes its outputs and works on
  "ioerror",  \* a call of the runner raises OSError
  "killpg"}   \* the group may not be signalled, though its leader may (macOS)

ASSUME ConstantsAssumption ==
  /\ Leader \in Process /\ IsFiniteSet(Stream)
  /\ {Buffer, Limit, Timeout} \subseteq Nat \ {0} /\ Grace \in Nat
  /\ Faults \subseteq FaultKinds

VARIABLES
  process,    \* unborn, running, signalled with SIGKILL, or gone
  beyond,     \* the processes no signal to the group reaches
  writers,    \* the processes that hold the write end of a pipe
  pipe,       \* chunks in a pipe
  code,       \* how the leader ended
  file,       \* evidence.json
  reading,    \* the streams the selector has
  captured,   \* chunks captured
  left,       \* ticks to the deadline
  grace,      \* ticks wait() still waits
  pc, then,   \* next step of run, and the one after _terminate
  timedOut,   \* timed_out
  signalled,  \* history: what _terminate sent SIGKILL to
  result      \* how run ended

child == <<process, beyond, writers, pipe, code, file>>
clock == <<left, grace>>
runner == <<reading, captured, pc, then, timedOut, signalled, result>>
vars == <<child, clock, runner>>

\* Every variable holds what the code can put there; no stream is captured
\* beyond the limit.
TypeOK ==
  /\ process \in [Process -> {"unborn", "runs", "doomed", "gone"}]
  /\ beyond \subseteq Process
  /\ writers \in [Stream -> SUBSET Process] /\ pipe \in [Stream -> 0 .. Buffer]
  /\ code \in {"none", "zero", "other", "killed"}
  /\ file \in {"none", "bad", "good"}
  /\ reading \subseteq Stream /\ captured \in [Stream -> 0 .. Limit]
  /\ left \in 0 .. Timeout /\ grace \in 0 .. Grace
  /\ pc \in {"start", "loop", "poll", "kill", "wait", "reap", "collect",
             "evidence", "clean", "done"}
  /\ then \in {"wait", "reap", "collect"}
  /\ timedOut \in BOOLEAN /\ signalled \subseteq {"leader", "group"}
  /\ result \in {"none", "raised", "plain", "evidence"}

Init ==
  /\ process = [p \in Process |-> "unborn"] /\ beyond = {} /\ code = "none" /\ file = "none"
  /\ writers = [s \in Stream |-> {}] /\ pipe = [s \in Stream |-> 0]
  /\ reading = {} /\ captured = [s \in Stream |-> 0]
  /\ left = Timeout /\ grace = 0
  /\ pc = "start" /\ then = "wait"
  /\ timedOut = FALSE /\ signalled = {} /\ result = "none"

Ended == process[Leader] = "gone"

-----------------------------------------------------------------------------
\* The backend: it writes, forks, ends and leaves evidence when it likes.

\* A child has the group, the user and the outputs of its parent.
Fork(q, p) ==
  /\ "fork" \in Faults /\ process[p] = "unborn" /\ process[q] = "runs"
  /\ process' = [process EXCEPT ![p] = "runs"]
  /\ beyond' = IF q \in beyond THEN beyond \union {p} ELSE beyond
  /\ writers' = [s \in Stream |->
       IF q \in writers[s] THEN writers[s] \union {p} ELSE writers[s]]
  /\ UNCHANGED <<pipe, code, file, clock, runner>>

\* The leader of a session cannot leave its group; what it started can.
Leave(p) ==
  /\ "leave" \in Faults /\ process[p] = "runs" /\ p # Leader
  /\ beyond' = beyond \union {p}
  /\ UNCHANGED <<process, writers, pipe, code, file, clock, runner>>

\* The user who started the run may not signal what runs as another.
ChangeUser(p) ==
  /\ "user" \in Faults /\ process[p] = "runs"
  /\ beyond' = beyond \union {p}
  /\ UNCHANGED <<process, writers, pipe, code, file, clock, runner>>

Write(p, s) ==
  /\ process[p] = "runs" /\ p \in writers[s]
  /\ s \in reading /\ pipe[s] < Buffer
  /\ pipe' = [pipe EXCEPT ![s] = @ + 1]
  /\ UNCHANGED <<process, beyond, writers, code, file, clock, runner>>

CloseOutput(p, s) ==
  /\ "quiet" \in Faults /\ process[p] = "runs" /\ p \in writers[s]
  /\ writers' = [writers EXCEPT ![s] = @ \ {p}]
  /\ UNCHANGED <<process, beyond, pipe, code, file, clock, runner>>

WriteEvidence(p) ==
  /\ process[p] = "runs" /\ pc \notin {"clean", "done"}
  /\ file' \in {"bad", "good"} /\ file' # file
  /\ UNCHANGED <<process, beyond, writers, pipe, code, clock, runner>>

\* A process ends by itself, or of the signal; its pipe ends close with it.
Ends(p) ==
  /\ process[p] \in {"runs", "doomed"}
  /\ process' = [process EXCEPT ![p] = "gone"]
  /\ writers' = [s \in Stream |-> writers[s] \ {p}]
  /\ IF p # Leader THEN code' = code
     ELSE code' \in IF process[p] = "doomed" THEN {"killed"} ELSE {"zero", "other"}
  /\ UNCHANGED <<beyond, pipe, file, clock, runner>>

Dies(p) == process[p] = "doomed" /\ Ends(p)

\* The countdown that runs: the deadline from Popen on, the grace while waiting.
Tick ==
  /\ process[Leader] # "unborn"
  /\ \/ left > 0 /\ left' = left - 1 /\ UNCHANGED grace
     \/ grace > 0 /\ pc \in {"wait", "collect"} /\ grace' = grace - 1 /\ UNCHANGED left
  /\ UNCHANGED <<child, runner>>

-----------------------------------------------------------------------------
\* BackendRunner.run.

\* The packet is no file, or the adapter has no certified contract for the
\* version, or Popen fails: the workspace is removed and the error raised.
Refuse ==
  /\ pc = "start" /\ pc' = "clean" /\ result' = "raised"
  /\ UNCHANGED <<child, clock, reading, captured, then, timedOut, signalled>>

Start ==
  /\ pc = "start" /\ pc' = "loop"
  /\ process' = [process EXCEPT ![Leader] = "runs"]
  /\ writers' = [s \in Stream |-> {Leader}] /\ reading' = Stream
  /\ UNCHANGED <<beyond, pipe, code, file, clock, captured, then, timedOut, signalled, result>>

\* One turn of the loop: a chunk from every stream that has one, end of file or
\* the limit takes a stream out; the deadline is looked at after that.
Full(s) == pipe[s] > 0 /\ captured[s] = Limit
EndOfFile(s) == pipe[s] = 0 /\ writers[s] = {}

TurnUntil(expired, most) ==
  LET ready == {s \in reading : pipe[s] > 0}
      rest == {s \in reading : ~Full(s) /\ ~EndOfFile(s)}
  IN /\ pc = "loop"
     /\ pipe' = [s \in Stream |-> IF s \in ready THEN pipe[s] - 1 ELSE pipe[s]]
     /\ captured' = [s \in Stream |->
          IF s \in ready /\ captured[s] < most THEN captured[s] + 1 ELSE captured[s]]
     /\ reading' = IF expired THEN {} ELSE rest
     /\ timedOut' = expired /\ then' = "wait"
     /\ pc' = IF expired THEN "poll" ELSE IF rest = {} THEN "wait" ELSE "loop"
     /\ grace' = IF pc' = "wait" THEN Grace ELSE grace
     /\ UNCHANGED <<process, beyond, writers, code, file, left, signalled, result>>

TurnOvershoots == TurnUntil(left = 0, Limit + 1)

TurnWhenReady == TurnUntil(left = 0 /\ \E s \in reading : pipe[s] > 0, Limit)

Turn == TurnUntil(left = 0, Limit)

\* _terminate: nothing when the leader was reaped; else SIGKILL to the group, or
\* to the leader alone when the group may not be signalled.  Who may not be
\* signalled is left alive without a word: an OSError of the second kill is
\* swallowed.
Poll ==
  /\ pc = "poll" /\ pc' = IF Ended THEN then ELSE "kill"
  /\ grace' = IF pc' \in {"wait", "collect"} THEN Grace ELSE grace
  /\ UNCHANGED <<child, left, reading, captured, then, timedOut, signalled, result>>

Signal(ps, what) ==
  /\ pc = "kill" /\ pc' = then /\ grace' = Grace /\ signalled' = signalled \union {what}
  /\ process' = [p \in Process |-> IF p \in ps /\ process[p] = "runs" THEN "doomed" ELSE process[p]]
  /\ UNCHANGED <<beyond, writers, pipe, code, file, left, reading, captured, then, timedOut, result>>

KillLeaderOnly == Signal({Leader} \ beyond, "group")

KillGroup == Signal(Process \ beyond, "group")

KillLeader == "killpg" \in Faults /\ Signal({Leader} \ beyond, "leader")

\* proc.wait(timeout=5); when that expires, _terminate and an unbounded wait.
Reap ==
  /\ pc \in {"wait", "reap"} /\ Ended /\ pc' = "evidence"
  /\ UNCHANGED <<child, clock, reading, captured, then, timedOut, signalled, result>>

WaitExpires ==
  /\ pc = "wait" /\ grace = 0 /\ ~Ended
  /\ timedOut' = TRUE /\ pc' = "poll" /\ then' = "reap"
  /\ UNCHANGED <<child, clock, reading, captured, signalled, result>>

\* An OSError in the loop: the child is killed and communicate(timeout=5)
\* collects what the open pipes hold, if they end in time.
RunnerError ==
  /\ "ioerror" \in Faults /\ pc = "loop"
  /\ timedOut' = TRUE /\ pc' = "poll" /\ then' = "collect"
  /\ UNCHANGED <<child, clock, reading, captured, signalled, result>>

Collect ==
  /\ pc = "collect" /\ Ended /\ \A s \in reading : writers[s] = {}
  /\ captured' = [s \in Stream |->
       IF s \notin reading THEN 0 ELSE IF pipe[s] < Limit THEN pipe[s] ELSE Limit]
  /\ pc' = "evidence" /\ reading' = {}
  /\ UNCHANGED <<child, clock, then, timedOut, signalled, result>>

CollectExpires ==
  /\ pc = "collect" /\ grace = 0 /\ pc' = "evidence" /\ reading' = {}
  /\ UNCHANGED <<child, clock, captured, then, timedOut, signalled, result>>

\* evidence.json is read when the leader returned 0 in time; a bad one raises.
Conclude(accepts) ==
  /\ pc = "evidence" /\ pc' = "clean"
  /\ result' = IF ~accepts THEN "plain" ELSE IF file = "good" THEN "evidence" ELSE "raised"
  /\ UNCHANGED <<child, clock, reading, captured, then, timedOut, signalled>>

ReadEvidenceLate == Conclude(code = "zero")

ReadEvidence == Conclude(code = "zero" /\ ~timedOut)

\* The workspace is removed whatever happened.  A removal that fails changes
\* nothing: in its except clause the active exception is the failure itself.
Clean ==
  /\ pc = "clean" /\ pc' = "done"
  /\ UNCHANGED <<child, clock, reading, captured, then, timedOut, signalled, result>>

Run ==
  \/ Refuse \/ Start \/ Turn \/ Poll \/ KillGroup \/ KillLeader \/ Reap \/ WaitExpires
  \/ Collect \/ CollectExpires \/ ReadEvidence \/ Clean

Backend ==
  \E p \in Process :
    \/ Leave(p) \/ ChangeUser(p) \/ WriteEvidence(p) \/ Ends(p)
    \/ \E q \in Process : Fork(q, p)
    \/ \E s \in Stream : Write(p, s) \/ CloseOutput(p, s)

\* A run that returned leaves what still runs to itself.
Stop == pc = "done" /\ UNCHANGED vars

Next == Run \/ RunnerError \/ Backend \/ Tick \/ Stop

Spec == Init /\ [][Next]_vars

\* The runner goes on, time passes, and SIGKILL ends a process.  Nothing is
\* asked of the backend, and no error has to happen.
Fairness == WF_vars(Run) /\ WF_vars(Tick) /\ \A p \in Process : WF_vars(Dies(p))
FairSpec == Spec /\ Fairness

-----------------------------------------------------------------------------

\* After a run nothing works on that a signal it sent could have reached: of a
\* group it killed, what left the group or changed its user; and the leader only
\* as another user.
Contained ==
  pc \in {"evidence", "clean", "done"} =>
    /\ process[Leader] = "runs" => signalled # {} /\ Leader \in beyond
    /\ "group" \in signalled => \A p \in Process : process[p] = "runs" => p \in beyond

\* Evidence is accepted only from a leader that ended well by itself, was never
\* signalled and was not late; what else still runs then has given up its
\* outputs, or went beyond the limit.
AcceptedIsFinal ==
  result = "evidence" =>
    /\ code = "zero" /\ signalled = {} /\ ~timedOut
    /\ \A p \in Process, s \in Stream :
         process[p] = "runs" /\ p \in writers[s] => captured[s] = Limit

\* The wait without a timeout (line 115), for a leader that was not signalled
\* because it may not be: it lasts as long as that leader likes.
AtItsMercy == pc = "reap" /\ process[Leader] = "runs" /\ Leader \in beyond

\* A run ends, even when the backend hangs or never stops writing, or it comes
\* to wait for a leader it may not kill.
RunEnds == pc = "loop" ~> (pc = "done" \/ AtItsMercy)
=============================================================================
