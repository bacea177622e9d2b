------------------------------ MODULE RunLedger ------------------------------
(***************************************************************************)
(* latticemind_core/state.py: StateStore.append takes the state lock and   *)
(* Ledger.append reads ledger-v1.jsonl, checks the status against the last *)
(* one of the run, and adds a line that holds its number, the digest of    *)
(* the line before it and its own.                                         *)
(*                                                                         *)
(* A digest is the list of what it was computed from.  A line that does    *)
(* not parse is Torn.  Redaction and the other fields are left out, and so *)
(* is text with U+0085, U+2028 or U+2029, which splitlines() takes for the *)
(* end of a line.                                                          *)
(***************************************************************************)
EXTENDS Integers, Sequences

CONSTANTS
  Run,       \* run ids
  Proc,      \* processes that append
  MaxLines,  \* bound: lines of the ledger
  Faults,    \* what the environment does in this instance
  NoStatus, Torn, NoProc

FaultKinds == {
  "crash",    \* a process is killed while it appends
  "fail",     \* a system call fails
  "power"}    \* the machine stops: what is not on disk may be lost

Status == {"queued", "running", "succeeded", "blocked", "failed", "timed_out", "applied"}

\* _ALLOWED_TRANSITIONS.
Allowed(before) ==
  CASE before = NoStatus    -> {"queued"}
    [] before = "queued"    -> {"running", "blocked", "failed"}
    [] before = "running"   -> {"succeeded", "blocked", "failed", "timed_out"}
    [] before = "succeeded" -> {"applied"}
    [] OTHER                -> {}

Entry == [run : Run, status : Status \union {NoStatus}, sequence : Nat]
Line == [run : Run, status : Status \union {NoStatus}, sequence : Nat,
         previous : Seq(Entry), hash : Seq(Entry)]

ASSUME ConstantsAssumption ==
  /\ NoStatus \notin Status /\ Torn \notin Line /\ NoProc \notin Proc
  /\ MaxLines \in Nat /\ Faults \subseteq FaultKinds

VARIABLES
  file,    \* the lines of the ledger
  ended,   \* whether the last line has its newline
  synced,  \* history: lines a power loss cannot take from the file
  entry,   \* history: a power loss found the file's directory entry on disk
  lock,    \* who holds the state lock
  pc,      \* next step of each call
  lines,   \* what it read
  record,  \* what it appends
  acked    \* history: the lines append returned, since the file was created

vars == <<file, ended, synced, entry, lock, pc, lines, record, acked>>

\* Every variable holds what the code can put there, and only a call that goes
\* on holds the lock.
TypeOK ==
  /\ file \in Seq(Line \union {Torn}) /\ ended \in BOOLEAN
  /\ synced \in 0 .. Len(file) /\ entry \in BOOLEAN
  /\ lock \in Proc \union {NoProc} /\ (lock # NoProc => pc[lock] # "idle")
  /\ pc \in [Proc -> {"idle", "read", "write", "sync"}]
  /\ lines \in [Proc -> Seq(Line \union {Torn})]
  /\ record \in [Proc -> [run : Run, status : Status \union {NoStatus}]]
  /\ acked \subseteq Line

Init ==
  /\ file = <<>> /\ ended = TRUE /\ synced = 0 /\ entry = FALSE
  /\ lock = NoProc /\ pc = [p \in Proc |-> "idle"] /\ lines = [p \in Proc |-> <<>>]
  /\ record \in [Proc -> [run : Run, status : {NoStatus}]]
  /\ acked = {}

Readable(ls) == ls # <<>> => ls[Len(ls)] # Torn

\* The status of the last line of the run that has one.
OfRun(ls, r) == {i \in DOMAIN ls : ls[i].run = r /\ ls[i].status # NoStatus}
Latest(ls, is) ==
  IF is = {} THEN NoStatus ELSE ls[CHOOSE i \in is : \A j \in is : j <= i].status

Prior(ls, r) == Latest(ls, OfRun(ls, r))

\* The line that follows the lines that were read.
Sealed(ls, r) ==
  LET previous == IF ls = <<>> THEN <<>> ELSE ls[Len(ls)].hash
      sequence == IF ls = <<>> THEN 0 ELSE ls[Len(ls)].sequence + 1
  IN [run |-> r.run, status |-> r.status, sequence |-> sequence, previous |-> previous,
      hash |-> Append(previous, [run |-> r.run, status |-> r.status, sequence |-> sequence])]

-----------------------------------------------------------------------------

Goto(p, next) == pc' = [pc EXCEPT ![p] = next]

Blank(r) == [run |-> r.run, status |-> NoStatus]

Forget(p) ==
  /\ lines' = [lines EXCEPT ![p] = <<>>]
  /\ record' = [record EXCEPT ![p] = Blank(@)]

LeaveLocked(p) == Goto(p, "idle") /\ Forget(p) /\ UNCHANGED lock

\* A call ends, and with it its lock and what it knows.
Leave(p) ==
  /\ Goto(p, "idle") /\ Forget(p)
  /\ lock' = IF lock = p THEN NoProc ELSE lock

\* StateStore.append tries the lock once; a held one is a TimeoutError.
Calls(p) ==
  /\ pc[p] = "idle" /\ Len(file) < MaxLines
  /\ \E r \in Run, s \in Status \union {NoStatus} :
       record' = [record EXCEPT ![p] = [run |-> r, status |-> s]]
  /\ Goto(p, "read") /\ lock' = p
  /\ UNCHANGED <<file, ended, synced, entry, lines, acked>>

AcquireHeld(p) == Calls(p)

Acquire(p) == lock = NoProc /\ Calls(p)

Read(p) ==
  /\ pc[p] = "read" /\ lines' = [lines EXCEPT ![p] = file] /\ Goto(p, "write")
  /\ UNCHANGED <<file, ended, synced, entry, lock, record, acked>>

ValidAfterLast(ls, r) ==
  Readable(ls) /\ (r.status # NoStatus => r.status \in Allowed(Latest(ls, DOMAIN ls)))

Valid(ls, r) == Readable(ls) /\ (r.status # NoStatus => r.status \in Allowed(Prior(ls, r.run)))

Refuse(p) ==
  /\ pc[p] = "write" /\ ~Valid(lines[p], record[p])
  /\ Leave(p)
  /\ UNCHANGED <<file, ended, synced, entry, acked>>

\* The file as it is once some bytes were added: they join a last line that has
\* no newline, and that line does not parse any more.
Adding(line) == IF ended THEN Append(file, line) ELSE [file EXCEPT ![Len(file)] = Torn]

Write(p) ==
  /\ pc[p] = "write" /\ Valid(lines[p], record[p])
  /\ file' = Adding(Sealed(lines[p], record[p])) /\ ended' = TRUE
  /\ Goto(p, "sync")
  /\ UNCHANGED <<synced, entry, lock, lines, record, acked>>

\* The write stops half way, maybe just before the newline: the process dies,
\* or the disk is full.
WriteStops(p) ==
  /\ {"crash", "fail"} \intersect Faults # {}
  /\ pc[p] = "write" /\ Valid(lines[p], record[p])
  /\ file' \in {Adding(Torn), Adding(Sealed(lines[p], record[p]))} /\ ended' = FALSE
  /\ Leave(p)
  /\ UNCHANGED <<synced, entry, acked>>

\* fsync, and append returns the line.
Ack(p) == Leave(p) /\ acked' = acked \union {Sealed(lines[p], record[p])}

AckUnsynced(p) ==
  /\ pc[p] = "sync" /\ Ack(p)
  /\ UNCHANGED <<file, ended, synced, entry>>

Sync(p) ==
  /\ pc[p] = "sync" /\ synced' = Len(file) /\ Ack(p)
  /\ UNCHANGED <<file, ended, entry>>

\* Killed, or raised for a call that fails: the line stays, and is not returned.
Stops(p) ==
  /\ {"crash", "fail"} \intersect Faults # {} /\ pc[p] # "idle" /\ Leave(p)
  /\ UNCHANGED <<file, ended, synced, entry, acked>>

\* append never syncs the directory, which the system writes in its own time: a
\* power loss may take the whole file, until one has left it.
FileGoes ==
  /\ ~entry
  /\ file' = <<>> /\ ended' = TRUE /\ synced' = 0 /\ acked' = {} /\ entry' = entry

TailGoes ==
  /\ \E n \in synced .. Len(file) :
       \/ file' = SubSeq(file, 1, n) /\ ended' = (IF n = Len(file) THEN ended ELSE TRUE)
       \/ /\ n < Len(file) /\ ended' = FALSE
          /\ file' \in {Append(SubSeq(file, 1, n), Torn), SubSeq(file, 1, n + 1)}
  /\ synced' = Len(file') /\ entry' = (entry \/ file # <<>>) /\ acked' = acked

Power ==
  /\ "power" \in Faults
  /\ FileGoes \/ TailGoes
  /\ lock' = NoProc /\ pc' = [p \in Proc |-> "idle"] /\ lines' = [p \in Proc |-> <<>>]
  /\ record' = [p \in Proc |-> Blank(record[p])]

\* A ledger at its bound takes no call.
Full == Len(file) = MaxLines /\ UNCHANGED vars

Next ==
  \/ \E p \in Proc :
       \/ Acquire(p) \/ Read(p) \/ Refuse(p) \/ Write(p)
       \/ WriteStops(p) \/ Sync(p) \/ Stops(p)
  \/ Power \/ Full

Spec == Init /\ [][Next]_vars

-----------------------------------------------------------------------------

\* Ledger.verify: numbers, links and digests, for a ledger that parses.
Linked(ls, i) ==
  /\ ls[i] # Torn
  /\ ls[i].sequence = i - 1
  /\ ls[i].previous = IF i = 1 THEN <<>> ELSE ls[i - 1].hash
  /\ ls[i].hash = Append(ls[i].previous,
       [run |-> ls[i].run, status |-> ls[i].status, sequence |-> ls[i].sequence])

Verify(ls) == \A i \in DOMAIN ls : Linked(ls, i)

\* A ledger whose last line parses verifies, and one whose last line is torn
\* verifies up to it, whoever appended and wherever an append stopped.
Sound(ls) == IF Readable(ls) THEN Verify(ls) ELSE Verify(SubSeq(ls, 1, Len(ls) - 1))

ChainSound == Sound(file)

\* The statuses of a run follow each other as the table of transitions allows.
Legal(ls) ==
  \A i \in DOMAIN ls :
    ls[i] # Torn /\ ls[i].status # NoStatus =>
      ls[i].status \in Allowed(Prior(SubSeq(ls, 1, i - 1), ls[i].run))

LegalRuns == Legal(file)

\* A line append returned stays where it was, through crashes and power losses.
\* One exception is the line that joined a last line without a newline: the
\* ledger then ends torn and takes no other.  The other is a power loss before
\* the directory is on disk: it may take the file with every line in it, and
\* append starts a new one.
AckedKept ==
  \A line \in acked :
    \/ line.sequence + 1 \in DOMAIN file /\ file[line.sequence + 1] = line
    \/ line.sequence = Len(file) /\ ~Readable(file)
=============================================================================
