---------------------------- MODULE FreshnessScan ----------------------------
(***************************************************************************)
(* latticemind_core/freshness.py: scan reads the vault twice, and when     *)
(* both manifests agree publishes a work packet of the notes that are due  *)
(* and a report of the manifest, each in a file named by the digest of     *)
(* what it holds.  Users edit the vault meanwhile, and scans overlap.      *)
(*                                                                         *)
(* The vault is one directory.  A version stands for a note's bytes, inode *)
(* and mode; Bad for what a scan refuses: a link, a special or oversized   *)
(* file, a front matter it cannot parse.  Names are numbered as sort       *)
(* orders their ids, and an output is what its name is the digest of.      *)
(***************************************************************************)
EXTENDS Integers, FiniteSets

CONSTANTS
  Name,     \* names of notes
  Version,  \* what a note can be
  Due,      \* the versions that are due on the day of the scan
  Rank,     \* their place in the order of candidates
  Cap,      \* MAX_CANDIDATES
  Start,    \* the vaults an instance starts from
  Scan,     \* processes that scan
  MaxEdits, \* bound: how often notes change
  Faults,   \* what the environment does in this instance
  Absent, Bad, None

FaultKinds == {
  "crash",   \* a scan is killed
  "fail",    \* a system call fails
  "revert"}  \* a note becomes again what it was before

Look == Version \union {Absent, Bad}
Manifest == [Name -> Version \union {Absent}]

ASSUME ConstantsAssumption ==
  /\ Name \subseteq Nat /\ IsFiniteSet(Name)
  /\ Due \subseteq Version /\ Rank \in [Version -> Nat] /\ Cap \in Nat /\ MaxEdits \in Nat
  /\ Start \subseteq [Name -> Look]
  /\ Absent \notin Version /\ Bad \notin Version /\ Absent # Bad /\ None \notin Name
  /\ Faults \subseteq FaultKinds

VARIABLES
  vault,    \* the notes
  past,     \* history: what each name was before
  scan,     \* the local variables of each scan; history, in mid: the vault when it
            \* began its second manifest
  partial,  \* outputs that are created and not yet written
  whole     \* outputs that are written

vars == <<vault, past, scan, partial, whole>>

Nothing == [f \in Name |-> Absent]
Idle == [pc |-> "idle", todo |-> {}, open |-> None, touched |-> FALSE, mine |-> FALSE,
         before |-> Nothing, after |-> Nothing, mid |-> Nothing]

\* The due notes of a manifest, the first Cap of them in the order of the sort.
Ahead(m, f, g) == Rank[m[f]] < Rank[m[g]] \/ (Rank[m[f]] = Rank[m[g]] /\ f < g)
FirstCandidates(m, cap) ==
  LET due == {f \in Name : m[f] \in Due}
      first == {f \in due : Cardinality({g \in due : Ahead(m, g, f)}) < cap}
  IN {<<f, m[f]>> : f \in first}

CandidatesPlusOne(m) == FirstCandidates(m, Cap + 1)

Candidates(m) == FirstCandidates(m, Cap)

Packet(m) == [kind |-> "packet", of |-> Candidates(m)]
Report(m) == [kind |-> "report", of |-> m]

Output ==
  [kind : {"packet"}, of : {c \in SUBSET (Name \X Due) : Cardinality(c) <= Cap}]
  \union [kind : {"report"}, of : Manifest]

\* Every variable holds what the code can put there; no packet has more
\* candidates than the cap.
TypeOK ==
  /\ vault \in [Name -> Look] /\ past \in [Name -> SUBSET Look]
  /\ scan \in [Scan -> [pc : {"idle", "first", "second", "packet", "report"},
       todo : SUBSET Name, open : Name \union {None}, touched : BOOLEAN, mine : BOOLEAN,
       before : Manifest, after : Manifest, mid : [Name -> Look]]]
  /\ partial \subseteq Output /\ whole \subseteq Output

Init ==
  /\ vault \in Start /\ past = [f \in Name |-> {}]
  /\ scan = [s \in Scan |-> Idle]
  /\ partial = {} /\ whole = {}

-----------------------------------------------------------------------------
\* Users write, replace, remove and create notes.

Edit(f) ==
  /\ Cardinality({c \in Name \X Look : c[2] \in past[c[1]]}) < MaxEdits
  /\ \E v \in Look \ {vault[f]} :
       /\ v \notin past[f] \/ "revert" \in Faults
       /\ vault' = [vault EXCEPT ![f] = v]
  /\ past' = [past EXCEPT ![f] = @ \union {vault[f]}]
  /\ scan' = [s \in Scan |-> [scan[s] EXCEPT !.touched = @ \/ scan[s].open = f]]
  /\ UNCHANGED <<partial, whole>>

-----------------------------------------------------------------------------
\* _manifest_snapshot, twice: the names that are there, then note after note.

Become(s, r) == scan' = [scan EXCEPT ![s] = r]
Present == {f \in Name : vault[f] # Absent}
Reads(s) == scan[s].pc \in {"first", "second"}

NextNote(s, f) == f \in scan[s].todo /\ \A g \in scan[s].todo : f <= g

Begin(s) ==
  /\ scan[s].pc = "idle"
  /\ Become(s, [Idle EXCEPT !.pc = "first", !.todo = Present])
  /\ UNCHANGED <<vault, past, partial, whole>>

Open(s, f) ==
  /\ Reads(s) /\ scan[s].open = None /\ NextNote(s, f) /\ vault[f] \in Version
  /\ Become(s, [scan[s] EXCEPT !.open = f, !.touched = FALSE])
  /\ UNCHANGED <<vault, past, partial, whole>>

\* A note whose stat did not change while it was open.
Read(s) ==
  LET r == scan[s]
      f == r.open
      done == [r EXCEPT !.todo = @ \ {f}, !.open = None]
  IN /\ Reads(s) /\ f # None /\ ~r.touched
     /\ Become(s, IF r.pc = "first" THEN [done EXCEPT !.before[f] = vault[f]]
                  ELSE [done EXCEPT !.after[f] = vault[f]])
     /\ UNCHANGED <<vault, past, partial, whole>>

Again(s) ==
  /\ scan[s].pc = "first" /\ scan[s].todo = {}
  /\ Become(s, [scan[s] EXCEPT !.pc = "second", !.todo = Present, !.mid = vault])
  /\ UNCHANGED <<vault, past, partial, whole>>

SkipComparison(s) ==
  /\ scan[s].pc = "second" /\ scan[s].todo = {}
  /\ Become(s, [scan[s] EXCEPT !.pc = "packet"])
  /\ UNCHANGED <<vault, past, partial, whole>>

Compare(s) ==
  /\ scan[s].pc = "second" /\ scan[s].todo = {}
  /\ Become(s, IF scan[s].before # scan[s].after THEN Idle
               ELSE [scan[s] EXCEPT !.pc = "packet", !.after = Nothing])
  /\ UNCHANGED <<vault, past, partial, whole>>

\* A note changed while it was open, is gone, or is none a scan accepts; or a
\* system call fails.  The scan raises.
Raise(s) ==
  /\ \/ scan[s].open # None /\ scan[s].touched
     \/ \E f \in Name : NextNote(s, f) /\ vault[f] \notin Version
     \/ scan[s].pc # "idle" /\ "fail" \in Faults
  /\ ~scan[s].mine /\ Become(s, Idle)
  /\ UNCHANGED <<vault, past, partial, whole>>

-----------------------------------------------------------------------------
\* _publish_exclusive: the packet first, then the report.

Target(s) ==
  IF scan[s].pc = "packet" THEN Packet(scan[s].before) ELSE Report(scan[s].before)

Publishes(s) == scan[s].pc \in {"packet", "report"}

Published(s) ==
  Become(s, IF scan[s].pc = "report" THEN Idle ELSE [scan[s] EXCEPT !.pc = "report", !.mine = FALSE])

CreateOver(s) ==
  /\ Publishes(s) /\ ~scan[s].mine
  /\ partial' = partial \union {Target(s)} /\ whole' = whole \ {Target(s)}
  /\ Become(s, [scan[s] EXCEPT !.mine = TRUE])
  /\ UNCHANGED <<vault, past>>

Create(s) ==
  /\ Publishes(s) /\ ~scan[s].mine /\ Target(s) \notin partial \union whole
  /\ partial' = partial \union {Target(s)}
  /\ Become(s, [scan[s] EXCEPT !.mine = TRUE])
  /\ UNCHANGED <<vault, past, whole>>

Written(s) ==
  /\ Publishes(s) /\ scan[s].mine
  /\ partial' = partial \ {Target(s)} /\ whole' = whole \union {Target(s)}
  /\ Published(s)
  /\ UNCHANGED <<vault, past>>

\* An output that is there must hold the same.
AlreadyThere(s) ==
  /\ Publishes(s) /\ ~scan[s].mine /\ Target(s) \in whole
  /\ Published(s)
  /\ UNCHANGED <<vault, past, partial, whole>>

Collision(s) ==
  /\ Publishes(s) /\ ~scan[s].mine /\ Target(s) \in partial
  /\ Become(s, Idle)
  /\ UNCHANGED <<vault, past, partial, whole>>

\* The writer unlinks the name it writes to, whoever wrote there, if it can.
WriteFails(s) ==
  /\ "fail" \in Faults /\ scan[s].mine
  /\ \/ partial' = partial \ {Target(s)} /\ whole' = whole \ {Target(s)}
     \/ UNCHANGED <<partial, whole>>
  /\ Become(s, Idle)
  /\ UNCHANGED <<vault, past>>

Crash(s) ==
  /\ "crash" \in Faults /\ scan[s].pc # "idle"
  /\ Become(s, Idle)
  /\ UNCHANGED <<vault, past, partial, whole>>

Step(s) ==
  \/ Begin(s) \/ (\E f \in Name : Open(s, f)) \/ Read(s) \/ Again(s) \/ Compare(s) \/ Raise(s)
  \/ Create(s) \/ Written(s) \/ AlreadyThere(s) \/ Collision(s) \/ WriteFails(s) \/ Crash(s)

Next == (\E f \in Name : Edit(f)) \/ (\E s \in Scan : Step(s))

Spec == Init /\ [][Next]_vars

-----------------------------------------------------------------------------

\* What a scan reports is what the vault was at one moment: when it began to
\* read it again.  A note that becomes again what it was escapes both manifests.
ReportIsSnapshot == \A s \in Scan : Publishes(s) => scan[s].before = scan[s].mid

\* A report that can be read names a packet that can be read.
ReportHasPacket == \A m \in Manifest : Report(m) \in whole => Packet(m) \in whole

\* A published output is never replaced or removed, by a later scan, by one
\* that overlaps or by one that fails.
PublishedStays == [][whole \subseteq whole']_vars

\* What each scan has seen: the vault when it began its second manifest.
Seen ==
  [s \in Scan |-> IF scan[s].pc \in {"second", "packet", "report"} THEN {scan[s].mid} ELSE {}]

\* An output is in the archive once it is written.
Archive == INSTANCE SnapshotArchive WITH seen <- Seen, archive <- whole

\* Every behaviour is one of SnapshotArchive: scans that read note after note
\* while users edit, overlap, die and fail publish as if each had seen the whole
\* vault at once, the packet before the report, in files that are never touched
\* again (lines 252 and 264-272, and _publish_exclusive).
ImplementsSnapshotArchive == Archive!Spec
=============================================================================
