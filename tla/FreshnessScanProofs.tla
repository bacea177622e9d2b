------------------------ MODULE FreshnessScanProofs ------------------------
(***************************************************************************)
(* Proofs about FreshnessScan, for any notes, versions and cap, any number *)
(* of scans that overlap, edits, crashes and failures.                     *)
(***************************************************************************)
EXTENDS FreshnessScan, FunctionTheorems, FiniteSetTheorems, TLAPS

\* The output a scan has created and not written yet is its own: nobody else
\* writes to it, and nobody has published it.
Owns ==
  /\ \A s \in Scan : scan[s].mine => Publishes(s) /\ Target(s) \in partial
  /\ \A s, t \in Scan :
       s # t /\ scan[s].mine /\ scan[t].mine => Target(s) # Target(t)
  /\ partial \cap whole = {}

\* The packet is published before the report is begun.
PacketFirst ==
  \A s \in Scan : scan[s].pc = "report" => Packet(scan[s].before) \in whole

\* A note that is open and was not touched is one a scan accepts.
Untouched ==
  \A s \in Scan : scan[s].open # None /\ ~scan[s].touched => vault[scan[s].open] \in Version

IInv == TypeOK /\ Owns /\ PacketFirst /\ ReportHasPacket /\ Untouched

-----------------------------------------------------------------------------
\* Every due note has fewer due notes ahead of it than the cap allows, and no
\* two have the same number: there are no more of them than the cap.

LEMMA AheadIsOrder ==
  ASSUME NEW m \in Manifest,
         NEW f \in {g \in Name : m[g] \in Due}, NEW g \in {h \in Name : m[h] \in Due}
  PROVE  /\ Ahead(m, f, g) => ~Ahead(m, g, f)
         /\ f # g => Ahead(m, f, g) \/ Ahead(m, g, f)
         /\ \A h \in {k \in Name : m[k] \in Due} :
              Ahead(m, f, g) /\ Ahead(m, h, f) => Ahead(m, h, g)
<1>1. \A h \in {k \in Name : m[k] \in Due} : h \in Nat /\ Rank[m[h]] \in Nat
  BY ConstantsAssumption
<1> QED BY <1>1 DEF Ahead

LEMMA CandidatesBounded ==
  ASSUME NEW m \in Manifest
  PROVE  Candidates(m) \in SUBSET (Name \X Due) /\ Cardinality(Candidates(m)) <= Cap
<1> DEFINE due == {f \in Name : m[f] \in Due}
           before(g) == {h \in due : Ahead(m, h, g)}
           first == {g \in due : Cardinality(before(g)) < Cap}
           place == [g \in first |-> Cardinality(before(g))]
<1>1. IsFiniteSet(due) /\ IsFiniteSet(first)
  BY FS_Subset, ConstantsAssumption
<1>2. \A g \in first : IsFiniteSet(before(g)) /\ Cardinality(before(g)) \in Nat
  BY <1>1, FS_Subset, FS_CardinalityType
<1>3. \A f, g \in first : Ahead(m, f, g) => Cardinality(before(f)) < Cardinality(before(g))
  <2> SUFFICES ASSUME NEW f \in first, NEW g \in first, Ahead(m, f, g)
               PROVE  Cardinality(before(f)) < Cardinality(before(g))
    OBVIOUS
  <2>1. before(f) \in SUBSET before(g)
    BY AheadIsOrder
  <2>2. f \in before(g) /\ f \notin before(f)
    BY AheadIsOrder
  <2>3. /\ Cardinality(before(f)) <= Cardinality(before(g))
        /\ Cardinality(before(g)) # Cardinality(before(f))
    BY <1>2, <2>1, <2>2, FS_Subset
  <2> HIDE DEF before
  <2> QED BY <1>2, <2>3
<1>4. place \in Injection(first, 0 .. Cap - 1)
  <2>1. place \in [first -> 0 .. Cap - 1]
    <3>1. \A g \in first : Cardinality(before(g)) < Cap
      OBVIOUS
    <3> HIDE DEF before, first
    <3>2. \A g \in first : Cardinality(before(g)) \in 0 .. Cap - 1
      BY <1>2, <3>1, ConstantsAssumption
    <3> QED BY <3>2
  <2>2. \A f, g \in first : f # g => place[f] # place[g]
    <3> SUFFICES ASSUME NEW f \in first, NEW g \in first, f # g
                 PROVE  Cardinality(before(f)) # Cardinality(before(g))
      OBVIOUS
    <3>1. Ahead(m, f, g) \/ Ahead(m, g, f)
      BY AheadIsOrder
    <3> HIDE DEF before, first
    <3> QED BY <3>1, <1>2, <1>3
  <2> HIDE DEF place
  <2> QED BY <2>1, <2>2, Fun_IsInj
<1>5. Cardinality(first) <= Cap /\ Cardinality(first) \in Nat
  <2>1. IsFiniteSet(0 .. Cap - 1) /\ Cardinality(0 .. Cap - 1) = Cap
    BY FS_Interval, ConstantsAssumption
  <2> HIDE DEF place, first
  <2> QED BY <1>1, <1>4, <2>1, FS_Injection, FS_CardinalityType
<1>6. Candidates(m) = {<<f, m[f]>> : f \in first}
  BY DEF Candidates, FirstCandidates
<1> DEFINE pair == [f \in first |-> <<f, m[f]>>]
<1>7. pair \in Surjection(first, Candidates(m))
  BY <1>6, Fun_IsSurj
<1>8. Cardinality(Candidates(m)) <= Cardinality(first) /\ IsFiniteSet(Candidates(m))
  <2> HIDE DEF pair, first
  <2> QED BY <1>1, <1>7, FS_Surjection
<1>9. Candidates(m) \in SUBSET (Name \X Due)
  <2>1. \A f \in first : f \in Name /\ m[f] \in Due
    OBVIOUS
  <2> HIDE DEF first
  <2> QED BY <1>6, <2>1
<1> HIDE DEF first
<1> QED BY <1>5, <1>8, <1>9, FS_CardinalityType, ConstantsAssumption

LEMMA TargetType ==
  ASSUME NEW m \in Manifest
  PROVE  Packet(m) \in Output /\ Report(m) \in Output
BY CandidatesBounded DEF Packet, Report, Output

LEMMA TargetKind ==
  /\ \A m, n : Packet(m) # Report(n)
  /\ \A m, n : Report(m) = Report(n) => m = n
BY DEF Packet, Report

-----------------------------------------------------------------------------

Local == [pc : {"idle", "first", "second", "packet", "report"},
  todo : SUBSET Name, open : Name \union {None}, touched : BOOLEAN, mine : BOOLEAN,
  before : Manifest, after : Manifest, mid : [Name -> Look]]

LEMMA LocalType ==
  /\ TypeOK => scan \in [Scan -> Local]
  /\ Idle \in Local /\ Nothing \in Manifest
BY ConstantsAssumption DEF TypeOK, Local, Idle, Nothing, Manifest, Look

LEMMA InitInv == Init => IInv
<1> SUFFICES ASSUME Init PROVE IInv
  OBVIOUS
<1>1. TypeOK
  <2>1. scan \in [Scan -> Local]
    BY LocalType DEF Init
  <2> QED BY <2>1, ConstantsAssumption DEF Init, TypeOK, Local
<1>2. Owns /\ PacketFirst /\ ReportHasPacket /\ Untouched
  BY DEF Init, Idle, Owns, PacketFirst, ReportHasPacket, Untouched
<1> QED BY <1>1, <1>2 DEF IInv

\* A scan that owns nothing after its step, and leaves the outputs alone.
LEMMA QuietInv ==
  ASSUME IInv, NEW s \in Scan, NEW r \in Local, Become(s, r), UNCHANGED <<vault, past, partial, whole>>,
         ~r.mine, r.pc = "report" => Packet(r.before) \in whole,
         r.open # None /\ ~r.touched => vault[r.open] \in Version
  PROVE  IInv'
<1>1. scan \in [Scan -> Local] /\ scan' = [scan EXCEPT ![s] = r]
  BY LocalType DEF IInv, Become
<1>2. \A t \in Scan : scan'[t] = IF t = s THEN r ELSE scan[t]
  BY <1>1
<1>3. scan' \in [Scan -> Local]
  BY <1>1
<1>4. TypeOK'
  BY <1>3 DEF IInv, TypeOK, Local
<1>5. Owns'
  BY <1>2 DEF IInv, Owns, Publishes, Target
<1>6. PacketFirst'
  BY <1>2 DEF IInv, PacketFirst
<1>7. ReportHasPacket' /\ Untouched'
  BY <1>2 DEF IInv, ReportHasPacket, Untouched
<1> QED BY <1>4, <1>5, <1>6, <1>7 DEF IInv

LEMMA EditInv ==
  ASSUME IInv, NEW f \in Name, Edit(f)
  PROVE  IInv'
<1>1. scan \in [Scan -> Local]
  BY LocalType DEF IInv
<1>2. scan' = [s \in Scan |-> [scan[s] EXCEPT !.touched = @ \/ scan[s].open = f]]
  BY DEF Edit
<1>3. scan' \in [Scan -> Local]
  <2> SUFFICES ASSUME NEW s \in Scan PROVE scan'[s] \in Local
    BY <1>2
  <2>1. (scan[s].touched \/ scan[s].open = f) \in BOOLEAN
    OBVIOUS
  <2> QED BY <1>1, <1>2, <2>1 DEF Local
<1>4. \A s \in Scan : /\ scan'[s].pc = scan[s].pc /\ scan'[s].mine = scan[s].mine
                      /\ scan'[s].before = scan[s].before
  BY <1>1, <1>2 DEF Local
<1>5. vault' \in [Name -> Look] /\ past' \in [Name -> SUBSET Look]
  BY DEF IInv, TypeOK, Edit
<1>6. UNCHANGED <<partial, whole>>
  BY DEF Edit
<1>7. TypeOK'
  BY <1>3, <1>5, <1>6 DEF IInv, TypeOK, Local
<1>8. Owns'
  BY <1>4, <1>6 DEF IInv, Owns, Publishes, Target
<1>9. PacketFirst' /\ ReportHasPacket'
  BY <1>4, <1>6 DEF IInv, PacketFirst, ReportHasPacket
<1>10. Untouched'
  <2> SUFFICES ASSUME NEW s \in Scan, scan'[s].open # None, ~scan'[s].touched
               PROVE  vault'[scan'[s].open] \in Version
    BY DEF Untouched
  <2>1. /\ scan'[s].open = scan[s].open
        /\ scan'[s].touched = (scan[s].touched \/ scan[s].open = f)
    BY <1>1, <1>2 DEF Local
  <2>2. scan[s].open \in Name /\ scan[s].open # f /\ ~scan[s].touched
    BY <1>1, <2>1 DEF Local
  <2>3. vault'[scan[s].open] = vault[scan[s].open]
    BY <2>2 DEF Edit, IInv, TypeOK
  <2> QED BY <2>1, <2>2, <2>3 DEF IInv, Untouched
<1> QED BY <1>7, <1>8, <1>9, <1>10 DEF IInv

\* The output of a scan has its type.
LEMMA TargetIn ==
  ASSUME IInv, NEW s \in Scan, Publishes(s)
  PROVE  /\ Target(s) \in Output
         /\ scan[s].pc = "packet" => Target(s) = Packet(scan[s].before)
         /\ scan[s].pc = "report" => Target(s) = Report(scan[s].before)
<1>1. scan[s].before \in Manifest
  BY LocalType DEF IInv, Local
<1> QED BY <1>1, TargetType DEF Publishes, Target

LEMMA CreateInv ==
  ASSUME IInv, NEW s \in Scan, Create(s)
  PROVE  IInv'
<1> DEFINE r == [scan[s] EXCEPT !.mine = TRUE]
<1>1. /\ Publishes(s) /\ Target(s) \notin partial \union whole
      /\ partial' = partial \union {Target(s)} /\ scan' = [scan EXCEPT ![s] = r]
      /\ UNCHANGED <<vault, past, whole>>
  BY DEF Create, Become
<1>2. scan \in [Scan -> Local] /\ r \in Local
  BY LocalType DEF IInv, Local
<1>3. \A t \in Scan : scan'[t] = IF t = s THEN r ELSE scan[t]
  BY <1>1, <1>2
<1>4. /\ r.pc = scan[s].pc /\ r.before = scan[s].before
      /\ \A t \in Scan : scan'[t].pc = scan[t].pc /\ scan'[t].before = scan[t].before
      /\ \A t \in Scan : scan'[t].open = scan[t].open /\ scan'[t].touched = scan[t].touched
      /\ \A t \in Scan : t # s => scan'[t].mine = scan[t].mine
  BY <1>2, <1>3 DEF Local
<1>5. \A t \in Scan : Target(t)' = Target(t) /\ (Publishes(t)' <=> Publishes(t))
  BY <1>4 DEF Target, Publishes
<1>6. TypeOK'
  <2>1. scan' \in [Scan -> Local]
    BY <1>1, <1>2
  <2> QED BY <1>1, <2>1, TargetIn DEF IInv, TypeOK, Local
<1>7. Owns'
  <2>1. \A t \in Scan : t # s /\ scan'[t].mine => Publishes(t)' /\ Target(t)' \in partial
    BY <1>4, <1>5 DEF IInv, Owns
  <2>2. \A t, u \in Scan : t # u /\ t # s /\ u # s /\ scan'[t].mine /\ scan'[u].mine
                             => Target(t)' # Target(u)'
    BY <1>4, <1>5 DEF IInv, Owns
  <2>3. partial' \cap whole' = {}
    BY <1>1 DEF IInv, Owns
  <2>4. \A t \in Scan : t # s /\ scan'[t].mine => Target(t)' # Target(s)'
    BY <1>1, <1>5, <2>1
  <2>5. Publishes(s)' /\ Target(s)' \in partial'
    BY <1>1, <1>5
  <2> QED BY <1>1, <2>1, <2>2, <2>3, <2>4, <2>5 DEF Owns
<1>8. PacketFirst' /\ ReportHasPacket' /\ Untouched'
  BY <1>1, <1>4 DEF IInv, PacketFirst, ReportHasPacket, Untouched
<1> QED BY <1>6, <1>7, <1>8 DEF IInv

LEMMA WrittenInv ==
  ASSUME IInv, NEW s \in Scan, Written(s)
  PROVE  IInv'
<1> DEFINE r == IF scan[s].pc = "report" THEN Idle ELSE [scan[s] EXCEPT !.pc = "report", !.mine = FALSE]
<1>1. /\ Publishes(s) /\ scan[s].mine /\ scan' = [scan EXCEPT ![s] = r]
      /\ partial' = partial \ {Target(s)} /\ whole' = whole \union {Target(s)}
      /\ UNCHANGED <<vault, past>>
  BY DEF Written, Published, Become
<1>2. scan \in [Scan -> Local] /\ r \in Local
  BY LocalType DEF IInv, Local
<1>3. \A t \in Scan : scan'[t] = IF t = s THEN r ELSE scan[t]
  BY <1>1, <1>2
<1>4. /\ r.mine = FALSE /\ (r.pc = "report" => scan[s].pc = "packet" /\ r.before = scan[s].before)
      /\ r.open = None \/ (r.open = scan[s].open /\ r.touched = scan[s].touched)
  BY <1>1, <1>2 DEF Local, Idle, Publishes
<1>5. TypeOK'
  <2>1. scan' \in [Scan -> Local]
    BY <1>1, <1>2
  <2> QED BY <1>1, <2>1, TargetIn DEF IInv, TypeOK, Local
<1> HIDE DEF r
<1>6. Owns'
  <2>1. \A t \in Scan : scan'[t].mine => t # s /\ scan[t].mine
    BY <1>3, <1>4
  <2>2. \A t \in Scan : t # s => Target(t)' = Target(t) /\ (Publishes(t)' <=> Publishes(t))
    BY <1>3 DEF Target, Publishes
  <2> QED BY <1>1, <2>1, <2>2 DEF IInv, Owns
<1>7. PacketFirst'
  <2> SUFFICES ASSUME NEW t \in Scan, scan'[t].pc = "report"
               PROVE  Packet(scan'[t].before) \in whole'
    BY DEF PacketFirst
  <2> QED BY <1>1, <1>3, <1>4, TargetIn DEF IInv, PacketFirst
<1>8. ReportHasPacket'
  <2> SUFFICES ASSUME NEW m \in Manifest, Report(m) \in whole \union {Target(s)}
               PROVE  Packet(m) \in whole \union {Target(s)}
    BY <1>1 DEF ReportHasPacket
  <2>1. CASE Report(m) \in whole
    BY <2>1 DEF IInv, ReportHasPacket
  <2>2. CASE Report(m) = Target(s)
    <3>1. scan[s].pc = "report" /\ m = scan[s].before
      BY <1>1, <2>2, TargetIn, TargetKind DEF Publishes
    <3> QED BY <3>1 DEF IInv, PacketFirst
  <2> QED BY <2>1, <2>2
<1>9. Untouched'
  BY <1>1, <1>3, <1>4 DEF IInv, Untouched
<1> QED BY <1>5, <1>6, <1>7, <1>8, <1>9 DEF IInv

\* A write that fails takes away nothing that is published.
LEMMA UnlinkInv ==
  ASSUME IInv, NEW s \in Scan, scan[s].mine, Become(s, Idle), UNCHANGED <<vault, past>>,
         partial' = partial \ {Target(s)}, whole' = whole \ {Target(s)}
  PROVE  IInv' /\ whole' = whole
<1>1. scan \in [Scan -> Local] /\ scan' = [scan EXCEPT ![s] = Idle]
  BY LocalType DEF IInv, Become
<1>2. \A t \in Scan : scan'[t] = IF t = s THEN Idle ELSE scan[t]
  BY <1>1
<1>3. whole' = whole
  BY DEF IInv, Owns
<1>4. TypeOK'
  <2>1. scan' \in [Scan -> Local]
    BY <1>1, LocalType
  <2> QED BY <2>1, <1>3 DEF IInv, TypeOK, Local
<1>5. Owns'
  <2>1. \A t \in Scan : scan'[t].mine => t # s /\ scan[t].mine
    BY <1>2 DEF Idle
  <2>2. \A t \in Scan : t # s => Target(t)' = Target(t) /\ (Publishes(t)' <=> Publishes(t))
    BY <1>2 DEF Target, Publishes
  <2> QED BY <1>3, <2>1, <2>2 DEF IInv, Owns
<1>6. PacketFirst' /\ ReportHasPacket' /\ Untouched'
  BY <1>2, <1>3 DEF IInv, PacketFirst, ReportHasPacket, Untouched, Idle
<1> QED BY <1>3, <1>4, <1>5, <1>6 DEF IInv

LEMMA StepInv ==
  ASSUME IInv, [Next]_vars
  PROVE  IInv' /\ whole \subseteq whole'
<1>1. ASSUME NEW f \in Name, Edit(f)
      PROVE  IInv' /\ whole \subseteq whole'
  BY <1>1, EditInv DEF Edit
<1>2. ASSUME NEW s \in Scan, Step(s)
      PROVE  IInv' /\ whole \subseteq whole'
  <2> DEFINE r == scan[s]
  <2>1. r \in Local /\ Idle \in Local
    BY LocalType DEF IInv
  <2>2. Idle.mine = FALSE /\ Idle.pc = "idle" /\ Idle.open = None
    BY DEF Idle
  <2>3. /\ r.mine => r.pc \in {"packet", "report"}
        /\ r.open # None /\ ~r.touched => vault[r.open] \in Version
        /\ r.pc = "report" => Packet(r.before) \in whole
    BY DEF IInv, Owns, Publishes, Untouched, PacketFirst
  <2>4. ASSUME Become(s, Idle), UNCHANGED <<vault, past, partial, whole>>
        PROVE  IInv' /\ whole \subseteq whole'
    BY <2>1, <2>2, <2>4, QuietInv
  <2>5. CASE Begin(s)
    <3> DEFINE q == [Idle EXCEPT !.pc = "first", !.todo = Present]
    <3>1. q \in Local /\ q.mine = FALSE /\ q.pc = "first" /\ q.open = None
      BY <2>1, <2>2 DEF Local, Present
    <3>2. Become(s, q) /\ UNCHANGED <<vault, past, partial, whole>>
      BY <2>5 DEF Begin
    <3> HIDE DEF q
    <3> QED BY <3>1, <3>2, QuietInv
  <2>6. ASSUME NEW f \in Name, Open(s, f)
        PROVE  IInv' /\ whole \subseteq whole'
    <3> DEFINE q == [r EXCEPT !.open = f, !.touched = FALSE]
    <3>1. /\ q \in Local /\ q.mine = r.mine /\ q.pc = r.pc /\ q.open = f
          /\ r.pc \in {"first", "second"} /\ vault[f] \in Version
      BY <2>1, <2>6 DEF Local, Open, Reads
    <3>2. Become(s, q) /\ UNCHANGED <<vault, past, partial, whole>>
      BY <2>6 DEF Open
    <3> HIDE DEF q, r
    <3> QED BY <2>3, <3>1, <3>2, QuietInv
  <2>7. CASE Read(s)
    <3> DEFINE f == r.open
               done == [r EXCEPT !.todo = @ \ {f}, !.open = None]
               q == IF r.pc = "first" THEN [done EXCEPT !.before[f] = vault[f]]
                    ELSE [done EXCEPT !.after[f] = vault[f]]
    <3>1. r.pc \in {"first", "second"} /\ f # None /\ ~r.touched
      BY <2>7 DEF Read, Reads
    <3>2. f \in Name /\ vault[f] \in Version
      BY <2>1, <2>3, <3>1 DEF Local
    <3>3. done \in Local /\ done.mine = r.mine /\ done.pc = r.pc /\ done.open = None
      BY <2>1 DEF Local
    <3>4. Become(s, q) /\ UNCHANGED <<vault, past, partial, whole>>
      BY <2>7 DEF Read
    <3> HIDE DEF done
    <3>5. [done.before EXCEPT ![f] = vault[f]] \in Manifest /\ [done.after EXCEPT ![f] = vault[f]] \in Manifest
      BY <3>2, <3>3 DEF Local, Manifest
    <3>6. q \in Local /\ q.mine = done.mine /\ q.pc = r.pc /\ q.open = None
      BY <3>3, <3>5 DEF Local
    <3> HIDE DEF q, r
    <3> QED BY <2>3, <3>1, <3>3, <3>4, <3>6, QuietInv
  <2>8. CASE Again(s)
    <3> DEFINE q == [r EXCEPT !.pc = "second", !.todo = Present, !.mid = vault]
    <3>1. /\ q \in Local /\ q.mine = r.mine /\ q.pc = "second" /\ r.pc = "first"
          /\ q.open = r.open /\ q.touched = r.touched
      BY <2>1, <2>8 DEF Local, Again, Present, IInv, TypeOK
    <3>2. Become(s, q) /\ UNCHANGED <<vault, past, partial, whole>>
      BY <2>8 DEF Again
    <3> HIDE DEF q, r
    <3> QED BY <2>3, <3>1, <3>2, QuietInv
  <2>9. CASE Compare(s)
    <3> DEFINE q == [r EXCEPT !.pc = "packet", !.after = Nothing]
    <3>1. /\ q \in Local /\ q.mine = r.mine /\ q.pc = "packet" /\ r.pc = "second"
          /\ q.open = r.open /\ q.touched = r.touched
      BY <2>1, <2>9, LocalType DEF Local, Compare
    <3>2. (Become(s, q) \/ Become(s, Idle)) /\ UNCHANGED <<vault, past, partial, whole>>
      BY <2>9 DEF Compare
    <3> HIDE DEF q, r
    <3> QED BY <2>3, <2>4, <3>1, <3>2, QuietInv
  <2>10. CASE Raise(s) \/ Collision(s) \/ Crash(s)
    BY <2>4, <2>10 DEF Raise, Collision, Crash
  <2>11. CASE Create(s)
    BY <2>11, CreateInv DEF Create
  <2>12. CASE Written(s)
    BY <2>12, WrittenInv DEF Written
  <2>13. CASE AlreadyThere(s)
    <3> DEFINE q == [r EXCEPT !.pc = "report", !.mine = FALSE]
    <3>1. /\ q \in Local /\ q.mine = FALSE /\ q.before = r.before
          /\ q.open = r.open /\ q.touched = r.touched
      BY <2>1 DEF Local
    <3>2. /\ Publishes(s) /\ Target(s) \in whole /\ UNCHANGED <<vault, past, partial, whole>>
          /\ Become(s, IF r.pc = "report" THEN Idle ELSE q)
      BY <2>13 DEF AlreadyThere, Published
    <3>3. CASE r.pc = "report"
      BY <2>4, <3>2, <3>3
    <3>4. CASE r.pc # "report"
      <4>1. Target(s) = Packet(r.before)
        BY <3>2, <3>4, TargetIn DEF Publishes
      <4>2. Become(s, q)
        BY <3>2, <3>4
      <4> HIDE DEF q, r
      <4> QED BY <2>3, <3>1, <3>2, <4>1, <4>2, QuietInv
    <3> QED BY <3>3, <3>4
  <2>14. CASE WriteFails(s)
    <3>1. scan[s].mine /\ Become(s, Idle) /\ UNCHANGED <<vault, past>>
      BY <2>14 DEF WriteFails
    <3>2. CASE partial' = partial \ {Target(s)} /\ whole' = whole \ {Target(s)}
      BY <3>1, <3>2, UnlinkInv
    <3>3. CASE UNCHANGED <<partial, whole>>
      BY <2>4, <3>1, <3>3
    <3> QED BY <2>14, <3>2, <3>3 DEF WriteFails
  <2> QED BY <1>2, <2>5, <2>6, <2>7, <2>8, <2>9, <2>10, <2>11, <2>12, <2>13, <2>14 DEF Step
<1>3. CASE UNCHANGED vars
  BY <1>3 DEF vars, IInv, TypeOK, Owns, Publishes, Target, PacketFirst, ReportHasPacket, Untouched
<1> QED BY <1>1, <1>2, <1>3 DEF Next

THEOREM Invariance == Spec => []IInv
<1>1. IInv /\ [Next]_vars => IInv'
  BY StepInv
<1> QED BY <1>1, InitInv, PTL DEF Spec

\* Every variable of the scans keeps its type; no packet, whatever the vault
\* holds, has more candidates than MAX_CANDIDATES.
THEOREM TypeCorrect == Spec => []TypeOK
<1>1. IInv => TypeOK
  BY DEF IInv
<1> QED BY <1>1, Invariance, PTL

\* A report that can be read names a packet that can be read, wherever a scan
\* stops.
THEOREM ReportHasPacketHolds == Spec => []ReportHasPacket
<1>1. IInv => ReportHasPacket
  BY DEF IInv
<1> QED BY <1>1, Invariance, PTL

\* No scan replaces or removes what is published, not even where its own write
\* fails and it unlinks the name it was writing to.
THEOREM PublishedStaysHolds == Spec => PublishedStays
<1>1. IInv /\ [Next]_vars => [whole \subseteq whole']_vars
  BY StepInv
<1> QED BY <1>1, Invariance, PTL DEF Spec, PublishedStays

-----------------------------------------------------------------------------
\* A note that never becomes again what it was shows in one of two manifests
\* what happened to it in between.

NoRevert == \A f \in Name : vault[f] \notin past[f]

\* What local variables r say of the vault: a note that the first manifest has
\* is as it was, or was that before; where both manifests agree on a note, it
\* was that when the second was begun.
Taken(r) ==
  /\ r.pc = "first" =>
       /\ r.after = Nothing
       /\ \A f \in Name \ r.todo : r.before[f] = vault[f] \/ r.before[f] \in past[f]
  /\ r.pc = "second" =>
       \A f \in Name :
         /\ r.before[f] = r.mid[f] \/ r.before[f] \in past[f]
         /\ f \notin r.todo /\ r.after[f] = r.before[f] => r.before[f] = r.mid[f]
  /\ r.pc \in {"packet", "report"} => r.before = r.mid

SInv == NoRevert /\ \A s \in Scan : Taken(scan[s])

LEMMA InitTaken == Init => SInv
BY DEF Init, Idle, SInv, NoRevert, Taken

LEMMA EditTaken ==
  ASSUME IInv, SInv, "revert" \notin Faults, NEW f \in Name, Edit(f)
  PROVE  SInv'
<1>1. PICK v \in Look \ {vault[f]} : v \notin past[f] /\ vault' = [vault EXCEPT ![f] = v]
  BY DEF Edit
<1>2. past' = [past EXCEPT ![f] = @ \union {vault[f]}]
  BY DEF Edit
<1>3. \A g \in Name : /\ vault'[g] = IF g = f THEN v ELSE vault[g]
                      /\ past'[g] = IF g = f THEN past[f] \union {vault[f]} ELSE past[g]
  BY <1>1, <1>2 DEF IInv, TypeOK
<1>4. NoRevert'
  BY <1>1, <1>3 DEF SInv, NoRevert
<1>5. ASSUME NEW s \in Scan PROVE Taken(scan[s])'
  <2>1. /\ scan'[s].pc = scan[s].pc /\ scan'[s].todo = scan[s].todo /\ scan'[s].mid = scan[s].mid
        /\ scan'[s].before = scan[s].before /\ scan'[s].after = scan[s].after
    BY LocalType DEF IInv, Local, Edit
  <2>2. Taken(scan[s])
    BY DEF SInv
  <2> QED BY <1>3, <2>1, <2>2 DEF Taken
<1> QED BY <1>4, <1>5 DEF SInv

\* A step of a scan, which leaves the vault alone.
LEMMA ScanTaken ==
  ASSUME IInv, SInv, NEW s \in Scan, NEW r, scan' = [scan EXCEPT ![s] = r], UNCHANGED <<vault, past>>,
         Taken(r)
  PROVE  SInv'
<1>1. \A t \in Scan : scan'[t] = IF t = s THEN r ELSE scan[t]
  BY DEF IInv, TypeOK
<1>2. ASSUME NEW t \in Scan PROVE Taken(scan[t])'
  <2>1. Taken(scan[t])
    BY DEF SInv
  <2>2. scan'[t] = r \/ scan'[t] = scan[t]
    BY <1>1
  <2> QED BY <2>1, <2>2 DEF Taken
<1> QED BY <1>2 DEF SInv, NoRevert

LEMMA StepTaken ==
  ASSUME IInv, SInv, "revert" \notin Faults, [Next]_vars
  PROVE  SInv'
<1>1. ASSUME NEW f \in Name, Edit(f)
      PROVE  SInv'
  BY <1>1, EditTaken
<1>2. ASSUME NEW s \in Scan, Step(s)
      PROVE  SInv'
  <2> DEFINE r == scan[s]
  <2>1. r \in Local /\ Taken(r) /\ Taken(Idle)
    BY LocalType DEF IInv, SInv, Taken, Idle
  <2>2. UNCHANGED <<vault, past>>
    BY <1>2 DEF Step, Begin, Open, Read, Again, Compare, Raise, Create, Written, AlreadyThere,
       Collision, WriteFails, Crash
  <2>3. ASSUME NEW q, Become(s, q), Taken(q)
        PROVE  SInv'
    BY <2>2, <2>3, ScanTaken DEF Become
  <2>4. CASE Begin(s)
    <3> DEFINE q == [Idle EXCEPT !.pc = "first", !.todo = Present]
    <3>1. q.pc = "first" /\ q.after = Nothing /\ q.before = Nothing /\ q.todo = Present
      BY DEF Idle
    <3> HIDE DEF q
    <3>2. Taken(q)
      BY <3>1 DEF Taken, Present, Nothing
    <3>3. Become(s, q)
      BY <2>4 DEF Begin, q
    <3> QED BY <2>3, <3>2, <3>3
  <2>5. ASSUME NEW f \in Name, Open(s, f)
        PROVE  SInv'
    <3> DEFINE q == [r EXCEPT !.open = f, !.touched = FALSE]
    <3>1. /\ q.pc = r.pc /\ q.todo = r.todo /\ q.mid = r.mid
          /\ q.before = r.before /\ q.after = r.after
      BY <2>1 DEF Local
    <3>2. Become(s, q)
      BY <2>5 DEF Open
    <3> HIDE DEF q, r
    <3>3. Taken(q)
      BY <2>1, <3>1 DEF Taken
    <3> QED BY <2>3, <3>2, <3>3
  <2>6. CASE Read(s)
    <3> DEFINE f == r.open
               done == [r EXCEPT !.todo = @ \ {f}, !.open = None]
               q == IF r.pc = "first" THEN [done EXCEPT !.before[f] = vault[f]]
                    ELSE [done EXCEPT !.after[f] = vault[f]]
    <3>1. Become(s, q) /\ r.pc \in {"first", "second"}
      BY <2>6 DEF Read, Reads
    <3>2. CASE r.pc = "first"
      <4>1. /\ q.pc = "first" /\ q.todo = r.todo \ {f} /\ q.after = r.after
            /\ q.before = [r.before EXCEPT ![f] = vault[f]]
        BY <2>1, <3>2 DEF Local
      <4>2. r.before \in [Name -> Version \union {Absent}]
        BY <2>1 DEF Local, Manifest
      <4> HIDE DEF q, r, f
      <4>3. Taken(q)
        BY <2>1, <3>2, <4>1, <4>2 DEF Taken
      <4> QED BY <2>3, <3>1, <4>3
    <3>3. CASE r.pc = "second"
      <4>1. /\ q.pc = "second" /\ q.todo = r.todo \ {f} /\ q.before = r.before /\ q.mid = r.mid
            /\ q.after = [r.after EXCEPT ![f] = vault[f]]
        BY <2>1, <3>3 DEF Local
      <4>2. r.after \in [Name -> Version \union {Absent}]
        BY <2>1 DEF Local, Manifest
      <4>3. f \in Name => vault[f] \notin past[f]
        BY DEF SInv, NoRevert
      <4> HIDE DEF q, r, f
      <4>4. Taken(q)
        BY <2>1, <3>3, <4>1, <4>2, <4>3 DEF Taken
      <4> QED BY <2>3, <3>1, <4>4
    <3> QED BY <3>1, <3>2, <3>3
  <2>7. CASE Again(s)
    <3> DEFINE q == [r EXCEPT !.pc = "second", !.todo = Present, !.mid = vault]
    <3>1. /\ q.pc = "second" /\ q.todo = Present /\ q.mid = vault
          /\ q.before = r.before /\ q.after = r.after
      BY <2>1 DEF Local
    <3>2. Become(s, q) /\ r.pc = "first" /\ r.todo = {}
      BY <2>7 DEF Again
    <3>3. \A f \in Name : r.before[f] = vault[f] \/ r.before[f] \in past[f]
      BY <2>1, <3>2 DEF Taken
    <3>4. \A f \in Name \ Present : r.after[f] = vault[f]
      BY <2>1, <3>2 DEF Taken, Present, Nothing
    <3> HIDE DEF q, r
    <3>5. Taken(q)
      BY <3>1, <3>3, <3>4 DEF Taken, SInv, NoRevert
    <3> QED BY <2>3, <3>2, <3>5
  <2>8. CASE Compare(s)
    <3> DEFINE q == [r EXCEPT !.pc = "packet", !.after = Nothing]
    <3>1. q.pc = "packet" /\ q.mid = r.mid /\ q.before = r.before
      BY <2>1 DEF Local
    <3>2. r.pc = "second" /\ r.todo = {}
      BY <2>8 DEF Compare
    <3>3. CASE r.before # r.after
      <4>1. Become(s, Idle)
        BY <2>8, <3>3 DEF Compare
      <4> QED BY <2>1, <2>3, <4>1
    <3>4. CASE r.before = r.after
      <4>1. Become(s, q)
        BY <2>8, <3>4 DEF Compare
      <4>2. \A f \in Name : r.before[f] = r.mid[f]
        BY <2>1, <3>2, <3>4 DEF Taken
      <4>3. r.before = r.mid
        BY <2>1, <4>2 DEF Local, Manifest
      <4> HIDE DEF q, r
      <4>4. Taken(q)
        BY <3>1, <4>3 DEF Taken
      <4> QED BY <2>3, <4>1, <4>4
    <3> QED BY <3>3, <3>4
  <2>9. CASE Raise(s) \/ Collision(s) \/ Crash(s) \/ WriteFails(s)
    <3>1. Become(s, Idle)
      BY <2>9 DEF Raise, Collision, Crash, WriteFails
    <3> QED BY <2>1, <2>3, <3>1
  <2>10. CASE Create(s) \/ Written(s) \/ AlreadyThere(s)
    <3> DEFINE p == [r EXCEPT !.mine = TRUE]
               q == [r EXCEPT !.pc = "report", !.mine = FALSE]
    <3>1. /\ p.pc = r.pc /\ p.before = r.before /\ p.mid = r.mid
          /\ q.pc = "report" /\ q.before = r.before /\ q.mid = r.mid
      BY <2>1 DEF Local
    <3>2. r.pc \in {"packet", "report"}
      BY <2>10 DEF Create, Written, AlreadyThere, Publishes
    <3>3. Become(s, p) \/ Become(s, q) \/ Become(s, Idle)
      BY <2>10 DEF Create, Written, AlreadyThere, Published
    <3> HIDE DEF p, q, r
    <3>4. Taken(p) /\ Taken(q)
      BY <2>1, <3>1, <3>2 DEF Taken
    <3> QED BY <2>1, <2>3, <3>3, <3>4
  <2> QED BY <1>2, <2>4, <2>5, <2>6, <2>7, <2>8, <2>9, <2>10 DEF Step
<1>3. CASE UNCHANGED vars
  BY <1>3 DEF vars, SInv, NoRevert, Taken
<1> QED BY <1>1, <1>2, <1>3 DEF Next

\* While no note becomes again what it was before, a report is what the vault
\* was when the second manifest was begun, however edits and scans interleave.
THEOREM ReportIsSnapshotHolds ==
  ASSUME "revert" \notin Faults
  PROVE  Spec => []ReportIsSnapshot
<1>1. IInv /\ SInv /\ [Next]_vars => SInv'
  BY StepTaken
<1>2. SInv => ReportIsSnapshot
  BY DEF SInv, Taken, ReportIsSnapshot, Publishes
<1> QED BY <1>1, <1>2, InitTaken, Invariance, PTL DEF Spec

-----------------------------------------------------------------------------
(***************************************************************************)
(* Scans implement SnapshotArchive.  A step of a scan changes what it has  *)
(* seen, or what is published, or neither.                                 *)
(***************************************************************************)
Saw(r) == IF r.pc \in {"second", "packet", "report"} THEN {r.mid} ELSE {}

LEMMA SeenStep ==
  ASSUME IInv, NEW s \in Scan, NEW r, Become(s, r)
  PROVE  Seen' = [Seen EXCEPT ![s] = Saw(r)] /\ Seen[s] = Saw(scan[s])
<1>1. \A t \in Scan : scan'[t] = IF t = s THEN r ELSE scan[t]
  BY DEF IInv, TypeOK, Become
<1>2. \A t \in Scan : Seen[t] = Saw(scan[t]) /\ Seen'[t] = Saw(scan'[t])
  BY DEF Seen, Saw
<1>3. \A t \in Scan : Seen'[t] = IF t = s THEN Saw(r) ELSE Seen[t]
  BY <1>1, <1>2
<1>4. Seen \in [Scan -> SUBSET {v : v \in {scan[t].mid : t \in Scan}}]
  BY DEF Seen
<1> QED BY <1>2, <1>3, <1>4 DEF Seen

\* A step that publishes nothing: the scan goes on with what it saw, or leaves.
LEMMA QuietArchive ==
  ASSUME IInv, NEW s \in Scan, NEW r, Become(s, r), UNCHANGED <<vault, whole>>,
         Saw(r) = Saw(scan[s]) \/ Saw(r) = {}
  PROVE  [Archive!Next]_(Archive!vars)
<1>1. Seen' = [Seen EXCEPT ![s] = Saw(r)] /\ Seen[s] = Saw(scan[s])
  BY SeenStep
<1>2. CASE Saw(r) = Saw(scan[s])
  <2>1. Seen' = Seen
    BY <1>1, <1>2 DEF Seen
  <2> QED BY <2>1 DEF Archive!vars
<1>3. CASE Saw(r) = {}
  <2>1. Archive!Leave(s)
    BY <1>1, <1>3 DEF Archive!Leave
  <2> QED BY <2>1 DEF Archive!Next
<1> QED BY <1>2, <1>3

LEMMA EditArchive ==
  ASSUME IInv, NEW f \in Name, Edit(f)
  PROVE  [Archive!Next]_(Archive!vars)
<1>1. \A s \in Scan : scan'[s].pc = scan[s].pc /\ scan'[s].mid = scan[s].mid
  BY LocalType DEF IInv, Local, Edit
<1>2. Seen' = Seen
  BY <1>1 DEF Seen
<1>3. vault' \in [Name -> Look] /\ UNCHANGED whole
  BY DEF IInv, TypeOK, Edit
<1>4. Archive!Edit
  BY <1>2, <1>3 DEF Archive!Edit
<1> QED BY <1>4 DEF Archive!Next

LEMMA WrittenArchive ==
  ASSUME IInv, ReportIsSnapshot, NEW s \in Scan, Written(s)
  PROVE  [Archive!Next]_(Archive!vars)
<1> DEFINE r == IF scan[s].pc = "report" THEN Idle
                ELSE [scan[s] EXCEPT !.pc = "report", !.mine = FALSE]
           m == scan[s].before
<1>1. /\ Publishes(s) /\ Become(s, r) /\ UNCHANGED vault
      /\ whole' = whole \union {Target(s)}
  BY DEF Written, Published
<1>2. m \in Manifest /\ m = scan[s].mid /\ scan[s] \in Local
  BY <1>1, LocalType DEF IInv, Local, ReportIsSnapshot
<1>3. Seen' = [Seen EXCEPT ![s] = Saw(r)] /\ Seen[s] = {m}
  <2>1. Saw(scan[s]) = {m}
    BY <1>1, <1>2 DEF Saw, Publishes
  <2> HIDE DEF r
  <2> QED BY <1>1, <2>1, SeenStep
<1>4. CASE scan[s].pc = "packet"
  <2>1. Saw(r) = {m}
    BY <1>2, <1>4 DEF Saw, Local
  <2>2. Seen' = Seen
    BY <1>3, <2>1 DEF Seen
  <2>3. Target(s) = Packet(m)
    BY <1>1, <1>4, TargetIn
  <2>4. Archive!PublishPacket(s)
    BY <1>1, <1>2, <1>3, <2>2, <2>3 DEF Archive!PublishPacket
  <2> QED BY <2>4 DEF Archive!Next
<1>5. CASE scan[s].pc = "report"
  <2>1. Saw(r) = {}
    BY <1>5 DEF Saw, Idle
  <2>2. Target(s) = Report(m)
    BY <1>1, <1>5, TargetIn
  <2>3. Packet(m) \in whole
    BY <1>5 DEF IInv, PacketFirst
  <2>4. Archive!PublishReport(s)
    BY <1>1, <1>2, <1>3, <2>1, <2>2, <2>3 DEF Archive!PublishReport
  <2> QED BY <2>4 DEF Archive!Next
<1> QED BY <1>1, <1>4, <1>5 DEF Publishes

LEMMA StepArchive ==
  ASSUME IInv, ReportIsSnapshot, [Next]_vars
  PROVE  [Archive!Next]_(Archive!vars)
<1>1. ASSUME NEW f \in Name, Edit(f)
      PROVE  [Archive!Next]_(Archive!vars)
  BY <1>1, EditArchive
<1>2. ASSUME NEW s \in Scan, Step(s)
      PROVE  [Archive!Next]_(Archive!vars)
  <2> DEFINE r == scan[s]
  <2>1. r \in Local /\ Saw(Idle) = {}
    BY LocalType DEF IInv, Saw, Idle
  <2>2. ASSUME Become(s, Idle), UNCHANGED <<vault, whole>>
        PROVE  [Archive!Next]_(Archive!vars)
    BY <2>1, <2>2, QuietArchive
  <2>3. CASE Begin(s)
    <3> DEFINE q == [Idle EXCEPT !.pc = "first", !.todo = Present]
    <3>1. Become(s, q) /\ UNCHANGED <<vault, whole>>
      BY <2>3 DEF Begin
    <3>2. Saw(q) = {}
      BY DEF Saw, Idle
    <3> HIDE DEF q
    <3> QED BY <3>1, <3>2, QuietArchive
  <2>4. ASSUME NEW f \in Name, Open(s, f)
        PROVE  [Archive!Next]_(Archive!vars)
    <3> DEFINE q == [r EXCEPT !.open = f, !.touched = FALSE]
    <3>1. Become(s, q) /\ UNCHANGED <<vault, whole>>
      BY <2>4 DEF Open
    <3>2. Saw(q) = Saw(r)
      BY <2>1 DEF Saw, Local
    <3> HIDE DEF q
    <3> QED BY <3>1, <3>2, QuietArchive
  <2>5. CASE Read(s)
    <3> DEFINE f == r.open
               done == [r EXCEPT !.todo = @ \ {f}, !.open = None]
               q == IF r.pc = "first" THEN [done EXCEPT !.before[f] = vault[f]]
                    ELSE [done EXCEPT !.after[f] = vault[f]]
    <3>1. Become(s, q) /\ UNCHANGED <<vault, whole>>
      BY <2>5 DEF Read
    <3>2. q.pc = r.pc /\ q.mid = r.mid
      BY <2>1 DEF Local
    <3> HIDE DEF q
    <3>3. Saw(q) = Saw(r)
      BY <3>2 DEF Saw
    <3> QED BY <3>1, <3>3, QuietArchive
  <2>6. CASE Again(s)
    <3> DEFINE q == [r EXCEPT !.pc = "second", !.todo = Present, !.mid = vault]
    <3>1. Become(s, q) /\ UNCHANGED <<vault, whole>> /\ r.pc = "first"
      BY <2>6 DEF Again
    <3>2. Saw(q) = {vault} /\ Saw(r) = {}
      BY <2>1, <3>1 DEF Saw, Local
    <3> HIDE DEF q
    <3>3. Seen' = [Seen EXCEPT ![s] = {vault}] /\ Seen[s] = {}
      BY <3>1, <3>2, SeenStep
    <3>4. Archive!See(s)
      BY <3>1, <3>3 DEF Archive!See
    <3> QED BY <3>4 DEF Archive!Next
  <2>7. CASE Compare(s)
    <3> DEFINE q == [r EXCEPT !.pc = "packet", !.after = Nothing]
    <3>1. (Become(s, q) \/ Become(s, Idle)) /\ UNCHANGED <<vault, whole>> /\ r.pc = "second"
      BY <2>7 DEF Compare
    <3>2. Saw(q) = Saw(r)
      BY <2>1, <3>1 DEF Saw, Local
    <3> HIDE DEF q
    <3> QED BY <2>2, <3>1, <3>2, QuietArchive
  <2>8. CASE Raise(s) \/ Collision(s) \/ Crash(s)
    BY <2>2, <2>8 DEF Raise, Collision, Crash
  <2>9. CASE Create(s)
    <3> DEFINE q == [r EXCEPT !.mine = TRUE]
    <3>1. Become(s, q) /\ UNCHANGED <<vault, whole>>
      BY <2>9 DEF Create
    <3>2. Saw(q) = Saw(r)
      BY <2>1 DEF Saw, Local
    <3> HIDE DEF q
    <3> QED BY <3>1, <3>2, QuietArchive
  <2>10. CASE Written(s)
    BY <2>10, WrittenArchive
  <2>11. CASE AlreadyThere(s)
    <3> DEFINE q == [r EXCEPT !.pc = "report", !.mine = FALSE]
    <3>1. /\ Become(s, q) \/ Become(s, Idle)
          /\ UNCHANGED <<vault, whole>> /\ r.pc \in {"packet", "report"}
      BY <2>11 DEF AlreadyThere, Published, Publishes
    <3>2. Saw(q) = Saw(r)
      BY <2>1, <3>1 DEF Saw, Local
    <3> HIDE DEF q
    <3> QED BY <2>2, <3>1, <3>2, QuietArchive
  <2>12. CASE WriteFails(s)
    <3>1. Become(s, Idle) /\ UNCHANGED vault
      BY <2>12 DEF WriteFails
    <3>2. whole' = whole
      BY <2>12, <3>1, UnlinkInv DEF WriteFails
    <3> QED BY <2>2, <3>1, <3>2
  <2> QED BY <1>2, <2>3, <2>4, <2>5, <2>6, <2>7, <2>8, <2>9, <2>10, <2>11, <2>12 DEF Step
<1>3. CASE UNCHANGED vars
  BY <1>3 DEF vars, Seen, Archive!vars
<1> QED BY <1>1, <1>2, <1>3 DEF Next

LEMMA InitArchive == Init => Archive!Init
BY ConstantsAssumption DEF Init, Idle, Seen, Archive!Init

\* While no note becomes again what it was before, scans that read note after
\* note, overlap, die and fail publish as if each had seen the whole vault at
\* once, and what is published stays.
THEOREM SnapshotArchiveImplemented ==
  ASSUME "revert" \notin Faults
  PROVE  Spec => ImplementsSnapshotArchive
<1>1. IInv /\ ReportIsSnapshot /\ [Next]_vars => [Archive!Next]_(Archive!vars)
  BY StepArchive
<1> QED
  BY <1>1, InitArchive, Invariance, ReportIsSnapshotHolds, PTL
  DEF Spec, ImplementsSnapshotArchive, Archive!Spec
=============================================================================
