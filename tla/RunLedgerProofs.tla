-------------------------- MODULE RunLedgerProofs ---------------------------
(***************************************************************************)
(* Proofs about RunLedger, for any runs and processes, any length of the   *)
(* ledger and any faults.                                                  *)
(***************************************************************************)
EXTENDS RunLedger, SequenceTheorems, TLAPS

Record == [run : Run, status : Status \union {NoStatus}]
Lines == Seq(Line \union {Torn})

\* A call inside holds the lock, decides about the file as it is, and knows,
\* once it wrote, what became of its line.
CallInv(p) ==
  /\ pc[p] # "idle" => lock = p
  /\ pc[p] = "write" => lines[p] = file
  /\ pc[p] = "sync" =>
       /\ Sealed(lines[p], record[p]) \in Line /\ ended
       /\ Sealed(lines[p], record[p]).sequence = Len(lines[p])
       /\ \/ file = Append(lines[p], Sealed(lines[p], record[p]))
          \/ lines[p] # <<>> /\ file = [lines[p] EXCEPT ![Len(lines[p])] = Torn]

\* An acknowledged line is synced, and nothing joins it; or the ledger is torn.
AckInv == \A line \in acked :
  \/ /\ line.sequence + 1 \in 1 .. synced /\ file[line.sequence + 1] = line
     /\ line.sequence + 1 = Len(file) => ended
  \/ line.sequence = Len(file) /\ synced = Len(file) /\ ~Readable(file)

EndedInv == ~ended => file # <<>>

IInv ==
  /\ TypeOK /\ (\A p \in Proc : CallInv(p)) /\ ChainSound /\ LegalRuns /\ AckInv /\ EndedInv

\* How a step may change the ledger: it loses a part of its end, ends torn, or
\* gains the line of a valid record.
Grown(ls, ms) ==
  \/ \E k \in 0 .. Len(ls) :
       \/ ms = SubSeq(ls, 1, k)
       \/ (k < Len(ls) \/ Readable(ls)) /\ ms = Append(SubSeq(ls, 1, k), Torn)
  \/ \E r \in Record : Valid(ls, r) /\ ms = Append(ls, Sealed(ls, r))

-----------------------------------------------------------------------------
USE ConstantsAssumption

LEMMA PrefixProperties ==
  ASSUME NEW ls \in Lines, NEW k \in 0 .. Len(ls)
  PROVE  /\ SubSeq(ls, 1, k) \in Lines /\ Len(SubSeq(ls, 1, k)) = k
         /\ \A i \in 1 .. k : SubSeq(ls, 1, k)[i] = ls[i]
  BY DEF Lines

\* The chain holds in every line but a torn last one.
LEMMA SoundMeans ==
  ASSUME NEW ls \in Lines
  PROVE  Sound(ls) <=> \A i \in 1 .. Len(ls) : i < Len(ls) \/ ls[i] # Torn => Linked(ls, i)
<1>1. CASE Readable(ls)
  <2>2. ls # <<>> => ls[Len(ls)] # Torn
    BY <1>1 DEF Readable
  <2>3. Sound(ls) <=> \A i \in 1 .. Len(ls) : Linked(ls, i)
    BY <1>1 DEF Sound, Verify, Lines
  <2> QED BY <2>2, <2>3 DEF Lines
<1>2. CASE ~Readable(ls)
  <2>1. ls # <<>> /\ ls[Len(ls)] = Torn
    BY <1>2 DEF Readable
  <2> DEFINE ms == SubSeq(ls, 1, Len(ls) - 1)
  <2>2. ms \in Lines /\ Len(ms) = Len(ls) - 1 /\ \A i \in 1 .. Len(ls) - 1 : ms[i] = ls[i]
    <3>1. Len(ls) - 1 \in 0 .. Len(ls)
      BY <2>1 DEF Lines
    <3> QED BY <3>1, PrefixProperties
  <2>3. \A i \in 1 .. Len(ls) - 1 : Linked(ms, i) <=> Linked(ls, i)
    BY <2>2 DEF Linked, Lines
  <2>4. Sound(ls) <=> \A i \in 1 .. Len(ls) - 1 : Linked(ms, i)
    BY <1>2, <2>2 DEF Sound, Verify, Lines
  <2> QED BY <2>1, <2>3, <2>4 DEF Lines
<1> QED BY <1>1, <1>2

\* The line that is added is well formed, and linked to what was read.
LEMMA SealedProperties ==
  ASSUME NEW ls \in Lines, NEW r \in Record, Sound(ls), Readable(ls)
  PROVE  /\ Sealed(ls, r) \in Line /\ Sealed(ls, r) # Torn
         /\ Sealed(ls, r).sequence = Len(ls)
         /\ Sealed(ls, r).run = r.run /\ Sealed(ls, r).status = r.status
         /\ Linked(Append(ls, Sealed(ls, r)), Len(ls) + 1)
<1> DEFINE new == Sealed(ls, r)
           previous == IF ls = <<>> THEN <<>> ELSE ls[Len(ls)].hash
<1>1. ls # <<>> => /\ Len(ls) \in 1 .. Len(ls) /\ ls[Len(ls)] \in Line
                   /\ ls[Len(ls)].sequence = Len(ls) - 1
  <2>1. ls # <<>> => Len(ls) \in 1 .. Len(ls) /\ ls[Len(ls)] \in Line
    BY DEF Readable, Lines
  <2>2. ls # <<>> => Linked(ls, Len(ls))
    BY <2>1, SoundMeans DEF Readable
  <2> QED BY <2>1, <2>2 DEF Linked
<1>2. previous \in Seq(Entry)
  BY <1>1 DEF Line
<1>3. new = [run |-> r.run, status |-> r.status, sequence |-> Len(ls), previous |-> previous,
             hash |-> Append(previous, [run |-> r.run, status |-> r.status, sequence |-> Len(ls)])]
  <2>1. (IF ls = <<>> THEN 0 ELSE ls[Len(ls)].sequence + 1) = Len(ls)
    BY <1>1 DEF Lines
  <2> QED BY <2>1 DEF Sealed
<1>4. [run |-> r.run, status |-> r.status, sequence |-> Len(ls)] \in Entry
  BY DEF Record, Entry, Lines
<1>5. Append(previous, [run |-> r.run, status |-> r.status, sequence |-> Len(ls)]) \in Seq(Entry)
  BY <1>2, <1>4
<1>6. new \in Line
  BY <1>2, <1>3, <1>5 DEF Line, Record, Lines
<1>7. new # Torn
  BY <1>6
<1>8. Linked(Append(ls, new), Len(ls) + 1)
  <2> DEFINE ms == Append(ls, new)
  <2>1. ms[Len(ls) + 1] = new /\ (ls # <<>> => ms[Len(ls)] = ls[Len(ls)])
    BY <1>1, <1>6 DEF Lines
  <2>2. previous = IF Len(ls) + 1 = 1 THEN <<>> ELSE ms[Len(ls) + 1 - 1].hash
    BY <2>1 DEF Lines
  <2> HIDE DEF ms
  <2> QED BY <1>3, <1>7, <2>1, <2>2 DEF Linked, Lines
<1> QED BY <1>3, <1>6, <1>7, <1>8

\* A beginning of a sound ledger is sound, and verifies when it is shorter.
LEMMA PrefixSound ==
  ASSUME NEW ls \in Lines, Sound(ls), NEW ms \in Lines, NEW k \in 0 .. Len(ls), k <= Len(ms),
         \A i \in 1 .. k : ms[i] = ls[i]
  PROVE  \A i \in 1 .. k : i < Len(ls) \/ ls[i] # Torn => Linked(ms, i)
<1>1. \A i \in 1 .. k : Linked(ls, i) => Linked(ms, i)
  BY DEF Linked, Lines
<1> QED BY <1>1, SoundMeans DEF Lines

LEMMA PrefixLegal ==
  ASSUME NEW ls \in Lines, Legal(ls), NEW ms \in Lines, NEW k \in 0 .. Len(ls), k <= Len(ms),
         \A i \in 1 .. k : ms[i] = ls[i]
  PROVE  \A i \in 1 .. k : ms[i] # Torn /\ ms[i].status # NoStatus =>
           ms[i].status \in Allowed(Prior(SubSeq(ms, 1, i - 1), ms[i].run))
<1> TAKE i \in 1 .. k
<1>1. i \in DOMAIN ls
  BY DEF Lines
<1>2. SubSeq(ms, 1, i - 1) = SubSeq(ls, 1, i - 1)
  BY DEF Lines
<1> QED BY <1>1, <1>2 DEF Legal

\* Whatever a step does to the ledger keeps the chain and the order of statuses.
LEMMA GrownSound ==
  ASSUME NEW ls \in Lines, NEW ms, Sound(ls), Legal(ls), Grown(ls, ms)
  PROVE  ms \in Lines /\ Sound(ms) /\ Legal(ms)
<1>1. ASSUME NEW k \in 0 .. Len(ls), ms = SubSeq(ls, 1, k)
      PROVE  ms \in Lines /\ Sound(ms) /\ Legal(ms)
  <2>1. ms \in Lines /\ Len(ms) = k /\ \A i \in 1 .. k : ms[i] = ls[i]
    BY <1>1 DEF Lines
  <2>2. Sound(ms)
    BY <2>1, PrefixSound, SoundMeans DEF Lines
  <2>3. Legal(ms)
    <3>1. DOMAIN ms = 1 .. k
      BY <2>1 DEF Lines
    <3>2. \A i \in 1 .. k :
           ms[i] # Torn /\ ms[i].status # NoStatus =>
             ms[i].status \in Allowed(Prior(SubSeq(ms, 1, i - 1), ms[i].run))
      BY <2>1, PrefixLegal
    <3> QED BY <3>1, <3>2, Zenon DEF Legal
  <2> QED BY <2>1, <2>2, <2>3
<1>2. ASSUME NEW k \in 0 .. Len(ls), k < Len(ls) \/ Readable(ls), ms = Append(SubSeq(ls, 1, k), Torn)
      PROVE  ms \in Lines /\ Sound(ms) /\ Legal(ms)
  <2>1. /\ ms \in Lines /\ Len(ms) = k + 1 /\ ms[k + 1] = Torn
        /\ \A i \in 1 .. k : ms[i] = ls[i]
    BY <1>2 DEF Lines
  <2>2. Legal(ms)
    <3>1. DOMAIN ms = 1 .. k + 1 /\ k + 1 \in Nat /\ k \in Nat
      BY <2>1 DEF Lines
    <3>2. \A i \in 1 .. k :
           ms[i] # Torn /\ ms[i].status # NoStatus =>
             ms[i].status \in Allowed(Prior(SubSeq(ms, 1, i - 1), ms[i].run))
      BY <2>1, <3>1, PrefixLegal
    <3>3. \A i \in 1 .. k + 1 : i \in 1 .. k \/ i = k + 1
      BY <3>1
    <3> QED BY <2>1, <3>1, <3>2, <3>3, Zenon DEF Legal
  <2>3. Sound(ms)
    <3>1. \A i \in 1 .. k : i < Len(ls) \/ ls[i] # Torn
      BY <1>2 DEF Readable, Lines
    <3>2. \A i \in 1 .. k : Linked(ms, i)
      BY <2>1, <3>1, PrefixSound DEF Lines
    <3> QED BY <2>1, <3>2, SoundMeans
  <2> QED BY <2>1, <2>2, <2>3
<1>3. ASSUME NEW r \in Record, Valid(ls, r), ms = Append(ls, Sealed(ls, r))
      PROVE  ms \in Lines /\ Sound(ms) /\ Legal(ms)
  <2>1. Readable(ls)
    BY <1>3 DEF Valid
  <2>2. /\ Sealed(ls, r) \in Line /\ Sealed(ls, r) # Torn
        /\ Sealed(ls, r).run = r.run /\ Sealed(ls, r).status = r.status
        /\ Linked(ms, Len(ls) + 1)
    BY <1>3, <2>1, SealedProperties
  <2>3. /\ ms \in Lines /\ Len(ms) = Len(ls) + 1 /\ ms[Len(ls) + 1] = Sealed(ls, r)
        /\ \A i \in 1 .. Len(ls) : ms[i] = ls[i]
    BY <1>3, <2>2 DEF Lines
  <2>4. Sound(ms)
    BY <2>1, <2>2, <2>3, PrefixSound, SoundMeans DEF Readable, Lines
  <2>5. SubSeq(ms, 1, Len(ls)) = ls
    BY <2>3 DEF Lines
  <2>6. ms[Len(ls) + 1].status # NoStatus =>
          ms[Len(ls) + 1].status \in
            Allowed(Prior(SubSeq(ms, 1, Len(ls) + 1 - 1), ms[Len(ls) + 1].run))
    <3>1. Len(ls) + 1 - 1 = Len(ls)
      BY DEF Lines
    <3> QED BY <1>3, <2>2, <2>3, <2>5, <3>1 DEF Valid
  <2>7. Legal(ms)
    <3>1. DOMAIN ms = 1 .. Len(ls) + 1 /\ Len(ls) \in Nat /\ Len(ls) \in 0 .. Len(ls)
      BY <2>3 DEF Lines
    <3>2. \A i \in 1 .. Len(ls) :
           ms[i] # Torn /\ ms[i].status # NoStatus =>
             ms[i].status \in Allowed(Prior(SubSeq(ms, 1, i - 1), ms[i].run))
      BY <2>3, <3>1, PrefixLegal
    <3>3. \A i \in 1 .. Len(ls) + 1 : i \in 1 .. Len(ls) \/ i = Len(ls) + 1
      BY <3>1
    <3> SUFFICES ASSUME NEW i \in 1 .. Len(ls) + 1, ms[i] # Torn, ms[i].status # NoStatus
                 PROVE  ms[i].status \in Allowed(Prior(SubSeq(ms, 1, i - 1), ms[i].run))
      BY <3>1 DEF Legal
    <3> QED BY <2>6, <3>2, <3>3
  <2> QED BY <2>3, <2>4, <2>7
<1> QED BY <1>1, <1>2, <1>3 DEF Grown

-----------------------------------------------------------------------------
USE DEF Lines

\* What a write, whole or not, does to the ledger.
LEMMA AddingProperties ==
  ASSUME TypeOK, ChainSound, EndedInv, NEW r \in Record, Valid(file, r),
         NEW line, line \in {Torn, Sealed(file, r)}
  PROVE  /\ Grown(file, Adding(line)) /\ Adding(line) \in Lines
         /\ \A i \in 1 .. Len(file) : i < Len(file) \/ ended => Adding(line)[i] = file[i]
         /\ Len(Adding(line)) = IF ended THEN Len(file) + 1 ELSE Len(file)
         /\ ~ended => file # <<>> /\ Adding(line)[Len(file)] = Torn
         /\ ended => Adding(line) = Append(file, line)
<1>1. file \in Lines /\ Readable(file) /\ (~ended => file # <<>>)
  BY DEF TypeOK, Valid, EndedInv
<1>2. line \in Line \union {Torn}
  BY <1>1, SealedProperties DEF ChainSound
<1>3. CASE ended
  <2>1. Adding(line) = Append(file, line)
    BY <1>3 DEF Adding
  <2>2. SubSeq(file, 1, Len(file)) = file /\ Len(file) \in 0 .. Len(file)
    BY <1>1
  <2>3. Grown(file, Append(file, line))
    BY <1>1, <2>2 DEF Grown
  <2> QED BY <1>1, <1>2, <1>3, <2>1, <2>3
<1>4. CASE ~ended
  <2>1. Adding(line) = [file EXCEPT ![Len(file)] = Torn] /\ Len(file) \in Nat \ {0}
    BY <1>1, <1>4 DEF Adding
  <2> DEFINE k == Len(file) - 1
             ms == [file EXCEPT ![Len(file)] = Torn]
  <2>2. ms \in Lines /\ Len(ms) = Len(file) /\ ms[Len(file)] = Torn
        /\ \A i \in 1 .. k : ms[i] = file[i]
    BY <1>1, <2>1, ExceptSeq
  <2>3. k \in 0 .. Len(file) /\ k < Len(file) /\ k + 1 = Len(file)
    BY <2>1
  <2>4. ms = Append(SubSeq(file, 1, k), Torn)
    <3> DEFINE ks == SubSeq(file, 1, k)
    <3>1. ks \in Lines /\ Len(ks) = k /\ \A i \in 1 .. k : ks[i] = file[i]
      BY <1>1, <2>3, PrefixProperties
    <3>2. /\ Append(ks, Torn) \in Lines /\ Len(Append(ks, Torn)) = Len(file)
          /\ \A i \in 1 .. Len(file) : Append(ks, Torn)[i] = IF i = Len(file) THEN Torn ELSE file[i]
      <4> HIDE DEF ks
      <4>1. Append(ks, Torn) \in Lines /\ Len(Append(ks, Torn)) = k + 1
        BY <3>1
      <4>2. \A i \in 1 .. k + 1 : Append(ks, Torn)[i] = IF i = k + 1 THEN Torn ELSE ks[i]
        BY <3>1
      <4>3. \A i \in 1 .. Len(file) : i \in 1 .. k + 1 /\ (i # Len(file) => i \in 1 .. k)
        <5>1. Len(file) \in Nat
          BY <1>1
        <5> HIDE DEF k
        <5> QED BY <5>1, <2>3
      <4> QED BY <2>3, <3>1, <4>1, <4>2, <4>3, Zenon
    <3>3. \A i \in 1 .. Len(file) : ms[i] = IF i = Len(file) THEN Torn ELSE file[i]
      BY <1>1, <2>1
    <3> HIDE DEF ks, ms
    <3> QED BY <2>2, <3>2, <3>3, SeqEqual
  <2>5. Grown(file, ms)
    BY <2>3, <2>4 DEF Grown
  <2>6. /\ Adding(line) = ms /\ Len(file) \in Nat
        /\ \A i \in 1 .. Len(file) : i < Len(file) => i \in 1 .. k
    BY <2>1
  <2> HIDE DEF ms
  <2> QED BY <1>1, <1>4, <2>2, <2>5, <2>6
<1> QED BY <1>3, <1>4

LEMMA InitInv == Init => IInv
<1> SUFFICES ASSUME Init PROVE IInv
  OBVIOUS
<1>1. file = <<>> /\ file \in Lines /\ Len(file) = 0
  BY DEF Init
<1>2. TypeOK
  <2>1. entry \in BOOLEAN /\ ended \in BOOLEAN
    BY Zenon DEF Init
  <2> QED BY <1>1, <2>1 DEF Init, TypeOK
<1>3. ChainSound
  BY <1>1 DEF ChainSound, Sound, Readable, Verify
<1>4. LegalRuns
  BY <1>1 DEF LegalRuns, Legal
<1> QED BY <1>1, <1>2, <1>3, <1>4 DEF Init, IInv, CallInv, AckInv, EndedInv

LEMMA BlankType == \A r \in Record : Blank(r) \in Record
  BY DEF Record, Blank

\* A call that leaves takes nothing but its own lock and what it read.
LEMMA LeaveProperties ==
  ASSUME IInv, NEW p \in Proc, Leave(p), pc[p] # "idle"
  PROVE  /\ lock' = NoProc
         /\ \A q \in Proc : pc'[q] = "idle"
         /\ pc' \in [Proc -> {"idle", "read", "write", "sync"}] /\ lines' \in [Proc -> Lines]
         /\ record' \in [Proc -> Record]
<1>1. record' \in [Proc -> Record]
  BY BlankType DEF IInv, TypeOK, Leave, Forget, Record
<1> QED BY <1>1 DEF IInv, TypeOK, CallInv, Leave, Forget, Goto

LEMMA Quiet ==
  ASSUME IInv, file' = file, ended' = ended, synced' = synced, acked' = acked
  PROVE  ChainSound' /\ LegalRuns' /\ AckInv' /\ EndedInv'
  BY DEF IInv, ChainSound, LegalRuns, AckInv, EndedInv

LEMMA StepInv ==
  ASSUME IInv, [Next]_vars
  PROVE  IInv'
<1> USE DEF Record
<1>1. ASSUME NEW p \in Proc, Acquire(p)
      PROVE  IInv'
  <2>1. TypeOK' /\ (\A q \in Proc : CallInv(q)')
    BY <1>1 DEF Acquire, Calls, Goto, IInv, TypeOK, CallInv
  <2> QED BY <1>1, <2>1, Quiet DEF Acquire, Calls, IInv
<1>2. ASSUME NEW p \in Proc, Read(p)
      PROVE  IInv'
  <2>1. TypeOK' /\ (\A q \in Proc : CallInv(q)')
    BY <1>2 DEF Read, Goto, IInv, TypeOK, CallInv
  <2> QED BY <1>2, <2>1, Quiet DEF Read, IInv
<1>3. ASSUME NEW p \in Proc, Refuse(p) \/ Stops(p)
      PROVE  IInv'
  <2>1. TypeOK' /\ (\A q \in Proc : CallInv(q)')
    BY <1>3, LeaveProperties DEF Refuse, Stops, IInv, TypeOK, CallInv
  <2> QED BY <1>3, <2>1, Quiet DEF Refuse, Stops, IInv
<1>4. ASSUME NEW p \in Proc, Write(p)
      PROVE  IInv'
  <2> DEFINE new == Sealed(file, record[p])
  <2>1. lines[p] = file /\ record[p] \in Record /\ Valid(file, record[p]) /\ lock = p
    BY <1>4 DEF Write, IInv, TypeOK, CallInv
  <2>2. file' = Adding(new) /\ ended' /\ synced' = synced /\ acked' = acked
    BY <1>4, <2>1 DEF Write
  <2>3. /\ Grown(file, file') /\ file' \in Lines
        /\ \A i \in 1 .. Len(file) : i < Len(file) \/ ended => file'[i] = file[i]
        /\ Len(file') = IF ended THEN Len(file) + 1 ELSE Len(file)
        /\ ~ended => file # <<>>
        /\ ended => file' = Append(file, new)
    BY <2>1, <2>2, AddingProperties DEF IInv
  <2>4. file \in Lines /\ Readable(file) /\ synced \in 0 .. Len(file) /\ acked \subseteq Line
    BY <2>1 DEF IInv, TypeOK, Valid
  <2>5. ChainSound' /\ LegalRuns'
    BY <2>3, <2>4, GrownSound DEF IInv, ChainSound, LegalRuns
  <2>6. AckInv'
    <3> SUFFICES ASSUME NEW line \in acked
                 PROVE  /\ line.sequence + 1 \in 1 .. synced' /\ file'[line.sequence + 1] = line
                        /\ line.sequence + 1 = Len(file') => ended'
      BY <2>2 DEF AckInv
    <3>1. /\ line.sequence + 1 \in 1 .. synced /\ file[line.sequence + 1] = line
          /\ line.sequence + 1 = Len(file) => ended
      BY <2>4 DEF IInv, AckInv
    <3> QED BY <2>2, <2>3, <2>4, <3>1
  <2>7. TypeOK'
    BY <1>4, <2>2, <2>3, <2>4 DEF Write, Goto, IInv, TypeOK
  <2>8. new \in Line /\ new.sequence = Len(file)
    BY <2>1, <2>4, SealedProperties DEF IInv, ChainSound
  <2>9. \/ file' = Append(file, new)
        \/ file # <<>> /\ file' = [file EXCEPT ![Len(file)] = Torn]
    <3>1. CASE ended
      BY <2>3, <3>1, Zenon
    <3>2. CASE ~ended
      BY <2>2, <2>3, <3>2, Zenon DEF Adding
    <3> QED BY <3>1, <3>2
  <2>10. \A q \in Proc : CallInv(q)'
    BY <1>4, <2>1, <2>2, <2>8, <2>9 DEF Write, Goto, IInv, TypeOK, CallInv
  <2> QED BY <2>2, <2>5, <2>6, <2>7, <2>10 DEF IInv, EndedInv
<1>5. ASSUME NEW p \in Proc, WriteStops(p)
      PROVE  IInv'
  <2>1. lines[p] = file /\ record[p] \in Record /\ Valid(file, record[p]) /\ pc[p] # "idle"
    BY <1>5 DEF WriteStops, IInv, TypeOK, CallInv
  <2>2. PICK part \in {Torn, Sealed(file, record[p])} : file' = Adding(part)
    BY <1>5, <2>1 DEF WriteStops
  <2>3. /\ Grown(file, file') /\ file' \in Lines
        /\ \A i \in 1 .. Len(file) : i < Len(file) \/ ended => file'[i] = file[i]
        /\ Len(file') = IF ended THEN Len(file) + 1 ELSE Len(file)
        /\ ~ended => file # <<>>
    BY <2>1, <2>2, AddingProperties DEF IInv
  <2>4. file \in Lines /\ Readable(file) /\ synced \in 0 .. Len(file) /\ acked \subseteq Line
    BY <2>1 DEF IInv, TypeOK, Valid
  <2>5. ChainSound' /\ LegalRuns'
    BY <2>3, <2>4, GrownSound DEF IInv, ChainSound, LegalRuns
  <2>6. ended' = FALSE /\ synced' = synced /\ acked' = acked /\ file' # <<>>
    BY <1>5, <2>3, <2>4 DEF WriteStops
  <2>7. AckInv'
    <3> SUFFICES ASSUME NEW line \in acked
                 PROVE  /\ line.sequence + 1 \in 1 .. synced' /\ file'[line.sequence + 1] = line
                        /\ line.sequence + 1 = Len(file') => ended'
      BY <2>6 DEF AckInv
    <3>1. /\ line.sequence + 1 \in 1 .. synced /\ file[line.sequence + 1] = line
          /\ line.sequence + 1 = Len(file) => ended
      BY <2>4 DEF IInv, AckInv
    <3>2. Len(file) \in Nat /\ Len(file') \in Nat
      BY <2>3, <2>4
    <3> QED BY <2>3, <2>4, <2>6, <3>1, <3>2
  <2>8. Leave(p) /\ entry' = entry
    BY <1>5 DEF WriteStops
  <2>9. \A q \in Proc : CallInv(q)'
    BY <2>1, <2>8, LeaveProperties DEF CallInv
  <2>10. synced' \in 0 .. Len(file')
    BY <2>3, <2>4, <2>6
  <2>11. TypeOK'
    BY <2>1, <2>3, <2>6, <2>8, <2>10, LeaveProperties DEF IInv, TypeOK
  <2> QED BY <2>5, <2>6, <2>7, <2>9, <2>11 DEF IInv, EndedInv
<1>6. ASSUME NEW p \in Proc, Sync(p)
      PROVE  IInv'
  <2> DEFINE new == Sealed(lines[p], record[p])
  <2>1. /\ file' = file /\ ended' = ended /\ synced' = Len(file) /\ acked' = acked \union {new}
        /\ Leave(p) /\ pc[p] = "sync" /\ file \in Lines /\ lines[p] \in Lines
        /\ new.sequence = Len(lines[p]) /\ ended /\ record[p] \in Record
        /\ \/ file = Append(lines[p], new)
           \/ lines[p] # <<>> /\ file = [lines[p] EXCEPT ![Len(lines[p])] = Torn]
    BY <1>6 DEF Sync, Ack, IInv, TypeOK, CallInv
  <2>2. new \in Line
    BY <1>6, <2>1 DEF IInv, CallInv
  <2>3. \/ new.sequence + 1 = Len(file) /\ file[new.sequence + 1] = new
        \/ new.sequence = Len(file) /\ ~Readable(file)
    <3>1. CASE file = Append(lines[p], new)
      <4>1. Len(Append(lines[p], new)) = Len(lines[p]) + 1
            /\ Append(lines[p], new)[Len(lines[p]) + 1] = new
        <5> HIDE DEF new
        <5> QED BY <2>1, <2>2
      <4>2. Len(file) = new.sequence + 1 /\ file[new.sequence + 1] = new
        BY <2>1, <3>1, <4>1, Zenon
      <4> QED BY <4>2
    <3>2. CASE lines[p] # <<>> /\ file = [lines[p] EXCEPT ![Len(lines[p])] = Torn]
      <4>1. Len(lines[p]) \in 1 .. Len(lines[p])
        BY <2>1, <3>2
      <4>2. Len(file) = Len(lines[p]) /\ file[Len(file)] = Torn /\ file # <<>>
        BY <2>1, <3>2, <4>1
      <4> QED BY <2>1, <4>2 DEF Readable
    <3> QED BY <2>1, <3>1, <3>2
  <2>4. AckInv'
    <3> SUFFICES ASSUME NEW line \in acked'
                 PROVE  \/ /\ line.sequence + 1 \in 1 .. synced' /\ file'[line.sequence + 1] = line
                           /\ line.sequence + 1 = Len(file') => ended'
                        \/ line.sequence = Len(file') /\ synced' = Len(file') /\ ~Readable(file')
      BY DEF AckInv
    <3>1. synced \in 0 .. Len(file) /\ Len(file) \in Nat /\ new.sequence \in Nat
      BY <2>1, <2>2 DEF IInv, TypeOK, Line
    <3>2. CASE line = new
      <4> HIDE DEF new
      <4> QED BY <2>1, <2>3, <3>1, <3>2
    <3>3. CASE line \in acked
      <4>1. line.sequence \in Nat
        BY <3>3 DEF IInv, TypeOK, Line
      <4> QED BY <2>1, <3>1, <3>3, <4>1 DEF IInv, AckInv
    <3> QED BY <2>1, <3>2, <3>3
  <2>5. Len(file) \in 0 .. Len(file) /\ entry' = entry
    BY <1>6, <2>1 DEF Sync
  <2>6. \A q \in Proc : CallInv(q)'
    BY <2>1, LeaveProperties DEF CallInv
  <2>7. TypeOK'
    <3> HIDE DEF new
    <3> QED BY <2>1, <2>2, <2>5, LeaveProperties DEF IInv, TypeOK
  <2> QED BY <2>1, <2>4, <2>6, <2>7 DEF IInv, ChainSound, LegalRuns, EndedInv
<1>7. ASSUME Power, FileGoes
      PROVE  IInv'
  <2>1. /\ file' = <<>> /\ ended' = TRUE /\ synced' = 0 /\ acked' = {} /\ entry' = entry
        /\ lock' = NoProc /\ pc' = [p \in Proc |-> "idle"] /\ lines' = [p \in Proc |-> <<>>]
        /\ record' = [p \in Proc |-> Blank(record[p])]
    BY <1>7 DEF Power, FileGoes
  <2>2. <<>> \in Lines /\ Len(<<>>) = 0
    OBVIOUS
  <2>3. TypeOK'
    <3>1. entry' \in BOOLEAN /\ ended' \in BOOLEAN
      BY <2>1, Zenon DEF IInv, TypeOK
    <3>2. record' \in [Proc -> Record]
      BY <2>1, BlankType DEF IInv, TypeOK, Record
    <3> QED BY <2>1, <2>2, <3>1, <3>2 DEF TypeOK, Record
  <2>4. ChainSound' /\ LegalRuns'
    BY <2>1, <2>2 DEF ChainSound, Sound, Readable, Verify, LegalRuns, Legal
  <2> QED BY <2>1, <2>3, <2>4 DEF IInv, CallInv, AckInv, EndedInv
<1>8. ASSUME Power, TailGoes
      PROVE  IInv'
  <2>1. file \in Lines /\ synced \in 0 .. Len(file) /\ Len(file) \in Nat /\ acked \subseteq Line
    BY DEF IInv, TypeOK
  <2>2. PICK n \in synced .. Len(file) :
          \/ file' = SubSeq(file, 1, n) /\ ended' = (IF n = Len(file) THEN ended ELSE TRUE)
          \/ /\ n < Len(file) /\ ended' = FALSE
             /\ file' \in {Append(SubSeq(file, 1, n), Torn), SubSeq(file, 1, n + 1)}
    BY <1>8 DEF Power, TailGoes
  <2>3. n \in 0 .. Len(file) /\ (n < Len(file) => n + 1 \in 0 .. Len(file))
    BY <2>1
  <2>4. Grown(file, file')
    BY <2>2, <2>3 DEF Grown
  <2>5. file' \in Lines /\ ChainSound' /\ LegalRuns'
    BY <2>1, <2>4, GrownSound DEF IInv, ChainSound, LegalRuns
  <2>6. \A i \in 1 .. n : file'[i] = file[i]
    <3>1. \A i \in 1 .. n : SubSeq(file, 1, n)[i] = file[i]
      BY <2>1, <2>3, PrefixProperties
    <3>2. n < Len(file) => \A i \in 1 .. n : SubSeq(file, 1, n + 1)[i] = file[i]
      BY <2>1, <2>3, PrefixProperties
    <3>3. \A i \in 1 .. n : Append(SubSeq(file, 1, n), Torn)[i] = SubSeq(file, 1, n)[i]
      <4> DEFINE ks == SubSeq(file, 1, n)
      <4>1. ks \in Lines /\ Len(ks) = n
        BY <2>1, <2>3, PrefixProperties
      <4> HIDE DEF ks
      <4> QED BY <4>1
    <3> QED BY <2>2, <3>1, <3>2, <3>3
  <2>7. \/ n < Len(file) /\ Len(file') = n /\ ended' = TRUE
        \/ n < Len(file) /\ Len(file') = n + 1 /\ ended' = FALSE
        \/ n = Len(file) /\ file' = file /\ ended' = ended
    <3>1. Len(SubSeq(file, 1, n)) = n /\ (n < Len(file) => Len(SubSeq(file, 1, n + 1)) = n + 1)
      BY <2>1, <2>3, PrefixProperties
    <3>2. Len(Append(SubSeq(file, 1, n), Torn)) = n + 1
      <4> DEFINE ks == SubSeq(file, 1, n)
      <4>1. ks \in Lines /\ Len(ks) = n
        BY <2>1, <2>3, PrefixProperties
      <4> HIDE DEF ks
      <4> QED BY <4>1
    <3>3. n = Len(file) => SubSeq(file, 1, n) = file
      BY <2>1
    <3>4. n = Len(file) \/ n < Len(file)
      BY <2>1
    <3> QED BY <2>1, <2>2, <3>1, <3>2, <3>3, <3>4
  <2>8. synced' = Len(file') /\ acked' = acked /\ entry' = (entry \/ file # <<>>) /\ lock' = NoProc
        /\ record' = [p \in Proc |-> Blank(record[p])]
        /\ pc' = [p \in Proc |-> "idle"] /\ lines' = [p \in Proc |-> <<>>]
    BY <1>8 DEF Power, TailGoes
  <2>9. AckInv'
    <3> SUFFICES ASSUME NEW line \in acked
                 PROVE  \/ /\ line.sequence + 1 \in 1 .. synced' /\ file'[line.sequence + 1] = line
                           /\ line.sequence + 1 = Len(file') => ended'
                        \/ line.sequence = Len(file') /\ synced' = Len(file') /\ ~Readable(file')
      BY <2>8 DEF AckInv
    <3>1. line.sequence \in Nat /\ Len(file') \in Nat
      BY <2>1, <2>5 DEF Line
    <3>2. \/ /\ line.sequence + 1 \in 1 .. synced /\ file[line.sequence + 1] = line
             /\ line.sequence + 1 = Len(file) => ended
          \/ line.sequence = Len(file) /\ synced = Len(file) /\ ~Readable(file)
      BY <2>8, Zenon DEF IInv, AckInv
    <3>3. CASE line.sequence + 1 \in 1 .. synced
      <4>1. /\ line.sequence + 1 \in 1 .. n /\ file[line.sequence + 1] = line
            /\ line.sequence + 1 = Len(file) => ended
        BY <2>1, <3>1, <3>2, <3>3
      <4>2. Len(file') \in n .. Len(file)
        BY <2>1, <2>3, <2>7, <3>1
      <4>3. line.sequence + 1 = Len(file') => ended'
        BY <2>1, <2>7, <3>1, <4>1
      <4> QED BY <2>1, <2>6, <2>8, <3>1, <4>1, <4>2, <4>3
    <3>4. CASE line.sequence = Len(file) /\ synced = Len(file) /\ ~Readable(file)
      <4>1. n = Len(file)
        BY <2>1, <3>4
      <4>2. file' = file
        BY <2>1, <2>7, <4>1
      <4> QED BY <2>8, <3>4, <4>2
    <3>5. \/ line.sequence + 1 \in 1 .. synced
          \/ line.sequence = Len(file) /\ synced = Len(file) /\ ~Readable(file)
      BY <3>2, Zenon
    <3> QED BY <3>3, <3>4, <3>5
  <2>10. TypeOK'
    <3>1. ended' \in BOOLEAN
      BY <2>7, Zenon DEF IInv, TypeOK
    <3>2. Len(file') \in 0 .. Len(file')
      BY <2>5
    <3>3. entry' \in BOOLEAN
      BY <2>8, Zenon DEF IInv, TypeOK
    <3>4. record' \in [Proc -> Record]
      BY <2>8, BlankType DEF IInv, TypeOK, Record
    <3> QED BY <2>5, <2>8, <3>1, <3>2, <3>3, <3>4 DEF IInv, TypeOK, Record
  <2>11. EndedInv'
    <3>1. Len(file') = n + 1 => file' # <<>>
      BY <2>3
    <3> QED BY <2>7, <3>1 DEF IInv, EndedInv
  <2> QED BY <2>5, <2>8, <2>9, <2>10, <2>11 DEF IInv, CallInv
<1>9. CASE UNCHANGED vars
  BY <1>9 DEF vars, IInv, TypeOK, CallInv, ChainSound, LegalRuns, AckInv, EndedInv
<1> QED BY <1>1, <1>2, <1>3, <1>4, <1>5, <1>6, <1>7, <1>8, <1>9 DEF Next, Full, Power

THEOREM Invariance == Spec => []IInv
<1>1. Init => IInv
  BY InitInv
<1>2. IInv /\ [Next]_vars => IInv'
  BY StepInv
<1> QED BY <1>1, <1>2, PTL DEF Spec

\* Every variable of a ledger of any length keeps its type.
THEOREM TypeCorrect == Spec => []TypeOK
<1>1. IInv => TypeOK
  BY DEF IInv
<1> QED BY <1>1, Invariance, PTL

\* Ledger.verify accepts every ledger, up to a torn last line.
THEOREM ChainSoundHolds == Spec => []ChainSound
<1>1. IInv => ChainSound
  BY DEF IInv
<1> QED BY <1>1, Invariance, PTL

\* The statuses of every run follow the table of transitions.
THEOREM LegalRunsHolds == Spec => []LegalRuns
<1>1. IInv => LegalRuns
  BY DEF IInv
<1> QED BY <1>1, Invariance, PTL

\* A line append returned stays, whatever crashes, fails or loses power, unless
\* a power loss takes the file before its directory is on disk (state.py:137-139).
THEOREM AckedKeptHolds == Spec => []AckedKept
<1>1. IInv => AckedKept
  <2> SUFFICES ASSUME IInv, NEW line \in acked
               PROVE  \/ line.sequence + 1 \in DOMAIN file /\ file[line.sequence + 1] = line
                      \/ line.sequence = Len(file) /\ ~Readable(file)
    BY DEF AckedKept
  <2>1. DOMAIN file = 1 .. Len(file) /\ synced \in 0 .. Len(file) /\ Len(file) \in Nat
        /\ line.sequence \in Nat
    BY DEF IInv, TypeOK, Line
  <2>2. \/ line.sequence + 1 \in 1 .. synced /\ file[line.sequence + 1] = line
        \/ line.sequence = Len(file) /\ ~Readable(file)
    BY Zenon DEF IInv, AckInv
  <2> QED BY <2>1, <2>2
<1> QED BY <1>1, Invariance, PTL
=============================================================================
