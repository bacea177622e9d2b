------------------------- MODULE ApprovedPatchProofs -------------------------
(***************************************************************************)
(* Proofs about ApprovedPatch, for every number of approvals, runs and     *)
(* notes, every lifetime and every combination of faults.                  *)
(***************************************************************************)
EXTENDS ApprovedPatch, TLAPS

Redeeming == {"reserve", "reserving", "save_reserved"}
Spending == {"patch", "consume", "consuming", "save_consumed"}

\* What the program counter says of the request and of the approval file.
RunInv(p) ==
  LET a == req[p].approval IN
  /\ pc[p] \in {"issue", "issuing"} => req[p] \in Request /\ req[p].op = "challenge"
  /\ pc[p] \in Redeeming \union Spending => req[p] \in Request /\ req[p].op = "apply"
  /\ pc[p] = "save_reserved" => loaded[p] = approvals[a] /\ approvals[a].state = "issued"
  /\ pc[p] = "patch" => approvals[a].state = "reserved" /\ spent[a] = {}
  /\ pc[p] \in Spending \ {"patch"} => approvals[a].state = "reserved" /\ spent[a] # {}
  /\ pc[p] = "save_consumed" => loaded[p] = approvals[a]

\* An approval whose reservation is in use has one user.
Exclusive ==
  \A p, q \in Proc :
    p # q /\ pc[p] \in Spending /\ pc[q] \in Spending => req[p].approval # req[q].approval

Unspent == \A a \in Approval : approvals[a].state \in {"absent", "issued"} => spent[a] = {}

IInv ==
  /\ TypeOK
  /\ Unspent
  /\ AppliedOnce
  /\ ConsumedWasApplied
  /\ Exclusive
  /\ \A p \in Proc : RunInv(p)

-----------------------------------------------------------------------------
LEMMA RequestTypes ==
  /\ \A r \in Request : r.op = "apply" =>
       r.approval \in Approval /\ r.code \in Approval /\ r.binding \in Binding
  /\ \A r \in Request : r.op = "challenge" => r.expires \in Nat /\ r.binding \in Binding
  BY DEF Request

LEMMA RecordTypes ==
  /\ Absent \notin Record
  /\ Absent.state = "absent"
  /\ \A r \in Record : r.state \in {"issued", "reserved", "consumed"}
  /\ \A r \in Record, s \in {"issued", "reserved", "consumed"} :
       /\ [r EXCEPT !.state = s] \in Record
       /\ [r EXCEPT !.state = s].state = s
  BY DEF Record, Absent

LEMMA BindingType ==
  ASSUME TypeOK, NEW p \in Proc, NEW n \in Note, NEW u \in Managed
  PROVE  BindingOf(p, n, u) \in Binding
  BY ConstantsAssumption DEF TypeOK, BindingOf, Binding

LEMMA RenderType ==
  ASSUME NEW c \in Text, NEW u \in Managed
  PROVE  Patches!Render(c, u) \in Text
  BY DEF Text, Patches!Text, Patches!Render

\* At most one run is inside the lock.
LEMMA OneHolder ==
  ASSUME TypeOK, NEW p \in Proc, NEW q \in Proc, p # q, pc[p] \in Holding
  PROVE  pc[q] \notin Holding
  BY DEF TypeOK

LEMMA InitIInv == Init => IInv
<1> SUFFICES ASSUME Init PROVE IInv
  OBVIOUS
<1>1. TypeOK
  BY ConstantsAssumption
     DEF Init, TypeOK, Patches!Init, Text, Waiting, Holding, Outcomes
<1>2. Unspent /\ AppliedOnce /\ ConsumedWasApplied
  BY RecordTypes DEF Init, Unspent, AppliedOnce, ConsumedWasApplied
<1>3. Exclusive /\ \A p \in Proc : RunInv(p)
  BY DEF Init, Exclusive, RunInv, Redeeming, Spending
<1>4. QED
  BY <1>1, <1>2, <1>3 DEF IInv

-----------------------------------------------------------------------------
(***************************************************************************)
(* A run ends.                                                             *)
(***************************************************************************)
LEMMA EndType ==
  ASSUME TypeOK, NEW p \in Proc, NEW how \in Outcomes, End(p, how),
         text' \in [Note -> Text], typed' \in [Note -> Text], applied' \in SUBSET Tx,
         approvals' \in [Approval -> Record \union {Absent}],
         known' \in SUBSET Approval, clock' \in Nat,
         wrote' \in [Proc -> BOOLEAN], spent' \in [Approval -> SUBSET Tx]
  PROVE  TypeOK'
<1>1. pc' \in [Proc -> {"idle", "patch"} \union Waiting \union Holding]
  BY DEF TypeOK, End, Goto
<1>2. \A q \in Proc : lock' = q <=> pc'[q] \in Holding
  BY ConstantsAssumption DEF TypeOK, End, Goto, Release, Holding
<1>3. /\ lock' \in Proc \union {NoProc}
      /\ req' \in [Proc -> Request \union {NoRequest}]
      /\ loaded' \in [Proc -> Record \union {Absent}]
      /\ outcome' \in [Proc -> Outcomes]
  BY DEF TypeOK, End, Release
<1>4. QED
  BY <1>1, <1>2, <1>3 DEF TypeOK

\* A run that ends without touching an approval file breaks nothing.
LEMMA RaiseKeeps ==
  ASSUME IInv, NEW p \in Proc, NEW how \in Outcomes, Raise(p, how)
  PROVE  IInv'
<1>1. /\ End(p, how) /\ UNCHANGED <<text, typed, applied, approvals, known, clock, wrote, spent>>
  BY DEF Raise, vault, history
<1>2. TypeOK'
  BY <1>1, EndType DEF IInv, TypeOK
<1>3. Unspent' /\ AppliedOnce' /\ ConsumedWasApplied'
  BY <1>1 DEF IInv, Unspent, AppliedOnce, ConsumedWasApplied
<1>4. pc'[p] = "idle" /\ \A q \in Proc : q # p =>
        pc'[q] = pc[q] /\ req'[q] = req[q] /\ loaded'[q] = loaded[q]
  BY <1>1 DEF IInv, TypeOK, End, Goto
<1>5. Exclusive'
  BY <1>4 DEF IInv, Exclusive, Spending
<1>6. ASSUME NEW q \in Proc PROVE RunInv(q)'
  BY <1>1, <1>4 DEF IInv, RunInv, Redeeming, Spending
<1>7. QED
  BY <1>2, <1>3, <1>5, <1>6 DEF IInv

-----------------------------------------------------------------------------
(***************************************************************************)
(* Steps that leave the approval files and the history alone.              *)
(***************************************************************************)
LEMMA LocalKeeps ==
  ASSUME IInv, NEW p \in Proc, TypeOK', RunInv(p)',
         UNCHANGED <<approvals, spent>>,
         pc'[p] \in Spending => pc[p] \in Spending /\ req'[p] = req[p],
         \A q \in Proc : q # p => pc'[q] = pc[q] /\ req'[q] = req[q] /\ loaded'[q] = loaded[q]
  PROVE  IInv'
<1>1. Unspent' /\ AppliedOnce' /\ ConsumedWasApplied'
  BY DEF IInv, Unspent, AppliedOnce, ConsumedWasApplied
<1>2. Exclusive'
  BY DEF IInv, Exclusive
<1>3. ASSUME NEW q \in Proc PROVE RunInv(q)'
  BY DEF IInv, RunInv
<1>4. QED
  BY <1>1, <1>2, <1>3 DEF IInv

LEMMA ChallengeKeeps ==
  ASSUME IInv, NEW p \in Proc, Challenge(p)
  PROVE  IInv'
<1>1. PICK n \in Note, u \in Managed :
        req' = [req EXCEPT ![p] = [op |-> "challenge", binding |-> BindingOf(p, n, u),
                                   expires |-> clock + TTL]]
  BY DEF Challenge
<1>2. /\ pc[p] = "idle" /\ pc' = [pc EXCEPT ![p] = "issue"]
      /\ outcome' = [outcome EXCEPT ![p] = "none"] /\ wrote' = [wrote EXCEPT ![p] = FALSE]
      /\ UNCHANGED <<text, typed, applied, approvals, known, lock, clock, loaded, spent>>
  BY DEF Challenge, Goto, vault
<1>3. TypeOK
  BY DEF IInv
<1>4. /\ req'[p] \in Request /\ req'[p].op = "challenge" /\ pc'[p] = "issue"
      /\ req' \in [Proc -> Request \union {NoRequest}]
  BY <1>1, <1>2, <1>3, BindingType, ConstantsAssumption DEF TypeOK, Request
<1>5. TypeOK'
  BY <1>2, <1>3, <1>4 DEF TypeOK, Waiting, Holding, Outcomes
<1>6. RunInv(p)'
  BY <1>4 DEF RunInv, Redeeming, Spending
<1>7. QED
  BY <1>1, <1>2, <1>3, <1>4, <1>5, <1>6, LocalKeeps DEF TypeOK, Spending

LEMMA ApplyKeeps ==
  ASSUME IInv, NEW p \in Proc, Apply(p)
  PROVE  IInv'
<1>1. PICK n \in Note, u \in Managed, a \in Approval, c \in known :
        req' = [req EXCEPT ![p] = [op |-> "apply", binding |-> BindingOf(p, n, u),
                                   approval |-> a, code |-> c]]
  BY DEF Apply
<1>2. /\ pc[p] = "idle" /\ pc' = [pc EXCEPT ![p] = "reserve"]
      /\ outcome' = [outcome EXCEPT ![p] = "none"] /\ wrote' = [wrote EXCEPT ![p] = FALSE]
      /\ UNCHANGED <<text, typed, applied, approvals, known, lock, clock, loaded, spent>>
  BY DEF Apply, Goto, vault
<1>3. TypeOK
  BY DEF IInv
<1>4. /\ req'[p] \in Request /\ req'[p].op = "apply" /\ pc'[p] = "reserve"
      /\ req' \in [Proc -> Request \union {NoRequest}]
  BY <1>1, <1>2, <1>3, BindingType DEF TypeOK, Request
<1>5. TypeOK'
  BY <1>2, <1>3, <1>4 DEF TypeOK, Waiting, Holding, Outcomes
<1>6. RunInv(p)'
  BY <1>4 DEF RunInv, Redeeming, Spending
<1>7. QED
  BY <1>1, <1>2, <1>3, <1>4, <1>5, <1>6, LocalKeeps DEF TypeOK, Spending

LEMMA TakeLockKeeps ==
  ASSUME IInv, NEW p \in Proc, TakeLock(p)
  PROVE  IInv'
<1>1. /\ pc[p] \in Waiting /\ lock = NoProc /\ lock' = p
      /\ UNCHANGED <<text, typed, applied, approvals, known, clock, req, loaded, outcome,
                     wrote, spent>>
  BY DEF TakeLock, vault, history
<1>2. TypeOK /\ RunInv(p)
  BY DEF IInv
<1>3. \E label \in {"issuing", "reserving", "consuming"} :
        /\ pc' = [pc EXCEPT ![p] = label]
        /\ pc[p] = "issue" <=> label = "issuing"
        /\ pc[p] = "reserve" <=> label = "reserving"
        /\ pc[p] = "consume" <=> label = "consuming"
  <2>1. CASE pc[p] = "issue"
    BY <2>1 DEF TakeLock, Goto
  <2>2. CASE pc[p] = "reserve"
    BY <2>2 DEF TakeLock, Goto
  <2>3. CASE pc[p] = "consume"
    BY <2>3 DEF TakeLock, Goto
  <2>4. QED
    BY <1>1, <2>1, <2>2, <2>3 DEF Waiting
<1>4. TypeOK'
  BY <1>1, <1>2, <1>3, ConstantsAssumption DEF TypeOK, Waiting, Holding
<1>5. RunInv(p)'
  BY <1>1, <1>2, <1>3 DEF TypeOK, RunInv, Redeeming, Spending, Waiting
<1>6. QED
  BY <1>1, <1>2, <1>3, <1>4, <1>5, LocalKeeps DEF TypeOK, Spending

LEMMA LoadIssuedKeeps ==
  ASSUME IInv, NEW p \in Proc, LoadIssued(p)
  PROVE  IInv'
<1> DEFINE r == approvals[req[p].approval]
<1>1. CASE Raise(p, "failed") \/ Raise(p, "denied")
  BY <1>1, RaiseKeeps DEF Outcomes
<1>2. CASE ~(Raise(p, "failed") \/ Raise(p, "denied"))
  <2>1. /\ pc[p] = "reserving" /\ pc' = [pc EXCEPT ![p] = "save_reserved"]
        /\ r.state = "issued" /\ loaded' = [loaded EXCEPT ![p] = r] /\ r # Absent
        /\ UNCHANGED <<text, typed, applied, approvals, known, lock, clock, req, outcome,
                       wrote, spent>>
    BY <1>2 DEF LoadIssued, Redeemable, Goto, vault, history
  <2>2. TypeOK /\ RunInv(p)
    BY DEF IInv
  <2>3. req[p].approval \in Approval /\ req[p] \in Request /\ req[p].op = "apply"
    BY <2>1, <2>2, RequestTypes DEF RunInv, Redeeming
  <2>4. r \in Record
    BY <2>1, <2>2, <2>3 DEF TypeOK
  <2>5. TypeOK'
    BY <2>1, <2>2, <2>4 DEF TypeOK, Holding
  <2>6. RunInv(p)'
    BY <2>1, <2>2, <2>3 DEF TypeOK, RunInv, Redeeming, Spending
  <2>7. QED
    BY <2>1, <2>2, <2>5, <2>6, LocalKeeps DEF TypeOK, Spending
<1>3. QED
  BY <1>1, <1>2

LEMMA LoadReservedKeeps ==
  ASSUME IInv, NEW p \in Proc, LoadReserved(p)
  PROVE  IInv'
<1> DEFINE r == approvals[req[p].approval]
<1>1. CASE Raise(p, "denied")
  BY <1>1, RaiseKeeps DEF Outcomes
<1>2. CASE ~Raise(p, "denied")
  <2>1. /\ pc[p] = "consuming" /\ pc' = [pc EXCEPT ![p] = "save_consumed"]
        /\ r.state = "reserved" /\ loaded' = [loaded EXCEPT ![p] = r]
        /\ UNCHANGED <<text, typed, applied, approvals, known, lock, clock, req, outcome,
                       wrote, spent>>
    BY <1>2 DEF LoadReserved, Goto, vault, history
  <2>2. TypeOK /\ RunInv(p)
    BY DEF IInv
  <2>3. req[p].approval \in Approval /\ req[p] \in Request /\ req[p].op = "apply"
    BY <2>1, <2>2, RequestTypes DEF RunInv, Spending
  <2>4. r \in Record
    BY <2>1, <2>2, <2>3, RecordTypes DEF TypeOK
  <2>5. TypeOK'
    BY <2>1, <2>2, <2>4 DEF TypeOK, Holding
  <2>6. RunInv(p)'
    BY <2>1, <2>2, <2>3 DEF TypeOK, RunInv, Redeeming, Spending
  <2>7. QED
    BY <2>1, <2>2, <2>5, <2>6, LocalKeeps DEF TypeOK, Spending
<1>3. QED
  BY <1>1, <1>2

-----------------------------------------------------------------------------
(***************************************************************************)
(* Steps that save an approval file or patch the note.                     *)
(***************************************************************************)
\* A new file: nobody can be at work on an approval that is absent.
LEMMA IssueSaves ==
  ASSUME IInv, NEW p \in Proc, pc[p] = "issuing", NEW how \in Outcomes, End(p, how),
         NEW a \in Approval, approvals[a] = Absent,
         approvals' = [approvals EXCEPT ![a] =
           [state |-> "issued", expires |-> req[p].expires, binding |-> req[p].binding]],
         known' \in SUBSET Approval, UNCHANGED <<text, typed, applied, clock, wrote, spent>>
  PROVE  IInv'
<1>1. TypeOK /\ RunInv(p) /\ Unspent
  BY DEF IInv
<1>2. req[p].expires \in Nat /\ req[p].binding \in Binding
  BY <1>1, RequestTypes DEF RunInv
<1>3. /\ approvals' \in [Approval -> Record \union {Absent}]
      /\ approvals'[a].state = "issued" /\ approvals[a].state = "absent"
      /\ \A b \in Approval : b # a => approvals'[b] = approvals[b]
  BY <1>1, <1>2, RecordTypes DEF TypeOK, Record
<1>4. TypeOK'
  BY <1>1, <1>3, EndType DEF TypeOK
<1>5. Unspent' /\ AppliedOnce' /\ ConsumedWasApplied'
  BY <1>1, <1>3 DEF IInv, Unspent, AppliedOnce, ConsumedWasApplied
<1>6. pc'[p] = "idle" /\ \A q \in Proc : q # p =>
        pc'[q] = pc[q] /\ req'[q] = req[q] /\ loaded'[q] = loaded[q]
  BY <1>1 DEF TypeOK, End, Goto
<1>7. Exclusive'
  BY <1>6 DEF IInv, Exclusive, Spending
<1>8. ASSUME NEW q \in Proc PROVE RunInv(q)'
  <2>1. CASE q = p
    BY <1>6, <2>1 DEF RunInv, Redeeming, Spending
  <2>2. CASE q # p
    <3>1. RunInv(q)
      BY DEF IInv
    <3>2. pc[q] \in Spending \union {"save_reserved"} =>
            req[q].approval \in Approval /\ req[q].approval # a
      BY <1>3, <3>1, RequestTypes DEF RunInv, Redeeming, Spending
    <3>3. QED
      BY <1>3, <1>6, <2>2, <3>1, <3>2 DEF RunInv, Redeeming, Spending
  <2>3. QED
    BY <2>1, <2>2
<1>9. QED
  BY <1>4, <1>5, <1>7, <1>8 DEF IInv

LEMMA IssueKeeps ==
  ASSUME IInv, NEW p \in Proc, Issue(p)
  PROVE  IInv'
<1>1. PICK a \in Approval :
        \/ Raise(p, "failed")
        \/ /\ approvals[a] = Absent
           /\ approvals' = [approvals EXCEPT ![a] =
                [state |-> "issued", expires |-> req[p].expires, binding |-> req[p].binding]]
           /\ known' = known \union {a}
           /\ End(p, "ok")
           /\ UNCHANGED <<vault, clock, history>>
  BY DEF Issue
<1>2. known' \in SUBSET Approval \/ Raise(p, "failed")
  BY <1>1 DEF IInv, TypeOK
<1>3. QED
  BY <1>1, <1>2, IssueSaves, RaiseKeeps DEF Issue, Outcomes, vault, history

\* The save of a reservation, whether the run goes on or ends.
LEMMA ReservedSaves ==
  ASSUME IInv, NEW p \in Proc, pc[p] = "save_reserved", TypeOK',
         approvals' = [approvals EXCEPT ![req[p].approval] =
                         [loaded[p] EXCEPT !.state = "reserved"]],
         UNCHANGED spent,
         \A q \in Proc : q # p => pc'[q] = pc[q] /\ req'[q] = req[q] /\ loaded'[q] = loaded[q],
         pc'[p] \in Spending => pc'[p] = "patch" /\ req'[p] = req[p],
         pc'[p] \in Spending \union {"idle"}
  PROVE  IInv'
<1> DEFINE a == req[p].approval
<1>1. TypeOK /\ RunInv(p) /\ Unspent
  BY DEF IInv
<1>2. a \in Approval /\ req[p] \in Request /\ req[p].op = "apply"
  BY <1>1, RequestTypes DEF RunInv, Redeeming
<1>3. approvals[a].state = "issued" /\ loaded[p] = approvals[a] /\ loaded[p] \in Record
  BY <1>1, <1>2, RecordTypes DEF RunInv, TypeOK
<1>4. /\ approvals'[a].state = "reserved"
      /\ \A b \in Approval : b # a => approvals'[b] = approvals[b]
  BY <1>1, <1>2, <1>3, RecordTypes DEF TypeOK
<1>5. spent[a] = {}
  BY <1>1, <1>2, <1>3 DEF Unspent
<1>6. Unspent' /\ AppliedOnce' /\ ConsumedWasApplied'
  BY <1>4 DEF IInv, Unspent, AppliedOnce, ConsumedWasApplied
<1>7. \A q \in Proc : q # p /\ pc[q] \in Spending \union {"save_reserved"} =>
        req[q].approval \in Approval /\ req[q].approval # a
  <2>1. ASSUME NEW q \in Proc, q # p, pc[q] \in Spending \union {"save_reserved"}
        PROVE  req[q].approval \in Approval /\ req[q].approval # a
    <3>1. pc[q] # "save_reserved"
      BY <1>1, <2>1, OneHolder DEF Holding
    <3>2. RunInv(q)
      BY DEF IInv
    <3>3. QED
      BY <1>3, <2>1, <3>1, <3>2, RequestTypes DEF RunInv, Spending
  <2>2. QED
    BY <2>1
<1>8. Exclusive'
  BY <1>7 DEF IInv, Exclusive, Spending
<1>9. ASSUME NEW q \in Proc PROVE RunInv(q)'
  <2>1. CASE q = p
    BY <1>2, <1>4, <1>5, <2>1 DEF RunInv, Redeeming, Spending
  <2>2. CASE q # p
    <3>1. RunInv(q)
      BY DEF IInv
    <3>2. QED
      BY <1>4, <1>7, <2>2, <3>1 DEF RunInv, Redeeming, Spending
  <2>3. QED
    BY <2>1, <2>2
<1>10. QED
  BY <1>6, <1>8, <1>9 DEF IInv

LEMMA SaveReservedKeeps ==
  ASSUME IInv, NEW p \in Proc, SaveReserved(p)
  PROVE  IInv'
<1>1. /\ pc[p] = "save_reserved" /\ pc' = [pc EXCEPT ![p] = "patch"]
      /\ approvals' = [approvals EXCEPT ![req[p].approval] =
                         [loaded[p] EXCEPT !.state = "reserved"]]
      /\ lock' = IF lock = p THEN NoProc ELSE lock
      /\ UNCHANGED <<text, typed, applied, known, clock, req, loaded, outcome, wrote, spent>>
  BY DEF SaveReserved, Goto, Release, vault, history
<1>2. TypeOK /\ RunInv(p)
  BY DEF IInv
<1>3. req[p].approval \in Approval /\ loaded[p] \in Record
  BY <1>1, <1>2, RequestTypes, RecordTypes DEF RunInv, TypeOK, Redeeming
<1>4. approvals' \in [Approval -> Record \union {Absent}]
  BY <1>1, <1>2, <1>3, RecordTypes DEF TypeOK
<1>5. TypeOK'
  BY <1>1, <1>2, <1>4, ConstantsAssumption DEF TypeOK, Holding
<1>6. QED
  BY <1>1, <1>2, <1>5, ReservedSaves DEF TypeOK, Spending

\* The save of a consumption: its run is the approval's only user.
LEMMA ConsumedSaves ==
  ASSUME IInv, NEW p \in Proc, pc[p] = "save_consumed", NEW how \in Outcomes, End(p, how),
         approvals' = [approvals EXCEPT ![req[p].approval] =
                         [loaded[p] EXCEPT !.state = "consumed"]],
         UNCHANGED <<text, typed, applied, known, clock, wrote, spent>>
  PROVE  IInv'
<1> DEFINE a == req[p].approval
<1>1. TypeOK /\ RunInv(p) /\ Unspent /\ Exclusive
  BY DEF IInv
<1>2. a \in Approval
  BY <1>1, RequestTypes DEF RunInv, Spending
<1>3. /\ loaded[p] = approvals[a] /\ loaded[p] \in Record /\ spent[a] # {}
      /\ approvals[a].state = "reserved"
  BY <1>1, <1>2, RecordTypes DEF RunInv, TypeOK, Spending
<1>4. /\ approvals' \in [Approval -> Record \union {Absent}]
      /\ approvals'[a].state = "consumed"
      /\ \A b \in Approval : b # a => approvals'[b] = approvals[b]
  BY <1>1, <1>2, <1>3, RecordTypes DEF TypeOK
<1>5. TypeOK'
  BY <1>1, <1>4, EndType DEF TypeOK
<1>6. Unspent' /\ AppliedOnce' /\ ConsumedWasApplied'
  BY <1>3, <1>4 DEF IInv, Unspent, AppliedOnce, ConsumedWasApplied
<1>7. pc'[p] = "idle" /\ \A q \in Proc : q # p =>
        pc'[q] = pc[q] /\ req'[q] = req[q] /\ loaded'[q] = loaded[q]
  BY <1>1 DEF TypeOK, End, Goto
<1>8. Exclusive'
  BY <1>1, <1>7 DEF Exclusive, Spending
<1>9. ASSUME NEW q \in Proc PROVE RunInv(q)'
  <2>1. CASE q = p
    BY <1>7, <2>1 DEF RunInv, Redeeming, Spending
  <2>2. CASE q # p
    <3>1. RunInv(q)
      BY DEF IInv
    <3>2. pc[q] # "save_reserved"
      BY <1>1, <2>2, OneHolder DEF Holding
    <3>3. pc[q] \in Spending => req[q].approval \in Approval /\ req[q].approval # a
      BY <1>1, <2>2, <3>1, RequestTypes DEF Exclusive, RunInv, Spending
    <3>4. QED
      BY <1>4, <1>7, <2>2, <3>1, <3>2, <3>3 DEF RunInv, Redeeming, Spending
  <2>3. QED
    BY <2>1, <2>2
<1>10. QED
  BY <1>5, <1>6, <1>8, <1>9 DEF IInv

\* What apply_file does to the history, whether it returns or then raises.
LEMMA PatchedType ==
  ASSUME IInv, NEW p \in Proc, pc[p] = "patch", Patched(p)
  PROVE  /\ text' \in [Note -> Text] /\ typed' = typed /\ applied' \in SUBSET Tx
         /\ wrote' \in [Proc -> BOOLEAN] /\ spent' \in [Approval -> SUBSET Tx]
         /\ req[p].approval \in Approval
         /\ \E t \in Tx : spent'[req[p].approval] = {t}
         /\ \A a \in Approval : a # req[p].approval => spent'[a] = spent[a]
<1>1. PICK t \in Tx :
        /\ Patches!Patch(t, req[p].binding.note, req[p].binding.update)
        /\ spent' = [spent EXCEPT ![req[p].approval] = @ \union {t}]
        /\ wrote' = [wrote EXCEPT ![p] = TRUE]
  BY DEF Patched
<1>2. TypeOK /\ RunInv(p)
  BY DEF IInv
<1>3. req[p].approval \in Approval /\ req[p].binding \in Binding
  BY <1>2, RequestTypes DEF RunInv, Spending
<1>4. req[p].binding.note \in Note /\ req[p].binding.update \in Managed
  BY <1>3 DEF Binding
<1>5. text[req[p].binding.note] \in Text
  BY <1>2, <1>4 DEF TypeOK
<1>6. Patches!Render(text[req[p].binding.note], req[p].binding.update) \in Text
  BY <1>4, <1>5, RenderType
<1>7. text' \in [Note -> Text] /\ typed' = typed /\ applied' \in SUBSET Tx
  BY <1>1, <1>2, <1>4, <1>6 DEF Patches!Patch, TypeOK
<1>8. spent[req[p].approval] = {}
  BY <1>2 DEF RunInv
<1>9. QED
  BY <1>1, <1>2, <1>3, <1>7, <1>8 DEF TypeOK

\* The patch spends the approval.
LEMMA PatchSpends ==
  ASSUME IInv, NEW p \in Proc, pc[p] = "patch", Patched(p), TypeOK',
         UNCHANGED approvals,
         \A q \in Proc : q # p => pc'[q] = pc[q] /\ req'[q] = req[q] /\ loaded'[q] = loaded[q],
         pc'[p] \in Spending => pc'[p] = "consume" /\ req'[p] = req[p],
         pc'[p] \in Spending \union {"idle"}
  PROVE  IInv'
<1> DEFINE a == req[p].approval
<1>1. /\ a \in Approval
      /\ \E t \in Tx : spent'[a] = {t}
      /\ \A b \in Approval : b # a => spent'[b] = spent[b]
  BY PatchedType
<1>2. TypeOK /\ RunInv(p) /\ Exclusive /\ req[p] \in Request /\ req[p].op = "apply"
  BY DEF IInv, RunInv, Spending
<1>3. approvals[a].state = "reserved"
  BY <1>2 DEF RunInv
<1>4. Unspent' /\ AppliedOnce' /\ ConsumedWasApplied'
  BY <1>1, <1>3 DEF IInv, Unspent, AppliedOnce, ConsumedWasApplied
<1>5. Exclusive'
  BY <1>2 DEF Exclusive, Spending
<1>6. ASSUME NEW q \in Proc PROVE RunInv(q)'
  <2>1. CASE q = p
    BY <1>1, <1>2, <1>3, <2>1 DEF RunInv, Redeeming, Spending
  <2>2. CASE q # p
    <3>1. RunInv(q)
      BY DEF IInv
    <3>2. pc[q] \in Spending => req[q].approval \in Approval /\ req[q].approval # a
      BY <1>2, <2>2, <3>1, RequestTypes DEF Exclusive, RunInv, Spending
    <3>3. QED
      BY <1>1, <2>2, <3>1, <3>2 DEF RunInv, Redeeming, Spending
  <2>3. QED
    BY <2>1, <2>2
<1>7. QED
  BY <1>4, <1>5, <1>6 DEF IInv

LEMMA PatchNoteKeeps ==
  ASSUME IInv, NEW p \in Proc, PatchNote(p)
  PROVE  IInv'
<1>1. /\ pc[p] = "patch" /\ Patched(p) /\ pc' = [pc EXCEPT ![p] = "consume"]
      /\ UNCHANGED <<approvals, known, lock, clock, req, loaded, outcome>>
  BY DEF PatchNote, Goto
<1>2. TypeOK
  BY DEF IInv
<1>3. TypeOK'
  BY <1>1, <1>2, PatchedType DEF TypeOK, Waiting, Holding
<1>4. QED
  BY <1>1, <1>2, <1>3, PatchSpends DEF TypeOK, Spending

LEMMA WriteFailsKeeps ==
  ASSUME IInv, NEW p \in Proc, WriteFails(p)
  PROVE  IInv'
<1>1. End(p, "failed") /\ UNCHANGED <<known, clock>> /\ "failed" \in Outcomes
  BY DEF WriteFails, Outcomes
<1>2. TypeOK /\ RunInv(p)
  BY DEF IInv
<1>3. \A q \in Proc : q # p => pc'[q] = pc[q] /\ req'[q] = req[q] /\ loaded'[q] = loaded[q]
  BY <1>1, <1>2 DEF TypeOK, End, Goto
<1>10. pc'[p] = "idle"
  BY <1>1, <1>2 DEF TypeOK, End, Goto
<1>4. CASE UNCHANGED <<vault, approvals, history>>
  BY <1>1, <1>4, RaiseKeeps DEF Raise
<1>5. CASE /\ pc[p] = "issuing"
           /\ \E a \in Approval :
                /\ approvals[a] = Absent
                /\ approvals' = [approvals EXCEPT ![a] =
                     [state |-> "issued", expires |-> req[p].expires, binding |-> req[p].binding]]
           /\ UNCHANGED <<vault, history>>
  BY <1>1, <1>2, <1>5, IssueSaves DEF TypeOK, vault, history
<1>6. CASE /\ pc[p] = "save_reserved"
           /\ approvals' = [approvals EXCEPT ![req[p].approval] =
                              [loaded[p] EXCEPT !.state = "reserved"]]
           /\ UNCHANGED <<vault, history>>
  <2>1. req[p].approval \in Approval /\ loaded[p] \in Record
    BY <1>2, <1>6, RequestTypes, RecordTypes DEF RunInv, TypeOK, Redeeming
  <2>2. approvals' \in [Approval -> Record \union {Absent}]
    BY <1>2, <1>6, <2>1, RecordTypes DEF TypeOK
  <2>3. TypeOK'
    BY <1>1, <1>2, <1>6, <2>2, EndType DEF TypeOK, vault, history
  <2>4. QED
    BY <1>3, <1>6, <1>10, <2>3, ReservedSaves DEF Spending, vault, history
<1>7. CASE /\ pc[p] = "save_consumed"
           /\ approvals' = [approvals EXCEPT ![req[p].approval] =
                              [loaded[p] EXCEPT !.state = "consumed"]]
           /\ UNCHANGED <<vault, history>>
  BY <1>1, <1>7, ConsumedSaves DEF vault, history
<1>8. CASE pc[p] = "patch" /\ Patched(p) /\ UNCHANGED approvals
  <2>1. TypeOK'
    BY <1>1, <1>2, <1>8, PatchedType, EndType DEF TypeOK
  <2>2. QED
    BY <1>3, <1>8, <1>10, <2>1, PatchSpends DEF Spending
<1>9. QED
  BY <1>4, <1>5, <1>6, <1>7, <1>8 DEF WriteFails

-----------------------------------------------------------------------------
LEMMA NextKeeps == IInv /\ [Next]_vars => IInv'
<1> SUFFICES ASSUME IInv, [Next]_vars PROVE IInv'
  OBVIOUS
<1>1. TypeOK
  BY DEF IInv
<1>2. ASSUME TypeOK', UNCHANGED <<approvals, pc, req, loaded, spent>> PROVE IInv'
  BY <1>2 DEF IInv, Unspent, AppliedOnce, ConsumedWasApplied, Exclusive, RunInv
<1>3. CASE Save
  <2>1. PICK n \in Note, c \in Text : Patches!Save(n, c)
    BY <1>3 DEF Save
  <2>2. text' \in [Note -> Text] /\ typed' \in [Note -> Text] /\ applied' = applied
    BY <1>1, <2>1 DEF Patches!Save, TypeOK
  <2>3. TypeOK'
    BY <1>1, <1>3, <2>2 DEF Save, TypeOK, history
  <2>4. QED
    BY <1>2, <1>3, <2>3 DEF Save, history
<1>4. CASE Tick
  <2>1. TypeOK'
    BY <1>1, <1>4 DEF Tick, TypeOK, vault, history
  <2>2. QED
    BY <1>2, <1>4, <2>1 DEF Tick, history
<1>5. ASSUME NEW p \in Proc, Step(p) PROVE IInv'
  <2>1. CASE Challenge(p) \/ Apply(p)
    BY <2>1, ChallengeKeeps, ApplyKeeps
  <2>2. CASE TakeLock(p) \/ Issue(p)
    BY <2>2, TakeLockKeeps, IssueKeeps
  <2>3. CASE LoadIssued(p) \/ LoadReserved(p)
    BY <2>3, LoadIssuedKeeps, LoadReservedKeeps
  <2>4. CASE SaveReserved(p) \/ PatchNote(p)
    BY <2>4, SaveReservedKeeps, PatchNoteKeeps
  <2>5. CASE SaveConsumed(p)
    BY <2>5, ConsumedSaves DEF SaveConsumed, Outcomes, vault, history
  <2>6. CASE GiveUp(p) \/ PatchFails(p)
    BY <2>6, RaiseKeeps DEF GiveUp, PatchFails, Outcomes
  <2>7. QED
    BY <1>5, <2>1, <2>2, <2>3, <2>4, <2>5, <2>6 DEF Step
<1>6. ASSUME NEW p \in Proc, Crash(p) PROVE IInv'
  BY <1>6, RaiseKeeps DEF Crash, Outcomes
<1>7. ASSUME NEW p \in Proc, WriteFails(p) PROVE IInv'
  BY <1>7, WriteFailsKeeps
<1>8. CASE UNCHANGED vars
  <2>1. TypeOK'
    BY <1>1, <1>8 DEF TypeOK, vars
  <2>2. QED
    BY <1>2, <1>8, <2>1 DEF vars
<1>9. QED
  BY <1>3, <1>4, <1>5, <1>6, <1>7, <1>8 DEF Next

LEMMA Invariance == Spec => []IInv
<1>1. Init => IInv
  BY InitIInv
<1>2. IInv /\ [Next]_vars => IInv'
  BY NextKeeps
<1>3. QED
  BY <1>1, <1>2, PTL DEF Spec

\* Every variable keeps its type, and the approval lock is held exactly from
\* the load of an approval file to its save.
THEOREM TypeCorrect == Spec => []TypeOK
<1>1. IInv => TypeOK
  BY DEF IInv
<1>2. QED
  BY <1>1, Invariance, PTL

\* An approval is good for one patch, however many runs redeem it at once and
\* whichever of their steps fail or are cut short.
THEOREM AppliedOnceHolds == Spec => []AppliedOnce
<1>1. IInv => AppliedOnce
  BY DEF IInv
<1>2. QED
  BY <1>1, Invariance, PTL

\* No approval file says "consumed" unless its patch was made.
THEOREM ConsumedWasAppliedHolds == Spec => []ConsumedWasApplied
<1>1. IInv => ConsumedWasApplied
  BY DEF IInv
<1>2. QED
  BY <1>1, Invariance, PTL

-----------------------------------------------------------------------------
(***************************************************************************)
(* What a step may do to an approval file, and what a patch relies on.     *)
(***************************************************************************)
\* The file stays, is made, or takes its next state with the binding it has.
Moves(a) ==
  \/ approvals'[a] = approvals[a]
  \/ approvals[a] = Absent /\ approvals'[a].state = "issued"
  \/ /\ \/ approvals[a].state = "issued" /\ approvals'[a].state = "reserved"
        \/ approvals[a].state = "reserved" /\ approvals'[a].state = "consumed"
     /\ approvals'[a].binding = approvals[a].binding

\* A save of the record a run loaded, with the next state.
LEMMA SaveMoves ==
  ASSUME IInv, NEW p \in Proc, NEW next \in {"reserved", "consumed"},
         pc[p] = IF next = "reserved" THEN "save_reserved" ELSE "save_consumed",
         approvals' = [approvals EXCEPT ![req[p].approval] = [loaded[p] EXCEPT !.state = next]]
  PROVE  /\ req[p].approval \in Approval /\ loaded[p] = approvals[req[p].approval]
         /\ approvals'[req[p].approval].binding = loaded[p].binding
         /\ \A a \in Approval : Moves(a)
<1> DEFINE a == req[p].approval
<1>1. TypeOK /\ RunInv(p)
  BY DEF IInv
<1>2. a \in Approval
  BY <1>1, RequestTypes DEF RunInv, Redeeming, Spending
<1>3. /\ loaded[p] = approvals[a]
      /\ approvals[a].state = IF next = "reserved" THEN "issued" ELSE "reserved"
  BY <1>1 DEF RunInv, Spending
<1>4. loaded[p] \in Record
  BY <1>1, <1>2, <1>3, RecordTypes DEF TypeOK
<1>5. /\ approvals'[a] = [loaded[p] EXCEPT !.state = next]
      /\ \A b \in Approval : b # a => approvals'[b] = approvals[b]
  BY <1>1, <1>2 DEF TypeOK
<1>6. approvals'[a].state = next /\ approvals'[a].binding = loaded[p].binding
  BY <1>4, <1>5 DEF Record
<1> QED BY <1>2, <1>3, <1>5, <1>6 DEF Moves

LEMMA IssueMoves ==
  ASSUME IInv, NEW p \in Proc, NEW a \in Approval, approvals[a] = Absent,
         approvals' = [approvals EXCEPT ![a] =
           [state |-> "issued", expires |-> req[p].expires, binding |-> req[p].binding]]
  PROVE  \A b \in Approval : Moves(b)
BY DEF IInv, TypeOK, Moves

LEMMA FileStep ==
  ASSUME IInv, [Next]_vars
  PROVE  \A a \in Approval : Moves(a)
<1>1. CASE UNCHANGED approvals
  BY <1>1 DEF Moves
<1>2. ASSUME NEW p \in Proc, Step(p), ~UNCHANGED approvals PROVE \A a \in Approval : Moves(a)
  <2>1. Issue(p) \/ SaveReserved(p) \/ SaveConsumed(p)
    BY <1>2 DEF Step, Challenge, Apply, TakeLock, GiveUp, LoadIssued, PatchNote, PatchFails,
                LoadReserved, Raise
  <2>2. CASE Issue(p)
    BY <1>2, <2>2, IssueMoves DEF Issue, Raise
  <2>3. CASE SaveReserved(p)
    BY <2>3, SaveMoves DEF SaveReserved
  <2>4. CASE SaveConsumed(p)
    BY <2>4, SaveMoves DEF SaveConsumed
  <2> QED BY <2>1, <2>2, <2>3, <2>4
<1>3. ASSUME NEW p \in Proc, WriteFails(p), ~UNCHANGED approvals
      PROVE  \A a \in Approval : Moves(a)
  <2>1. CASE pc[p] = "issuing"
    BY <1>3, <2>1, IssueMoves DEF WriteFails
  <2>2. CASE pc[p] = "save_reserved"
    BY <1>3, <2>2, SaveMoves DEF WriteFails
  <2>3. CASE pc[p] = "save_consumed"
    BY <1>3, <2>3, SaveMoves DEF WriteFails
  <2> QED BY <1>3, <2>1, <2>2, <2>3 DEF WriteFails
<1>4. Save \/ Tick \/ UNCHANGED vars \/ (\E p \in Proc : Crash(p)) => UNCHANGED approvals
  BY DEF Save, Tick, Crash, Raise, vars
<1> QED BY <1>1, <1>2, <1>3, <1>4 DEF Next

\* An approval never comes back to life, whatever fails or is cut short.
THEOREM ForwardOnlyHolds == Spec => ForwardOnly
<1>1. IInv /\ [Next]_vars =>
        [\A a \in Approval : Rank(approvals'[a].state) - Rank(approvals[a].state) \in {0, 1}]_vars
  <2> SUFFICES ASSUME IInv, [Next]_vars, NEW a \in Approval
               PROVE  Rank(approvals'[a].state) - Rank(approvals[a].state) \in {0, 1}
    OBVIOUS
  <2>1. Moves(a)
    BY FileStep
  <2>2. /\ Rank("absent") = 0 /\ Rank("issued") = 1 /\ Rank("reserved") = 2
        /\ Rank("consumed") = 3 /\ Rank(approvals[a].state) \in 0 .. 3
    BY DEF Rank
  <2> QED BY <2>1, <2>2, RecordTypes DEF Moves
<1> QED BY <1>1, Invariance, PTL DEF Spec, ForwardOnly

-----------------------------------------------------------------------------
\* A run redeems an approval from its own terminal, and patches under a
\* reservation of what it was asked to do.
BindInv(p) ==
  /\ pc[p] \in Redeeming \union Spending => req[p].binding.terminal = TerminalOf[p]
  /\ pc[p] = "save_reserved" => loaded[p].binding = req[p].binding
  /\ pc[p] = "patch" => approvals[req[p].approval].binding = req[p].binding

LEMMA BindOther ==
  ASSUME IInv, NEW q \in Proc, BindInv(q), \A a \in Approval : Moves(a),
         pc'[q] = pc[q], req'[q] = req[q], loaded'[q] = loaded[q]
  PROVE  BindInv(q)'
<1>1. pc[q] = "patch" =>
        req[q].approval \in Approval /\ approvals[req[q].approval].state = "reserved"
  BY RequestTypes DEF IInv, RunInv, Spending
<1>2. pc[q] = "patch" => approvals'[req[q].approval].binding = approvals[req[q].approval].binding
  BY <1>1, RecordTypes DEF Moves
<1> QED BY <1>2 DEF BindInv

\* What a step of p leaves of p.
LEMMA BindStep ==
  ASSUME IInv, NEW p \in Proc, BindInv(p), Step(p) \/ Crash(p) \/ WriteFails(p)
  PROVE  /\ BindInv(p)'
         /\ \A q \in Proc \ {p} : pc'[q] = pc[q] /\ req'[q] = req[q] /\ loaded'[q] = loaded[q]
<1>1. TypeOK /\ RunInv(p)
  BY DEF IInv
<1>2. ASSUME NEW how, End(p, how)
      PROVE  /\ BindInv(p)'
             /\ \A q \in Proc \ {p} : pc'[q] = pc[q] /\ req'[q] = req[q] /\ loaded'[q] = loaded[q]
  BY <1>1, <1>2 DEF TypeOK, End, Goto, BindInv, Redeeming, Spending
<1>3. CASE Challenge(p)
  BY <1>1, <1>3 DEF TypeOK, Challenge, Goto, BindInv, Redeeming, Spending
<1>4. CASE Apply(p)
  BY <1>1, <1>4 DEF TypeOK, Apply, BindingOf, Goto, BindInv, Redeeming, Spending
<1>5. CASE TakeLock(p)
  <2>1. \E label \in {"issuing", "reserving", "consuming"} :
          /\ pc' = [pc EXCEPT ![p] = label]
          /\ pc[p] = "issue" <=> label = "issuing"
          /\ pc[p] = "reserve" <=> label = "reserving"
          /\ pc[p] = "consume" <=> label = "consuming"
    <3>1. CASE pc[p] = "issue"
      BY <1>5, <3>1 DEF TakeLock, Goto
    <3>2. CASE pc[p] = "reserve"
      BY <1>5, <3>2 DEF TakeLock, Goto
    <3>3. CASE pc[p] = "consume"
      BY <1>5, <3>3 DEF TakeLock, Goto
    <3> QED BY <1>5, <3>1, <3>2, <3>3 DEF TakeLock, Waiting
  <2>2. UNCHANGED <<req, loaded>> /\ pc[p] \in Waiting
    BY <1>5 DEF TakeLock
  <2> QED BY <1>1, <2>1, <2>2 DEF TypeOK, BindInv, Redeeming, Spending, Waiting
<1>6. CASE LoadIssued(p)
  <2>1. CASE \E how : End(p, how)
    BY <1>2, <2>1
  <2>2. CASE ~\E how : End(p, how)
    <3>1. /\ pc[p] = "reserving" /\ pc' = [pc EXCEPT ![p] = "save_reserved"]
          /\ approvals[req[p].approval].binding = req[p].binding
          /\ loaded' = [loaded EXCEPT ![p] = approvals[req[p].approval]]
          /\ req' = req
      BY <1>6, <2>2 DEF LoadIssued, Redeemable, Raise, Goto
    <3> QED BY <1>1, <3>1 DEF TypeOK, BindInv, Redeeming, Spending
  <2> QED BY <2>1, <2>2
<1>7. CASE SaveReserved(p)
  <2>1. /\ pc[p] = "save_reserved" /\ pc' = [pc EXCEPT ![p] = "patch"]
        /\ UNCHANGED <<req, loaded>>
        /\ approvals'[req[p].approval].binding = loaded[p].binding
    BY <1>7, SaveMoves DEF SaveReserved, Goto
  <2> QED BY <1>1, <2>1 DEF TypeOK, BindInv, Redeeming, Spending
<1>8. CASE PatchNote(p)
  BY <1>1, <1>8 DEF TypeOK, PatchNote, Goto, BindInv, Redeeming, Spending
<1>9. CASE LoadReserved(p)
  <2>1. CASE \E how : End(p, how)
    BY <1>2, <2>1
  <2>2. CASE ~\E how : End(p, how)
    BY <1>1, <1>9, <2>2 DEF TypeOK, LoadReserved, Raise, Goto, BindInv, Redeeming, Spending
  <2> QED BY <2>1, <2>2
<1>10. CASE Issue(p) \/ GiveUp(p) \/ PatchFails(p) \/ SaveConsumed(p) \/ Crash(p) \/ WriteFails(p)
  BY <1>2, <1>10 DEF Issue, GiveUp, PatchFails, SaveConsumed, Crash, WriteFails, Raise
<1> QED BY <1>3, <1>4, <1>5, <1>6, <1>7, <1>8, <1>9, <1>10 DEF Step

LEMMA BindInvariance == Spec => [](IInv /\ \A p \in Proc : BindInv(p))
<1>1. Init => \A p \in Proc : BindInv(p)
  BY DEF Init, BindInv, Redeeming, Spending
<1>2. IInv /\ (\A p \in Proc : BindInv(p)) /\ [Next]_vars => (\A p \in Proc : BindInv(p))'
  <2> SUFFICES ASSUME IInv, \A p \in Proc : BindInv(p), [Next]_vars, NEW q \in Proc
               PROVE  BindInv(q)'
    OBVIOUS
  <2>1. \A a \in Approval : Moves(a)
    BY FileStep
  <2>2. CASE UNCHANGED <<pc, req, loaded>>
    BY <2>1, <2>2, BindOther
  <2>3. CASE \E p \in Proc : Step(p) \/ Crash(p) \/ WriteFails(p)
    BY <2>1, <2>3, BindStep, BindOther
  <2> QED BY <2>2, <2>3 DEF Next, Save, Tick, vars
<1> QED BY <1>1, <1>2, Invariance, PTL DEF Spec

\* A patch that takes effect is the one its user was shown, for the text and
\* from the terminal it was shown for, under a reservation that is in force.
THEOREM PatchedAsApprovedHolds == Spec => PatchedAsApproved
<1> DEFINE Approved(t) ==
      \E p \in Proc, a \in Approval : LET b == approvals[a].binding IN
         /\ pc[p] = "patch" /\ req[p].approval = a
         /\ approvals[a].state = "reserved"
         /\ b.preimage = text[b.note]
         /\ b.terminal = TerminalOf[p]
         /\ text' = [text EXCEPT ![b.note] = Patches!Render(b.preimage, b.update)]
<1>1. ASSUME IInv, \A p \in Proc : BindInv(p), [Next]_vars,
             NEW t \in Tx, t \notin applied, t \in applied'
      PROVE  Approved(t)
  <2>1. PICK p \in Proc : pc[p] = "patch" /\ Patched(p)
    BY <1>1 DEF Next, Step, Challenge, Issue, Apply, TakeLock, GiveUp, LoadIssued, SaveReserved,
                PatchNote, PatchFails, LoadReserved, SaveConsumed, Crash, WriteFails, Raise,
                Save, Patches!Save, Tick, vault, vars
  <2>2. /\ req[p].approval \in Approval /\ approvals[req[p].approval].state = "reserved"
        /\ approvals[req[p].approval].binding = req[p].binding
        /\ req[p].binding.terminal = TerminalOf[p]
    BY <1>1, <2>1, RequestTypes DEF IInv, RunInv, BindInv, Spending
  <2>3. /\ text[req[p].binding.note] = req[p].binding.preimage
        /\ text' = [text EXCEPT ![req[p].binding.note] =
                      Patches!Render(req[p].binding.preimage, req[p].binding.update)]
    BY <2>1 DEF Patched, Patches!Patch
  <2> QED BY <2>1, <2>2, <2>3
<1>2. IInv /\ (\A p \in Proc : BindInv(p)) /\ [Next]_vars =>
        [\A t \in Tx : t \notin applied /\ t \in applied' => Approved(t)]_vars
  BY <1>1
<1> QED BY <1>2, BindInvariance, PTL DEF Spec, PatchedAsApproved

-----------------------------------------------------------------------------
(***************************************************************************)
(* Approvals implement OneTimePatch.  A step changes what has become of    *)
(* the approval its run works with, and of no other.                       *)
(***************************************************************************)
Patching(a) == \E p \in Proc : pc[p] = "patch" /\ req[p].approval = a

Others(p) == \A q \in Proc \ {p} : pc'[q] = pc[q] /\ req'[q] = req[q]

LEMMA StandingIs ==
  ASSUME NEW a \in Approval
  PROVE  /\ approvals[a].state = "consumed" => Standing(a) = "confirmed"
         /\ approvals[a].state # "consumed" /\ spent[a] # {} => Standing(a) = "used"
         /\ approvals[a].state # "consumed" /\ spent[a] = {} =>
              Standing(a) = IF approvals[a].state = "issued" \/ Patching(a) THEN "open" ELSE "void"
  BY DEF Standing, Patching

LEMMA StandingNext ==
  ASSUME NEW a \in Approval
  PROVE  /\ approvals'[a].state = "consumed" => Standing(a)' = "confirmed"
         /\ approvals'[a].state # "consumed" /\ spent'[a] # {} => Standing(a)' = "used"
         /\ approvals'[a].state # "consumed" /\ spent'[a] = {} =>
              Standing(a)' = IF approvals'[a].state = "issued" \/ Patching(a)' THEN "open" ELSE "void"
  BY DEF Standing, Patching

LEMMA SameGrant ==
  ASSUME NEW a \in Approval, approvals'[a] = approvals[a], spent'[a] = spent[a],
         Patching(a)' <=> Patching(a)
  PROVE  Grants'[a] = Grants[a]
<1>1. Standing(a)' = Standing(a)
  BY DEF Standing, Patching
<1> QED BY <1>1 DEF Grants

\* The run whose step it is may begin or end to patch under its own approval.
LEMMA OtherPatching ==
  ASSUME NEW p \in Proc, Others(p), NEW b,
         pc[p] = "patch" => req[p].approval # b,
         pc'[p] = "patch" => req'[p].approval # b
  PROVE  Patching(b)' <=> Patching(b)
<1>1. Patching(b) => Patching(b)'
  BY DEF Patching, Others
<1>2. Patching(b)' => Patching(b)
  BY DEF Patching, Others
<1> QED BY <1>1, <1>2

LEMMA NoneChanges ==
  ASSUME \A a \in Approval : Grants'[a] = Grants[a], UNCHANGED vault
  PROVE  UNCHANGED OneTime!vars
<1>1. Grants' = Grants
  BY DEF Grants
<1> QED BY <1>1 DEF OneTime!vars, vault

\* The standing of one approval changes.
LEMMA OneChanges ==
  ASSUME NEW a \in Approval, approvals[a] # Absent, approvals'[a] # Absent,
         approvals'[a].binding = approvals[a].binding,
         \A b \in Approval \ {a} : Grants'[b] = Grants[b]
  PROVE  Grants' = [Grants EXCEPT ![a].state = Standing(a)']
<1>1. Grants'[a] = [Grants[a] EXCEPT !.state = Standing(a)']
  BY DEF Grants
<1>2. Grants' = [Grants EXCEPT ![a] = [Grants[a] EXCEPT !.state = Standing(a)']]
  BY <1>1 DEF Grants
<1> QED BY <1>2

\* A run in the middle of an apply names an approval that has a file; nobody
\* else patches under the reservation it holds, or is about to make.
LEMMA RunFacts ==
  ASSUME IInv, NEW p \in Proc, pc[p] \in Spending \/ pc[p] = "save_reserved"
  PROVE  LET a == req[p].approval IN
         /\ a \in Approval /\ req[p].binding \in Binding
         /\ approvals[a].state \in {"issued", "reserved"} /\ approvals[a] # Absent
         /\ \A q \in Proc \ {p} : pc[q] = "patch" => req[q].approval # a
<1> DEFINE a == req[p].approval
<1>1. RunInv(p) /\ Exclusive
  BY DEF IInv
<1>2. a \in Approval /\ req[p].binding \in Binding
  BY <1>1, RequestTypes DEF RunInv, Redeeming, Spending
<1>3. approvals[a].state = IF pc[p] = "save_reserved" THEN "issued" ELSE "reserved"
  BY <1>1 DEF RunInv, Spending
<1>4. ASSUME NEW q \in Proc, q # p, pc[q] = "patch", req[q].approval = a
      PROVE  FALSE
  <2>1. approvals[a].state = "reserved"
    BY <1>4 DEF IInv, RunInv
  <2>2. pc[p] \in Spending
    BY <1>3, <2>1
  <2> QED BY <1>1, <1>4, <2>2 DEF Exclusive, Spending
<1> QED BY <1>2, <1>3, <1>4, RecordTypes

-----------------------------------------------------------------------------
\* A step that leaves the files and the history alone, and no patch pending.
LEMMA StepStutters ==
  ASSUME NEW p \in Proc, Others(p), pc[p] # "patch", pc'[p] # "patch",
         UNCHANGED <<vault, approvals, spent>>
  PROVE  UNCHANGED OneTime!vars
  BY OtherPatching, SameGrant, NoneChanges

\* A run that ends while its patch is pending leaves its approval void.
LEMMA EndVoids ==
  ASSUME IInv, NEW p \in Proc, NEW a \in Approval, req[p].approval = a,
         pc[p] = "patch", pc'[p] = "idle", Others(p),
         UNCHANGED <<vault, approvals, spent>>
  PROVE  OneTime!Next
<1>1. /\ a \in Approval /\ approvals[a] # Absent
      /\ \A q \in Proc \ {p} : pc[q] = "patch" => req[q].approval # a
  BY RunFacts DEF Spending
<1>2. approvals[a].state = "reserved" /\ spent[a] = {}
  BY DEF IInv, RunInv
<1>3. \A b \in Approval \ {a} : Grants'[b] = Grants[b]
  BY OtherPatching, SameGrant
<1>4. Patching(a) /\ ~Patching(a)'
  BY <1>1 DEF Patching, Others
<1>5. Standing(a) = "open" /\ Standing(a)' = "void"
  BY <1>1, <1>2, <1>4, StandingIs, StandingNext
<1>6. Grants' = [Grants EXCEPT ![a].state = "void"]
  BY <1>1, <1>3, <1>5, OneChanges
<1>7. Grants[a].state = "open"
  BY <1>1, <1>5 DEF Grants
<1>8. OneTime!Void(a)
  BY <1>6, <1>7 DEF OneTime!Void, OneTime!Becomes, OneTime!vault, vault
<1> QED BY <1>1, <1>8 DEF OneTime!Next

\* A new approval file: a grant.
LEMMA IssueGrants ==
  ASSUME IInv, NEW p \in Proc, pc[p] = "issuing", pc'[p] = "idle", Others(p),
         NEW a \in Approval, approvals[a] = Absent,
         approvals' = [approvals EXCEPT ![a] =
           [state |-> "issued", expires |-> req[p].expires, binding |-> req[p].binding]],
         UNCHANGED <<vault, spent>>
  PROVE  OneTime!Next
<1>1. req[p].binding \in Binding
  BY RequestTypes DEF IInv, RunInv
<1>2. /\ approvals'[a].state = "issued" /\ approvals'[a].binding = req[p].binding
      /\ \A b \in Approval \ {a} : approvals'[b] = approvals[b]
  BY DEF IInv, TypeOK
<1>3. \A b \in Approval \ {a} : Grants'[b] = Grants[b]
  BY <1>2, OtherPatching, SameGrant
<1>4. spent[a] = {}
  BY RecordTypes DEF IInv, Unspent
<1>5. Grants[a] = [state |-> "none"]
  BY DEF Grants
<1>6. Grants'[a] = [state |-> "open", binding |-> req[p].binding]
  <2>1. Standing(a)' = "open"
    BY <1>2, <1>4, StandingNext
  <2>2. approvals'[a] # Absent
    BY <1>2, RecordTypes
  <2> QED BY <1>2, <2>1, <2>2 DEF Grants
<1>7. Grants' = [Grants EXCEPT ![a] = [state |-> "open", binding |-> req[p].binding]]
  <2>1. /\ Grants = [b \in Approval |-> Grants[b]]
        /\ Grants' = [b \in Approval |-> Grants'[b]]
    BY DEF Grants
  <2> QED BY <1>3, <1>6, <2>1
<1>8. req[p].binding \in OneTime!Binding
  BY <1>1 DEF Binding, Text, Patches!Text, OneTime!Binding, OneTime!Patches!Text
<1>9. OneTime!Grant(a)
  BY <1>5, <1>7, <1>8 DEF OneTime!Grant, OneTime!None, OneTime!vault, vault
<1> QED BY <1>9 DEF OneTime!Next

\* The save of a reservation: its approval stays open while the run goes on to
\* patch, and is void if it ends there.
LEMMA ReservedStands ==
  ASSUME IInv, NEW p \in Proc, NEW a \in Approval, req[p].approval = a,
         pc[p] = "save_reserved", Others(p),
         approvals' = [approvals EXCEPT ![req[p].approval] = [loaded[p] EXCEPT !.state = "reserved"]],
         UNCHANGED <<vault, spent>>,
         pc'[p] = "idle" \/ (pc'[p] = "patch" /\ req'[p] = req[p])
  PROVE  [OneTime!Next]_(OneTime!vars)
<1>1. /\ a \in Approval /\ approvals[a] # Absent
      /\ \A q \in Proc \ {p} : pc[q] = "patch" => req[q].approval # a
  BY RunFacts
<1>2. approvals[a].state = "issued" /\ loaded[p] = approvals[a] /\ spent[a] = {}
  BY <1>1 DEF IInv, RunInv, Unspent
<1>3. /\ approvals'[a].state = "reserved" /\ approvals'[a].binding = approvals[a].binding
      /\ approvals'[a] # Absent
      /\ \A b \in Approval \ {a} : approvals'[b] = approvals[b]
  <2>1. approvals[a] \in Record
    BY <1>1 DEF IInv, TypeOK
  <2>2. approvals' = [approvals EXCEPT ![a] = [approvals[a] EXCEPT !.state = "reserved"]]
    BY <1>2
  <2>3. approvals \in [Approval -> Record \union {Absent}]
    BY DEF IInv, TypeOK
  <2> QED BY <1>1, <2>1, <2>2, <2>3, RecordTypes DEF Record
<1>4. \A b \in Approval \ {a} : Grants'[b] = Grants[b]
  BY <1>3, OtherPatching, SameGrant
<1>5. Grants[a].state = "open" /\ Standing(a) = "open"
  <2>1. Standing(a) = "open"
    BY <1>1, <1>2, StandingIs
  <2> QED BY <1>1, <2>1 DEF Grants
<1>6. CASE pc'[p] = "patch" /\ req'[p] = req[p]
  <2>1. Patching(a)'
    BY <1>6 DEF Patching
  <2>2. Standing(a)' = "open"
    BY <1>1, <1>2, <1>3, <2>1, StandingNext
  <2>3. Grants'[a] = Grants[a]
    BY <1>1, <1>3, <1>5, <2>2 DEF Grants
  <2> QED BY <1>4, <2>3, NoneChanges
<1>7. CASE pc'[p] = "idle"
  <2>1. ~Patching(a)'
    BY <1>1, <1>7 DEF Patching, Others
  <2>2. Standing(a)' = "void"
    BY <1>1, <1>2, <1>3, <2>1, StandingNext
  <2>3. Grants' = [Grants EXCEPT ![a].state = "void"]
    BY <1>1, <1>3, <1>4, <2>2, OneChanges
  <2>4. OneTime!Void(a)
    BY <1>5, <2>3 DEF OneTime!Void, OneTime!Becomes, OneTime!vault, vault
  <2> QED BY <1>1, <2>4 DEF OneTime!Next
<1> QED BY <1>6, <1>7

\* The save of a consumption confirms a used approval.
LEMMA ConsumedConfirms ==
  ASSUME IInv, NEW p \in Proc, NEW a \in Approval, req[p].approval = a,
         pc[p] = "save_consumed", pc'[p] = "idle", Others(p),
         approvals' = [approvals EXCEPT ![req[p].approval] = [loaded[p] EXCEPT !.state = "consumed"]],
         UNCHANGED <<vault, spent>>
  PROVE  OneTime!Next
<1>1. a \in Approval /\ approvals[a] # Absent
  BY RunFacts DEF Spending
<1>2. approvals[a].state = "reserved" /\ loaded[p] = approvals[a] /\ spent[a] # {}
  BY DEF IInv, RunInv, Spending
<1>3. /\ approvals'[a].state = "consumed" /\ approvals'[a].binding = approvals[a].binding
      /\ approvals'[a] # Absent
      /\ \A b \in Approval \ {a} : approvals'[b] = approvals[b]
  <2>1. approvals[a] \in Record
    BY <1>1 DEF IInv, TypeOK
  <2>2. approvals' = [approvals EXCEPT ![a] = [approvals[a] EXCEPT !.state = "consumed"]]
    BY <1>2
  <2>3. approvals \in [Approval -> Record \union {Absent}]
    BY DEF IInv, TypeOK
  <2> QED BY <1>1, <2>1, <2>2, <2>3, RecordTypes DEF Record
<1>4. \A b \in Approval \ {a} : Grants'[b] = Grants[b]
  BY <1>3, OtherPatching, SameGrant
<1>5. Grants[a].state = "used" /\ Standing(a)' = "confirmed"
  <2>1. Standing(a) = "used" /\ Standing(a)' = "confirmed"
    BY <1>1, <1>2, <1>3, StandingIs, StandingNext
  <2> QED BY <1>1, <2>1 DEF Grants
<1>6. Grants' = [Grants EXCEPT ![a].state = "confirmed"]
  BY <1>1, <1>3, <1>4, <1>5, OneChanges
<1>7. OneTime!Confirm(a)
  BY <1>5, <1>6 DEF OneTime!Confirm, OneTime!Becomes, OneTime!vault, vault
<1> QED BY <1>1, <1>7 DEF OneTime!Next

\* A patch uses its approval, as it was granted.
LEMMA PatchRedeems ==
  ASSUME IInv, NEW p \in Proc, NEW a \in Approval, req[p].approval = a,
         BindInv(p), pc[p] = "patch", pc'[p] # "patch", Others(p),
         Patched(p), UNCHANGED approvals
  PROVE  OneTime!Next
<1> DEFINE b == req[p].binding
<1>1. a \in Approval /\ approvals[a] # Absent
  BY RunFacts DEF Spending
<1>2. approvals[a].state = "reserved" /\ spent[a] = {} /\ approvals[a].binding = b
  BY DEF IInv, RunInv, BindInv
<1>3. PICK t \in Tx : Patches!Patch(t, b.note, b.update)
  BY DEF Patched
<1>4. text[b.note] = b.preimage
  BY DEF Patched
<1>5. spent'[a] # {} /\ \A c \in Approval \ {a} : spent'[c] = spent[c]
  BY PatchedType
<1>6. \A c \in Approval \ {a} : Grants'[c] = Grants[c]
  BY <1>5, OtherPatching, SameGrant
<1>7. Patching(a)
  BY DEF Patching
<1>8. Grants[a] = [state |-> "open", binding |-> b] /\ Standing(a)' = "used"
  <2>1. Standing(a) = "open" /\ Standing(a)' = "used"
    BY <1>1, <1>2, <1>5, <1>7, StandingIs, StandingNext
  <2> QED BY <1>1, <1>2, <2>1 DEF Grants
<1>9. Grants' = [Grants EXCEPT ![a].state = "used"]
  BY <1>1, <1>6, <1>8, OneChanges
<1>10. OneTime!Patches!Patch(t, b.note, b.update)
  BY <1>3 DEF Patches!Patch, Patches!Render, OneTime!Patches!Patch, OneTime!Patches!Render
<1>11. OneTime!Redeem(a)
  <2>1. Grants[a].binding = b /\ Grants[a].state = "open"
    BY <1>8
  <2> HIDE DEF b
  <2> QED BY <1>4, <1>9, <1>10, <2>1 DEF OneTime!Redeem, OneTime!Becomes
<1> QED BY <1>1, <1>11 DEF OneTime!Next

LEMMA EndsIdle ==
  ASSUME TypeOK, NEW p \in Proc, NEW how, End(p, how)
  PROVE  pc'[p] = "idle"
  BY DEF TypeOK, End, Goto

LEMMA StepOneTime ==
  ASSUME IInv, NEW p \in Proc, BindInv(p), Step(p) \/ Crash(p) \/ WriteFails(p)
  PROVE  [OneTime!Next]_(OneTime!vars)
<1> USE DEF history
<1>1. TypeOK /\ Others(p)
  BY BindStep DEF IInv, Others
<1>2. ASSUME pc[p] # "patch", pc'[p] # "patch", UNCHANGED <<vault, approvals, spent>>
      PROVE  [OneTime!Next]_(OneTime!vars)
  BY <1>1, <1>2, StepStutters
<1>3. ASSUME pc'[p] = "idle", UNCHANGED <<vault, approvals, spent>>
      PROVE  [OneTime!Next]_(OneTime!vars)
  BY <1>1, <1>2, <1>3, RunFacts, EndVoids DEF Spending
<1>4. ASSUME NEW how, Raise(p, how)
      PROVE  [OneTime!Next]_(OneTime!vars)
  BY <1>1, <1>3, <1>4, EndsIdle DEF Raise
<1>5. CASE Challenge(p) \/ Apply(p)
  BY <1>1, <1>2, <1>5 DEF Challenge, Apply, Goto, TypeOK
<1>6. CASE TakeLock(p)
  <2>1. pc[p] # "patch" /\ pc'[p] \in {"issuing", "reserving", "consuming"}
    BY <1>1, <1>6 DEF TakeLock, Goto, TypeOK, Waiting
  <2> QED BY <1>2, <1>6, <2>1 DEF TakeLock
<1>7. CASE GiveUp(p) \/ PatchFails(p) \/ Crash(p)
  BY <1>4, <1>7 DEF GiveUp, PatchFails, Crash
<1>8. CASE LoadIssued(p)
  <2>1. CASE \E how : Raise(p, how)
    BY <1>4, <2>1
  <2>2. CASE ~\E how : Raise(p, how)
    BY <1>1, <1>2, <1>8, <2>2 DEF LoadIssued, Goto, TypeOK
  <2> QED BY <2>1, <2>2
<1>9. CASE LoadReserved(p)
  <2>1. CASE \E how : Raise(p, how)
    BY <1>4, <2>1
  <2>2. CASE ~\E how : Raise(p, how)
    BY <1>1, <1>2, <1>9, <2>2 DEF LoadReserved, Goto, TypeOK
  <2> QED BY <2>1, <2>2
<1>10. CASE Issue(p)
  <2>1. CASE Raise(p, "failed")
    BY <1>4, <2>1
  <2>2. CASE ~Raise(p, "failed")
    <3>1. pc'[p] = "idle"
      BY <1>1, <1>10, <2>2, EndsIdle DEF Issue
    <3> QED BY <1>1, <1>10, <2>2, <3>1, IssueGrants DEF Issue
  <2> QED BY <2>1, <2>2
<1>11. CASE SaveReserved(p)
  <2>1. pc'[p] = "patch" /\ req'[p] = req[p]
    BY <1>1, <1>11 DEF SaveReserved, Goto, TypeOK
  <2> QED BY <1>1, <1>11, <2>1, RunFacts, ReservedStands DEF SaveReserved
<1>12. CASE PatchNote(p)
  <2>1. pc'[p] # "patch"
    BY <1>1, <1>12 DEF PatchNote, Goto, TypeOK
  <2> QED BY <1>1, <1>12, <2>1, RunFacts, PatchRedeems DEF PatchNote, Spending
<1>13. CASE SaveConsumed(p)
  <2>1. pc'[p] = "idle"
    BY <1>1, <1>13, EndsIdle DEF SaveConsumed
  <2> QED BY <1>1, <1>13, <2>1, RunFacts, ConsumedConfirms DEF SaveConsumed, Spending
<1>14. CASE WriteFails(p)
  <2>1. pc'[p] = "idle"
    BY <1>1, <1>14, EndsIdle DEF WriteFails
  <2>2. CASE UNCHANGED <<vault, approvals, history>>
    BY <1>3, <2>1, <2>2
  <2>3. CASE ~UNCHANGED <<vault, approvals, history>> /\ pc[p] = "issuing"
    BY <1>1, <1>14, <2>1, <2>3, IssueGrants DEF WriteFails
  <2>4. CASE ~UNCHANGED <<vault, approvals, history>> /\ pc[p] = "save_reserved"
    BY <1>1, <1>14, <2>1, <2>4, RunFacts, ReservedStands DEF WriteFails
  <2>5. CASE ~UNCHANGED <<vault, approvals, history>> /\ pc[p] = "save_consumed"
    BY <1>1, <1>14, <2>1, <2>5, RunFacts, ConsumedConfirms DEF WriteFails, Spending
  <2>6. CASE ~UNCHANGED <<vault, approvals, history>> /\ pc[p] = "patch"
    BY <1>1, <1>14, <2>1, <2>6, RunFacts, PatchRedeems DEF WriteFails, Spending
  <2> QED BY <1>14, <2>2, <2>3, <2>4, <2>5, <2>6 DEF WriteFails
<1> QED BY <1>5, <1>6, <1>7, <1>8, <1>9, <1>10, <1>11, <1>12, <1>13, <1>14 DEF Step

LEMMA NextOneTime ==
  ASSUME IInv, \A p \in Proc : BindInv(p), [Next]_vars
  PROVE  [OneTime!Next]_(OneTime!vars)
<1>1. ASSUME UNCHANGED <<approvals, pc, req, spent>>
      PROVE  Grants' = Grants
  BY <1>1 DEF Grants, Standing
<1>2. CASE Save
  <2>1. PICK n \in Note, c \in Text : Patches!Save(n, c)
    BY <1>2 DEF Save
  <2>2. Grants' = Grants
    BY <1>1, <1>2 DEF Save, history
  <2>3. OneTime!Save(n, c) /\ c \in OneTime!Patches!Text
    BY <2>1, <2>2
    DEF Patches!Save, Text, Patches!Text, OneTime!Save, OneTime!Patches!Save, OneTime!Patches!Text
  <2> QED BY <2>3 DEF OneTime!Next
<1>3. CASE Tick \/ UNCHANGED vars
  BY <1>1, <1>3 DEF Tick, vars, history, vault, OneTime!vars
<1> QED BY <1>2, <1>3, StepOneTime DEF Next

LEMMA InitOneTime == Init => OneTime!Init
  BY DEF Init, Patches!Init, Patches!Text, Grants,
     OneTime!Init, OneTime!Patches!Init, OneTime!Patches!Text, OneTime!None

\* However runs interleave, fail or are killed, an approval is what OneTimePatch
\* says: one patch of what it was granted for, or void.
THEOREM OneTimePatchImplemented == Spec => ImplementsOneTimePatch
<1>1. IInv /\ (\A p \in Proc : BindInv(p)) /\ [Next]_vars => [OneTime!Next]_(OneTime!vars)
  BY NextOneTime
<1> QED
  BY <1>1, InitOneTime, BindInvariance, PTL DEF Spec, ImplementsOneTimePatch, OneTime!Spec

=============================================================================
