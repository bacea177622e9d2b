------------------------ MODULE MigrateInstallProofs ------------------------
(***************************************************************************)
(* Proofs about MigrateInstall, for any directories and contents, any      *)
(* number of calls and any crashes and failures, while users and jobs      *)
(* write only between migrations.                                          *)
(***************************************************************************)
EXTENDS MigrateInstall, TLAPS

\* What configuration c was made from at x, and that the backups hold it.
At(c, x) == IF x = Legacy THEN c.source ELSE c.dirs[x]
Founded(c) == \A x \in Thing : At(c, x) # Absent => kept[x] = At(c, x)

\* Up to its commit a call changes nothing but backups, and what it has dealt
\* with is kept as it is.
Keeping ==
  pc \in {"keep", "try", "written"} =>
    /\ live = before.live /\ raw = live[Legacy]
    /\ \A d \in Tracked : dirs[d] \in {Absent, live[d]}
    /\ \A x \in Thing \ todo : live[x] # Absent => kept[x] = live[x]

\* A copy that is under way is of a thing no backup held before.
Copying ==
  /\ copying # None => pc \in {"keep", "undo"} /\ copying \in todo
  /\ pc = "keep" /\ copying # None =>
       /\ kept[copying] = Partial
       /\ receipt # None => At(receipt, copying) = Absent

\* Once it restores, the backups hold whatever must not be lost.
Restoring ==
  pc = "undo" =>
    /\ todo \subseteq Tracked /\ live[Legacy] = before.live[Legacy]
    /\ \A d \in Tracked :
         /\ owned[d] \in {Absent, kept[d]} /\ before.live[d] \in {Absent, kept[d]}
         /\ \/ d = copying
            \/ live[d] = before.live[d]
            \/ before.live[d] = Absent /\ live[d] = kept[d]

CallInv ==
  /\ IF pc = "idle" THEN dirs = Nothing ELSE result = "none"
  /\ pc \in {"keep", "try"} => config = before.config
  /\ pc \in {"try", "written"} => todo = {}
  /\ Keeping /\ Copying /\ Restoring

ReceiptInv == receipt # None => Founded(receipt)

IInv == TypeOK /\ CallInv /\ ReceiptInv /\ NothingLost /\ FailedIsUndone

-----------------------------------------------------------------------------

LEMMA Constants ==
  /\ Legacy \notin Tracked /\ Legacy \in Thing /\ Tracked \subseteq Thing
  /\ Thing = Tracked \union {Legacy}
  /\ Absent \notin Content /\ Partial \notin Content /\ Absent # Partial
  /\ Held = Content \union {Absent, Partial}
  /\ None \notin Config /\ None \notin Thing /\ MaxCalls \in Nat
  BY ConstantsAssumption DEF Thing, Held

LEMMA InitInv == Init => IInv
<1> SUFFICES ASSUME Init PROVE IInv
  OBVIOUS
<1>1. TypeOK
  BY Constants DEF Init, TypeOK, Nothing, Results
<1>2. CallInv /\ ReceiptInv
  BY DEF Init, CallInv, Keeping, Copying, Restoring, ReceiptInv
<1>3. NothingLost /\ FailedIsUndone
  BY Constants, <1>1 DEF Init, TypeOK, NothingLost, FailedIsUndone
<1> QED BY <1>1, <1>2, <1>3 DEF IInv

\* A call that ends leaves what it stored as it is.
LEMMA EndInv ==
  ASSUME IInv, NEW r \in Results, pc # "idle", End(r), UNCHANGED <<live, kept, receipt, calls, history>>,
         config' \in {config, None},
         r \in {"refused", "failed"} =>
           /\ \A x \in Thing : \/ live[x] = before.live[x]
                               \/ r = "failed" /\ before.live[x] = Absent /\ live[x] = kept[x]
           /\ r = "failed" => config' = None \/ receipt = config'
           /\ r = "refused" => config' = before.config
  PROVE  IInv'
<1>1. TypeOK'
  BY Constants DEF IInv, TypeOK, End, history, Nothing
<1>2. CallInv'
  BY DEF End, CallInv, Keeping, Copying, Restoring
<1>3. ReceiptInv' /\ NothingLost'
  BY DEF IInv, ReceiptInv, Founded, At, NothingLost, history
<1>4. FailedIsUndone'
  BY DEF End, FailedIsUndone, Verified, history
<1> QED BY <1>1, <1>2, <1>3, <1>4 DEF IInv

LEMMA StepInv ==
  ASSUME IInv, [Next]_vars, "busy" \notin Faults
  PROVE  IInv'
<1> USE Constants
<1>1. CASE Begin
  <2>1. CASE Verified
    <3>1. /\ pc' = "idle" /\ result' = "done" /\ todo' = {} /\ copying' = None /\ raw' = Absent
          /\ dirs' = Nothing /\ calls' = calls + 1 /\ calls < MaxCalls
          /\ before' = [live |-> live, config |-> config]
          /\ UNCHANGED <<live, kept, config, receipt, owned>>
      BY <1>1, <2>1 DEF Begin, BeginWith, End, store
    <3>2. TypeOK'
      BY <3>1 DEF IInv, TypeOK, Nothing, Results
    <3> QED BY <3>1, <3>2 DEF IInv, CallInv, Keeping, Copying, Restoring, ReceiptInv,
               Founded, At, NothingLost, FailedIsUndone
  <2>2. CASE ~Verified
    <3>1. /\ pc = "idle" /\ pc' = "keep" /\ result' = "none" /\ todo' = {x \in Thing : live[x] # Absent}
          /\ raw' = live[Legacy] /\ calls' = calls + 1 /\ calls < MaxCalls
          /\ before' = [live |-> live, config |-> config]
          /\ UNCHANGED <<live, kept, config, receipt, owned, copying, dirs>>
      BY <1>1, <2>2 DEF Begin, BeginWith, store
    <3>2. TypeOK'
      BY <3>1 DEF IInv, CallInv, Copying, TypeOK, Results
    <3>3. CallInv'
      BY <3>1, <3>2 DEF IInv, TypeOK, CallInv, Keeping, Copying, Restoring, Nothing
    <3> QED BY <3>1, <3>2, <3>3 DEF IInv, ReceiptInv, Founded, At, NothingLost, FailedIsUndone
  <2> QED BY <2>1, <2>2
<1>2. ASSUME NEW x \in Thing, AlreadyKept(x)
      PROVE  IInv'
  <2>1. /\ pc = "keep" /\ pc' = "keep" /\ x \in todo /\ copying = None /\ kept[x] = live[x]
        /\ todo' = todo \ {x} /\ dirs' = IF x = Legacy THEN dirs ELSE [dirs EXCEPT ![x] = live[x]]
        /\ UNCHANGED <<live, kept, config, receipt, copying, raw, calls, owned, before, result>>
    BY <1>2 DEF AlreadyKept, KeepNext, TakeManifest, store, history
  <2>2. TypeOK'
    BY <2>1 DEF IInv, TypeOK
  <2>3. Keeping'
    BY <2>1, <2>2 DEF IInv, TypeOK, CallInv, Keeping
  <2>4. Copying' /\ Restoring'
    BY <2>1 DEF IInv, CallInv, Copying, Restoring
  <2>5. CallInv'
    BY <2>1, <2>3, <2>4 DEF IInv, CallInv
  <2> QED BY <2>1, <2>2, <2>5 DEF IInv, ReceiptInv, Founded, At, NothingLost, FailedIsUndone, Verified
<1>3. ASSUME NEW x \in Thing, StartCopy(x)
      PROVE  IInv'
  <2>1. /\ pc = "keep" /\ pc' = "keep" /\ x \in todo /\ copying = None /\ kept[x] = Absent
        /\ kept' = [kept EXCEPT ![x] = Partial] /\ copying' = x
        /\ dirs' = IF x = Legacy THEN dirs ELSE [dirs EXCEPT ![x] = live[x]]
        /\ UNCHANGED <<live, config, receipt, todo, raw, calls, owned, before, result>>
    BY <1>3 DEF StartCopy, KeepNext, TakeManifest, history
  <2>2. TypeOK'
    BY <2>1 DEF IInv, TypeOK
  <2>3. receipt # None => At(receipt, x) = Absent
    BY <2>1 DEF IInv, ReceiptInv, Founded
  <2>4. CallInv'
    BY <2>1, <2>2, <2>3 DEF IInv, TypeOK, CallInv, Keeping, Copying, Restoring, At
  <2>5. ReceiptInv'
    BY <2>1, <2>3 DEF IInv, TypeOK, ReceiptInv, Founded, At
  <2>6. NothingLost' /\ FailedIsUndone'
    BY <2>1 DEF IInv, TypeOK, CallInv, NothingLost, FailedIsUndone
  <2> QED BY <2>2, <2>4, <2>5, <2>6 DEF IInv
<1>4. CASE EndCopy
  <2>1. /\ pc = "keep" /\ pc' = "keep" /\ copying # None /\ copying' = None
        /\ kept' = [kept EXCEPT ![copying] = live[copying]] /\ todo' = todo \ {copying}
        /\ UNCHANGED <<live, config, receipt, dirs, raw, calls, owned, before, result>>
    BY <1>4 DEF EndCopy, history
  <2>2. /\ copying \in Thing /\ kept[copying] = Partial
        /\ receipt # None => At(receipt, copying) = Absent
    BY <2>1 DEF IInv, TypeOK, CallInv, Copying
  <2>3. TypeOK'
    BY <2>1, <2>2 DEF IInv, TypeOK
  <2>4. CallInv'
    BY <2>1, <2>2, <2>3 DEF IInv, TypeOK, CallInv, Keeping, Copying, Restoring
  <2>5. ReceiptInv'
    BY <2>1, <2>2 DEF IInv, TypeOK, ReceiptInv, Founded, At
  <2>6. NothingLost'
    BY <2>1, <2>2 DEF IInv, TypeOK, NothingLost
  <2>7. FailedIsUndone'
    BY <2>1 DEF IInv, CallInv, FailedIsUndone
  <2> QED BY <2>3, <2>4, <2>5, <2>6, <2>7 DEF IInv
<1>5. ASSUME Refuse \/ \E x \in Thing : BackupCollision(x)
      PROVE  IInv'
  <2>1. pc = "keep" /\ End("refused") /\ UNCHANGED <<live, kept, config, receipt, calls, history>>
    BY <1>5 DEF Refuse, BackupCollision, KeepNext, store
  <2>2. (\A x \in Thing : live[x] = before.live[x]) /\ config = before.config
    BY <2>1 DEF IInv, CallInv, Keeping
  <2>3. "refused" \in Results /\ "refused" # "failed"
    BY DEF Results
  <2> QED BY <2>1, <2>2, <2>3, EndInv
<1>6. CASE Prepared
  <2>1. /\ pc = "keep" /\ pc' = "try" /\ todo = {}
        /\ UNCHANGED <<live, kept, config, receipt, todo, copying, dirs, raw, calls, owned, before, result>>
    BY <1>6 DEF Prepared, store, history
  <2>2. TypeOK'
    BY <2>1 DEF IInv, TypeOK
  <2>3. Keeping'
    BY <2>1, <2>2 DEF IInv, CallInv, Keeping
  <2>4. copying = None
    BY <2>1 DEF IInv, CallInv, Copying
  <2>5. Copying' /\ Restoring'
    BY <2>1, <2>4 DEF Copying, Restoring
  <2>6. CallInv'
    BY <2>1, <2>3, <2>5 DEF IInv, CallInv
  <2> QED BY <2>1, <2>2, <2>6 DEF IInv, ReceiptInv, Founded, At, NothingLost, FailedIsUndone, Verified
<1>7. CASE WriteConfig
  <2>1. /\ pc = "try" /\ pc' = "written" /\ config' = Payload
        /\ UNCHANGED <<live, kept, receipt, todo, copying, dirs, raw, calls, owned, before, result>>
    BY <1>7 DEF WriteConfig, history
  <2>2. Payload \in Config
    BY DEF IInv, TypeOK, Payload, Config
  <2>3. TypeOK'
    BY <2>1, <2>2 DEF IInv, TypeOK
  <2>4. CallInv'
    BY <2>1 DEF IInv, CallInv, Keeping, Copying, Restoring
  <2> QED BY <2>1, <2>3, <2>4 DEF IInv, CallInv, ReceiptInv, Founded, At, NothingLost, FailedIsUndone
<1>8. CASE Commit
  <2>1. /\ pc = "written" /\ receipt' = Payload /\ End("done")
        /\ UNCHANGED <<live, kept, config, calls, owned, before>>
    BY <1>8 DEF Commit, history
  <2>2. Payload \in Config
    BY DEF IInv, TypeOK, Payload, Config
  <2>3. Payload.source = raw /\ Payload.dirs = dirs
    BY DEF Payload
  <2>4. Founded(Payload)
    BY <2>1, <2>3 DEF IInv, CallInv, Keeping, Founded, At
  <2>5. TypeOK'
    BY <2>1, <2>2 DEF IInv, TypeOK, End, Nothing, Results
  <2>6. CallInv'
    BY <2>1 DEF End, CallInv, Keeping, Copying, Restoring
  <2>7. ReceiptInv'
    BY <2>1, <2>4 DEF ReceiptInv, Founded
  <2> QED BY <2>1, <2>5, <2>6, <2>7 DEF IInv, End, NothingLost, FailedIsUndone
<1>9. CASE Fails
  <2>1. /\ pc \in {"try", "written"} /\ pc' = "undo" /\ todo' = {d \in Tracked : kept[d] # Absent}
        /\ UNCHANGED <<live, kept, config, receipt, copying, dirs, raw, calls, owned, before, result>>
    BY <1>9 DEF Fails, Undo, store, history
  <2>2. TypeOK'
    BY <2>1 DEF IInv, CallInv, Copying, TypeOK
  <2>3. live = before.live /\ copying = None
    BY <2>1 DEF IInv, CallInv, Keeping, Copying
  <2>4. \A x \in Thing : live[x] # Absent => kept[x] = live[x]
    BY <2>1 DEF IInv, CallInv, Keeping
  <2>5. Restoring'
    <3>1. \A d \in Tracked : owned[d] \in {Absent, kept[d]}
      BY <2>1, <2>4 DEF IInv, NothingLost
    <3> QED BY <2>1, <2>3, <2>4, <3>1 DEF Restoring
  <2>6. Keeping' /\ Copying'
    BY <2>1, <2>3 DEF Keeping, Copying
  <2>7. CallInv'
    BY <2>1, <2>5, <2>6 DEF IInv, CallInv
  <2> QED BY <2>1, <2>2, <2>7 DEF IInv, ReceiptInv, Founded, At, NothingLost, FailedIsUndone, Verified
<1>10. ASSUME NEW d \in Tracked, StartRestore(d)
       PROVE  IInv'
  <2>1. /\ pc = "undo" /\ pc' = "undo" /\ d \in todo /\ copying = None /\ copying' = d
        /\ live' = [live EXCEPT ![d] = Partial]
        /\ UNCHANGED <<kept, config, receipt, todo, dirs, raw, calls, owned, before, result>>
    BY <1>10 DEF StartRestore, history
  <2>2. TypeOK'
    BY <2>1 DEF IInv, TypeOK
  <2>3. CallInv'
    <3>1. Restoring'
      BY <2>1 DEF IInv, TypeOK, CallInv, Restoring
    <3> QED BY <2>1, <3>1 DEF IInv, CallInv, Keeping, Copying
  <2>4. NothingLost'
    BY <2>1 DEF IInv, TypeOK, CallInv, Restoring, NothingLost
  <2> QED BY <2>1, <2>2, <2>3, <2>4 DEF IInv, CallInv, ReceiptInv, Founded, At, FailedIsUndone
<1>11. CASE EndRestore
  <2>1. /\ pc = "undo" /\ pc' = "undo" /\ copying # None /\ copying' = None
        /\ live' = [live EXCEPT ![copying] = kept[copying]] /\ todo' = todo \ {copying}
        /\ UNCHANGED <<kept, config, receipt, dirs, raw, calls, owned, before, result>>
    BY <1>11 DEF EndRestore, history
  <2>2. copying \in Tracked
    BY <2>1 DEF IInv, CallInv, Copying, Restoring
  <2>3. TypeOK'
    BY <2>1, <2>2 DEF IInv, TypeOK
  <2>4. CallInv'
    BY <2>1, <2>2 DEF IInv, TypeOK, CallInv, Keeping, Copying, Restoring
  <2>5. NothingLost'
    BY <2>1, <2>2 DEF IInv, TypeOK, CallInv, Restoring, NothingLost
  <2> QED BY <2>1, <2>3, <2>4, <2>5 DEF IInv, CallInv, ReceiptInv, Founded, At, FailedIsUndone
<1>12. CASE Undone
  <2>1. /\ pc = "undo" /\ End("failed") /\ UNCHANGED <<live, kept, receipt, calls, history>>
        /\ todo = {} /\ config' = IF Verified THEN config ELSE None
    BY <1>12 DEF Undone
  <2>2. \A x \in Thing : \/ live[x] = before.live[x]
                         \/ before.live[x] = Absent /\ live[x] = kept[x]
    <3>1. copying = None
      BY <2>1 DEF IInv, CallInv, Copying
    <3>2. \A d \in Tracked : \/ live[d] = before.live[d]
                             \/ before.live[d] = Absent /\ live[d] = kept[d]
      BY <2>1, <3>1, ConstantsAssumption DEF IInv, CallInv, Restoring, TypeOK
    <3>3. live[Legacy] = before.live[Legacy]
      BY <2>1 DEF IInv, CallInv, Restoring
    <3> QED BY <3>2, <3>3
  <2>3. "failed" \in Results /\ (config' = None \/ receipt = config') /\ config' \in {config, None}
    BY <2>1 DEF Results, Verified
  <2> QED BY <2>1, <2>2, <2>3, EndInv
<1>13. CASE UndoFails \/ Crash
  <2>1. PICK r \in {"broken", "crashed"} :
          pc # "idle" /\ End(r) /\ UNCHANGED <<live, kept, config, receipt, calls, history>>
    BY <1>13 DEF UndoFails, Crash, store
  <2> QED BY <2>1, EndInv DEF Results
<1>14. CASE Recover
  <2>1. /\ pc = "idle" /\ config' = None /\ result' = "none"
        /\ UNCHANGED <<live, kept, receipt, pc, todo, copying, raw, dirs, calls, owned, before>>
    BY <1>14 DEF Recover, call, history
  <2> QED BY <2>1 DEF IInv, TypeOK, Results, CallInv, Keeping, Copying, Restoring, ReceiptInv,
             Founded, At, NothingLost, FailedIsUndone
<1>15. CASE EditConfig
  <2>1. /\ pc = "idle" /\ result' = "none" /\ config \in Config
        /\ UNCHANGED <<live, kept, receipt, pc, todo, copying, raw, dirs, calls, owned, before>>
    BY <1>15 DEF EditConfig, call, history, IInv, TypeOK
  <2>2. PICK e \in BOOLEAN : config' = [config EXCEPT !.edited = e]
    BY <1>15 DEF EditConfig
  <2>3. config' \in Config
    BY <2>1, <2>2 DEF Config
  <2> QED BY <2>1, <2>3 DEF IInv, TypeOK, Results, CallInv, Keeping, Copying, Restoring, ReceiptInv,
             Founded, At, NothingLost, FailedIsUndone
<1>16. ASSUME NEW x \in Thing, OwnerWrites(x)
       PROVE  IInv'
  <2>1. pc = "idle" /\ result' = "none"
        /\ UNCHANGED <<kept, config, receipt, pc, todo, copying, raw, dirs, calls, before>>
    BY <1>16 DEF OwnerWrites, call
  <2>2. PICK c \in Content \union {Absent} :
          live' = [live EXCEPT ![x] = c] /\ owned' = [owned EXCEPT ![x] = c]
    BY <1>16 DEF OwnerWrites
  <2>3. TypeOK'
    BY <2>1, <2>2 DEF IInv, TypeOK, Results
  <2>4. NothingLost'
    BY <2>1, <2>2 DEF IInv, TypeOK, NothingLost
  <2> QED BY <2>1, <2>3, <2>4 DEF IInv, CallInv, Keeping, Copying, Restoring, ReceiptInv,
             Founded, At, FailedIsUndone
<1>17. CASE UNCHANGED vars
  BY <1>17 DEF vars, store, call, history, IInv, TypeOK, CallInv, Keeping, Copying, Restoring,
     ReceiptInv, Founded, At, NothingLost, FailedIsUndone, Verified
<1> QED BY <1>1, <1>2, <1>3, <1>4, <1>5, <1>6, <1>7, <1>8, <1>9, <1>10, <1>11, <1>12, <1>13,
           <1>14, <1>15, <1>16, <1>17 DEF Next

THEOREM Invariance ==
  ASSUME "busy" \notin Faults
  PROVE  Spec => []IInv
<1>1. Init => IInv
  BY InitInv
<1>2. IInv /\ [Next]_vars => IInv'
  BY StepInv
<1> QED BY <1>1, <1>2, PTL DEF Spec

\* Every variable of a migration keeps its type.
THEOREM TypeCorrect ==
  ASSUME "busy" \notin Faults
  PROVE  Spec => []TypeOK
<1>1. IInv => TypeOK
  BY DEF IInv
<1> QED BY <1>1, Invariance, PTL

\* Nothing users or jobs left is lost, wherever a migration stops.
THEOREM NothingLostHolds ==
  ASSUME "busy" \notin Faults
  PROVE  Spec => []NothingLost
<1>1. IInv => NothingLost
  BY DEF IInv
<1> QED BY <1>1, Invariance, PTL

\* A committed configuration is founded on what the backups hold.
THEOREM VerifiedIsFoundedHolds ==
  ASSUME "busy" \notin Faults
  PROVE  Spec => []VerifiedIsFounded
<1>1. IInv => VerifiedIsFounded
  BY Constants DEF IInv, ReceiptInv, Founded, At, VerifiedIsFounded, Verified
<1> QED BY <1>1, Invariance, PTL

\* After a call that failed every directory is as it was when the call began,
\* unless it was absent and came back from its backup, and the configuration is
\* absent or verified; a call that was refused left everything as it was.
THEOREM FailedIsUndoneHolds ==
  ASSUME "busy" \notin Faults
  PROVE  Spec => []FailedIsUndone
<1>1. IInv => FailedIsUndone
  BY DEF IInv
<1> QED BY <1>1, Invariance, PTL
=============================================================================
