SPECIFICATION FairSpec
CONSTANTS
  j1 = j1
  j2 = j2
  r1 = r1
  r2 = r2
  r3 = r3
  f1 = f1
  f2 = f2
  Nobody = Nobody
  NoSlot = NoSlot
  Job = {j1}
  Calendar <- OneJob
  Named <- ByUsers
  Offset = 1
  Window = 1
  MaxTime = 3
  Run = {r1, r2}
  LockFile = {f1, f2}
  LockOf <- OtherLock
  Faults = {"raise", "disk", "stop", "kill"}
INVARIANT TypeOK
INVARIANT NoOverlap
PROPERTY CompletedStays
PROPERTY OncePerSlot
PROPERTY RunsEnd
