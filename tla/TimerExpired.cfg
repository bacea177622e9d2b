SPECIFICATION Spec
CONSTANTS
  j1 = j1
  j2 = j2
  r1 = r1
  r2 = r2
  r3 = r3
  f1 = f1
  f2 = f2
  Nobody = Nobody
  NoSlot = NoSlot
  Job = {j1, j2}
  Calendar <- TwoJobs
  Named = {}
  Offset = 1
  Window = 1
  MaxTime = 4
  Run = {r1}
  LockFile = {f1}
  LockOf <- SameLock
  Faults = {}
INVARIANT FiresInTime
