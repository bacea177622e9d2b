SPECIFICATION Spec
CONSTANTS
  Note = {n1}
  Body = {b1}
  Managed = {m0, m1}
  Tx = {t1, t2}
  Approval = {a1, a2}
  Proc = {p1, p2}
  tty = tty
  Terminal = {tty}
  TerminalOf <- OneTerminal
  TTL = 1
  MaxTime = 1
  Faults = {"crash", "io", "save"}
  NoProc = NoProc
SYMMETRY Symmetry
VIEW Unreported
INVARIANT TypeOK
INVARIANT AppliedOnce
INVARIANT ConsumedWasApplied
PROPERTY ImplementsOneTimePatch
PROPERTY PatchedAsApproved
