SPECIFICATION Spec
CONSTANTS
  Run = {r1, r2}
  Proc = {p1, p2}
  MaxLines = 4
  Faults = {"crash", "fail", "power"}
  NoStatus = NoStatus
  Torn = Torn
  NoProc = NoProc
SYMMETRY Symmetry
INVARIANT TypeOK
INVARIANT ChainSound
INVARIANT LegalRuns
INVARIANT AckedKept
