SPECIFICATION Spec
CONSTANTS
  Tracked = {d1, d2}
  Legacy = Legacy
  Content = {c1, c2}
  MaxCalls = 3
  Faults = {"crash", "fail"}
  Absent = Absent
  Partial = Partial
  None = None
SYMMETRY Symmetry
INVARIANT TypeOK
INVARIANT NothingLost
INVARIANT VerifiedIsFounded
INVARIANT FailedIsUndone
