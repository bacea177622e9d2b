SPECIFICATION Spec
CONSTANTS
  s1 = s1
  s2 = s2
  s3 = s3
  never = never
  old = old
  fresh = fresh
  Name = {1, 2}
  Version = {never, fresh}
  Due = {never}
  Rank <- Order
  Cap = 1
  MaxEdits = 2
  Start <- FullOrEmpty
  Scan = {s1, s2}
  Faults = {"crash", "fail"}
  Absent = Absent
  Bad = Bad
  None = None
SYMMETRY Symmetry
INVARIANT TypeOK
INVARIANT ReportIsSnapshot
PROPERTY ImplementsSnapshotArchive
