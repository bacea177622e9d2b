SPECIFICATION Spec
CONSTANTS
  Note = {n1}
  body1 = body1
  body2 = body2
  m0 = m0
  m1 = m1
  Body = {body1, body2}
  Managed = {m0, m1}
  Tx = {t1, t2}
  Proc = {p1, p2}
  Inode = {1, 2, 3, 4, 5, 6, 7, 8}
  Vault <- MCVault
  Faults = {"crash", "io", "save"}
  NoProc = NoProc
  NoTx = NoTx
  NoNote = NoNote
SYMMETRY Symmetry
INVARIANT TypeOK
INVARIANT WriteAhead
INVARIANT SourcePreserved
INVARIANT ScratchStopsRecoveryOnly
PROPERTY BackupKept
PROPERTY CommittedStays
PROPERTY ImplementsAtomicPatch
