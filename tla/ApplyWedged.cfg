SPECIFICATION Spec
CONSTANTS
  Note = {n1}
  body1 = body1
  body2 = body2
  m0 = m0
  m1 = m1
  Body = {body1, body2}
  Managed = {m0, m1}
  Tx = {t1}
  Proc = {p1}
  Inode = {1, 2, 3, 4}
  Vault <- MCVault
  Faults = {"save"}
  NoProc = NoProc
  NoTx = NoTx
  NoNote = NoNote
SYMMETRY Symmetry
INVARIANT CommittedWorkNeverBlocks
