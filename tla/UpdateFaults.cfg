SPECIFICATION Spec
CONSTANTS
  v0 = v0
  v1 = v1
  v2 = v2
  Version = {v0, v1, v2}
  First = v0
  config = config
  jobs = jobs
  Component = {config, jobs}
  Config = config
  Proc = {p1}
  Faults = {"crash", "fail", "reapply"}
  NoVersion = NoVersion
  Self = Self
  NoSnap = NoSnap
  NoState = NoState
  Torn = Torn
  Missing = Missing
  Partial = Partial
SYMMETRY Symmetry
INVARIANT TypeOK
INVARIANT PointerLives
INVARIANT Recoverable
INVARIANT OutcomeIsTrue
