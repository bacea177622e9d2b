SPECIFICATION ReinstallSpec
CONSTANTS
  health = health
  morning = morning
  Unit = {morning, health}
  Exports <- Both
  ReinstallFaults = {"crash", "fail"}
INVARIANT ReinstallTypeOK
INVARIANT TrueMeansScheduled
