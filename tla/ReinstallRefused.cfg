SPECIFICATION ReinstallSpec
CONSTANTS
  health = health
  morning = morning
  Unit = {morning, health}
  Exports <- OnlySystemd
  ReinstallFaults = {}
INVARIANT OwnedJobsAreTaken
