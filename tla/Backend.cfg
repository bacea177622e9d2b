SPECIFICATION FairSpec
CONSTANTS
  leader = leader
  helper = helper
  stdout = stdout
  stderr = stderr
  Process = {leader, helper}
  Leader = leader
  Stream = {stdout, stderr}
  Buffer = 1
  Limit = 2
  Timeout = 2
  Grace = 1
  Faults = {"fork", "leave", "quiet", "ioerror", "user", "killpg"}
INVARIANT TypeOK
INVARIANT Contained
INVARIANT AcceptedIsFinal
PROPERTY RunEnds
