CONSTANTS
  Requests = {r1, r2}
  HostDrains = FALSE
  LogFaults = TRUE
SPECIFICATION FairSpec
INVARIANTS
  NoManagedLeak
  VerdictIsRight
