CONSTANTS
  Requests = {r1}
  HostDrains = TRUE
  LogFaults = FALSE
SPECIFICATION Spec
INVARIANT CompletedMeansClean
