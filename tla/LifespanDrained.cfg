CONSTANTS
  Requests = {r1, r2}
  HostDrains = TRUE
  LogFaults = FALSE
SPECIFICATION FairSpec
INVARIANTS
  TypeOK
  NoTornDownContext
  GracefulStopIsInvisible
  BodyErrorPreserved
  ShutdownBracketed
PROPERTIES
  ScopeContract
  StopCompletes
  RequestsFinish
