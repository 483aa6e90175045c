CONSTANTS
  MaxMain = 0
  MaxBumps = 2
  MaxSwitches = 1
SPECIFICATION Spec
PROPERTIES
  KillSwitchHolds
CHECK_DEADLOCK FALSE
