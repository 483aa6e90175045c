CONSTANTS
  MaxMain = 1
  MaxBumps = 2
  MaxSwitches = 1
SPECIFICATION FairSpec
INVARIANTS
  TypeOK
  MergedInStep
  HeadIsAttended
  SkipIsSafe
  NeverStranded
PROPERTIES
  NoClobber
  EventuallyMerged
CHECK_DEADLOCK FALSE
