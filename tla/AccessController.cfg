SPECIFICATION FairSpec
CONSTANTS
  WarningCount = 2
  WarningWindow = 1
  CriticalCount = 3
  CriticalWindow = 2
  ResetAfter = 2
  ReleaseSeconds = 2
  MaxTime = 5
  MaxEvents = 4
INVARIANTS
  HighIsAccountedFor
  CriticalIsNotSilent
PROPERTIES
  EveryReleaseEnds
  HighOnlyAfterGrant
  ContractHolds
CHECK_DEADLOCK FALSE
