SPECIFICATION Spec
CONSTANTS
  WarningCount = 2
  WarningWindow = 1
  CriticalCount = 5
  CriticalWindow = 4
  ResetAfter = 3
  MaxTime = 10
  MaxEvents = 8
INVARIANTS
  LevelMatchesHistory
  NoticesRiseOncePerCycle
  DequeIsLiveSuffix
PROPERTIES
CHECK_DEADLOCK FALSE
