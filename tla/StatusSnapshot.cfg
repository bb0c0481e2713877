SPECIFICATION StatusFairSpec
CONSTANTS
  WarningCount = 1
  WarningWindow = 1
  CriticalCount = 2
  CriticalWindow = 1
  ResetAfter = 2
  ReleaseSeconds = 2
  MaxTime = 8
  MaxEvents = 1
  BackoffSeconds = 3
  MaxBatch = 1
  DiscoveryTicks = 2
  HostingTicks = 1
  WriteTicks = 1
  StaleAfter = 2
INVARIANTS
  ExitIsSafe
  ReleaseEndsOnTime
  LoopNeverHidesAHighPin
  PublishedIsCurrent
  LiveLoopIsFresh
  ActiveReleaseIsReal
  EndIsPublished
PROPERTIES
  NoReleaseWhileExiting
  StopEndsTheProcess
CHECK_DEADLOCK FALSE
