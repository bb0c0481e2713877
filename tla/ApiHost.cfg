SPECIFICATION HostFairSpec
CONSTANTS
  Host = host
  Callers = {host}
  MaxFailures = 4
INVARIANTS
  EachFailureOnce
  NothingUnreported
  StoppedIsStopped
  ApiFailureIsDegraded
PROPERTIES
  HostGoesOn
CHECK_DEADLOCK FALSE
