SPECIFICATION ApiFairSpec
CONSTANTS
  Callers = {c1, c2, c3}
  MaxFailures = 2
INVARIANTS
  FailureExplainsState
  RunningIsServed
PROPERTIES
  CallsEnd
CHECK_DEADLOCK FALSE
