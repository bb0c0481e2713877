SPECIFICATION FairSpec
CONSTANTS
  Ports = {p1, p2}
  NoPort = none
  Threshold = 3
  FloatExponents = 1024
  HangupRead = "error"
  EmitMayRaise = TRUE
  EnumerationMayRaise = TRUE
  OpenMayRaise = TRUE
  MaxAttempts = 6
INVARIANTS
  HealthTellsTheTruth
  RepeatedFailureOncePerOutage
PROPERTIES
  Reconnects
  DisconnectIsDetected
  StopIsAnswered
CHECK_DEADLOCK FALSE
