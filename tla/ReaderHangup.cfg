SPECIFICATION FairSpec
CONSTANTS
  Ports = {p1, p2}
  NoPort = none
  Threshold = 3
  FloatExponents = 1024
  HangupRead = "eof"
  EmitMayRaise = FALSE
  EnumerationMayRaise = FALSE
  OpenMayRaise = FALSE
  MaxAttempts = 6
PROPERTIES
  DisconnectIsDetected
CHECK_DEADLOCK FALSE
