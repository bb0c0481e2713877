SPECIFICATION FairSpec
CONSTANTS
  Ports = {p1, p2}
  NoPort = none
  Threshold = 3
  FloatExponents = 1024
  HangupRead = "error"
  EmitMayRaise = FALSE
  EnumerationMayRaise = FALSE
  OpenMayRaise = FALSE
  MaxAttempts = 1026
INVARIANTS
  NoAttemptEscapes
CHECK_DEADLOCK FALSE
