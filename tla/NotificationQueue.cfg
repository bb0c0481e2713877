SPECIFICATION QueueSpec
CONSTANTS
  Workers = {w1, w2}
  MaxEvents = 4
INVARIANTS
  UntornIsKept
  NoneIsPassedOver
CHECK_DEADLOCK FALSE
