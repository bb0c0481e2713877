SPECIFICATION Spec
CONSTANTS
  Ids = {1, 2, 3, 4}
  Kinds = {"granted", "fault"}
  Anything = "anything"
  MaximumPageSize = 2
  MaxTime = 2
INVARIANTS
  NewestFirst
  NothingSkipped
  CursorLeadsOn
CHECK_DEADLOCK FALSE
