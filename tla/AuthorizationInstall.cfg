SPECIFICATION Spec
CONSTANTS
  Installers = {i1, i2}
  Contents = {old, new, bad}
  Valid = {old, new}
  Reloaders = {r1, r2}
INVARIANTS
  DestinationIsValid
PROPERTIES
  StoreIsWhole
CHECK_DEADLOCK FALSE
