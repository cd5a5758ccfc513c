SPECIFICATION Spec
CONSTANTS
  Addresses = {a1, a2, a3}
  MaxEntries = 6
INVARIANT WarningIsTrue
CHECK_DEADLOCK FALSE
