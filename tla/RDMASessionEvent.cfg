SPECIFICATION Spec
CONSTANTS
  MaxUnacked = 2
  Mortal = {}
PROPERTY CompletionWaitEnds
CHECK_DEADLOCK FALSE
