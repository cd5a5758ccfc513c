SPECIFICATION Spec
CONSTANTS
  Bound = 2
  Widths = {2, 20, 21}
  MaxTasks = 7
INVARIANTS TypeOK CompletionsInOrder
PROPERTIES ImplementsFIFO CallsReturn
CHECK_DEADLOCK FALSE
