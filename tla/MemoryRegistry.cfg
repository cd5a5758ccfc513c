SPECIFICATION Spec
CONSTANTS
  Addresses = {a1, a2, a3}
  MaxEntries = 6
INVARIANTS TypeOK EntriesMatchHeap
PROPERTIES NoDoubleFree
CHECK_DEADLOCK FALSE
