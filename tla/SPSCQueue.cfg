SPECIFICATION FairSpec
CONSTANTS
  Capacity = 3
  Values = {v1, v2}
  Raw = Raw
INVARIANTS TypeOK NoSlotRace ObjectLifetime
PROPERTIES ImplementsFIFO SpinsEnd
