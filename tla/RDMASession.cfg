SPECIFICATION Spec
CONSTANTS
  MaxUnacked = 2
  Mortal = {"server", "client"}
INVARIANTS TypeOK SyncsMatch NoRNR OneTurn
PROPERTY BusyPollingProgress
CHECK_DEADLOCK FALSE
