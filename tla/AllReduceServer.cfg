SPECIFICATION Spec
CONSTANTS
  n2 = n2
  n3 = n3
  n5 = n5
  Clients <- MCClients
  Groupings <- MCGroupings
  Rounds = 2
  Mortal <- MCMortal
INVARIANTS TypeOK ReduceBeforeBroadcast NoSessionLost
PROPERTIES ImplementsBarrier AllRoundsComplete
CHECK_DEADLOCK FALSE
