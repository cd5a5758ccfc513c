SPECIFICATION Spec
CONSTANTS
  Members = {c1, c2}
  Late = {c3}
  Mortal = {c2, c3}
  Rounds = 2
INVARIANTS BuiltBeforeUse MustBeEmpty
PROPERTIES ImplementsBarrier AllRoundsComplete
CHECK_DEADLOCK FALSE
