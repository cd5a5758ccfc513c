SPECIFICATION Spec
CONSTANTS
  Clients = {c1, c2}
  Mortal = {c1}
INVARIANTS StreamMatches NoRNR CompletionsBalanced FatalOnlyAfterLoss
PROPERTIES Progress
CHECK_DEADLOCK FALSE
