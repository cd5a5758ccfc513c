SPECIFICATION ConfSpec
CONSTANTS
  MaxN = 27
  MaxW = 5
  Deployments <- AllDeployments
INVARIANTS NodesAgree TreeGroupsAgree TreeReachesAll RingIsOneCycle DoubleTreeMatches SendersMatch
CHECK_DEADLOCK FALSE
