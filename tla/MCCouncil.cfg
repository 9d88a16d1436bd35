SPECIFICATION Spec
CONSTANTS
  Host <- MCHost
  Object <- MCObject
  F = 1
  Scatter = 3
  Domain <- MCDomain
  OwnerWeight <- MCOwnerWeight
  ObjectWeight <- MCObjectWeight
  LastVersion = 9
  Founders = {1, 2, 3, 4}
  MaxChurn = 3
INVARIANTS NeverOrphaned OneSuccessor LineageAdvances CopysetsSpread
PROPERTIES TakeoversEnd NeighbourhoodsStable
CHECK_DEADLOCK FALSE
