SPECIFICATION Spec
CONSTANTS
  Host <- MCHost
  Object <- MCObject
  F = 1
  Scatter = 3
  Domain <- MCDomain
  OwnerWeight <- MCOwnerWeight
  ObjectWeight <- MCObjectWeight
  Creator <- MCCreator
  LastVersion = 3
  Founders = {1, 2, 3}
  GateLapsed = TRUE
  Budgets <- MCEach
INVARIANTS AdoptsTheNewest PlacedIsRecoverable  OneOwner
CHECK_DEADLOCK FALSE
