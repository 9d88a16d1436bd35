SPECIFICATION Spec
CONSTANTS
  Scenes <- MCScenes
  Bytes = {b1, b2, b3}
INVARIANTS NoOutsiderLoss NeverTorn OldOrNew WorkIsKept DoneLeavesNothing
CHECK_DEADLOCK FALSE
