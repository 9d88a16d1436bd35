SPECIFICATION Spec
CONSTANTS
  Scenes <- MCDeleted
  Bytes = {b1, b2, b3}
INVARIANT NothingIsLost
CHECK_DEADLOCK FALSE
