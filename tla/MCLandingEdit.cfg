SPECIFICATION Spec
CONSTANTS
  Scenes <- MCReplaced
  Bytes = {b1, b2, b3}
INVARIANT NothingIsLost
CHECK_DEADLOCK FALSE
