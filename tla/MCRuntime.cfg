SPECIFICATION Spec
CONSTANTS
  p1 = p1
  p2 = p2
  s = s
  o = o
  none = none
  Sender <- MCSender
  Shard = s
  Owner = o
  NoWord = none
  Capacity = 2
  Peer <- MCPeer
  Programs <- MCPrograms
  Batch = 1
  ControlBound = 2
  MaxRegistrations = 2
INVARIANTS NoUseAfterFree NoStranger NoLostWake
PROPERTIES RingIsAQueue EveryWordIsTaken EverySendReturns EveryStopEnds
CHECK_DEADLOCK FALSE
