SPECIFICATION ReplySpec
CONSTANTS
  N = 3
  Resources = {"db"}
  Kinds <- AllKinds
  Hooked = TRUE
  Cap = 2
  MaxAttempts = 2
INVARIANTS
  InOrder
  PartitionAsCoded
  BracketsClose
PROPERTIES
  EventuallyAnswered
CHECK_DEADLOCK FALSE
