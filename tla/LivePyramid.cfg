SPECIFICATION LiveSpec
CONSTANTS
  MaxOrders = 1
  MaxSize = 2
  MaxPos = 2
  Resting = FALSE
  Delayed = FALSE
  DupReplies = {"empty"}
  OutsidePos = {0}
  MaxFaults = 1
  Session = {1}
  Targets <- BothWays
  Size = 1
  Policy <- DefaultPolicy
INVARIANTS NoPyramiding
CHECK_DEADLOCK FALSE
