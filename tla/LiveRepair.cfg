SPECIFICATION FairSpec
CONSTANTS
  MaxOrders = 1
  MaxSize = 1
  MaxPos = 1
  Resting = FALSE
  Delayed = FALSE
  DupReplies = {"empty"}
  OutsidePos = {0}
  MaxFaults = 1
  Session = {1}
  Targets = {1}
  Size = 1
  Policy <- DefaultPolicy
PROPERTIES DriftRepaired HardCloseCompletes
CHECK_DEADLOCK FALSE
