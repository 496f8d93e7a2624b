SPECIFICATION FairSpec
CONSTANTS
  MaxOrders = 1
  MaxSize = 2
  MaxPos = 2
  Resting = FALSE
  Delayed = FALSE
  DupReplies = {"empty"}
  OutsidePos <- ByHand
  MaxFaults = 1
  Session = {1}
  Targets = {1}
  Size = 1
  Policy <- ResubmitPolicy
PROPERTIES DriftRepaired
CHECK_DEADLOCK FALSE
