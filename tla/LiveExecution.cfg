SPECIFICATION LiveSpec
CONSTANTS
  MaxOrders = 1
  MaxSize = 2
  MaxPos = 2
  Resting = FALSE
  Delayed = FALSE
  DupReplies = {"empty"}
  OutsidePos = {0}
  MaxFaults = 2
  Session = {1}
  Targets <- BothWays
  Size = 1
  Policy <- HaltPolicy
INVARIANTS LiveTypeOK TradeBookedOnce ClosedHasNoPosition
PROPERTIES OrderLayer CloseNeverGrows HeldNeverOpens
CHECK_DEADLOCK FALSE
