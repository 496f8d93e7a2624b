SPECIFICATION NetworkSpec
CONSTANTS
  MaxOrders = 2
  MaxSize = 1
  MaxPos = 2
  Resting = TRUE
  Delayed = FALSE
  DupReplies = {"empty"}
  OutsidePos = {0}
  MaxFaults = 2
INVARIANTS TypeOK MemBacked NoForgottenOrder NothingLeftToWaitFor
PROPERTIES NoSecondOrder WriteAhead AnyNetwork
CHECK_DEADLOCK FALSE
