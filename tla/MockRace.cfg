SPECIFICATION Spec
CONSTANTS
  Session = {s1}
  Loop = loop
  Threshold = 2
  MaxOpens = 1
  MaxFaults = 0
INVARIANTS BookedOnce
CHECK_DEADLOCK FALSE
