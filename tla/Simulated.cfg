SPECIFICATION SimulatedSpec
CONSTANTS
  Session = {s1}
  Loop = loop
  Threshold = 2
  MaxOpens = 2
  MaxFaults = 2
  Run = {r1, r2}
  Nobody = nobody
  Step = 2
  Hour = 3
  EndTime = 7
  FlattenAfter = 2
  MaxErrors = 2
INVARIANTS SimulatedTypeOK NothingVanishes Accounted FundingAccount FundingPaced FlatWhenDue
PROPERTIES ClosedOnRequest ClosesComplete AutoFlattens QueueMoves
CHECK_DEADLOCK FALSE
