SPECIFICATION FairSpec
CONSTANTS
  Session = {s1}
  Wallet <- OneWallet
  Kind <- LiveKind
  Request = {r1}
  Gap = FALSE
  MaxRequests = 3
  MaxFaults = 0
PROPERTIES LiveSessionsEnd
CHECK_DEADLOCK FALSE
