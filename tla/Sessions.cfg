SPECIFICATION FairSpec
CONSTANTS
  Session = {s1, s2}
  Wallet <- OneWallet
  Kind <- LiveKind
  Request = {r1, r2}
  Gap = FALSE
  MaxRequests = 3
  MaxFaults = 1
INVARIANTS TypeOK WalletExclusive
PROPERTIES CatchesUp NoBlindTrading HardCloseCompletes
CHECK_DEADLOCK FALSE
