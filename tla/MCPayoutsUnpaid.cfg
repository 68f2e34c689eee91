SPECIFICATION PayingSpec
CONSTANTS
  n1 = n1
  n2 = n2
  d1 = d1
  d2 = d2
  Nodes = {n1}
  Donors = {d1}
  Owner <- MCOwner
  Wallets <- MCWallets
  NoWallet = NoWallet
  MayName <- MCMayName
  RetryBatch = 2
  MaxCarried = 1
  MaxPeriods = 1
  MaxEpochs = 1
  MaxFaults = 1
PROPERTIES
  RootOnChainIsPaid
CHECK_DEADLOCK FALSE
