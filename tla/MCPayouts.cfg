SPECIFICATION FairSpec
CONSTANTS
  n1 = n1
  n2 = n2
  d1 = d1
  d2 = d2
  Nodes = {n1, n2}
  Donors = {d1, d2}
  Owner <- MCOwner
  Wallets <- MCWallets
  NoWallet = NoWallet
  MayName <- MCMayName
  RetryBatch = 2
  MaxCarried = 1
  MaxPeriods = 2
  MaxEpochs = 2
  MaxFaults = 1
INVARIANTS
  PaidWithinCounter
  PeriodsPaidOnce
  EveryLeafProves
PROPERTIES
  KeepsThePromise
  SavedReachesTheChain
CHECK_DEADLOCK FALSE
