SPECIFICATION FairTrustSpec
CONSTANTS
  Unknown = Unknown
  Window = 2
  MinAudit = 1
  BlindBytes = 2
  SelfDealBytes = 2
  Excess = {16}
  Loads = {1}
  MaxBytes = 2
  MaxHours = 2
  MaxFaults = 2
INVARIANT TrustTypeOK
PROPERTIES
  ChargesAreEarned
  LiarsAreCaught
  TrustReturns
