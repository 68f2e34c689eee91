SPECIFICATION FairSpec
CONSTANTS
  h1 = h1
  h2 = h2
  Heads = {h1, h2}
  NoHead = NoHead
  Reports <- MCReports
  MaxSignals = 2
  MaxTroubles = 1
INVARIANTS
  QuarantineHoldsNothing
  OneSignalNeverSinks
  RecordIsTrue
PROPERTIES
  PenaltiesEnd
