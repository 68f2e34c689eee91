SPECIFICATION ReceiptsSpec
CONSTANTS
  r1 = r1
  r2 = r2
  r3 = r3
  Receipts <- MCSigned
  QueueLimit = 1
  MaxPerRequest = 2
  MaxAge = 5
  MaxKeys = 2
  MaxVersions = 2
  MaxFaults = 2
INVARIANTS
  ReceiptsTypeOK
  RetriesOutliveFaults
SYMMETRY MCSymmetry
