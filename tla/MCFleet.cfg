SPECIFICATION FairSpec
CONSTANTS
  m1 = m1
  c1 = c1
  c2 = c2
  t1 = t1
  Calls = {c1, c2}
  NoToken = NoToken
  Absent = Absent
  Nothing = Nothing
  Machines = {m1}
  Tokens = {t1}
  Uses = {2}
  Pledges = {90, 100}
  Amounts = {0, 90}
  MaxNodes = 2
  MaxUsed = 90
  MaxMonth = 2
  MaxTroubles = 2
INVARIANTS
  EnrolmentsWithinUses
  RosterIsTrue
  QuarantineHolds
PROPERTIES
  RotationFollows
