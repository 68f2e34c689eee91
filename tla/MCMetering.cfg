SPECIFICATION Spec
CONSTANTS
  StatsDepth = 1
  Nothing = Nothing
  MaxTurns = 6
INVARIANTS
  NeverOverbilled
PROPERTIES
  SpentStaysSpent
  EverythingIsBilled
