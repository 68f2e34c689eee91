SPECIFICATION Spec
CONSTANTS
  p1 = p1
  p2 = p2
  v1 = v1
  v2 = v2
  Profiles <- MCProfiles
  Versions <- MCVersions
  Unapplied = Unapplied
  NoFile = NoFile
  Idle = Idle
  Depth = 2
  MaxTurns = 4
PROPERTY ReturnsToService
CHECK_DEADLOCK FALSE
