SPECIFICATION FairSpec
CONSTANTS
  n1 = n1
  c1 = c1
  d1 = d1
  d2 = d2
  d3 = d3
  f1 = f1
  f2 = f2
  Nodes = {n1}
  Clients = {c1}
  Dests <- MCDests
  NoDest = NoDest
  Forms = {f1, f2}
  Nothing = Nothing
  Plausible <- MCPlausible
  Draw <- MCDraw
  Flags <- MCFlags
  Saves <- MCSaves
  Scans <- MCScans
  Failures = 2
  Cooldown = 1
  QueueDepth = 1
  MaxVersion = 3
  MaxTurns = 1
INVARIANTS
  
  OperatorIsObeyed
PROPERTIES
  DestIsKept
  
CHECK_DEADLOCK FALSE
