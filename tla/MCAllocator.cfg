SPECIFICATION Spec
CONSTANTS
  u1 = u1
  n1 = n1
  n2 = n2
  n3 = n3
  d1 = d1
  t1 = t1
  t2 = t2
  Users = {u1}
  Nodes = {n1, n2, n3}
  Devices = {d1}
  Base = Base
  Tokens = {t1, t2}
  NoToken = NoToken
  NoUser = NoUser
  NoSpan = NoSpan
  Open = Open
  DefaultWant = 2
  TopK = 3
  StickyFor = 1
  GrantMemory = 1
  GrantSlack = 0
  MaxTurns = 3
SYMMETRY Symmetry
INVARIANTS
  HoldingIsHonoured
  JournalIsEarned
  DevicesFollowOwner
  NodesShareNoFate
  SessionsMatchSpecs
  NothingHeldIsForgotten
PROPERTIES
  KeepsWhatWorks
CHECK_DEADLOCK FALSE
