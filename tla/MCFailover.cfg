SPECIFICATION FairSpec
CONSTANTS
  r1 = r1
  r2 = r2
  u1 = u1
  Replicas <- MCReplicas
  Users <- MCUsers
  Nobody = Nobody
  Gone = Gone
  Duration = 2
  CallTimeout = 2
  Skew = 1
  MaxTroubles = 2
INVARIANTS
  FreshLeaderHolds
  ActsOnWhatWasPromised
PROPERTIES
  SomebodyLeads
