SPECIFICATION FairSpec
CONSTANTS
  o1 = o1
  o2 = o2
  Conns = {c1, c2}
  Orgs = {o1, o2}
  OrgOfConn <- MCOrgOfConn
  Malformed = malformed
  MaxEvents = 2
  MaxFaults = 2
INVARIANT FeedIsFaithful
PROPERTY EveryViewerTold
CHECK_DEADLOCK FALSE
