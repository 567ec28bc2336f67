SPECIFICATION AccountsFairSpec
CONSTANTS
  v = v
  s = s
  o1 = o1
  o2 = o2
  p1 = p1
  p2 = p2
  n1 = n1
  n2 = n2
  None = None
  Visitor = {v, s}
  Admin = {s}
  Name = {1, 2, 3, 4, 5}
  Org = {o1, o2}
  Pdb = {p1, p2}
  Asn = {n1, n2}
  SeedRing <- MCSeed
  MaxUser = 3
  MaxRing = 4
  Deployments <- MCTakenName
  Manages <- MCManages
  NetOrg <- MCNetOrg
  SeedOrgs <- MCOrgs
PROPERTY EverySignupGetsApproved
CHECK_DEADLOCK FALSE
