SPECIFICATION BackfillSpec
CONSTANTS
  s = s
  o1 = o1
  o2 = o2
  p1 = p1
  p2 = p2
  n1 = n1
  n2 = n2
  None = None
  Visitor = {v1, v2, s}
  Admin = {a1, s}
  Name = {1, 2, 3, 4}
  Org = {o1, o2}
  Pdb = {p1, p2}
  Asn = {n1, n2}
  SeedRing <- MCSeed
  MaxUser = 2
  MaxRing = 3
  Deployments <- MCDeployments
  Manages <- MCManages
  NetOrg <- MCNetOrg
  SeedOrgs <- MCKnown
SYMMETRY MCVisitorSymmetry
INVARIANTS BackfillTypeOK AccountFitsNetwork ApprovedIsComplete PendingIsLocked NoOrphanAccount
  OrphanIsNotServed RecordedAsnFits BackfillIsComplete
PROPERTY IdentityKeepsAccount
CHECK_DEADLOCK FALSE
