SPECIFICATION Spec
CONSTANTS
  s = s
  o1 = o1
  o2 = o2
  p1 = p1
  p2 = p2
  n1 = n1
  n2 = n2
  None = None
  Visitor = {v1}
  Admin = {a1}
  Name = {1, 2, 3}
  Org = {o1, o2}
  Pdb = {p1, p2}
  Asn = {n1, n2}
  SeedRing <- MCNoSeed
  MaxUser = 2
  MaxRing = 2
  Deployments <- MCNoMachines
  Manages <- MCManages
  NetOrg <- MCNetOrg
  SeedOrgs <- MCKnown
INVARIANT AutoLoginIsAsnGrounded
CHECK_DEADLOCK FALSE
