SPECIFICATION Spec
CONSTANTS
  v = v
  s = s
  o1 = o1
  o2 = o2
  None = None
  Visitor = {v, s}
  Admin = {a1, a2, s}
  Name = {1, 2}
  Org = {o1}
  Pdb = {}
  Asn = {}
  SeedRing <- MCSeed
  MaxUser = 2
  MaxRing = 3
  Deployments <- MCDeployments
  RingNameChoice <- MCSeedOrBlank
SYMMETRY MCAdminSymmetry
INVARIANTS TypeOK TokenImpliesActive ApprovedIsActive ApprovedIsComplete QuiescentIsVetted
  ServedAreOnFile
PROPERTY LinkIsStable
CHECK_DEADLOCK FALSE
