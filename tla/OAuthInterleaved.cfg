SPECIFICATION Spec
CONSTANTS
  p1 = p1
  p2 = p2
  None = None
  Browser = {b1, b2}
  Pdb = {p1, p2}
  Networks <- MCNetworks
  Worker = {w1, w2}
  MaxFlow = 3
  MaxSession = 4
  Deployments <- MCDeployments
SYMMETRY MCSymmetry
INVARIANTS TypeOK SessionIsOwn ConsentLogsInOnce FreshLoginIsAwaited
CHECK_DEADLOCK FALSE
