SPECIFICATION CommandsSpec
CONSTANTS
  u = u
  v = v
  s = s
  None = None
  Caller = {u, v}
  Staff = {}
  Key <- MCKey
  Scanner = {s, s2}
  Answer <- MCAnswer
  MaxId = 8
  KeyDir = {k1}
  Deployments <- MCDeployments
INVARIANTS CommandsTypeOK ScanReconciles KeysDoNotPileUp DeployDelivers SeedRestores
PROPERTIES ScopeIsKept ParticipantsAreAdminMade AdminsAreAdminMade
CHECK_DEADLOCK FALSE
