SPECIFICATION Spec
CONSTANTS
  None = None
  r1 = r1
  Host = {1, 2}
  AdminOwned = {}
  Removable = {2}
  Ageing = {2}
  Family = {4}
  RunKind = {"ok", "null"}
  HealthKind = {"sound", "malformed"}
  AdminPushes = TRUE
  Runner = {r1}
  Deployments <- MCQuiet
  MaxMissing = 1
  LegacyWritable = TRUE
INVARIANTS TypeOK UndisturbedRunSettles
