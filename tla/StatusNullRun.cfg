SPECIFICATION FairSpec
CONSTANTS
  None = None
  r1 = r1
  Host = {1, 2}
  AdminOwned = {}
  Removable = {}
  Ageing = {}
  Family = {}
  RunKind = {"ok", "null"}
  HealthKind = {}
  AdminPushes = TRUE
  Runner = {r1}
  Deployments <- MCQuiet
  MaxMissing = 1
  LegacyWritable = TRUE
PROPERTY ReportingIsActivated
