SPECIFICATION FairSpec
CONSTANTS
  None = None
  r1 = r1
  Host = {1, 2}
  AdminOwned = {}
  Removable = {}
  Ageing = {}
  Family = {}
  RunKind = {"ok", "failed"}
  HealthKind = {}
  AdminPushes = TRUE
  Runner = {r1, r2}
  Deployments <- MCEditsOrOverlap
  MaxMissing = 1
  LegacyWritable = TRUE
PROPERTIES ReportingIsActivated MissingIsDeactivated ReportingStaysActive
