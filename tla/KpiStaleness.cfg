SPECIFICATION Spec
CONSTANTS
  w = w
  jammy = jammy
  noble = noble
  h1 = h1
  h2 = h2
  o1 = o1
  o2 = o2
  None = None
  Host = {h1, h2}
  Org = {o1, o2}
  Process = {w}
  Cron = cron
  Thread = {t1, t2}
  ProcessOf <- MCProcessOf
  Report <- MCReport
  MaxRuns = 2
  KPI_TTL = 1
  Hour = 4
  MaxRequest = 1
  MAX_FAILED = 1
  Deployments <- MCDeployments
INVARIANT TypeOK
PROPERTIES StaleIsBounded OnlyLiveMachines
