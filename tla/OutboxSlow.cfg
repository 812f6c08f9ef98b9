SPECIFICATION FairSpec
CONSTANTS
  alert = alert
  text = text
  NoJob = NoJob
  Jobs <- MCJobs
  Alerts <- MCAlerts
  Texts <- MCTexts
  Workers = {w1, w2}
  Admins = {}
  BatchSize = 2
  MaxAttempts = 2
  EmailConfigured = TRUE
  SlowBatches = TRUE
  MaxMishaps = 2
  MaxRequeues = 0
PROPERTIES
  SentUndoneOnlyIfContested
  EveryMessageSettles
  AlertSurfaces
CHECK_DEADLOCK FALSE
