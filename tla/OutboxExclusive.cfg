SPECIFICATION Spec
CONSTANTS
  alert = alert
  text = text
  NoJob = NoJob
  Jobs <- MCJobs
  Alerts <- MCAlerts
  Texts <- MCTexts
  Workers = {w1, w2}
  Admins = {a1}
  BatchSize = 2
  MaxAttempts = 2
  EmailConfigured = TRUE
  SlowBatches = FALSE
  MaxMishaps = 2
  MaxRequeues = 1
SYMMETRY WorkerSymmetry
INVARIANTS
  DuplicatesExplained
  AttemptsAccounted
  AlertBackstopped
PROPERTIES
  SentUndoneOnlyByStaleAdmin
  ImplementsWorkQueue
CHECK_DEADLOCK FALSE
