CONSTANTS
  Backend = "Locust"
  N = 1
  HasTestData = FALSE
  HasEnvVars = TRUE
  HasCustomData = FALSE
  CleanUp = FALSE
  Rejected <- NothingRejected
  WaitsPerSync = 2
  MaxFaults = 1
SPECIFICATION Spec
\* After the LoadTest is deleted everything comes to rest.
CHECK_DEADLOCK FALSE
INVARIANT FinishedMeansJobsDone
INVARIANT SyncedMeansCreated
INVARIANT PodsFindTheirData
PROPERTY ImplementsLifecycle
PROPERTY PhaseLeavesBlank
PROPERTY OutcomeIsReported
