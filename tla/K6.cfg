CONSTANTS
  Backend = "K6"
  N = 2
  HasTestData = FALSE
  HasEnvVars = FALSE
  HasCustomData = FALSE
  CleanUp = TRUE
  Rejected <- NothingRejected
  WaitsPerSync = 2
  MaxFaults = 0
SPECIFICATION Spec
\* After the LoadTest is deleted everything comes to rest.
CHECK_DEADLOCK FALSE
INVARIANT FinishedMeansJobsDone
INVARIANT CleanUpIsJustified
PROPERTY ImplementsLifecycle
PROPERTY OutcomeIsReported
