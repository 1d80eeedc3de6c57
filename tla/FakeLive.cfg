CONSTANTS
  Backend = "Fake"
  N = 1
  HasTestData = FALSE
  HasEnvVars = FALSE
  HasCustomData = FALSE
  CleanUp = TRUE
  Rejected <- NothingRejected
  WaitsPerSync = 2
  MaxFaults = 1
SPECIFICATION Spec
\* After the LoadTest is deleted everything comes to rest.
CHECK_DEADLOCK FALSE
PROPERTY OutcomeIsReported
