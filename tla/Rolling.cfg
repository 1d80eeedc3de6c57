CONSTANTS
  Backend = "Ghz"
  N = 1
  HasTestData = TRUE
  HasEnvVars = FALSE
  HasCustomData = FALSE
  CleanUp = FALSE
  Rejected = {}
  WaitsPerSync = 2
  MaxFaults = 0
SPECIFICATION BothSpec
\* After the LoadTest is deleted everything comes to rest.
CHECK_DEADLOCK FALSE
INVARIANT BothTypeOK
INVARIANT BothSyncedMeansCreated
PROPERTY BothImplementLifecycle
