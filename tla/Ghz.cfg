CONSTANTS
  Backend = "Ghz"
  N = 2
  HasTestData = TRUE
  HasEnvVars = FALSE
  HasCustomData = FALSE
  CleanUp = TRUE
  Rejected <- NothingRejected
  WaitsPerSync = 2
  MaxFaults = 1
SPECIFICATION Spec
\* After the LoadTest is deleted everything comes to rest.
CHECK_DEADLOCK FALSE
INVARIANT TypeOK
INVARIANT FinishedMeansJobsDone
INVARIANT SyncedMeansCreated
INVARIANT CleanUpIsJustified
PROPERTY ImplementsLifecycle
PROPERTY PhaseLeavesBlank
PROPERTY CleanedUp
PROPERTY NothingLeft
