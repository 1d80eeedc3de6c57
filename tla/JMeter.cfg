CONSTANTS
  Backend = "JMeter"
  N = 1
  HasTestData = FALSE
  HasEnvVars = FALSE
  HasCustomData = TRUE
  CleanUp = FALSE
  Rejected <- NothingRejected
  WaitsPerSync = 3
  MaxFaults = 1
SPECIFICATION Spec
\* After the LoadTest is deleted everything comes to rest.
CHECK_DEADLOCK FALSE
INVARIANT RunningHasAllWorkers
INVARIANT PodsFindTheirData
PROPERTY ErroredSticks
PROPERTY UnhealthyIsErrored
