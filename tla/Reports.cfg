CONSTANTS
  r1 = r1
  r2 = r2
  Requests <- MCRequests
  NFiles = 2
  MaxVersion = 2
  Size <- MCSize
SPECIFICATION Spec
INVARIANT TypeOK
INVARIANT UndisturbedIsComplete
PROPERTY ServedNeverShrinks
PROPERTY StaleReportGoes
