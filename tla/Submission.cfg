CONSTANTS
  MaxPods = 4
  MaxLines = 9
SPECIFICATION Spec
\* A form is refused or dealt out once.
CHECK_DEADLOCK FALSE
INVARIANT TypeOK
INVARIANT AcceptedIsRunnable
INVARIANT ImageIsWhole
INVARIANT AcceptedIsReadable
INVARIANT SharesAreFair
INVARIANT SegmentsMeet
