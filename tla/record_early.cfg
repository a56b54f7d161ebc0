SPECIFICATION Spec
CONSTANTS
  MaxStarts = 2
  MaxFailures = 0
  Waits = TRUE
INVARIANTS
  ContinuesUntilStopped
\* the app may crash, and a camera may be released
CHECK_DEADLOCK FALSE
