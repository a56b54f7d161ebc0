SPECIFICATION Spec
CONSTANTS
  Frame = {f1, f2, f3, f4, f5, f6, f7, f8, f9}
  NoFrame = NoFrame
  Callback = {c1}
  NoCallback = NoCallback
  MaxFrame = 1
  MaxStarts = 2
  MaxCalls = 3
  Spurious = TRUE
  MaxFailures = 1
VIEW View
CONSTRAINT Few
INVARIANTS
  TypeOK
  Conserved
  LeakPerStart
  QuietAfterStop
CHECK_DEADLOCK FALSE
