SPECIFICATION FairSpec
CONSTANTS
  Frame = {f1, f2, f3, f4, f5, f6, f7, f8, f9}
  NoFrame = NoFrame
  Callback = {c1}
  NoCallback = NoCallback
  MaxFrame = 1
  MaxStarts = 1
  MaxCalls = 1
  Spurious = FALSE
  MaxFailures = 0
PROPERTIES
  StopReturns
CHECK_DEADLOCK FALSE
