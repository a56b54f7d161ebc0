SPECIFICATION FairSpec
CONSTANTS
  Frame = {f1, f2, f3, f4, f5, f6, f7, f8, f9}
  NoFrame = NoFrame
  Callback = {c1}
  NoCallback = NoCallback
  MaxFrame = 1
  MaxStarts = 1
  MaxCalls = 3
  Spurious = TRUE
  MaxFailures = 0
VIEW View
PROPERTIES
  SetterReturns
  PreviewFlows
CHECK_DEADLOCK FALSE
