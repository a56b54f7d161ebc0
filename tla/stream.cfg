\* Two streams of up to three frames; all transfers of one may fail.
SPECIFICATION FairSpec
CONSTANTS
  NumTransfers = 2
  FramePayloads = 2
  MaxFrames = 3
  MaxStarts = 2
  MaxFailures = 2
INVARIANTS
  TypeOK
  NotFreedInFlight
  HandleOutlivesThreads
  WholeFrames
PROPERTIES
  StopReturns
  FramesDelivered
  ImplementsFrameSource
\* a stream may be left closed
CHECK_DEADLOCK FALSE
