\* A camera that is unplugged while it streams.
SPECIFICATION UnplugSpec
CONSTANTS
  NumTransfers = 2
  FramePayloads = 1
  MaxFrames = 1
  MaxStarts = 1
  MaxFailures = 0
INVARIANT ActiveNotFreed
CHECK_DEADLOCK FALSE
