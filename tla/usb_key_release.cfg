\* A key is pressed on a connected CH340, whose read loop is running.
SPECIFICATION FairSpec
CONSTANTS
  d1 = d1
  d2 = d2
  d3 = d3
  c1 = c1
  c2 = c2
  NoDev = NoDev
  Device = {d1}
  Kind <- EveryKind
  Granted = {d1}
  ExtrasDropped = FALSE
  MaxFaults = 0
  MaxSettings = 0
  MaxKeys = 1
  MaxTimers = 1
  MaxPlugged = 1
  Sessions <- Alone
  Deliveries = {1}
PROPERTY KeysReleasedCh340
CHECK_DEADLOCK FALSE
