\* One device of any kind with permission dialogs, failing transfers and changes
\* of the baud rate, or a CH340 that is unplugged and plugged again at any moment.
SPECIFICATION Spec
CONSTANTS
  d1 = d1
  d2 = d2
  d3 = d3
  c1 = c1
  c2 = c2
  NoDev = NoDev
  Device = {d1, d2, d3, c1, c2}
  Kind <- EveryKind
  Granted = {c1, c2}
  ExtrasDropped = TRUE
  MaxFaults = 2
  MaxSettings = 1
  MaxKeys = 0
  MaxTimers = 1
  MaxPlugged = 1
  Sessions <- Replugs
  Deliveries = {1}
INVARIANT TypeOK
INVARIANT PermissionBeforeOpen
 
INVARIANT ReaderAlive
INVARIANT GoneIsClosed
CONSTRAINT Scenario
\* the app may crash, and a device may be left alone
CHECK_DEADLOCK FALSE
