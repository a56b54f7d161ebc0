\* One device, a CH340 or a FE0C, with the fairness of the two loopers.
SPECIFICATION FairSpec
CONSTANTS
  d1 = d1
  d2 = d2
  d3 = d3
  c1 = c1
  c2 = c2
  NoDev = NoDev
  Device = {d1, d2}
  Kind <- EveryKind
  Granted = {d1, d2}
  ExtrasDropped = FALSE
  MaxFaults = 0
  MaxSettings = 0
  MaxKeys = 1
  MaxTimers = 1
  MaxPlugged = 1
  Sessions <- Alone
  Deliveries = {1}
PROPERTY ConnectsPromptly
PROPERTY KeysReleasedFe0c
\* the app may crash, and a device may be left alone
CHECK_DEADLOCK FALSE
