\* Two keys, one failing write, and two threads that call though the app has one.
SPECIFICATION FairSpec
CONSTANTS
  Key = {a, b}
  NoKey = NoKey
  Caller = {ui, other}
  NoJob = NoJob
  MaxCalls = 5
  MaxFaults = 1
INVARIANT TypeOK
INVARIANT UpWhenReleased
INVARIANT UnmarkedWhenReleased
PROPERTY Ordered
PROPERTY KeyComesUp
\* all calls made and served
CHECK_DEADLOCK FALSE
