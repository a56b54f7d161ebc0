SPECIFICATION FairSpec
CONSTANTS
  MaxStarts = 2
  MaxFailures = 1
  Waits = FALSE
INVARIANTS
  TypeOK
  SavedIsPlayable
  RemovedIsUnplayable
  MuxerOutlivesAudio
PROPERTIES
  StopGetsVerdict
  ReleaseFrees
\* the app may crash, and a camera may be released
CHECK_DEADLOCK FALSE
