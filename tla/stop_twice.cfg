\* Bounded mode; callers may call StopObserving while not observing,
\* for instance twice in a row.
CONSTANTS
  N = 2
  MaxTotalSize = 10
  SizeBits <- MCSizeBits
  FlushThreshold = 3
  EventSizes = {1, 6}
  MaxEvents = 1
  Fallible = {}
  MaxFailures = 0
  MaxCrashes = 0
  StopMisuse = TRUE
  NoFile = NoFile
SPECIFICATION Spec
PROPERTY StopCompletes
