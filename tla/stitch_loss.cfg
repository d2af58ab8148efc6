\* Bounded mode in which one open of the final log file may fail (at
\* Initialize or when StitchFinalLogFile re-opens it) and the process may
\* crash once, also between two appends of the stitch.
CONSTANTS
  N = 2
  MaxTotalSize = 10
  SizeBits <- MCSizeBits
  FlushThreshold = 3
  EventSizes = {1}
  MaxEvents = 2
  Fallible = {"final"}
  MaxFailures = 1
  MaxCrashes = 1
  StopMisuse = FALSE
  NoFile = NoFile
SPECIFICATION Spec
INVARIANT StitchKeepsRemovedEvents
