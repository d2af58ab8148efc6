\* Queue cap of exactly FlushThreshold events.
CONSTANTS
  N = 1
  MaxTotalSize = 1
  SizeBits <- MCSizeBits
  FlushThreshold = 2
  EventSizes = {1}
  MaxEvents = 4
  Fallible = {}
  MaxFailures = 0
  MaxCrashes = 0
  StopMisuse = FALSE
  NoFile = NoFile
SPECIFICATION Spec
INVARIANT AtMostOneFlushPending
