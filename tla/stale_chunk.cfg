\* One chunk-file open may fail.
CONSTANTS
  N = 2
  MaxTotalSize = 8
  SizeBits <- MCSizeBits
  FlushThreshold = 3
  EventSizes = {4}
  MaxEvents = 4
  Fallible = {"chunk"}
  MaxFailures = 1
  MaxCrashes = 0
  StopMisuse = FALSE
  NoFile = NoFile
SPECIFICATION Spec
INVARIANT EventsInPushOrder
