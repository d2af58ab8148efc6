\* Creating the .inprogress directory may fail.
CONSTANTS
  N = 2
  MaxTotalSize = 8
  SizeBits <- MCSizeBits
  FlushThreshold = 3
  EventSizes = {1}
  MaxEvents = 2
  Fallible = {"dir"}
  MaxFailures = 1
  MaxCrashes = 0
  StopMisuse = FALSE
  NoFile = NoFile
SPECIFICATION Spec
INVARIANT StoppedLogNotEmpty
