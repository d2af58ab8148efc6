\* Unbounded mode; one event write may fail part-way (fwrite returns a short count).
CONSTANTS
  N = 2
  MaxTotalSize = 255
  SizeBits <- MCSizeBits
  FlushThreshold = 2
  EventSizes = {2}
  MaxEvents = 2
  Fallible = {"write"}
  MaxFailures = 1
  MaxCrashes = 0
  StopMisuse = FALSE
  NoFile = NoFile
SPECIFICATION Spec
INVARIANT FinalLogWellFormed
