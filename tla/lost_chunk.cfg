\* Bounded mode, 4-byte chunks holding two 3-byte lines, one failed chunk
\* open: after it no rotation happens and every later event is lost.
CONSTANTS
  N = 2
  MaxTotalSize = 8
  SizeBits <- MCSizeBits
  FlushThreshold = 3
  EventSizes = {1}
  MaxEvents = 4
  Fallible = {"chunk"}
  MaxFailures = 1
  MaxCrashes = 0
  StopMisuse = FALSE
  NoFile = NoFile
SPECIFICATION Spec
INVARIANT LossEndsAtRotation
