\* Unbounded mode (MaxTotalSize = kNoLimit), no I/O failures.
CONSTANTS
  N = 2
  MaxTotalSize = 255
  SizeBits <- MCSizeBits
  FlushThreshold = 2
  EventSizes = {1, 2}
  MaxEvents = 4
  Fallible = {}
  MaxFailures = 0
  MaxCrashes = 0
  StopMisuse = FALSE
  NoFile = NoFile
SPECIFICATION Spec
INVARIANT FinalLogWellFormed
INVARIANT UnboundedKeepsAll
PROPERTY ImplementsAbstract
