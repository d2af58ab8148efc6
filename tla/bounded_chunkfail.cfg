\* Bounded mode, a ring of 3 event files, with up to two failed chunk-file
\* opens; 6-byte chunks that 1-byte events (3-byte lines) fill exactly.
CONSTANTS
  N = 3
  MaxTotalSize = 18
  SizeBits <- MCSizeBits
  FlushThreshold = 3
  EventSizes = {1, 4}
  MaxEvents = 6
  Fallible = {"chunk"}
  MaxFailures = 2
  MaxCrashes = 0
  StopMisuse = FALSE
  NoFile = NoFile
SPECIFICATION Spec
INVARIANT FinalLogWellFormed
INVARIANT ChunkWithinSoftLimit
