\* Bounded mode, no I/O failures: 2 chunk files of 5 bytes, queue cap 20; 1- and 6-byte events.
CONSTANTS
  N = 2
  MaxTotalSize = 10
  SizeBits <- MCSizeBits
  FlushThreshold = 2
  EventSizes = {1, 6}
  MaxEvents = 6
  Fallible = {}
  MaxFailures = 0
  MaxCrashes = 0
  StopMisuse = FALSE
  NoFile = NoFile
SPECIFICATION Spec
INVARIANT TypeOK
INVARIANT QueueKeepsNewest
INVARIANT RetainsNewest
INVARIANT StitchedLogHasNoGap
PROPERTY AbandonedLogDeleted
PROPERTY ImplementsAbstract
PROPERTY FlushDrainsQueue
