\* max_total_size * 2 wraps in an 8-bit size_t: 130 * 2 = 260 = 4 (mod 256),
\* so the queue cap is 4 bytes while a chunk file may hold 65.
CONSTANTS
  N = 2
  MaxTotalSize = 130
  SizeBits <- MCSizeBits
  FlushThreshold = 3
  EventSizes = {3}
  MaxEvents = 3
  Fallible = {}
  MaxFailures = 0
  MaxCrashes = 0
  StopMisuse = FALSE
  NoFile = NoFile
SPECIFICATION Spec
INVARIANT QueueHoldsTwiceTotal
