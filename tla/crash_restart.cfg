\* Bounded mode with max_total_size < N, so the chunk limit is 0 and every
\* event gets its own file; one crash of the process at any point followed
\* by a new observer on the same path; callers may misuse StopObserving.
CONSTANTS
  N = 2
  MaxTotalSize = 1
  SizeBits <- MCSizeBits
  FlushThreshold = 2
  EventSizes = {1}
  MaxEvents = 4
  Fallible = {}
  MaxFailures = 0
  MaxCrashes = 1
  StopMisuse = TRUE
  NoFile = NoFile
SPECIFICATION Spec
INVARIANT ZeroLimitKeepsLastN
INVARIANT NoStaleSessionEvents
