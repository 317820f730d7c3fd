\* Two requests; a sampler may be in NVML for longer than its join waits.
CONSTANTS
  Requests = 2
  Levels <- TwoLevels
SPECIFICATION FairThreads
INVARIANT JoinedSafe
PROPERTIES StopReturns SamplersEnd
\* The benchmark stops calling start() after its last request.
CHECK_DEADLOCK FALSE
