\* A sampler that outlives its join stores its reading in the next request.
CONSTANTS
  Requests = 2
  Levels <- TwoLevels
SPECIFICATION Spec
INVARIANT PeakFromOwnRequest
CHECK_DEADLOCK FALSE
