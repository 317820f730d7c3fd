\* The disk test reaches its duration limit.
CONSTANTS
  Chunks = 2
  Attempts = 4
SPECIFICATION Spec
INVARIANT LimitReported
\* The command exits.
CHECK_DEADLOCK FALSE
