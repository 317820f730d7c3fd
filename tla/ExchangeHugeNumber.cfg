\* The peer sends a number too large for a float, or with too many digits.
CONSTANTS
  MaxBytes = 4
  MaxLine = 2
SPECIFICATION Spec
INVARIANT EveryRequestClassified
\* The request is over.
CHECK_DEADLOCK FALSE
