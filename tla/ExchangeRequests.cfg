\* Either protocol, a stream or metadata; headers and numbers that Python can
\* handle, or any.
CONSTANTS
  MaxBytes = 4
  MaxLine = 2
SPECIFICATION FairSpec
INVARIANTS EveryAnswerClassified TextKeepsSample
PROPERTIES ChecksWin RequestEnds ContractSpec
\* The request is over.
CHECK_DEADLOCK FALSE
