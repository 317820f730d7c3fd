\* Every selection of tests; the limit, Ctrl-C and failures at any moment.
CONSTANTS
  Chunks = 2
  Attempts = 4
SPECIFICATION Spec
INVARIANTS DirectoryRemoved StopsWhenTold ReportedInTime
\* The command exits.
CHECK_DEADLOCK FALSE
